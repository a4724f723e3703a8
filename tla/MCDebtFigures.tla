---------------------------- MODULE MCDebtFigures ----------------------------
(* Small instances of DebtFigures. *)
EXTENDS DebtFigures, TLC

\* The first account has two services, of two providers.
ThreeAccounts == (1 :> 1) @@ (2 :> 1) @@ (3 :> 2) @@ (4 :> 3)
TwoProviders  == (1 :> "p1") @@ (2 :> "p2") @@ (3 :> "p1") @@ (4 :> "p1")

Filed(s, bal, months) == [ok |-> TRUE, s |-> s, bal |-> bal, months |-> months]
Rejected(s)           == [ok |-> FALSE, s |-> s, bal |-> 1, months |-> 1]

\* A service that comes again in a later batch, one that comes twice in a batch, a row that is
\* rejected, a debt that is paid.
TwoFiles ==
    {<<Filed(1, 2, 2), Filed(3, 1, 1), Filed(1, 1, 1)>>,
     <<Filed(2, 2, 0), Filed(2, 1, 2), Filed(1, 0, 0), Rejected(3), Filed(3, 2, 2), Filed(4, 1, 1)>>}

Span(from, to) == [from |-> from, to |-> to, active |-> TRUE]
Out            == [from |-> 0, to |-> 0, active |-> FALSE]

\* A group for each month of debt.
ByMonth == (1 :> Span(0, 1)) @@ (2 :> Span(1, 2)) @@ (3 :> Span(2, Open)) @@ [g \in 4 .. 6 |-> Out]

Line(group, from, to) == [group |-> group, band |-> Span(from, to)]

\* A table that names the first group twice: what is written last leaves month 0 without a band.
NamedTwice == <<Line(1, 0, 1), Line(2, 1, 2), Line(1, 2, Open)>>

\* That table, and one of two groups, which says nothing of the third.
Tables   == {<<Line(1, 0, 2), Line(2, 2, Open)>>, NamedTwice}
OneTable == {NamedTwice}

OneAccount  == 1 :> 1
OneProvider == 1 :> "p1"
OneFile     == {<<Filed(1, 1, 1)>>}

=============================================================================
