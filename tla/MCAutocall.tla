----------------------------- MODULE MCAutocall -----------------------------
(* Small instances of Autocall. *)
EXTENDS Autocall, TLC

CONSTANTS d1, d2

\* Party 1 was launched by a scenario, party 2 by hand.
OneEach   == (1 :> 1) @@ (2 :> 2)
\* The group of the first row is called every day, that of the second every second day.
EveryDays == (1 :> 1) @@ (2 :> 2)

\* People write that a debtor was busy, or that he has listened.
TwoOutcomes == {<<"busy", "none">>, <<"answered", "heard">>}

Symmetry == Permutations(Dialers)

=============================================================================
