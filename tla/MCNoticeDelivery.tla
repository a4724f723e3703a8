--------------------------- MODULE MCNoticeDelivery ---------------------------
(* Small instances of NoticeDelivery. *)
EXTENDS NoticeDelivery, TLC

CONSTANTS p1, p2, a, b

\* Two rows of one party that send different letters.
TwoLetters == (1 :> a) @@ (2 :> b)
OneParty   == (1 :> p1) @@ (2 :> p1)
\* Two rows of two parties that send the same letter to the same account.
SameLetter == (1 :> a) @@ (2 :> a)
TwoParties == (1 :> p1) @@ (2 :> p2)

\* One row of one party.
OnlyParty  == 1 :> p1
OnlyLetter == 1 :> a

Symmetry == Permutations(Workers) \cup Permutations(Logs) \cup Permutations(Gateways)
            \cup Permutations(Notices)

===============================================================================
