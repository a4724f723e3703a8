----------------------------- MODULE MCClaimCase ------------------------------
(* The beginning of the cases of an account and the board they stand on, and *)
(* the end of one case.                                                      *)
EXTENDS ClaimCase

CONSTANTS u1, u2

Two == {u1, u2}

\* Four presented periods: two writs of two periods find room.
First4 == 1..4

None == {}

Board == {"open", "writ", "edit", "move", "notary", "drag", "promote", "hand", "paid"}

Ending == {"open", "move", "act", "opi", "receipt", "writeoff", "submit", "refresh", "repay", "lost"}

\* A package for PRIS and a number written by hand.
Sending == {"open", "move", "opi", "submit"}

Anywhere == Stages \cup Columns

Few == {"new", "disconnect", "prep", "notary", "opi"}

===============================================================================
