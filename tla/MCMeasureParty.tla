---------------------------- MODULE MCMeasureParty ----------------------------
(* Small instances of MeasureParty. *)
EXTENDS MeasureParty, TLC

CONSTANTS m1, m2, a1, a2

\* One party, or a warning and a disconnect.
OneDisconnect == m1 :> "disconnect"
WarnThenCut   == (m1 :> "warning") @@ (m2 :> "disconnect")

\* One account; two accounts of one payer.
OneAccount == a1 :> a1
OnePayer   == (a1 :> a1) @@ (a2 :> a1)

Everyone == [m \in Measures |-> Accounts]

===============================================================================
