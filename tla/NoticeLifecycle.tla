--------------------------- MODULE NoticeLifecycle ---------------------------
(***************************************************************************)
(* What sending promises about one notification, seen from outside: the    *)
(* record is written, the gateway takes its letter at most once, the       *)
(* record says "queued" only when the gateway has the letter, the letter   *)
(* has one outcome, and the record ends up showing that outcome.           *)
(***************************************************************************)
CONSTANT Notices

VARIABLES
    stage,    \* the status the record shows
    letter    \* the letter at the gateway

vars == <<stage, letter>>

Init == /\ stage  = [n \in Notices |-> "none"]
        /\ letter = [n \in Notices |-> "none"]

Write(n) == /\ stage[n] = "none"
            /\ stage' = [stage EXCEPT ![n] = "new"]
            /\ UNCHANGED letter

HandOver(n) == /\ stage[n] = "new"
               /\ letter[n] = "none"
               /\ letter' = [letter EXCEPT ![n] = "pending"]
               /\ UNCHANGED stage

RecordQueued(n) == /\ stage[n] = "new"
                   /\ letter[n] # "none"
                   /\ stage' = [stage EXCEPT ![n] = "queued"]
                   /\ UNCHANGED letter

\* The gateway refused, or did not answer although it has the letter.
RecordFailed(n) == /\ stage[n] = "new"
                   /\ stage' = [stage EXCEPT ![n] = "failed"]
                   /\ UNCHANGED letter

Deliver(n) == /\ letter[n] = "pending"
              /\ \E o \in {"delivered", "failed"} : letter' = [letter EXCEPT ![n] = o]
              /\ UNCHANGED stage

Report(n) == /\ stage[n] \in {"queued", "failed"}
             /\ letter[n] \in {"delivered", "failed"}
             /\ stage' = [stage EXCEPT ![n] = IF letter[n] = "delivered" THEN "sent" ELSE "failed"]
             /\ UNCHANGED letter

Next == \E n \in Notices : \/ Write(n) \/ HandOver(n) \/ RecordQueued(n)
                           \/ RecordFailed(n) \/ Deliver(n) \/ Report(n)

Spec == Init /\ [][Next]_vars

=============================================================================
