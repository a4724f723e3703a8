--------------------------- MODULE NoticeDelivery ---------------------------
(***************************************************************************)
(* A letter or an SMS on its way from a row of a notice party to the       *)
(* debtor and back: backend web workers (queue_notices, the notification   *)
(* endpoints, the delivery-status callback, and what sets a row by hand    *)
(* or from the scenario), the notification gateway (journal, claim,        *)
(* adapter, callback) and the calls between them.                          *)
(*                                                                         *)
(* A worker runs one request at a time.  A step of the model is one        *)
(* database transaction, one call to the other service, or one read whose  *)
(* result a later statement of the same request uses.                      *)
(***************************************************************************)
EXTENDS Naturals, FiniteSets, PartyStatus

CONSTANTS
    Rows,       \* MeasureItem ids of notice parties, ordered as the table is
    Parties,    \* the notice parties (Measure)
    PartyOf,    \* the party of a row
    Letters,    \* (account, template, channel)
    LetterOf,   \* what a row sends
    Users,      \* who presses "send"; created_by of the notification
    Notices,    \* Notification ids the model may allocate
    Logs,       \* DeliveryLog ids the model may allocate
    Workers,    \* backend worker threads
    Gateways,   \* gateway processes (uvicorn --workers 2)
    Endpoints,  \* which entries are in use
    Faults,     \* what may go wrong: "lost_request", "lost_reply",
                \* "lost_callback", "crash", "stall"
    MaxCrashes, \* bound on gateway crashes
    None

CallbackTries == 3

\* What makes a notification, and what writes rows without one.
SendEntries == {"send", "create", "resend"}
HandEntries == {"record", "stop", "move", "auto"}

ASSUME NoticeAssumption ==
    /\ Rows \subseteq Nat
    /\ PartyOf \in [Rows -> Parties]
    /\ LetterOf \in [Rows -> Letters]
    /\ Endpoints \subseteq SendEntries \cup HandEntries
    /\ Faults \subseteq {"lost_request", "lost_reply", "lost_callback", "crash", "stall"}
    /\ MaxCrashes \in Nat
    /\ None \notin Rows \cup Notices \cup Workers

VARIABLES
    notice,   \* Notification rows: status, and (created_by, letter)
    row,      \* MeasureItem rows: status and the linked notification
    party,    \* Measure.status
    lock,     \* row lock select_for_update holds on a notification
    job,      \* what each backend worker is doing
    log,      \* the gateway's DeliveryLog
    dlv,      \* process() coroutines, by gateway process and log
    up,       \* whether a gateway process is down, resuming or serving
    crashes,  \* crashes so far
    handed    \* how often the adapter took a log's message (observer)

backend == <<notice, row, party, lock, job>>
gateway == <<log, dlv, up, crashes, handed>>
vars    == <<backend, gateway>>

-----------------------------------------------------------------------------
(* Types *)

NoticeStatus == {"none", "new", "queued", "sent", "failed"}
OpenNotice   == {"new", "queued"}
LogStatus    == {"none", "accepted", "processing", "delivered", "failed"}
Finished     == {"delivered", "failed"}
JobStep      == {"idle", "lock", "post", "save", "roll", "rollsave",
                 "note", "find", "rowsave", "hand", "close", "moverow"}
JobKind      == SendEntries \cup HandEntries \cup {"callback"}
DlvStep      == {"none", "task", "claimed", "handed", "calling"}

Key == Users \X Letters

Job == [step: JobStep, kind: JobKind, row: Rows \cup {None},
        notice: Notices \cup {None}, ok: BOOLEAN, seen: PartyStatus]

Notice   == [status: NoticeStatus, key: Key \cup {None}]
Row      == [status: ItemStatus, notice: Notices \cup {None}]
Log      == [status: LogStatus, notice: Notices \cup {None}, fresh: BOOLEAN]
Delivery == [step: DlvStep, ok: BOOLEAN, tries: 0 .. CallbackTries]

Idle == [step |-> "idle", kind |-> "send", row |-> None, notice |-> None,
         ok |-> FALSE, seen |-> "assigned"]

At(step, ok, tries) == [step |-> step, ok |-> ok, tries |-> tries]
NoDelivery == At("none", FALSE, 0)

TypeOK ==
    /\ notice \in [Notices -> Notice]
    /\ row \in [Rows -> Row]
    /\ party \in [Parties -> PartyStatus]
    /\ lock \in [Notices -> Workers \cup {None}]
    /\ job \in [Workers -> Job]
    /\ log \in [Logs -> Log]
    /\ dlv \in [Gateways -> [Logs -> Delivery]]
    /\ up \in [Gateways -> {"down", "resuming", "serving"}]
    /\ crashes \in Nat
    /\ handed \in [Logs -> Nat]

-----------------------------------------------------------------------------
(* Helpers *)

\* _open_notice / _open_duplicate: what uniq_open_account_notification protects.
OpenWith(k) == {n \in Notices : notice[n].status \in OpenNotice /\ notice[n].key = k}

\* MeasureItem.objects.filter(notification_id=n)
RowsOf(n) == {i \in Rows : row[i].notice = n}

RowsOfParty(p) == {i \in Rows : PartyOf[i] = p}
RowStatuses(p) == {row[i].status : i \in RowsOfParty(p)}

\* Mutant: a process that resumes takes up what failed as well.
ClaimableFailed(l) == log[l].status \in {"accepted", "failed"} \/ (log[l].status = "processing" /\ ~log[l].fresh)

\* A log claim() may take: accepted, or processing for longer than two minutes.
Claimable(l) == \/ log[l].status = "accepted"
                \/ log[l].status = "processing" /\ ~log[l].fresh

\* A coroutine holds log l between its claim and its write of the outcome.
Delivering(g, l) == dlv[g][l].step \in {"claimed", "handed"}

Init ==
    /\ notice = [n \in Notices |-> [status |-> "none", key |-> None]]
    /\ row    = [i \in Rows |-> [status |-> "assigned", notice |-> None]]
    /\ party  = [p \in Parties |-> "assigned"]
    /\ lock   = [n \in Notices |-> None]
    /\ job    = [w \in Workers |-> Idle]
    /\ log    = [l \in Logs |-> [status |-> "none", notice |-> None, fresh |-> FALSE]]
    /\ dlv    = [g \in Gateways |-> [l \in Logs |-> NoDelivery]]
    /\ up     = [g \in Gateways |-> "serving"]
    /\ crashes = 0
    /\ handed = [l \in Logs |-> 0]

-----------------------------------------------------------------------------
(* Backend: sending *)

(***************************************************************************)
(* First transaction of _queue_one, under the lock of the row.  A row that *)
(* is done, or whose notification is queued or sent, changes nothing       *)
(* ("skip", "kept").  Otherwise the row is tied to a notification: the one *)
(* it already has if that is still new, a fresh one, or, when the          *)
(* constraint refuses a second open notification of the same user, account,*)
(* template and channel, the open one.                                     *)
(***************************************************************************)
TieRow(w, i, n) ==
    /\ row' = [row EXCEPT ![i].notice = n]
    /\ job' = [job EXCEPT ![w] = IF notice'[n].status = "new"
                                 THEN [Idle EXCEPT !.step = "lock", !.row = i, !.notice = n,
                                                   !.seen = party[PartyOf[i]]]
                                 ELSE Idle]

QueueOne(w, u, i) ==
    /\ "send" \in Endpoints
    /\ job[w].step = "idle"
    /\ row[i].status # "done"
    /\ LET k == <<u, LetterOf[i]>>
           n == row[i].notice
       IN \/ /\ n # None
             /\ notice[n].status = "new"
             /\ UNCHANGED notice
             /\ TieRow(w, i, n)
          \/ /\ n = None \/ (n # None /\ notice[n].status = "failed")
             /\ OpenWith(k) = {}
             /\ \E m \in Notices :
                   /\ notice[m].status = "none"
                   /\ notice' = [notice EXCEPT ![m] = [status |-> "new", key |-> k]]
                   /\ TieRow(w, i, m)
          \/ /\ n = None \/ (n # None /\ notice[n].status = "failed")
             /\ \E m \in OpenWith(k) : UNCHANGED notice /\ TieRow(w, i, m)
    /\ UNCHANGED <<party, lock, gateway>>

\* Mutant: the second transaction trusts the status the first one saw.
LockNoticeUnchecked(w) ==
    /\ job[w].step = "lock"
    /\ lock[job[w].notice] = None
    /\ lock' = [lock EXCEPT ![job[w].notice] = w]
    /\ job'  = [job EXCEPT ![w].step = "post"]
    /\ UNCHANGED <<notice, row, party, gateway>>

\* Second transaction of _queue_one: lock the notification; not new any more -> "kept".
LockNotice(w) ==
    LET n == job[w].notice IN
    /\ job[w].step = "lock"
    /\ lock[n] = None
    /\ \/ /\ notice[n].status = "new"
          /\ lock' = [lock EXCEPT ![n] = w]
          /\ job'  = [job EXCEPT ![w].step = "post"]
       \/ /\ notice[n].status # "new"
          /\ job' = [job EXCEPT ![w] = Idle]
          /\ UNCHANGED lock
    /\ UNCHANGED <<notice, row, party, gateway>>

\* NotificationViewSet.create: an open duplicate is answered as it is, otherwise
\* the record is inserted and dispatched without any lock.
CreateNotice(w, k) ==
    /\ "create" \in Endpoints
    /\ job[w].step = "idle"
    /\ OpenWith(k) = {}
    /\ \E n \in Notices :
          /\ notice[n].status = "none"
          /\ notice' = [notice EXCEPT ![n] = [status |-> "new", key |-> k]]
          /\ job' = [job EXCEPT ![w] = [Idle EXCEPT !.step = "post", !.kind = "create", !.notice = n]]
    /\ UNCHANGED <<row, party, lock, gateway>>

\* NotificationViewSet.resend: refused while new or queued, dispatched without any lock.
ResendNotice(w, n) ==
    /\ "resend" \in Endpoints
    /\ job[w].step = "idle"
    /\ notice[n].status \in {"sent", "failed"}
    /\ job' = [job EXCEPT ![w] = [Idle EXCEPT !.step = "post", !.kind = "resend", !.notice = n]]
    /\ UNCHANGED <<notice, row, party, lock, gateway>>

(***************************************************************************)
(* dispatch(), the call to the gateway, and accept() there: the journal    *)
(* row is committed and the delivery scheduled in the process that took    *)
(* the call.  The call may not arrive; its answer may be lost (a timeout), *)
(* and then the backend sees a refusal of what the gateway accepted.       *)
(***************************************************************************)
Post(w) ==
    /\ job[w].step = "post"
    /\ \/ \E l \in Logs, g \in Gateways, heard \in BOOLEAN :
             /\ up[g] = "serving"
             /\ log[l].status = "none"
             /\ heard \/ "lost_reply" \in Faults
             /\ log' = [log EXCEPT ![l] = [status |-> "accepted", notice |-> job[w].notice, fresh |-> FALSE]]
             /\ dlv' = [dlv EXCEPT ![g][l] = At("task", FALSE, 0)]
             /\ job' = [job EXCEPT ![w].step = "save", ![w].ok = heard]
       \/ /\ "lost_request" \in Faults \/ \A g \in Gateways : up[g] # "serving"
          /\ job' = [job EXCEPT ![w].step = "save", ![w].ok = FALSE]
          /\ UNCHANGED <<log, dlv>>
    /\ UNCHANGED <<notice, row, party, lock, up, crashes, handed>>

\* Mutant: a refused dispatch leaves its transaction, and the row lock, open.
SaveDispatchHoldsLock(w) ==
    LET n == job[w].notice IN
    /\ job[w].step = "save"
    /\ notice' = [notice EXCEPT ![n].status = IF job[w].ok THEN "queued" ELSE "failed"]
    /\ row' = [row EXCEPT ![job[w].row].status = IF job[w].ok THEN "running" ELSE "failed"]
    /\ job' = [job EXCEPT ![w].step = "roll"]
    /\ lock' = [lock EXCEPT ![n] = IF job[w].ok THEN None ELSE @]
    /\ UNCHANGED <<party, gateway>>

(***************************************************************************)
(* dispatch() saves the whole notification.  A row's sending also writes   *)
(* the row and ends its transaction.  When the record would become a       *)
(* second open one of its key the save raises and nothing is written.      *)
(***************************************************************************)
SaveDispatch(w) ==
    LET j == job[w]
        n == j.notice
        clash == j.ok /\ \E m \in OpenWith(notice[n].key) : m # n
    IN /\ j.step = "save"
       /\ notice' = IF clash THEN notice
                    ELSE [notice EXCEPT ![n].status = IF j.ok THEN "queued" ELSE "failed"]
       /\ IF j.kind = "send" /\ ~clash
          THEN /\ row' = [row EXCEPT ![j.row] = [status |-> IF j.ok THEN "running" ELSE "failed",
                                                 notice |-> n]]
               /\ job' = [job EXCEPT ![w].step = "roll"]
          ELSE /\ job' = [job EXCEPT ![w] = Idle]
               /\ UNCHANGED row
       /\ lock' = [lock EXCEPT ![n] = IF @ = w THEN None ELSE @]
       /\ UNCHANGED <<party, gateway>>

-----------------------------------------------------------------------------
(* Backend: rollup() after a row changed.  The verdict is drawn from the    *)
(* rows, compared with the party as this request loaded it, and saved.      *)
(* stop_measure counts a paused party too.                                  *)

RollupRead(w) ==
    LET p == PartyOf[job[w].row]
        v == Verdict(RowStatuses(p))
        held == job[w].seen = "paused" /\ job[w].kind # "stop"
    IN /\ job[w].step = "roll"
       /\ job' = [job EXCEPT ![w] = IF held \/ job[w].seen = v THEN Idle
                                    ELSE [job[w] EXCEPT !.step = "rollsave", !.seen = v]]
       /\ UNCHANGED <<notice, row, party, lock, gateway>>

\* The status of the party is saved; also the last statement of a move and of a stop.
RollupSave(w) ==
    /\ job[w].step = "rollsave"
    /\ party' = [party EXCEPT ![PartyOf[job[w].row]] = job[w].seen]
    /\ job' = [job EXCEPT ![w] = Idle]
    /\ UNCHANGED <<notice, row, lock, gateway>>

-----------------------------------------------------------------------------
(* Backend: rows written by hand, or by the scenario, without a letter *)

ClosedItem == {"done", "cancelled"}

\* record_item and stop_measure load the row and its party; a closed row is not stopped again.
TakeRow(w, kind, i) ==
    /\ kind \in Endpoints \cap {"record", "stop"}
    /\ job[w].step = "idle"
    /\ job' = [job EXCEPT ![w] = [Idle EXCEPT
          !.step = IF kind = "stop" /\ row[i].status \in ClosedItem THEN "close" ELSE "hand",
          !.kind = kind, !.row = i, !.notice = row[i].notice, !.seen = party[PartyOf[i]]]]
    /\ UNCHANGED <<notice, row, party, lock, gateway>>

\* item.save(): the whole row goes back as it was loaded, but for the result.
SaveByHand(w) ==
    LET j == job[w] IN
    /\ j.step = "hand"
    /\ \E s \in IF j.kind = "stop" THEN {"done"} ELSE {"done", "failed", "cancelled"} :
          row' = [row EXCEPT ![j.row] = [status |-> s, notice |-> j.notice]]
    /\ job' = [job EXCEPT ![w].step = IF j.kind = "stop" THEN "close" ELSE "roll"]
    /\ UNCHANGED <<notice, party, lock, gateway>>

\* stop_measure: the party is done when every row is closed, and is counted otherwise.
StopParty(w) ==
    LET closed == RowStatuses(PartyOf[job[w].row]) \subseteq ClosedItem IN
    /\ job[w].step = "close"
    /\ job' = [job EXCEPT ![w].step = IF closed THEN "rollsave" ELSE "roll",
                          ![w].seen = IF closed THEN "done" ELSE @]
    /\ UNCHANGED <<notice, row, party, lock, gateway>>

\* move_status: every row takes the status, one after the other, then the party does.
\* A pause is the party's alone.
MoveParty(w, i, s) ==
    /\ "move" \in Endpoints
    /\ job[w].step = "idle"
    /\ party[PartyOf[i]] # s
    /\ \A x \in RowsOfParty(PartyOf[i]) : i <= x
    /\ job' = [job EXCEPT ![w] = [Idle EXCEPT !.step = IF s = "paused" THEN "rollsave" ELSE "moverow",
                                              !.kind = "move", !.row = i, !.seen = s]]
    /\ UNCHANGED <<notice, row, party, lock, gateway>>

MoveRow(w) ==
    LET i == job[w].row
        Ahead == {x \in RowsOfParty(PartyOf[i]) : i < x}
    IN /\ job[w].step = "moverow"
       /\ row' = [row EXCEPT ![i].status = job[w].seen]
       /\ \/ /\ Ahead = {}
             /\ job' = [job EXCEPT ![w].step = "rollsave"]
          \/ \E x \in Ahead : /\ \A y \in Ahead : x <= y
                              /\ job' = [job EXCEPT ![w].row = x]
       /\ UNCHANGED <<notice, party, lock, gateway>>

\* _advance_once, auto_complete: the rows of the party just launched are done at once.
\* Row i stands for its party, which is as launch_measure left it, though a row may
\* be tied to a notification already.
AutoComplete(w, i) ==
    LET p == PartyOf[i] IN
    /\ "auto" \in Endpoints
    /\ job[w].step = "idle"
    /\ party[p] = "assigned" /\ RowStatuses(p) = {"assigned"}
    /\ row' = [x \in Rows |-> IF PartyOf[x] = p THEN [row[x] EXCEPT !.status = "done"] ELSE row[x]]
    /\ job' = [job EXCEPT ![w] = [Idle EXCEPT !.step = "roll", !.kind = "auto", !.row = i]]
    /\ UNCHANGED <<notice, party, lock, gateway>>

-----------------------------------------------------------------------------
(* Backend: the delivery-status callback *)

\* _callback reaches the backend.  Its answer may be lost, then it is posted again.
CallbackArrives(w, g, l) ==
    /\ job[w].step = "idle"
    /\ dlv[g][l].step = "calling"
    /\ job' = [job EXCEPT ![w] = [Idle EXCEPT !.step = "note", !.kind = "callback",
                                              !.notice = log[l].notice, !.ok = dlv[g][l].ok]]
    /\ \/ dlv' = [dlv EXCEPT ![g][l] = NoDelivery]
       \/ /\ "lost_callback" \in Faults
          /\ dlv[g][l].tries + 1 < CallbackTries
          /\ dlv' = [dlv EXCEPT ![g][l] = At("calling", @.ok, @.tries + 1)]
    /\ UNCHANGED <<notice, row, party, lock, log, up, crashes, handed>>

\* The call did not arrive; after the third try the gateway gives up.
CallbackLost(g, l) ==
    /\ "lost_callback" \in Faults
    /\ dlv[g][l].step = "calling"
    /\ dlv' = [dlv EXCEPT ![g][l] = IF @.tries + 1 < CallbackTries
                                    THEN At("calling", @.ok, @.tries + 1)
                                    ELSE NoDelivery]
    /\ UNCHANGED <<backend, log, up, crashes, handed>>

\* Mutant: the callback does not wait for the transaction that dispatches.
NoteOutcomeAtOnce(w) ==
    /\ job[w].step = "note"
    /\ notice' = [notice EXCEPT ![job[w].notice].status = IF job[w].ok THEN "sent" ELSE "failed"]
    /\ job' = [job EXCEPT ![w].step = "find"]
    /\ UNCHANGED <<row, party, lock, gateway>>

\* apply_delivery_status: the UPDATE waits for a row lock; the old status is not looked at.
NoteOutcome(w) ==
    LET n == job[w].notice IN
    /\ job[w].step = "note"
    /\ lock[n] = None
    /\ notice' = [notice EXCEPT ![n].status = IF job[w].ok THEN "sent" ELSE "failed"]
    /\ job' = [job EXCEPT ![w].step = "find"]
    /\ UNCHANGED <<row, party, lock, gateway>>

\* sync_notice_status: the first row tied to the notification, with its party.
FindRow(w) ==
    LET S == RowsOf(job[w].notice) IN
    /\ job[w].step = "find"
    /\ \/ /\ S = {}
          /\ job' = [job EXCEPT ![w] = Idle]
       \/ \E i \in S : /\ \A j \in S : i <= j
                       /\ job' = [job EXCEPT ![w].step = "rowsave", ![w].row = i,
                                             ![w].seen = party[PartyOf[i]]]
    /\ UNCHANGED <<notice, row, party, lock, gateway>>

\* Mutant: the callback writes the row and forgets the party.
SaveRowOnly(w) ==
    /\ job[w].step = "rowsave"
    /\ row' = [row EXCEPT ![job[w].row].status = IF job[w].ok THEN "done" ELSE "failed"]
    /\ job' = [job EXCEPT ![w] = Idle]
    /\ UNCHANGED <<notice, party, lock, gateway>>

\* The rest of sync_notice_status: the row takes the verdict, then rollup().
SaveRow(w) ==
    /\ job[w].step = "rowsave"
    /\ row' = [row EXCEPT ![job[w].row].status = IF job[w].ok THEN "done" ELSE "failed"]
    /\ job' = [job EXCEPT ![w].step = "roll"]
    /\ UNCHANGED <<notice, party, lock, gateway>>

-----------------------------------------------------------------------------
(* Gateway *)

\* Mutant: a process delivers without asking whether the journal row is free.
ClaimAlways(g, l) ==
    /\ dlv[g][l].step = "task"
    /\ log' = [log EXCEPT ![l] = [status |-> "processing", notice |-> @.notice, fresh |-> TRUE]]
    /\ dlv' = [dlv EXCEPT ![g][l] = At("claimed", FALSE, 0)]
    /\ UNCHANGED <<backend, up, crashes, handed>>

\* claim(): one atomic UPDATE.  The process it refuses drops the delivery.
Claim(g, l) ==
    /\ dlv[g][l].step = "task"
    /\ up[g] = "resuming" => \A m \in Logs : dlv[g][m].step \in {"none", "task"}
    /\ IF Claimable(l)
       THEN /\ log' = [log EXCEPT ![l] = [status |-> "processing", notice |-> @.notice, fresh |-> TRUE]]
            /\ dlv' = [dlv EXCEPT ![g][l] = At("claimed", FALSE, 0)]
       ELSE /\ dlv' = [dlv EXCEPT ![g][l] = NoDelivery]
            /\ UNCHANGED log
    /\ UNCHANGED <<backend, up, crashes, handed>>

\* Mutant: the refusal of the channel is not looked at.
HandHopeful(g, l) ==
    /\ dlv[g][l].step = "claimed"
    /\ \E ok \in BOOLEAN : handed' = [handed EXCEPT ![l] = IF ok THEN @ + 1 ELSE @]
    /\ dlv' = [dlv EXCEPT ![g][l] = At("handed", TRUE, 0)]
    /\ UNCHANGED <<backend, log, up, crashes>>

\* adapter.send(): the message leaves, or the channel refuses it.
Hand(g, l) ==
    /\ dlv[g][l].step = "claimed"
    /\ \E ok \in BOOLEAN :
          /\ dlv' = [dlv EXCEPT ![g][l] = At("handed", ok, 0)]
          /\ handed' = [handed EXCEPT ![l] = IF ok THEN @ + 1 ELSE @]
    /\ UNCHANGED <<backend, log, up, crashes>>

\* Mutant: the outcome stays in the journal, the backend is not told.
StoreOutcomeQuietly(g, l) ==
    /\ dlv[g][l].step = "handed"
    /\ log' = [log EXCEPT ![l].status = IF dlv[g][l].ok THEN "delivered" ELSE "failed"]
    /\ dlv' = [dlv EXCEPT ![g][l] = NoDelivery]
    /\ UNCHANGED <<backend, up, crashes, handed>>

\* Mutant: the journal takes the backend's word for a delivered message.
StoreOutcomeAsSent(g, l) ==
    /\ dlv[g][l].step = "handed"
    /\ log' = [log EXCEPT ![l].status = IF dlv[g][l].ok THEN "sent" ELSE "failed"]
    /\ dlv' = [dlv EXCEPT ![g][l] = At("calling", @.ok, 0)]
    /\ UNCHANGED <<backend, up, crashes, handed>>

\* The outcome is committed, then the callback starts.
StoreOutcome(g, l) ==
    /\ dlv[g][l].step = "handed"
    /\ log' = [log EXCEPT ![l].status = IF dlv[g][l].ok THEN "delivered" ELSE "failed"]
    /\ dlv' = [dlv EXCEPT ![g][l] = At("calling", @.ok, 0)]
    /\ UNCHANGED <<backend, up, crashes, handed>>

\* Two minutes pass since the claim.  An adapter that takes longer is a stall.
ClaimAges(l) ==
    /\ log[l].status = "processing"
    /\ log[l].fresh
    /\ "stall" \in Faults \/ \A g \in Gateways : ~Delivering(g, l)
    /\ log' = [log EXCEPT ![l].fresh = FALSE]
    /\ UNCHANGED <<backend, dlv, up, crashes, handed>>

Crash(g) ==
    /\ "crash" \in Faults
    /\ crashes < MaxCrashes
    /\ up[g] # "down"
    /\ up' = [up EXCEPT ![g] = "down"]
    /\ dlv' = [dlv EXCEPT ![g] = [l \in Logs |-> NoDelivery]]
    /\ crashes' = crashes + 1
    /\ UNCHANGED <<backend, log, handed>>

\* lifespan: resume_pending() takes up what is accepted or claimed too long ago,
\* one after the other, and only then the process serves calls.
Restart(g) ==
    /\ up[g] = "down"
    /\ up' = [up EXCEPT ![g] = "resuming"]
    /\ dlv' = [dlv EXCEPT ![g] = [l \in Logs |-> IF Claimable(l)
                                                 THEN At("task", FALSE, 0)
                                                 ELSE NoDelivery]]
    /\ UNCHANGED <<backend, log, crashes, handed>>

Serve(g) ==
    /\ up[g] = "resuming"
    /\ dlv[g] = [l \in Logs |-> NoDelivery]
    /\ up' = [up EXCEPT ![g] = "serving"]
    /\ UNCHANGED <<backend, log, dlv, crashes, handed>>

-----------------------------------------------------------------------------

ByHand(w) ==
    \/ \E i \in Rows, kind \in {"record", "stop"} : TakeRow(w, kind, i)
    \/ SaveByHand(w) \/ StopParty(w)
    \/ \E i \in Rows, s \in PartyStatus : MoveParty(w, i, s)
    \/ MoveRow(w)
    \/ \E i \in Rows : AutoComplete(w, i)

Backend(w) ==
    \/ \E u \in Users, i \in Rows : QueueOne(w, u, i)
    \/ \E k \in Key : CreateNotice(w, k)
    \/ \E n \in Notices : ResendNotice(w, n)
    \/ LockNotice(w) \/ Post(w) \/ SaveDispatch(w)
    \/ RollupRead(w) \/ RollupSave(w)
    \/ NoteOutcome(w) \/ FindRow(w) \/ SaveRow(w)
    \/ ByHand(w)

Gateway(g) ==
    \/ \E l \in Logs : \/ Claim(g, l) \/ Hand(g, l) \/ StoreOutcome(g, l)
                       \/ CallbackLost(g, l)
                       \/ \E w \in Workers : CallbackArrives(w, g, l)
    \/ Crash(g) \/ Restart(g) \/ Serve(g)

Next == \/ \E w \in Workers : Backend(w)
        \/ \E g \in Gateways : Gateway(g)
        \/ \E l \in Logs : ClaimAges(l)

Spec == Init /\ [][Next]_vars

-----------------------------------------------------------------------------
(* Safety *)

(***************************************************************************)
(* "Repeating the same row makes no second letter" (queue_notices), and    *)
(* "one record per notification" (DeliveryLog): no notification is handed  *)
(* to the gateway twice, whatever the interleaving of two clicks, a lost   *)
(* answer and a late callback.                                             *)
(***************************************************************************)
OneLetterPerNotice ==
    \A l, m \in Logs :
        log[l].status # "none" /\ log[m].status # "none" /\ log[l].notice = log[m].notice => l = m

(***************************************************************************)
(* Two gateway processes never deliver one journal row together: claim()   *)
(* gives it to one, also when a restarted process resumes what is pending. *)
(***************************************************************************)
OneDelivererPerLog ==
    \A l \in Logs, g, h \in Gateways : Delivering(g, l) /\ Delivering(h, l) => g = h

(***************************************************************************)
(* What one process has recorded stays: no coroutine that another process  *)
(* started earlier, or resumes after a crash, takes the journal row up     *)
(* again or hands its message over once the outcome is known.              *)
(***************************************************************************)
RecordedIsFinal ==
    [][\A l \in Logs : log[l].status \in Finished =>
          log'[l].status = log[l].status /\ handed'[l] = handed[l]]_vars

\* A message with the letter of row i has left.
LetterLeft(i) == \E l \in Logs : handed[l] > 0 /\ notice[log[l].notice].key[2] = LetterOf[i]

\* This step is worker w's, and writes row i by hand or by auto_complete.
WritesByHand(w, i) ==
    /\ job'[w] # job[w]
    /\ \/ job[w].step \in {"hand", "moverow"} /\ job[w].row = i
       \/ job'[w].kind = "auto" /\ PartyOf[job'[w].row] = PartyOf[i]

(***************************************************************************)
(* What delivery says of a row is true: unless a person or auto_complete   *)
(* writes it so, a row becomes "done" only when a message with its letter  *)
(* has left, although the callback writes the row in a later transaction   *)
(* than it finds it, and the row may meanwhile be tied to another          *)
(* notification, or back to an older one by a whole save.                  *)
(***************************************************************************)
DoneRowWasDelivered ==
    [][\A i \in Rows : row[i].status # "done" /\ row'[i].status = "done" =>
          LetterLeft(i) \/ \E w \in Workers : WritesByHand(w, i)]_vars

(***************************************************************************)
(* README 152: "a repeat of the same row, while the letter is queued or    *)
(* already delivered, makes no second letter".  No record is made for a    *)
(* letter that a queued or sent record carries.                            *)
(***************************************************************************)
NoSecondLetter ==
    [][\A n \in Notices : notice[n].status = "none" /\ notice'[n].status = "new" =>
          \A m \in Notices : notice[m].status \in {"queued", "sent"} =>
             notice[m].key[2] # notice'[n].key[2]]_vars

\* The verdict of the rows, a pause somebody set, or a stop where all was cancelled.
CountsAs(p, s) == \/ s \in {Verdict(RowStatuses(p)), "paused"}
                  \/ s = "done" /\ RowStatuses(p) = {"cancelled"}

(***************************************************************************)
(* models.Measure: the status of a party is counted from its rows.  When   *)
(* no request is in progress the party shows the verdict of its rows,      *)
(* whoever wrote them; a pause is not counted away, and a step stopped     *)
(* with every row cancelled is done.                                       *)
(***************************************************************************)
PartyCountedFromRows ==
    (\A w \in Workers : job[w].step = "idle") =>
        \A p \in Parties : RowStatuses(p) # {} => CountsAs(p, party[p])

(***************************************************************************)
(* Once the debtor has the letter nothing takes the notification back from *)
(* "sent": neither the worker that saves its dispatch late, nor a second   *)
(* answer of the gateway.                                                  *)
(***************************************************************************)
SentIsFinal ==
    [][\A n \in Notices : notice[n].status = "sent" => notice'[n].status = "sent"]_vars

-----------------------------------------------------------------------------
(* The abstract specification: one notification, seen from outside.         *)

LetterOfNotice(n) ==
    LET S == {log[l].status : l \in {m \in Logs : log[m].status # "none" /\ log[m].notice = n}}
    IN IF S = {} THEN "none"
       ELSE IF "delivered" \in S THEN "delivered"
       ELSE IF "failed" \in S THEN "failed" ELSE "pending"

Promise == INSTANCE NoticeLifecycle WITH
    stage  <- [n \in Notices |-> notice[n].status],
    letter <- [n \in Notices |-> LetterOfNotice(n)]

(***************************************************************************)
(* queue_notices and the gateway together keep the promise of              *)
(* NoticeLifecycle for every notification, whatever is lost or crashes.    *)
(***************************************************************************)
KeepsPromise == Promise!Spec

-----------------------------------------------------------------------------
(* Liveness.  A started request is carried through by its worker, a running *)
(* gateway carries its coroutines through, and an HTTP client retries.      *)
(* Nobody has to press "send", and nothing obliges a crashed gateway to     *)
(* come back.                                                               *)

Carry(w) == \/ LockNotice(w) \/ Post(w) \/ SaveDispatch(w)
            \/ RollupRead(w) \/ RollupSave(w)
            \/ NoteOutcome(w) \/ FindRow(w) \/ SaveRow(w)
            \/ SaveByHand(w) \/ StopParty(w) \/ MoveRow(w)

Fairness ==
    /\ \A w \in Workers : WF_vars(Carry(w))
    /\ \A g \in Gateways, l \in Logs :
          /\ WF_vars(Claim(g, l) \/ Hand(g, l) \/ StoreOutcome(g, l))
          /\ WF_vars(\E w \in Workers : CallbackArrives(w, g, l))

FairSpec == Spec /\ Fairness

(***************************************************************************)
(* A notification the backend believes to be in the gateway gets its       *)
(* verdict: it does not stay "queued", where every later click keeps it    *)
(* and resend refuses it.                                                  *)
(***************************************************************************)
QueuedGetsVerdict ==
    \A n \in Notices : notice[n].status = "queued" ~> notice[n].status \in {"sent", "failed"}

(***************************************************************************)
(* No worker waits for ever on a row lock: every request ends.             *)
(***************************************************************************)
RequestsEnd == \A w \in Workers : job[w].step # "idle" ~> job[w].step = "idle"

=============================================================================
