----------------------------- MODULE MeasureParty -----------------------------
(***************************************************************************)
(* A party of measures (models.Measure) and its rows (MeasureItem) from    *)
(* launch to closing: the endpoints of MeasureViewSet, the disconnect task *)
(* of the supplier, and what pauses, resumes and closes parties behind the *)
(* specialist's back: an inheritance case, the payer's death, a hold that  *)
(* runs out, a payment.                                                    *)
(*                                                                         *)
(* An endpoint loads the party (get_object), and the row for a result,     *)
(* then the service decides by what was loaded and writes.  No row is      *)
(* locked, so other requests and refreshes fall between the two steps.     *)
(* Sources of a scenario step (source_scenario) are not modelled here.     *)
(***************************************************************************)
EXTENDS FiniteSets, PartyStatus

CONSTANTS
    Measures,
    Kind,           \* "disconnect", "warning", another automatic kind, or "manual"
    Accounts,
    Debtor,         \* the payer of an account: accounts of one payer are peers
    Candidates,     \* the accounts a launch is asked for
    NeedsApproval,  \* disconnects the local administrator has to approve
    Workers,        \* backend worker threads
    MoveTo,         \* bound: the columns a card of the kanban is moved to
    Ops,            \* the requests and events in use
    None

Kinds     == {"disconnect", "warning", "auto", "manual"}
AutoKinds == {"disconnect", "warning", "auto"}
PartyOps  == {"accept", "suspend", "resume", "approve", "reject", "cancel", "move",
              "record", "deliver", "hold", "release", "stop"}
Events    == {"launch", "refresh", "patch", "heir", "death", "newcomer", "debt",
              "term", "caseover", "holdover"}

ASSUME PartyAssumption ==
    /\ Kind \in [Measures -> Kinds]
    /\ Debtor \in [Accounts -> Accounts]
    /\ Candidates \in [Measures -> SUBSET Accounts]
    /\ NeedsApproval \subseteq {m \in Measures : Kind[m] = "disconnect"}
    /\ MoveTo \subseteq PartyStatus
    /\ Ops \subseteq PartyOps \cup Events
    /\ None \notin Accounts \cup Measures

VARIABLES
    party,  \* Measure
    row,    \* MeasureItem of a measure and an account
    acc,    \* Account: inheritance case, registered payer, debt
    job     \* what each worker has loaded

vars == <<party, row, acc, job>>

-----------------------------------------------------------------------------
(* Types *)

Active == {"assigned", "running"}
Closed == {"done", "cancelled"}

\* until: pause_until unset, ahead or past; reason: pause_reason.
Party == [status: PartyStatus \cup {"none"}, approval: {"", "pending", "approved", "rejected"},
          forced: BOOLEAN, suspended: BOOLEAN, resumed: BOOLEAN, stopped: BOOLEAN,
          until: {"none", "ahead", "past"}, reason: {"none", "user", "death"}]

\* served: whether the warning is delivered, and whether its term has passed.
Row == [status: ItemStatus \cup {"none"}, suspended: BOOLEAN, resumed: BOOLEAN,
        served: {"no", "waiting", "due"}]

\* case: no case, one opened on the card (its term running or over), one opened by an
\* import; payer: whether the main registration is alive, dead, or dead with a newcomer;
\* debt: the service of the parties is owed, it alone is paid, or all is paid.
Account == [case: {"no", "open", "over", "import"}, payer: {"alive", "dead", "replaced"},
            deceased: BOOLEAN, debt: {"due", "part", "clear"}]

Job == [op: PartyOps \cup {"idle"}, measure: Measures \cup {None}, account: Accounts \cup {None},
        seen: Party \cup {None}, item: Row \cup {None}]

Idle == [op |-> "idle", measure |-> None, account |-> None, seen |-> None, item |-> None]

NoParty == [status |-> "none", approval |-> "", forced |-> FALSE, suspended |-> FALSE,
            resumed |-> FALSE, stopped |-> FALSE, until |-> "none", reason |-> "none"]
NoRow   == [status |-> "none", suspended |-> FALSE, resumed |-> FALSE, served |-> "no"]

TypeOK ==
    /\ party \in [Measures -> Party]
    /\ row \in [Measures -> [Accounts -> Row]]
    /\ acc \in [Accounts -> Account]
    /\ job \in [Workers -> Job]

Init ==
    /\ party = [m \in Measures |-> NoParty]
    /\ row   = [m \in Measures |-> [a \in Accounts |-> NoRow]]
    /\ acc   = [a \in Accounts |-> [case |-> "no", payer |-> "alive", deceased |-> FALSE, debt |-> "due"]]
    /\ job   = [w \in Workers |-> Idle]

-----------------------------------------------------------------------------
(* What the services share.  P and A are the parties and the accounts a     *)
(* later statement of the same request finds.                               *)

Members(m) == {a \in Accounts : row[m][a].status # "none"}

\* debtor_peers
Peers(a) == {b \in Accounts : Debtor[b] = Debtor[a]}

\* Mutant: a recount ends a pause.
RollupAlways(P, m, seen, respect, S) ==
    IF S = {} \/ seen = Verdict(S) THEN P ELSE [P EXCEPT ![m].status = Verdict(S)]

\* rollup(): seen is the status of the loaded party, S the statuses of the rows.
Rollup(P, m, seen, respect, S) ==
    IF (respect /\ seen = "paused") \/ S = {} \/ seen = Verdict(S)
    THEN P
    ELSE [P EXCEPT ![m].status = Verdict(S)]

\* pause_auto_measures, resume_paused_measures
Automatic(m, S) == Kind[m] \in AutoKinds /\ Members(m) \cap S # {}

PauseAuto(P, S) ==
    [m \in Measures |-> IF Automatic(m, S) /\ P[m].status \in Active
                        THEN [P[m] EXCEPT !.status = "paused"] ELSE P[m]]

ResumeAuto(P, S) ==
    [m \in Measures |-> IF Automatic(m, S) /\ P[m].status = "paused"
                        THEN [P[m] EXCEPT !.status = "assigned"] ELSE P[m]]

NoCase(A, S) == [b \in Accounts |-> IF b \in S THEN [A[b] EXCEPT !.case = "no"] ELSE A[b]]

Released(p) == [p EXCEPT !.status = "assigned", !.stopped = FALSE, !.until = "none", !.reason = "none"]

\* A supplier has already cut the service off: payment does not touch such a disconnect.
CutOff(P, m, a) == Kind[m] = "disconnect" /\ (P[m].suspended \/ row[m][a].suspended)

-----------------------------------------------------------------------------
(* Launch *)

\* _latest_warning of the account, its term over.
WarningDue(a) ==
    LET W == {m \in Measures : /\ Kind[m] = "warning"
                               /\ row[m][a].status = "done"
                               /\ row[m][a].served # "no"}
    IN W # {} /\ \A m \in W : row[m][a].served = "due"

\* Mutant: any warning opens the disconnect, the term of payment is not waited for.
AdmitsTooEarly(m, a, A, forced) ==
    CASE Kind[m] = "disconnect" ->
            /\ A[a].debt = "due"
            /\ forced \/ \E v \in Measures : Kind[v] = "warning" /\ row[v][a].status # "none"
      [] Kind[m] = "manual"     -> A[a].debt = "due"
      [] OTHER                  -> A[a].case = "no"

\* _guard_disconnect, _split_by_service_group, _select
Admits(m, a, A, forced) ==
    CASE Kind[m] = "disconnect" -> A[a].debt = "due" /\ (forced \/ WarningDue(a))
      [] Kind[m] = "manual"     -> A[a].debt = "due"
      [] OTHER                  -> A[a].case = "no"

\* launch_measure.  Expired cases of the asked accounts are closed first, also when
\* nobody is admitted and the launch is refused.
Launch(w, m, forced) ==
    LET Over   == {a \in Candidates[m] : acc[a].case = "over"}
        Freed  == UNION {Peers(a) : a \in Over}
        A      == NoCase(acc, Freed)
        P      == IF Over = {} THEN party ELSE ResumeAuto(party, Freed)
        chosen == {a \in Candidates[m] : Admits(m, a, A, forced)}
    IN /\ "launch" \in Ops
       /\ job[w].op = "idle"
       /\ party[m].status = "none"
       /\ forced => Kind[m] = "disconnect"
       /\ acc' = A
       /\ IF chosen = {}
          THEN /\ party' = P
               /\ UNCHANGED row
          ELSE /\ party' = [P EXCEPT ![m] = [NoParty EXCEPT
                                !.status = "assigned", !.forced = forced,
                                !.approval = IF m \in NeedsApproval THEN "pending" ELSE ""]]
               /\ row' = [row EXCEPT ![m] = [a \in Accounts |->
                                IF a \in chosen THEN [NoRow EXCEPT !.status = "assigned"] ELSE NoRow]]
       /\ UNCHANGED job

-----------------------------------------------------------------------------
(* Requests about one party *)

\* get_object(), and the row when the request names one.
Load(w, op, m, a) ==
    /\ op \in Ops
    /\ job[w].op = "idle"
    /\ party[m].status # "none"
    /\ IF op \in {"record", "stop"} THEN a \in Members(m) ELSE a = None
    /\ job' = [job EXCEPT ![w] = [op |-> op, measure |-> m, account |-> a, seen |-> party[m],
                                  item |-> IF a = None THEN None ELSE row[m][a]]]
    /\ UNCHANGED <<party, row, acc>>

Loaded(w, op) == job[w].op = op /\ job' = [job EXCEPT ![w] = Idle] /\ UNCHANGED acc

\* A request the rights, a missing reason or the state refuses.
Refuse(w) ==
    /\ job[w].op # "idle"
    /\ job' = [job EXCEPT ![w] = Idle]
    /\ UNCHANGED <<party, row, acc>>

Approved(m, s) == m \in NeedsApproval => s.approval = "approved"

\* items.filter(status in S).update(status=st)
MarkRows(m, S, st) ==
    [row EXCEPT ![m] = [a \in Accounts |-> IF row[m][a].status \in S
                                           THEN [row[m][a] EXCEPT !.status = st]
                                           ELSE row[m][a]]]

\* accept_disconnect
Accept(w) ==
    LET m == job[w].measure
        s == job[w].seen
    IN /\ Loaded(w, "accept")
       /\ Kind[m] = "disconnect"
       /\ Approved(m, s)
       /\ ~s.suspended
       /\ s.status # "cancelled"
       /\ party' = [party EXCEPT ![m].status = "running"]
       /\ row' = MarkRows(m, {"assigned"}, "running")

\* Mutant: the supplier's mark does not wait for the approval.
SuspendUnapproved(w) ==
    LET m == job[w].measure
        s == job[w].seen
    IN /\ Loaded(w, "suspend")
       /\ Kind[m] = "disconnect"
       /\ s.status # "cancelled"
       /\ party' = [party EXCEPT ![m] = [s EXCEPT !.suspended = TRUE, !.status = "running"]]
       /\ row' = [row EXCEPT ![m] = [a \in Accounts |->
                     IF row[m][a].status \in {"none", "cancelled"} THEN row[m][a]
                     ELSE [row[m][a] EXCEPT !.status = "running", !.suspended = TRUE]]]

\* apply_confirmation(step="suspend").  measure.save() writes every field as loaded.
Suspend(w) ==
    LET m == job[w].measure
        s == job[w].seen
    IN /\ Loaded(w, "suspend")
       /\ Kind[m] = "disconnect"
       /\ s.status # "cancelled"
       /\ Approved(m, s)
       /\ party' = [party EXCEPT ![m] = [s EXCEPT !.suspended = TRUE, !.status = "running"]]
       /\ row' = [row EXCEPT ![m] = [a \in Accounts |->
                     IF row[m][a].status \in {"none", "cancelled"} THEN row[m][a]
                     ELSE [row[m][a] EXCEPT !.status = "running", !.suspended = TRUE]]]

\* apply_confirmation(step="resume")
Resume(w) ==
    LET m == job[w].measure
        s == job[w].seen
    IN /\ Loaded(w, "resume")
       /\ Kind[m] = "disconnect"
       /\ s.status # "cancelled"
       /\ Approved(m, s)
       /\ party' = [party EXCEPT ![m] = [s EXCEPT !.resumed = TRUE, !.status = "done"]]
       /\ row' = [row EXCEPT ![m] = [a \in Accounts |->
                     IF row[m][a].status \in {"none", "cancelled"} THEN row[m][a]
                     ELSE [row[m][a] EXCEPT !.status = "done", !.resumed = TRUE]]]

\* decide_approval
Approve(w) ==
    LET m == job[w].measure IN
    /\ Loaded(w, "approve")
    /\ job[w].seen.approval = "pending"
    /\ party' = [party EXCEPT ![m].approval = "approved"]
    /\ UNCHANGED row

Reject(w) ==
    LET m == job[w].measure IN
    /\ Loaded(w, "reject")
    /\ job[w].seen.approval = "pending"
    /\ party' = [party EXCEPT ![m].approval = "rejected", ![m].status = "cancelled"]
    /\ row' = MarkRows(m, ItemStatus \ {"done"}, "cancelled")

\* Mutant: a running disconnect may be cancelled, the dates of suspension are not asked.
CancelRunning(w) ==
    LET m == job[w].measure IN
    /\ Loaded(w, "cancel")
    /\ Kind[m] = "disconnect"
    /\ job[w].seen.status # "done"
    /\ party' = [party EXCEPT ![m].status = "cancelled"]
    /\ row' = MarkRows(m, OpenItem \cup {"failed"}, "cancelled")

\* cancel_disconnect: the party is asked as loaded, its rows as they are.
Cancel(w) ==
    LET m == job[w].measure IN
    /\ Loaded(w, "cancel")
    /\ Kind[m] = "disconnect"
    /\ ~job[w].seen.suspended
    /\ \A a \in Accounts : ~row[m][a].suspended
    /\ party' = [party EXCEPT ![m].status = "cancelled"]
    /\ row' = MarkRows(m, OpenItem \cup {"failed"}, "cancelled")

\* Mutant: a card moved to "paused" takes its rows along.
MoveRowsAlong(w, to) ==
    LET m == job[w].measure IN
    /\ Loaded(w, "move")
    /\ job[w].seen.status # to
    /\ party' = [party EXCEPT ![m].status = to]
    /\ row' = MarkRows(m, ItemStatus, to)

\* move_status: a card of the kanban.
Move(w, to) ==
    LET m == job[w].measure IN
    /\ Loaded(w, "move")
    /\ job[w].seen.status # to
    /\ party' = [party EXCEPT ![m].status = to]
    /\ row' = IF to \in ItemStatus THEN MarkRows(m, ItemStatus, to) ELSE row

\* item.save() writes the date of delivery as loaded; its term may be over by now.
Saved(i, r) == [i EXCEPT !.served = IF @ = "waiting" /\ r.served = "due" THEN "due" ELSE @]

\* record_item, write_call_result (a call nobody answers leaves its row running): the row
\* is saved whole, as loaded; then rollup() of the loaded party.
Record(w, st) ==
    LET m == job[w].measure
        a == job[w].account
        i == job[w].item
        s == job[w].seen
    IN /\ Loaded(w, "record")
       /\ st = "running" => Kind[m] = "auto"
       /\ acc[a].case # "no" /\ Kind[m] \in AutoKinds => st = "cancelled"
       /\ st = "cancelled" /\ Kind[m] = "disconnect" => ~i.suspended /\ ~s.suspended
       /\ row' = [row EXCEPT ![m] = [row[m] EXCEPT ![a] = [Saved(i, @) EXCEPT !.status = st]]]
       /\ party' = Rollup(party, m, s.status, TRUE, {row'[m][b].status : b \in Members(m)})

\* deliver_warnings for the open rows of S; refused after the recount when there is none.
Deliver(w, S) ==
    LET m == job[w].measure IN
    /\ Loaded(w, "deliver")
    /\ Kind[m] = "warning"
    /\ S \subseteq Members(m)
    /\ row' = [row EXCEPT ![m] = [a \in Accounts |->
                  IF a \in S /\ row[m][a].status \in OpenItem
                  THEN [row[m][a] EXCEPT !.status = "done", !.served = "waiting"]
                  ELSE row[m][a]]]
    /\ party' = Rollup(party, m, job[w].seen.status, TRUE, {row'[m][b].status : b \in Members(m)})

\* hold_measure
Hold(w, until) ==
    LET m == job[w].measure IN
    /\ Loaded(w, "hold")
    /\ job[w].seen.status \notin Closed \cup {"failed"}
    /\ party' = [party EXCEPT ![m].status = "paused", ![m].stopped = TRUE,
                              ![m].until = until, ![m].reason = "user"]
    /\ UNCHANGED row

\* release_measure
Release(w) ==
    LET m == job[w].measure IN
    /\ Loaded(w, "release")
    /\ job[w].seen.status = "paused"
    /\ party' = [party EXCEPT ![m] = Released(@)]
    /\ UNCHANGED row

\* stop_measure of scenario_flow: the tick on a step of the account.
Stop(w) ==
    LET m == job[w].measure
        a == job[w].account
        R == [row[m] EXCEPT ![a] = IF @.status \in Closed THEN @ ELSE [@ EXCEPT !.status = "done"]]
        S == {R[b].status : b \in Members(m)}
    IN /\ Loaded(w, "stop")
       /\ row' = [row EXCEPT ![m] = R]
       /\ party' = IF S \subseteq Closed
                   THEN [party EXCEPT ![m].status = "done", ![m].stopped = TRUE]
                   ELSE Rollup(party, m, job[w].seen.status, FALSE, S)

-----------------------------------------------------------------------------
(* The account changes: card, import, nightly recount *)

\* sync_inheritance after a PATCH of the card.
OpenCase(w, a) ==
    /\ "patch" \in Ops
    /\ job[w].op = "idle"
    /\ acc' = [b \in Accounts |-> IF b \in Peers(a) THEN [acc[b] EXCEPT !.case = "open"] ELSE acc[b]]
    /\ party' = IF acc[a].case = "no" THEN PauseAuto(party, Peers(a)) ELSE party
    /\ UNCHANGED <<row, job>>

CloseCase(w, a) ==
    /\ "patch" \in Ops
    /\ job[w].op = "idle"
    /\ acc[a].case # "no"
    /\ acc' = NoCase(acc, Peers(a))
    /\ party' = ResumeAuto(party, Peers(a))
    /\ UNCHANGED <<row, job>>

\* release_expired_inheritance
CaseExpired(A, a) == A[a].case = "over"
ExpireCase(A, a)  == IF CaseExpired(A, a) THEN NoCase(A, Peers(a)) ELSE A
ExpirePause(P, A, a) == IF CaseExpired(A, a) THEN ResumeAuto(P, Peers(a)) ELSE P

\* _sync_death: a newcomer beside the dead payer ends the mark, otherwise a dead payer sets it.
Newcomer(A, a) == A[a].deceased /\ A[a].payer = "replaced"
Dies(A, a)     == ~A[a].deceased /\ A[a].payer # "alive"

SyncDeceased(A, a) == [A EXCEPT ![a].deceased = Dies(A, a) \/ (@ /\ ~Newcomer(A, a))]

SyncDeathPause(P, A, a) ==
    [m \in Measures |->
        IF a \notin Members(m) THEN P[m]
        ELSE IF Newcomer(A, a) /\ P[m].status = "paused" /\ P[m].reason = "death"
        THEN Released(P[m])
        ELSE IF Dies(A, a) /\ P[m].status \in Active
        THEN [P[m] EXCEPT !.status = "paused", !.stopped = TRUE, !.reason = "death"]
        ELSE P[m]]

\* Mutant: a hold that ran out also frees what the payer's death holds.
ReleaseExpiredAll(P, a) ==
    [m \in Measures |->
        IF a \in Members(m) /\ P[m].status = "paused" /\ P[m].until = "past"
        THEN Released(P[m]) ELSE P[m]]

\* release_expired_holds
ReleaseExpired(P, a) ==
    [m \in Measures |->
        IF a \in Members(m) /\ P[m].status = "paused" /\ P[m].until = "past" /\ P[m].reason # "death"
        THEN Released(P[m]) ELSE P[m]]

\* _inheritance: the newest main registration is not the payer the case was opened for.
PayerChanged(A, a) == A[a].case = "open" /\ A[a].payer = "replaced"
Heirs(A, a) == {b \in Peers(a) : A[b].case \in {"open", "over"}}

\* _close_paid: settle_if_paid when nothing is owed, else close_paid_measures of the paid service.
ClosedRow(r, debt) ==
    IF r.status \in (IF debt = "clear" THEN OpenItem \cup {"failed"} ELSE OpenItem)
    THEN [r EXCEPT !.status = "cancelled"] ELSE r

\* Mutant: the payment closes a disconnect that is already carried out.
ClosesAll(P, A, m, a) ==
    /\ a \in Members(m)
    /\ \/ A[a].debt = "clear" /\ P[m].status \notin Closed
       \/ A[a].debt = "part" /\ P[m].status \in OpenParty

Closes(P, A, m, a) ==
    /\ a \in Members(m)
    /\ ~CutOff(P, m, a)
    /\ \/ A[a].debt = "clear" /\ P[m].status \notin Closed
       \/ A[a].debt = "part" /\ P[m].status \in OpenParty

CloseRows(P, A, a) ==
    [m \in Measures |-> IF Closes(P, A, m, a)
                        THEN [row[m] EXCEPT ![a] = ClosedRow(@, A[a].debt)] ELSE row[m]]

CloseParties(P, A, a) ==
    [m \in Measures |->
        LET S == {CloseRows(P, A, a)[m][b].status : b \in Members(m)}
        IN IF ~Closes(P, A, m, a) THEN P[m]
           ELSE IF A[a].debt = "clear" /\ S \cap (OpenItem \cup {"failed"}) = {}
           THEN [P[m] EXCEPT !.status = "done", !.stopped = TRUE]
           ELSE Rollup(P, m, P[m].status, FALSE, S)[m]]

\* refresh_account, from the accounts A0 the import left, in its order.
RefreshFrom(A0, a) ==
    LET A1 == ExpireCase(A0, a)
        P1 == ExpirePause(party, A0, a)
        A2 == SyncDeceased(A1, a)
        P2 == SyncDeathPause(P1, A1, a)
        P3 == ReleaseExpired(P2, a)
        A4 == IF PayerChanged(A2, a) THEN NoCase(A2, Heirs(A2, a)) ELSE A2
        P4 == IF PayerChanged(A2, a) THEN ResumeAuto(P3, Heirs(A2, a)) ELSE P3
    IN /\ acc' = A4
       /\ row' = CloseRows(P4, A4, a)
       /\ party' = CloseParties(P4, A4, a)

Refresh(w, a) ==
    /\ "refresh" \in Ops
    /\ job[w].op = "idle"
    /\ RefreshFrom(acc, a)
    /\ UNCHANGED job

\* _after_import of registrations: an accepted inheritance sets the mark, then the refresh.
ImportHeir(w, a) ==
    /\ "heir" \in Ops
    /\ job[w].op = "idle"
    /\ acc[a].case = "no"
    /\ RefreshFrom([acc EXCEPT ![a].case = "import"], a)
    /\ UNCHANGED job

-----------------------------------------------------------------------------
(* What happens outside: registrations and balances are imported, days pass *)

Outside == UNCHANGED <<row, job>>

PayerDies(a) == /\ "death" \in Ops /\ acc[a].payer = "alive"
                /\ acc' = [acc EXCEPT ![a].payer = "dead"]
                /\ Outside /\ UNCHANGED party

NewPayer(a) == /\ "newcomer" \in Ops /\ acc[a].payer = "dead"
               /\ acc' = [acc EXCEPT ![a].payer = "replaced"]
               /\ Outside /\ UNCHANGED party

DebtMoves(a) == /\ "debt" \in Ops
                /\ \E d \in {"due", "part", "clear"} : acc' = [acc EXCEPT ![a].debt = d]
                /\ Outside /\ UNCHANGED party

CaseRunsOut(a) == /\ "caseover" \in Ops /\ acc[a].case = "open"
                  /\ acc' = [b \in Accounts |-> IF b \in Peers(a) /\ acc[b].case = "open"
                                                THEN [acc[b] EXCEPT !.case = "over"] ELSE acc[b]]
                  /\ Outside /\ UNCHANGED party

HoldRunsOut(m) == /\ "holdover" \in Ops /\ party[m].until = "ahead"
                  /\ party' = [party EXCEPT ![m].until = "past"]
                  /\ Outside /\ UNCHANGED acc

TermRunsOut(m, a) == /\ "term" \in Ops /\ row[m][a].served = "waiting"
                     /\ row' = [row EXCEPT ![m] = [row[m] EXCEPT ![a].served = "due"]]
                     /\ UNCHANGED <<party, acc, job>>

-----------------------------------------------------------------------------

Request(w) ==
    \/ \E op \in PartyOps, m \in Measures, a \in Accounts \cup {None} : Load(w, op, m, a)
    \/ \E m \in Measures, forced \in BOOLEAN : Launch(w, m, forced)
    \/ Accept(w) \/ Suspend(w) \/ Resume(w) \/ Approve(w) \/ Reject(w) \/ Cancel(w)
    \/ \E to \in MoveTo : Move(w, to)
    \/ \E st \in {"done", "failed", "cancelled", "running"} : Record(w, st)
    \/ \E S \in SUBSET Accounts : Deliver(w, S)
    \/ \E until \in {"none", "ahead"} : Hold(w, until)
    \/ Release(w) \/ Stop(w) \/ Refuse(w)
    \/ \E a \in Accounts : \/ OpenCase(w, a) \/ CloseCase(w, a)
                           \/ Refresh(w, a) \/ ImportHeir(w, a)

World ==
    \/ \E a \in Accounts : PayerDies(a) \/ NewPayer(a) \/ DebtMoves(a) \/ CaseRunsOut(a)
    \/ \E m \in Measures : HoldRunsOut(m) \/ \E a \in Accounts : TermRunsOut(m, a)

Next == (\E w \in Workers : Request(w)) \/ World

Spec == Init /\ [][Next]_vars

-----------------------------------------------------------------------------
(* Safety *)

(***************************************************************************)
(* README 153: after the supplier has suspended the service the task is    *)
(* not cancelled, and neither a recorded result, a rejection, a payment    *)
(* nor a recount cancels it: what is cut off stays on the list of those    *)
(* that have to be switched on again.                                      *)
(***************************************************************************)
SuspendedIsNotCancelled ==
    \A m \in Measures, a \in Accounts :
        row[m][a].suspended /\ ~row[m][a].resumed =>
            row[m][a].status # "cancelled" /\ party[m].status # "cancelled"

(***************************************************************************)
(* apply_confirmation, decide_approval: a service is cut off only under an *)
(* approval, and an approval that was acted on is not taken back.          *)
(***************************************************************************)
SuspendedWithApproval ==
    \A m \in NeedsApproval : party[m].suspended => party[m].approval = "approved"

(***************************************************************************)
(* "Задание отменено" (measures.py:885), README 153: a task that is        *)
(* cancelled is not carried out any more.  With requests that overlap the  *)
(* code does not keep this: apply_confirmation saves all of a party it     *)
(* loaded before the cancellation.                                         *)
(***************************************************************************)
CancelledIsNotCutOff ==
    [][\A m \in Measures :
          party[m].status = "cancelled" /\ party'[m].suspended => party[m].suspended]_vars

(***************************************************************************)
(* README 153: before the term of payment is over no disconnect starts,    *)
(* unless a reason is written down.  Every account whose service is cut    *)
(* off without such a reason has a warning whose term is over.             *)
(***************************************************************************)
WarnedBeforeSuspended ==
    \A m \in Measures, a \in Accounts :
        row[m][a].suspended /\ ~party[m].forced =>
            \E v \in Measures : Kind[v] = "warning" /\ row[v][a].served = "due"

(***************************************************************************)
(* README 154: a payment does not switch a service on by itself and leaves *)
(* the suspended disconnect as it is.  Without a request about the party   *)
(* no row of a cut-off service and no such party is closed.                *)
(***************************************************************************)
PaymentLeavesSuspended ==
    [][\A m \in Measures :
          job' = job => /\ party[m].suspended /\ party[m].status \notin Closed
                              => party'[m].status \notin Closed
                        /\ \A a \in Accounts :
                              row[m][a].suspended => row'[m][a].status = row[m][a].status]_vars

(***************************************************************************)
(* README 145, 150: an inheritance case puts the warnings and calls of the *)
(* debtor on pause, starts none, and no recount ends the pause.  (A        *)
(* disconnect is paused too, but its launch does not ask about the case.)  *)
(***************************************************************************)
CaseKeepsPaused ==
    \A m \in Measures : \A a \in Members(m) :
        Kind[m] \in {"warning", "auto"} /\ acc[a].case # "no" => party[m].status \notin Active

(***************************************************************************)
(* README 92, PROJECT_STATE 145: what the payer's death holds starts again *)
(* with a new payer, what a specialist holds when its date is over, or by  *)
(* a request about the party; neither reason ends the other's pause.       *)
(***************************************************************************)
HoldsLast ==
    [][\A m \in Measures :
          /\ party[m].status = "paused"
          /\ party'[m].status \in Active
          /\ job' = job
          => CASE party[m].reason = "death" -> \E a \in Members(m) : acc[a].payer = "replaced"
               [] party[m].reason = "user"  -> party[m].until = "past"
               [] OTHER                     -> TRUE]_vars

-----------------------------------------------------------------------------
(* Liveness: every import and every night recounts the accounts. *)

FairSpec == Spec /\ \A a \in Accounts : WF_vars(\E w \in Workers : Refresh(w, a))

(***************************************************************************)
(* README 92: with a new payer the mark of the dead one goes and stays     *)
(* away, when refreshes keep coming.                                       *)
(***************************************************************************)
NewPayerSettles ==
    \A a \in Accounts : [](acc[a].payer = "replaced" => <>[]~acc[a].deceased)

===============================================================================
