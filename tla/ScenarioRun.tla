----------------------------- MODULE ScenarioRun ------------------------------
(***************************************************************************)
(* Scenarios and their runs on accounts: the editor publishes versions     *)
(* (nsi/services/scenarios.py), an account is bound to one by an import, a *)
(* button or a specialist (scenario_flow.py), and the engine launches the  *)
(* next step (scenario_engine.py).                                         *)
(*                                                                         *)
(* A request writes what it writes to the run (the head of the service)    *)
(* and then advances the account: Enter is advance_account with its one    *)
(* check of the run, Look the reads of _advance_once, Launch its writes.   *)
(* Other requests fall between these steps when there are other workers;   *)
(* _advancing is known to one process only and is left out.                *)
(***************************************************************************)
EXTENDS FiniteSets, Sequences, Naturals

CONSTANTS
    Accounts, Scenarios, Workers,
    Default,        \* the scenario an import binds
    FirstPlan,      \* the draft a scenario begins with
    Published,      \* the scenarios that are active from the start
    Plans,          \* names of step lists
    StepsOf,        \* a plan's steps
    Stock, Standard,\* plans upgrade_legacy_scenario replaces, and by which
    Ops,            \* the requests and events in use
    Outcomes,       \* what a result makes of a measure
    MaxVersion,     \* bound on published versions
    MaxRows,        \* bound on the rows of an account
    None

Actions == {"call", "sms", "messenger", "warning", "disconnect", "writ"}

Templates == {"none", "first", "second"}

\* after: after_delivered, a delivered warning; large: every condition on the account's
\* data (months, group, kind of person, category); auto: auto_complete of a notice;
\* template: the text saved with the step; name: what step_template_name makes of it, which is
\* another once the template has been renamed.
Step == [order: 1..3, action: Actions, blocks: BOOLEAN, auto: BOOLEAN, wait: BOOLEAN,
         after: BOOLEAN, large: BOOLEAN, terminal: BOOLEAN, template: Templates, name: Templates]

Requests == {"import", "start", "replace", "assign", "skip", "finish", "stop", "sync",
             "case", "edit", "publish", "restore", "copy"}
Facts    == {"mode", "debt", "pay", "block", "deliver", "day", "cut"}

ASSUME ScenarioAssumption ==
    /\ Default \in Published /\ Published \subseteq Scenarios
    /\ FirstPlan \in [Scenarios -> Plans]
    /\ StepsOf \in [Plans -> Seq(Step)]
    /\ Stock \subseteq Plans /\ Standard \in Plans \ Stock
    /\ Ops \subseteq Requests \cup Facts
    /\ Outcomes \subseteq {"open", "done", "failed", "cancelled"}
    /\ MaxVersion \in Nat \ {0}
    /\ MaxRows \in Nat \ {0}
    /\ None \notin Scenarios \cup Accounts

VARIABLES
    scen,   \* ScenarioDefinition with its ScenarioRevisions
    run,    \* AccountScenarioRun
    rows,   \* the measures of an account that scenario steps and the claim opened
    hist,   \* open ScenarioAssignments of an account and a scenario
    acc,    \* Account
    auto,   \* ServiceScenarioMode.launch is automatic
    job     \* what each worker advances

vars == <<scen, run, rows, hist, acc, auto, job>>

Scenario == [status: {"none", "draft", "active"}, draft: Plans, revs: Seq(Plans)]

Orders == 1..3

Run == [scen: Scenarios \cup {None}, ver: 0..MaxVersion, awaiting: BOOLEAN, finished: BOOLEAN,
        paused: BOOLEAN, skipped: SUBSET Orders, aged: BOOLEAN]

NoRun == [scen |-> None, ver |-> 0, awaiting |-> FALSE, finished |-> FALSE,
          paused |-> FALSE, skipped |-> {}, aged |-> FALSE]

\* copy tells rows of one step apart; aged: the waiting days since it was done have passed;
\* cut: a disconnect the supplier has carried out.
Row == [scen: Scenarios \cup {None}, ver: 0..MaxVersion, order: 0..3, action: Actions \cup {"claim"},
        copy: Nat, status: {"open", "done", "failed", "cancelled"}, name: Templates,
        aged: BOOLEAN, cut: BOOLEAN]

Account == [debt: {"none", "small", "large"}, blocked: BOOLEAN, warn: {"no", "waiting", "due"},
            case: BOOLEAN]

Job == [at: {"idle", "enter", "look", "launch"}, acct: Accounts \cup {None},
        step: Step \cup {None}, seen: Run]

Idle == [at |-> "idle", acct |-> None, step |-> None, seen |-> NoRun]

TypeOK ==
    /\ scen \in [Scenarios -> Scenario]
    /\ run \in [Accounts -> Run]
    /\ \A a \in Accounts : rows[a] \subseteq Row
    /\ hist \in [Accounts -> [Scenarios -> Nat]]
    /\ acc \in [Accounts -> Account]
    /\ auto \in BOOLEAN
    /\ job \in [Workers -> Job]

Init ==
    /\ scen = [s \in Scenarios |->
            IF s \in Published THEN [status |-> "active", draft |-> FirstPlan[s], revs |-> <<FirstPlan[s]>>]
                              ELSE [status |-> "none", draft |-> FirstPlan[s], revs |-> <<>>]]
    /\ run  = [a \in Accounts |-> NoRun]
    /\ rows = [a \in Accounts |-> {}]
    /\ hist = [a \in Accounts |-> [s \in Scenarios |-> 0]]
    /\ \E d \in {"small", "large"} :
          acc = [a \in Accounts |-> [debt |-> d, blocked |-> FALSE, warn |-> "no", case |-> FALSE]]
    /\ auto \in BOOLEAN
    /\ job  = [w \in Workers |-> Idle]

-----------------------------------------------------------------------------
(* What an advance decides by *)

Exists(r)  == r.scen # None
PlanOf(r)  == StepsOf[scen[r.scen].revs[r.ver]]
Own(a, r)  == {m \in rows[a] : m.scen = r.scen /\ m.ver = r.ver}
StartedOf(own, s) == {m \in own : m.order = s.order /\ m.action = s.action}

\* _blocks: a step that is no longer in the plan blocks.
Blocks(plan, m) ==
    LET same == {i \in DOMAIN plan : plan[i].order = m.order /\ plan[i].action = m.action}
    IN  same = {} \/ \E i \in same : /\ \A j \in same : i <= j
                                     /\ plan[i].blocks /\ ~plan[i].auto

\* Mutant: a step whose measure was cancelled is launched again.
StartedAgain(own, s) ==
    \E m \in StartedOf(own, s) : m.status # "cancelled"

\* _already_started: a step that failed under another template is open again.
AlreadyStarted(own, s) ==
    \E m \in StartedOf(own, s) : m.status = "failed" => s.template \in {"none", m.name}

\* _matches, _delivery_ready
Matches(a, s) ==
    /\ s.large => acc[a].debt = "large"
    /\ s.after => acc[a].warn = "due" /\ acc[a].debt # "none"

\* _wait_elapsed: the days run from the latest done measure, else from the run's creation.
WaitElapsed(a, r, s) ==
    LET done == {m \in Own(a, r) : m.status = "done"}
    IN  s.wait => IF done = {} THEN r.aged ELSE \A m \in done : m.aged

DoneOrders(own, r) == {m.order : m \in {n \in own : n.status = "done"}} \cup r.skipped

\* Mutant: an open blocking step does not hold the next one.
NextStepAnyway(a, r) ==
    LET plan == PlanOf(r)
        due  == {i \in DOMAIN plan : /\ plan[i].order \notin DoneOrders(Own(a, r), r)
                                     /\ ~AlreadyStarted(Own(a, r), plan[i])
                                     /\ Matches(a, plan[i])}
    IN  {plan[i] : i \in {i \in due : WaitElapsed(a, r, plan[i])}}

\* _advance_once up to the launch: at most one step.
NextStep(a, r) ==
    LET plan  == PlanOf(r)
        own   == Own(a, r)
        due   == {i \in DOMAIN plan : /\ plan[i].order \notin DoneOrders(own, r)
                                      /\ ~AlreadyStarted(own, plan[i])
                                      /\ Matches(a, plan[i])}
        first == {i \in due : \A j \in due : \/ plan[i].order < plan[j].order
                                             \/ plan[i].order = plan[j].order /\ i <= j}
    IN  IF \E m \in own : m.status = "open" /\ Blocks(plan, m)
        THEN {}
        ELSE {plan[i] : i \in {i \in first : plan[i].after \/ WaitElapsed(a, r, plan[i])}}

-----------------------------------------------------------------------------
(* The engine *)

Advance(w, a) ==
    job' = [job EXCEPT ![w] = IF acc[a].blocked THEN Idle ELSE [Idle EXCEPT !.at = "enter", !.acct = a]]

\* advance_account: the run is checked once, the loop below repeats only part of it.
Enter(w) ==
    LET r == run[job[w].acct] IN
    /\ job[w].at = "enter"
    /\ job' = [job EXCEPT ![w] = IF r.awaiting \/ r.finished \/ r.paused THEN Idle
                                 ELSE [@ EXCEPT !.at = "look"]]
    /\ UNCHANGED <<scen, run, rows, hist, acc, auto>>

\* _advance_once reads the run, its revision and its measures.
Look(w) ==
    LET a == job[w].acct
        r == run[a] IN
    /\ job[w].at = "look"
    /\ job' = [job EXCEPT ![w] =
            IF \/ ~Exists(r) \/ r.paused \/ NextStep(a, r) = {}
               \/ Cardinality(rows[a]) >= MaxRows
            THEN Idle
            ELSE [@ EXCEPT !.at = "launch", !.seen = r, !.step = CHOOSE s \in NextStep(a, r) : TRUE]]
    /\ UNCHANGED <<scen, run, rows, hist, acc, auto>>

\* The loop goes on, or the request ends.
Again(w, goes) == job' = [job EXCEPT ![w] = IF goes THEN [Idle EXCEPT !.at = "look", !.acct = job[w].acct] ELSE Idle]

NewRow(a, r, s, st) ==
    LET of == StartedOf(Own(a, r), s)
    IN  [scen |-> r.scen, ver |-> r.ver, order |-> s.order, action |-> s.action,
         copy |-> CHOOSE c \in 0..Cardinality(of) : \A m \in of : m.copy # c,
         status |-> st, name |-> s.name, aged |-> FALSE, cut |-> FALSE]

\* A messenger step is skipped, by the list of skipped orders read before.
SkipMessenger(w) ==
    LET a == job[w].acct
        s == job[w].step IN
    /\ job[w].at = "launch" /\ s.action = "messenger"
    /\ run' = [run EXCEPT ![a].skipped = job[w].seen.skipped \cup {s.order}]
    /\ Again(w, TRUE)
    /\ UNCHANGED <<scen, rows, hist, acc, auto>>

\* The failed rows of the order are deleted (_forget_blocked).
WithoutFailed(a, r, s) ==
    {m \in rows[a] : ~(m.scen = r.scen /\ m.ver = r.ver /\ m.order = s.order /\ m.status = "failed")}

\* _launch: launch_measure and the source fields; a writ step takes over the claim's measure.
LaunchOk(w) ==
    LET a     == job[w].acct
        r     == job[w].seen
        s     == job[w].step
        claim == {m \in rows[a] : s.action = "writ" /\ m.action = "claim" /\ m.status \in {"open", "failed"}}
        kept  == WithoutFailed(a, r, s)
    IN
    /\ job[w].at = "launch" /\ s.action # "messenger"
    /\ rows' = [rows EXCEPT ![a] =
            IF claim # {}
            THEN LET c == CHOOSE c \in claim : TRUE IN
                 (kept \ {c}) \cup {[NewRow(a, r, s, c.status) EXCEPT !.name = c.name, !.aged = c.aged]}
            ELSE kept \cup {NewRow(a, r, s, IF s.auto /\ s.action = "sms" THEN "done" ELSE "open")}]
    /\ acc' \in IF s.action = "writ" THEN {acc, [acc EXCEPT ![a].case = TRUE]} ELSE {acc}
    /\ Again(w, ~s.blocks \/ s.auto)
    /\ UNCHANGED <<scen, run, hist, auto>>

\* launch_measure refuses; the row remembers it (_remember_blocked).  A step refused again
\* may be the twelfth and last of its advance.
LaunchRefused(w) ==
    LET a == job[w].acct
        r == job[w].seen
        s == job[w].step IN
    /\ job[w].at = "launch" /\ s.action # "messenger"
    /\ IF \E m \in StartedOf(Own(a, r), s) : m.status = "failed"
       THEN UNCHANGED rows /\ \E goes \in {~s.blocks, FALSE} : Again(w, goes)
       ELSE /\ rows' = [rows EXCEPT ![a] = @ \cup {NewRow(a, r, s, "failed")}]
            /\ Again(w, ~s.blocks)
    /\ UNCHANGED <<scen, run, hist, acc, auto>>

-----------------------------------------------------------------------------
(* Services that end or begin a run *)

Free(w, op) == job[w].at = "idle" /\ op \in Ops

\* upgrade_legacy_scenario: unchanged stock chains become the standard row, revisions too.
Upgraded(p) == IF p \in Stock THEN Standard ELSE p
Upgrade(s) ==
    [scen EXCEPT ![s].draft = Upgraded(@), ![s].revs = [v \in DOMAIN @ |-> Upgraded(@[v])]]

NewRun(s) == [NoRun EXCEPT !.scen = s, !.ver = Len(scen[s].revs)]

\* _close_measures: the measures of the account, a disconnect already carried out excepted.
ClosedBy(a, st) ==
    {IF m.status \in {"open", "failed"} /\ ~m.cut THEN [m EXCEPT !.status = st] ELSE m : m \in rows[a]}

\* Mutant: only a failed call is taken up.
BackfilledFailed(a) ==
    /\ acc[a].debt # "none" /\ ~acc[a].case
    /\ \E m \in rows[a] : m.action = "call" /\ m.status = "failed"

\* backfill_visible_measures takes an account with a debt and without a case, if it has no
\* measure at all or a call that failed.
Backfilled(a) ==
    /\ acc[a].debt # "none" /\ ~acc[a].case
    /\ rows[a] = {} \/ \E m \in rows[a] : m.action = "call" /\ m.status = "failed"

\* bind_imported_run without its advance
Bind(a) ==
    IF Exists(run[a])
    THEN scen' = Upgrade(Default) /\ UNCHANGED <<run, hist>>
    ELSE /\ scen' = Upgrade(Default)
         /\ run' = [run EXCEPT ![a] = [NewRun(Default) EXCEPT !.awaiting = ~auto]]
         /\ hist' = [hist EXCEPT ![a][Default] = @ + 1]

\* Mutant: a paid account keeps its measures open.
SettleRunOnly(a) ==
    /\ rows' = rows
    /\ run'  = IF Exists(run[a]) /\ ~run[a].finished
               THEN [run EXCEPT ![a].finished = TRUE, ![a].awaiting = FALSE] ELSE run
    /\ hist' = IF Exists(run[a]) /\ ~run[a].finished
               THEN [hist EXCEPT ![a][run[a].scen] = 0] ELSE hist

Settle(a) ==
    /\ rows' = [rows EXCEPT ![a] = ClosedBy(a, "done")]
    /\ run'  = IF Exists(run[a]) /\ ~run[a].finished
               THEN [run EXCEPT ![a].finished = TRUE, ![a].awaiting = FALSE] ELSE run
    /\ hist' = IF Exists(run[a]) /\ ~run[a].finished
               THEN [hist EXCEPT ![a][run[a].scen] = 0] ELSE hist

\* The end of an import batch: refresh_account settles a paid account, then the backfill.
ImportPaid(w, a) ==
    /\ Free(w, "import") /\ acc[a].debt = "none"
    /\ Settle(a)
    /\ UNCHANGED <<scen, acc, auto, job>>

ImportDebtor(w, a) ==
    /\ Free(w, "import") /\ Backfilled(a) /\ ~acc[a].blocked
    /\ Bind(a)
    /\ IF run'[a].finished \/ run'[a].awaiting \/ run'[a].paused THEN UNCHANGED job ELSE Advance(w, a)
    /\ UNCHANGED <<rows, acc, auto>>

\* start_accounts, the button.
Start(w, a) ==
    /\ Free(w, "start") /\ ~acc[a].blocked
    /\ ~Exists(run[a]) => acc[a].debt # "none"
    /\ ~run[a].finished
    /\ IF Exists(run[a])
       THEN run' = [run EXCEPT ![a].awaiting = FALSE] /\ UNCHANGED <<scen, hist>>
       ELSE /\ scen' = Upgrade(Default)
            /\ run' = [run EXCEPT ![a] = NewRun(Default)]
            /\ hist' = [hist EXCEPT ![a][Default] = @ + 1]
    /\ Advance(w, a)
    /\ UNCHANGED <<rows, acc, auto>>

\* Mutant: the assignment of the replaced scenario stays open.
HistoryKept(a, s) == [hist EXCEPT ![a][s] = @ + 1]

\* Mutant: the assignment of a run that is over is closed once more.
HistoryClosedTwice(a, s) ==
    [hist EXCEPT ![a] = [t \in Scenarios |->
        IF t = s THEN 1 ELSE IF t = run[a].scen THEN @[t] - 1 ELSE @[t]]]

\* _finish_run of the run that is replaced, and _remember of the new one.
HistoryMoved(a, s) ==
    [hist EXCEPT ![a] = [t \in Scenarios |->
        LET rest == IF t = run[a].scen /\ ~run[a].finished THEN 0 ELSE @[t]
        IN  rest + IF t = s THEN 1 ELSE 0]]

\* replace_accounts
Replace(w, a, s) ==
    /\ Free(w, "replace") /\ scen[s].status = "active"
    /\ IF run[a].scen = s /\ ~run[a].finished
       THEN /\ run' = [run EXCEPT ![a].ver = Len(scen[s].revs), ![a].awaiting = ~auto]
            /\ UNCHANGED <<rows, hist>>
       ELSE /\ rows' = IF Exists(run[a]) /\ ~run[a].finished
                       THEN [rows EXCEPT ![a] = ClosedBy(a, "cancelled")] ELSE rows
            /\ run'  = [run EXCEPT ![a] = [NewRun(s) EXCEPT !.awaiting = ~auto, !.aged = run[a].aged]]
            /\ hist' = HistoryMoved(a, s)
    /\ IF auto THEN Advance(w, a) ELSE UNCHANGED job
    /\ UNCHANGED <<scen, acc, auto>>

\* assign_run: a finished run stays finished, whatever is assigned.
Assign(w, a, s, upgrade, paused) ==
    LET r        == run[a]
        switched == r.scen # s
        ends     == switched /\ ~r.finished
        ver      == IF upgrade \/ switched THEN Len(scen[s].revs) ELSE r.ver
        waits    == IF paused THEN r.awaiting /\ ~(ends /\ Exists(r)) ELSE ~auto
    IN
    /\ Free(w, "assign") /\ scen[s].status = "active"
    /\ rows' = IF Exists(r) /\ ends THEN [rows EXCEPT ![a] = ClosedBy(a, "cancelled")] ELSE rows
    /\ hist' = IF ~Exists(r) \/ ends THEN HistoryMoved(a, s) ELSE hist
    /\ run'  = [run EXCEPT ![a] =
            [r EXCEPT !.scen = s, !.ver = ver, !.paused = paused, !.awaiting = waits,
                      !.skipped = IF ends THEN {} ELSE @]]
    /\ IF ~paused /\ ~waits THEN Advance(w, a) ELSE UNCHANGED job
    /\ UNCHANGED <<scen, acc, auto>>

\* skip_current_step: the open measures of the first step that is not done are cancelled.
SkipStep(w, a) ==
    LET r    == run[a]
        own  == Own(a, r)
        left == {PlanOf(r)[i].order : i \in DOMAIN PlanOf(r)} \ DoneOrders(own, r) IN
    /\ Free(w, "skip") /\ Exists(r) /\ ~r.paused
    /\ left # {}
    /\ LET first == CHOOSE o \in left : \A p \in left : o <= p IN
       /\ rows' = [rows EXCEPT ![a] =
               {IF m \in own /\ m.order = first /\ m.status \in {"open", "failed"}
                THEN [m EXCEPT !.status = "cancelled"] ELSE m : m \in @}]
       /\ run' = [run EXCEPT ![a].skipped = @ \cup {first}]
    /\ Advance(w, a)
    /\ UNCHANGED <<scen, hist, acc, auto>>

Changed(a, m, st, name) ==
    rows' = [rows EXCEPT ![a] = (@ \ {m}) \cup {[m EXCEPT !.status = st, !.name = name, !.aged = FALSE]}]

\* rollup(): a result changes the measure; a done one advances its account.
FinishRow(w, a, m, st) ==
    /\ Free(w, "finish") /\ m.status # st /\ m.status # "cancelled"
    /\ Changed(a, m, st, m.name)
    /\ IF st = "done" /\ Exists(m) THEN Advance(w, a) ELSE UNCHANGED job
    /\ UNCHANGED <<scen, run, hist, acc, auto>>

\* stop_measure and _finish_if_complete
StopRow(w, a, m) ==
    LET r    == run[a]
        rest == {n \in Own(a, r) \ {m} : n.status \in {"open", "failed"}}
        ends == Exists(r) /\ ~r.finished /\ rest = {} /\ Own(a, r) # {} IN
    /\ Free(w, "stop")
    /\ Changed(a, m, "done", m.name)
    /\ run'  = IF ends THEN [run EXCEPT ![a].finished = TRUE, ![a].awaiting = FALSE] ELSE run
    /\ hist' = IF ends THEN [hist EXCEPT ![a][r.scen] = 0] ELSE hist
    /\ UNCHANGED <<scen, acc, auto, job>>

\* open_case and sync_claim_measure: the case is a row of the register, named for its stage,
\* without an advance.
OpenCase(w, a) ==
    /\ Free(w, "case") /\ ~acc[a].case /\ acc[a].debt = "large"
    /\ acc' = [acc EXCEPT ![a].case = TRUE]
    /\ rows' = [rows EXCEPT ![a] = IF \E m \in @ : m.action \in {"claim", "writ"} THEN @
            ELSE @ \cup {[scen |-> None, ver |-> 0, order |-> 0, action |-> "claim", copy |-> 0,
                          status |-> "open", name |-> "none", aged |-> FALSE, cut |-> FALSE]}]
    /\ UNCHANGED <<scen, run, hist, auto, job>>

SyncClaim(w, a, m, st) ==
    /\ Free(w, "sync") /\ acc[a].case
    /\ \/ m.action = "claim"
       \/ m.action = "writ" /\ \A n \in rows[a] : n.action # "claim"
    /\ st # m.status
    /\ Changed(a, m, st, "none")
    /\ UNCHANGED <<scen, run, hist, acc, auto, job>>

-----------------------------------------------------------------------------
(* The editor *)

\* check_steps: no dead end, one exclusive resource per order.
CheckSteps(plan) ==
    /\ plan # <<>>
    /\ \A i, j \in DOMAIN plan :
          plan[i].order = plan[j].order /\ {plan[i].action, plan[j].action} \subseteq {"call", "disconnect", "writ"}
          => plan[i].action = plan[j].action
    /\ \A i \in DOMAIN plan : plan[i].terminal \/ \E j \in DOMAIN plan : plan[j].order > plan[i].order

\* perform_create, perform_update
EditDraft(w, s, p) ==
    /\ Free(w, "edit") /\ CheckSteps(StepsOf[p]) /\ scen[s].draft # p
    /\ scen' = [scen EXCEPT ![s].draft = p, ![s].status = IF @ = "none" THEN "draft" ELSE @]
    /\ UNCHANGED <<run, rows, hist, acc, auto, job>>

\* Mutant: the published steps overwrite the current version.
PublishOver(s, p, move) ==
    /\ CheckSteps(StepsOf[p]) /\ Len(scen[s].revs) > 0
    /\ scen' = [scen EXCEPT ![s].status = "active", ![s].draft = p, ![s].revs[Len(scen[s].revs)] = p]
    /\ run' = run

\* publish: the next number, its revision, and the runs that are moved if that is asked.
PublishAs(s, p, move) ==
    /\ CheckSteps(StepsOf[p]) /\ Len(scen[s].revs) < MaxVersion
    /\ scen' = [scen EXCEPT ![s].status = "active", ![s].draft = p, ![s].revs = Append(@, p)]
    /\ run' = [a \in Accounts |-> IF move /\ run[a].scen = s
                                  THEN [run[a] EXCEPT !.ver = Len(scen[s].revs) + 1] ELSE run[a]]

Publish(w, s, move) ==
    /\ Free(w, "publish") /\ scen[s].status # "none"
    /\ PublishAs(s, scen[s].draft, move)
    /\ UNCHANGED <<rows, hist, acc, auto, job>>

RestoreScenario(w, s, v, move) ==
    /\ Free(w, "restore") /\ v \in DOMAIN scen[s].revs
    /\ PublishAs(s, scen[s].revs[v], move)
    /\ UNCHANGED <<rows, hist, acc, auto, job>>

CopyScenario(w, s, t) ==
    /\ Free(w, "copy") /\ scen[s].status # "none" /\ scen[t].status = "none"
    /\ scen' = [scen EXCEPT ![t].status = "draft", ![t].draft = scen[s].draft]
    /\ UNCHANGED <<run, rows, hist, acc, auto, job>>

-----------------------------------------------------------------------------
(* What happens to the account meanwhile *)

SetMode ==
    /\ "mode" \in Ops /\ auto' = ~auto
    /\ UNCHANGED <<scen, run, rows, hist, acc, job>>

Debt(a) ==
    /\ \/ "debt" \in Ops /\ acc' = [acc EXCEPT ![a].debt = "large"]
       \/ "pay" \in Ops /\ acc' = [acc EXCEPT ![a].debt = "none"]
    /\ UNCHANGED <<scen, run, rows, hist, auto, job>>

\* An inheritance case or a death begins or ends.
Block(a) ==
    /\ "block" \in Ops
    /\ acc' = [acc EXCEPT ![a].blocked = ~@]
    /\ UNCHANGED <<scen, run, rows, hist, auto, job>>

\* record_item, deliver_warnings: the date of delivery on the warning's row.
Deliver(a) ==
    /\ "deliver" \in Ops /\ acc[a].warn = "no"
    /\ \E m \in rows[a] : m.action = "warning" /\ m.status \in {"open", "done"}
    /\ acc' = [acc EXCEPT ![a].warn = "waiting"]
    /\ UNCHANGED <<scen, run, rows, hist, auto, job>>

\* The supplier confirms the suspension.
CutOff(a) ==
    /\ "cut" \in Ops
    /\ \E m \in rows[a] :
          /\ m.action = "disconnect" /\ m.status = "open" /\ ~m.cut
          /\ rows' = [rows EXCEPT ![a] = (@ \ {m}) \cup {[m EXCEPT !.cut = TRUE]}]
    /\ UNCHANGED <<scen, run, hist, acc, auto, job>>

\* The days a step waits for pass.
DayPasses ==
    /\ "day" \in Ops
    /\ run'  = [a \in Accounts |-> IF Exists(run[a]) THEN [run[a] EXCEPT !.aged = TRUE] ELSE run[a]]
    /\ rows' = [a \in Accounts |-> {IF m.status = "done" THEN [m EXCEPT !.aged = TRUE] ELSE m : m \in rows[a]}]
    /\ acc'  = [a \in Accounts |-> IF acc[a].warn = "waiting" THEN [acc[a] EXCEPT !.warn = "due"] ELSE acc[a]]
    /\ UNCHANGED <<scen, hist, auto, job>>

Import(w, a) == ImportPaid(w, a) \/ ImportDebtor(w, a)

Step1(w) == Enter(w) \/ Look(w) \/ SkipMessenger(w) \/ LaunchOk(w) \/ LaunchRefused(w)

Next ==
    \/ \E w \in Workers :
          \/ Step1(w)
          \/ \E a \in Accounts :
                \/ Import(w, a) \/ Start(w, a) \/ SkipStep(w, a) \/ OpenCase(w, a)
                \/ \E s \in Scenarios : \/ Replace(w, a, s)
                                        \/ \E u, p \in BOOLEAN : Assign(w, a, s, u, p)
                \/ \E m \in rows[a] : \/ StopRow(w, a, m)
                                      \/ \E st \in Outcomes : FinishRow(w, a, m, st)
                                      \/ \E st \in {"open", "done"} : SyncClaim(w, a, m, st)
          \/ \E s \in Scenarios :
                \/ \E p \in Plans : EditDraft(w, s, p)
                \/ \E mv \in BOOLEAN : \/ Publish(w, s, mv)
                                       \/ \E v \in 1..MaxVersion : RestoreScenario(w, s, v, mv)
                \/ \E t \in Scenarios : CopyScenario(w, s, t)
    \/ SetMode \/ DayPasses
    \/ \E a \in Accounts : Debt(a) \/ Block(a) \/ Deliver(a) \/ CutOff(a)

Spec == Init /\ [][Next]_vars

\* Requests that were begun end, days pass, imports come again and again.
FairSpec ==
    /\ Spec
    /\ WF_vars(DayPasses)
    /\ \A w \in Workers : WF_vars(Step1(w))
    /\ \A a \in Accounts : SF_vars(\E w \in Workers : Import(w, a))

-----------------------------------------------------------------------------
(* Properties *)

SameStep(m, n) == m.scen = n.scen /\ m.ver = n.ver /\ m.order = n.order /\ m.action = n.action

\* A step of a scenario version is launched once on an account, whatever is cancelled,
\* replaced or skipped between two advances (_already_started).
StepLaunchedOnce ==
    \A a \in Accounts : \A m, n \in rows[a] :
        Exists(m) /\ SameStep(m, n) /\ "failed" \notin {m.status, n.status} => m = n

\* The open assignments of an account are the scenario of its run, one row, and none when
\* the run is over: replace, assign, settle and stop keep the history and the run together.
AssignmentsFollowRun ==
    \A a \in Accounts, s \in Scenarios :
        hist[a][s] = IF run[a].scen = s /\ ~run[a].finished THEN 1 ELSE 0

SameRow(m, n) == SameStep(m, n) /\ m.copy = n.copy

Launched(a) == {m \in rows'[a] : Exists(m) /\ ~\E n \in rows[a] : SameRow(m, n)}

\* A step begins, or begins again after a refusal, only behind closed blocking steps of the
\* same version, on a run that is neither over, paused nor waiting for the button.
StepsInOrder ==
    [][\A a \in Accounts : Launched(a) # {} =>
          /\ ~(run[a].finished \/ run[a].paused \/ run[a].awaiting)
          /\ \A m \in Own(a, run[a]) : m.status = "open" => ~Blocks(PlanOf(run[a]), m)]_vars

\* A run that ends leaves no measure of its version open, except a service cut off.
RunEndsClosed ==
    [][\A a \in Accounts : run'[a].finished /\ ~run[a].finished =>
          \A m \in rows'[a] : m.scen = run[a].scen /\ m.ver = run[a].ver =>
              m.status \in {"done", "cancelled"} \/ m.cut]_vars

\* What a version's steps are never changes, the upgrade of a stock chain excepted.
RevisionsStay ==
    [][\A s \in Scenarios : \A v \in DOMAIN scen[s].revs :
          /\ v \in DOMAIN scen'[s].revs
          /\ scen'[s].revs[v] \in {scen[s].revs[v], Upgraded(scen[s].revs[v])}]_vars

\* A debtor without any measure whom nothing holds.
Untouched(a) ==
    /\ rows[a] = {} /\ acc[a].debt # "none" /\ ~acc[a].blocked /\ ~acc[a].case
    /\ IF Exists(run[a]) THEN ~(run[a].finished \/ run[a].paused \/ run[a].awaiting) ELSE auto

CanBegin(a) ==
    Exists(run[a]) =>
        \E i \in DOMAIN PlanOf(run[a]) : /\ Matches(a, PlanOf(run[a])[i])
                                         /\ PlanOf(run[a])[i].order \notin run[a].skipped
                                         /\ PlanOf(run[a])[i].action # "messenger"

\* In the automatic mode imports see to it that a new debtor gets a first measure.
NewDebtorIsTaken ==
    \A a \in Accounts : Untouched(a) ~> ~(Untouched(a) /\ CanBegin(a))

\* A step whose turn has come, on a run that nothing holds.
Due(a) ==
    /\ Exists(run[a]) /\ ~(run[a].finished \/ run[a].paused \/ run[a].awaiting)
    /\ acc[a].debt # "none" /\ ~acc[a].blocked
    /\ NextStep(a, run[a]) # {}

\* "Через 5 дней после вручения, если долг не погашен: отключение, надпись, иск и ОПИ"
\* (nsi/services/scenarios.py:453): a step whose days are over is launched.
DueStepIsLaunched == \A a \in Accounts : Due(a) ~> ~Due(a)

===============================================================================
