------------------------------ MODULE Autocall ------------------------------
(***************************************************************************)
(* The automatic calls (debts/services/autocall.py): a run of dial_calls   *)
(* or the button "Провести" goes through parties and rows, asks the        *)
(* gateway to call each debtor that is due, waits until the call is over   *)
(* and writes the outcome into the row.  The gateway holds one connection  *)
(* to the station (Asterisk AMI) per call; the station tells every         *)
(* connection about every call, and the connection picks its own.          *)
(*                                                                         *)
(* A row is due by what the run loaded at the start of the party: rows may *)
(* change while the calls go on.  Requests of people are one step here,    *)
(* their own races are in MeasureParty; what a message listened to does to *)
(* the scenario (advance_account) is in ScenarioRun.                       *)
(***************************************************************************)
EXTENDS Integers, PartyStatus

CONSTANTS
    Parties,    \* call parties, by id
    Items,      \* rows of the parties, by id
    PartyOf,    \* party of a row
    Scenario,   \* parties a scenario has launched; the others were made by hand
    Every,      \* days between calls of a row: every_days of its group, 0 for once
    Dialers,    \* the command dial_calls and the workers that serve the button
    Calls,      \* bound: calls the station holds at a time
    MaxDay,     \* bound on the days
    MaxEdits,   \* bound on what people write
    Overlap,    \* TRUE: a run may begin on a party that another has still to do
    Fates,      \* bound: the outcomes of a call
    Shares,     \* bound: what the dial plan tells of the listening
    ByHand,     \* bound: the outcomes with shares that people write
    Faults,     \* what the station and the network may do wrong
    Ops         \* what people do meanwhile

CallResult == {"answered", "no_answer", "busy", "bad_number"}
\* Share of the message that was listened to: unknown, less than 70 %, at least 70 %.
Listen == {"none", "low", "heard"}

AutocallAssumption ==
    /\ Parties \subseteq Nat \ {0} /\ Items \subseteq Nat \ {0} /\ Calls \subseteq Nat \ {0}
    /\ PartyOf \in [Items -> Parties]
    /\ Scenario \subseteq Parties
    /\ Every \in [Items -> Nat]
    /\ MaxDay \in Nat \ {0} /\ MaxEdits \in Nat
    /\ Overlap \in BOOLEAN
    /\ Fates \subseteq CallResult /\ Shares \subseteq Listen \ {"none"}
    /\ ByHand \subseteq CallResult \X Listen
    /\ Faults \subseteq {"refused", "vague", "leg", "lost"}
    /\ Ops \subseteq {"result", "close", "stop"}
ASSUME AutocallAssumption

VARIABLES
    today,      \* the day
    party,      \* Measure rows
    row,        \* MeasureItem rows
    attempt,    \* status of the last CallAttempt of a row
    last,       \* last call of a row by a dialer, and whether its outcome was written since
    line,       \* the station's calls: what really happens
    job,        \* dialers
    edits       \* how often people wrote into a row

vars == <<today, party, row, attempt, last, line, job, edits>>

-----------------------------------------------------------------------------

AttemptStatus == {"done", "busy", "bad_number", "no_answer", "failed"}

Days == 0 .. MaxDay

Party == [status: PartyStatus, stopped: BOOLEAN]
\* acted: the day of the last outcome, 0 for none.
Row == [status: ItemStatus, result: CallResult \cup {"none"}, listen: Listen, acted: Days]

\* What really happens to a call; the station is done with it when it is over.  An ending one
\* has failed, and its channel has still to hang up.
Line == [state: {"free", "dialing", "up", "ending", "over"}, fate: CallResult \cup {"none"}, listen: Listen]

NoLine == [state |-> "free", fate |-> "none", listen |-> "none"]

\* What _wait_outcome knows of its call: the outcome, the station's id of the call, the share
\* listened to; and whether it has stopped waiting with a report or with an error.
Client == [status: CallResult \cup {"none"}, known: BOOLEAN, listen: Listen,
           end: {"no", "told", "error"}]
NewClient == [status |-> "none", known |-> FALSE, listen |-> "none", end |-> "no"]

\* at: the party at hand; day: the moment of the run, taken once; left: the loaded parties
\* still to do; seen: the loaded rows of the party still to call.
Job == [at: Parties \cup {0}, day: Days,
        left: UNION {[P -> Party] : P \in SUBSET Parties},
        seen: UNION {[I -> Row] : I \in SUBSET Items},
        item: Items \cup {0}, call: Calls \cup {0}, ami: Client]

Nothing == [x \in {} |-> x]
Idle == [at |-> 0, day |-> 0, left |-> Nothing, seen |-> Nothing, item |-> 0, call |-> 0,
         ami |-> NewClient]

TypeOK ==
    /\ today \in 1 .. MaxDay /\ edits \in 0 .. MaxEdits
    /\ party \in [Parties -> Party]
    /\ row \in [Items -> Row]
    /\ attempt \in [Items -> AttemptStatus \cup {"none"}]
    /\ last \in [Items -> [day: Days, told: BOOLEAN, result: CallResult \cup {"none"}]]
    /\ line \in [Calls -> Line]
    /\ job \in [Dialers -> Job]
    /\ \A d \in Dialers :
          /\ job[d].at \in DOMAIN job[d].left \cup {0}
          /\ \A i \in DOMAIN job[d].seen : PartyOf[i] = job[d].at
          /\ job[d].call # 0 => job[d].item \in DOMAIN job[d].seen
          /\ job[d].ami.end = "told" => job[d].ami.status # "none"

Init ==
    /\ today   = 1
    /\ edits   = 0
    /\ party   = [p \in Parties |-> [status |-> "assigned", stopped |-> FALSE]]
    /\ row     = [i \in Items |-> [status |-> "assigned", result |-> "none", listen |-> "none", acted |-> 0]]
    /\ attempt = [i \in Items |-> "none"]
    /\ last    = [i \in Items |-> [day |-> 0, told |-> FALSE, result |-> "none"]]
    /\ line    = [k \in Calls |-> NoLine]
    /\ job     = [d \in Dialers |-> Idle]

RowsOf(p) == {i \in Items : PartyOf[i] = p}

-----------------------------------------------------------------------------
(* The client of the station: _wait_outcome reads one message. *)

\* Mutant: events are taken for one's own whatever call they are of.
SameCallAny(c, k, m) == c.known
\* _same_call: by the ActionID of the request or by the Uniqueid the station has answered.
\* The events after the answer carry the latter.
SameCall(c, k, m) == c.known /\ m.of = k

\* A message of another call changes nothing.  An answered call is waited for to its end; the
\* cause of a hang-up is the outcome when no other was told (classify_cause).
Read(c, k, m) ==
    IF c.end # "no" THEN c ELSE
    CASE m.kind = "refused" -> IF m.of = k THEN [c EXCEPT !.end = "error"] ELSE c
      [] m.kind = "started" ->
            IF m.of # k THEN c
            ELSE IF m.fate = "none" THEN [c EXCEPT !.known = TRUE]
            ELSE [c EXCEPT !.known = TRUE, !.status = m.fate,
                           !.end = IF m.fate = "answered" THEN "no" ELSE "told"]
      [] m.kind = "played" /\ SameCall(c, k, m) -> [c EXCEPT !.listen = m.listen]
      [] m.kind = "hangup" /\ SameCall(c, k, m) ->
            [c EXCEPT !.end = "told", !.status = IF @ = "none" THEN m.cause ELSE @]
      [] OTHER -> c

\* The share is reported of an answered call only.
Reported(c) == IF c.status = "answered" THEN c.listen ELSE "none"

Hears(m) == [d \in Dialers |->
               IF job[d].call = 0 THEN job[d]
               ELSE [job[d] EXCEPT !.ami = Read(@, job[d].call, m)]]

-----------------------------------------------------------------------------
(* The station *)

\* A call whose client has gone is forgotten when it is over.
InUse(k) == \E d \in Dialers : job[d].call = k

Over(k, fate) ==
    IF InUse(k) THEN [line EXCEPT ![k] = [@ EXCEPT !.state = "over", !.fate = fate]]
    ELSE [line EXCEPT ![k] = NoLine]

StationOnly == UNCHANGED <<today, party, row, attempt, last, edits>>

\* Response: Error goes to the connection that asked.
StationRefuses(k) ==
    /\ "refused" \in Faults
    /\ line[k].state = "dialing"
    /\ line' = Over(k, line[k].fate)
    /\ job' = Hears([kind |-> "refused", of |-> k])
    /\ StationOnly

\* OriginateResponse; "vague" is one without a reason, the hang-up of the channel is to come.
StationAnswers(k, fate) ==
    /\ line[k].state = "dialing"
    /\ \/ /\ line' = IF fate = "answered" THEN [line EXCEPT ![k].state = "up", ![k].fate = fate]
                     ELSE Over(k, fate)
          /\ job' = Hears([kind |-> "started", of |-> k, fate |-> fate])
       \/ /\ "vague" \in Faults
          /\ line' = [line EXCEPT ![k].state = IF fate = "answered" THEN "up" ELSE "ending",
                                  ![k].fate = fate]
          /\ job' = Hears([kind |-> "started", of |-> k, fate |-> "none"])
    /\ StationOnly

\* The dial plan tells how much was listened to, if it does.
StationPlays(k, share) ==
    /\ line[k].state = "up"
    /\ line[k].listen = "none"
    /\ line' = [line EXCEPT ![k].listen = share]
    /\ job' = Hears([kind |-> "played", of |-> k, listen |-> share])
    /\ StationOnly

\* HANGUP_CAUSE has no cause of an answer: a call that was up ends as not answered.
Causes == CallResult \ {"answered"}

StationHangsUp(k) ==
    /\ line[k].state \in {"up", "ending"}
    /\ line' = Over(k, line[k].fate)
    /\ job' = Hears([kind |-> "hangup", of |-> k,
                     cause |-> IF line[k].fate \in Causes THEN line[k].fate ELSE "no_answer"])
    /\ StationOnly

\* A channel linked to the call (a transfer) ends before the call does, for a cause of its own.
LegHangsUp(k) ==
    /\ "leg" \in Faults
    /\ line[k].state = "up"
    /\ \E cause \in Causes : job' = Hears([kind |-> "hangup", of |-> k, cause |-> cause])
    /\ UNCHANGED line
    /\ StationOnly

-----------------------------------------------------------------------------
(* The dialer *)

\* Mutant: the day of the last call counts as one of the days between.
AttemptDueEarly(p, r, i, day) ==
    /\ ~p.stopped
    /\ IF PartyOf[i] \in Scenario THEN ~(r.listen = "heard" /\ r.acted = day) ELSE r.result # "answered"
    /\ IF Every[i] = 0 THEN r.acted = 0 /\ r.result = "none"
       ELSE r.acted = 0 \/ day - r.acted >= Every[i] - 1

\* _repeat_rule, _attempt_due, _heard_today.
AttemptDue(p, r, i, day) ==
    /\ ~p.stopped
    /\ IF PartyOf[i] \in Scenario THEN ~(r.listen = "heard" /\ r.acted = day) ELSE r.result # "answered"
    /\ IF Every[i] = 0 THEN r.acted = 0 /\ r.result = "none"
       ELSE r.acted = 0 \/ day - r.acted >= Every[i]

\* Parties and rows are taken in the order of their ids.
First(x, S) == x \in S /\ \A y \in S : x =< y

\* dial_due_calls takes every open party, the button one; P are those of them whose window
\* and first day (_campaign_open) hold at the moment.  Moment and parties stay as loaded.
Begin(d, P) ==
    LET due == {p \in P : party[p].status \in {"assigned", "running"}}
    IN /\ job[d] = Idle
       /\ due # {}
       /\ Overlap \/ \A e \in Dialers : due \cap DOMAIN job[e].left = {}
       /\ job' = [job EXCEPT ![d] = [Idle EXCEPT !.day = today, !.left = [p \in due |-> party[p]]]]
       /\ UNCHANGED <<today, party, row, attempt, last, line, edits>>

\* The rows of the next party are read at once.
LoadItems(d, p) ==
    LET due == {i \in RowsOf(p) : /\ row[i].status \in OpenItem
                                  /\ AttemptDue(job[d].left[p], row[i], i, job[d].day)}
    IN /\ job[d].at = 0 /\ First(p, DOMAIN job[d].left)
       /\ job' = [job EXCEPT ![d].at = p, ![d].seen = [i \in due |-> row[i]]]
       /\ UNCHANGED <<today, party, row, attempt, last, line, edits>>

PartyDone(d) ==
    /\ job[d].at # 0 /\ DOMAIN job[d].seen = {}
    /\ LET left == [p \in DOMAIN job[d].left \ {job[d].at} |-> job[d].left[p]]
       IN job' = [job EXCEPT ![d] = IF DOMAIN left = {} THEN Idle ELSE [@ EXCEPT !.at = 0, !.left = left]]
    /\ UNCHANGED <<today, party, row, attempt, last, line, edits>>

\* dial: the gateway connects and asks the station for a call.  The bound on Calls forgets a
\* call that nobody waits for any more.
PlaceCall(d, i, k) ==
    /\ job[d].call = 0 /\ First(i, DOMAIN job[d].seen) /\ ~InUse(k)
    /\ line' = [line EXCEPT ![k] = [NoLine EXCEPT !.state = "dialing"]]
    /\ last' = [last EXCEPT ![i] = [day |-> job[d].day, told |-> FALSE, result |-> "none"]]
    /\ job' = [job EXCEPT ![d] = [@ EXCEPT !.item = i, !.call = k, !.ami = NewClient]]
    /\ UNCHANGED <<today, party, row, attempt, edits>>

\* ami_wait_sec are over, or the connection is lost: what is known by then is the outcome.
StopWaiting(d) ==
    /\ job[d].call # 0 /\ job[d].ami.end = "no"
    /\ job' = [job EXCEPT ![d].ami.end = IF job[d].ami.status = "none" THEN "error" ELSE "told"]
    /\ UNCHANGED <<today, party, row, attempt, last, line, edits>>

LeftLine(k) == IF line[k].state = "over" THEN [line EXCEPT ![k] = NoLine] ELSE line

\* Mutant: the next row is begun on the old connection.
NextRowHeld(j) == [j EXCEPT !.item = 0, !.seen = [i \in DOMAIN @ \ {j.item} |-> @[i]]]

NextRow(j) == [j EXCEPT !.item = 0, !.call = 0, !.ami = NewClient,
                        !.seen = [i \in DOMAIN @ \ {j.item} |-> @[i]]]

\* GatewayUnavailable: the row is left as it is for the next run.  "lost": the answer of the
\* gateway does not come back, or comes after GATEWAY_DIAL_TIMEOUT.
Unavailable(d) ==
    /\ job[d].call # 0
    /\ job[d].ami.end = "error" \/ "lost" \in Faults
    /\ job' = [job EXCEPT ![d] = NextRow(@)]
    /\ line' = LeftLine(job[d].call)
    /\ UNCHANGED <<today, party, row, attempt, last, edits>>

\* write_call_result on a loaded row: a share that is not told leaves the one there is.
Written(r, i, p, result, listen, day) ==
    [status |-> IF PartyOf[i] \in Scenario /\ ~p.stopped THEN "running"
                ELSE CASE result = "answered"   -> "done"
                       [] result = "bad_number" -> "failed"
                       [] OTHER                 -> "running",
     result |-> result,
     listen |-> IF listen = "none" THEN r.listen ELSE listen,
     acted  |-> day]

\* _remember_attempt
AttemptOf(r) ==
    IF r.listen = "heard" THEN "done"
    ELSE IF r.result = "answered" THEN "failed" ELSE r.result

PartyVerdict(p, R) == Verdict({R[i].status : i \in RowsOf(p)})

\* rollup() of the party as loaded; no party of this module is paused.
Rolled(p, seen, R) ==
    IF seen.status = PartyVerdict(p, R) THEN party ELSE [party EXCEPT ![p].status = PartyVerdict(p, R)]

\* The outcome is written into the row as loaded, every field of it.
Record(d) ==
    LET i == job[d].item
        p == job[d].at
        seen == job[d].left[p]
        r == Written(job[d].seen[i], i, seen, job[d].ami.status, Reported(job[d].ami), job[d].day)
        left == [job[d].left EXCEPT ![p] = [seen EXCEPT !.status = PartyVerdict(p, row')]]
    IN /\ job[d].call # 0 /\ job[d].ami.end = "told"
       /\ row' = [row EXCEPT ![i] = r]
       /\ attempt' = [attempt EXCEPT ![i] = AttemptOf(r)]
       /\ last' = [last EXCEPT ![i].told = TRUE, ![i].result = job[d].ami.status]
       /\ party' = Rolled(p, seen, row')
       /\ job' = [job EXCEPT ![d] = [NextRow(job[d]) EXCEPT !.left = left]]
       /\ line' = LeftLine(job[d].call)
       /\ UNCHANGED <<today, edits>>

-----------------------------------------------------------------------------
(* What people do meanwhile *)

\* record_item with the outcome of a call made by hand.
RecordResult(i, result, listen) ==
    /\ "result" \in Ops
    /\ row' = [row EXCEPT ![i] = Written(@, i, party[PartyOf[i]], result, listen, today)]
    /\ attempt' = [attempt EXCEPT ![i] = AttemptOf(row'[i])]
    /\ last' = [last EXCEPT ![i].told = FALSE]
    /\ party' = Rolled(PartyOf[i], party[PartyOf[i]], row')
    /\ UNCHANGED <<today, line, job>>

\* record_item: done, failed, or taken back with a reason.
RecordStatus(i, st) ==
    /\ "close" \in Ops
    /\ row' = [row EXCEPT ![i].status = st, ![i].acted = today]
    /\ party' = Rolled(PartyOf[i], party[PartyOf[i]], row')
    /\ UNCHANGED <<today, attempt, last, line, job>>

\* stop_measure: the tick on the step.
Stop(i) ==
    LET p == PartyOf[i]
        R == IF row[i].status \in {"done", "cancelled"} THEN row
             ELSE [row EXCEPT ![i].status = "done", ![i].acted = today]
    IN /\ "stop" \in Ops
       /\ row' = R
       /\ party' = IF \A j \in RowsOf(p) : R[j].status \in {"done", "cancelled"}
                   THEN [party EXCEPT ![p] = [status |-> "done", stopped |-> TRUE]]
                   ELSE Rolled(p, party[p], R)
       /\ UNCHANGED <<today, attempt, last, line, job>>

DayPasses == /\ today < MaxDay
             /\ today' = today + 1
             /\ UNCHANGED <<party, row, attempt, last, line, job, edits>>

-----------------------------------------------------------------------------

Station(k) ==
    \/ StationRefuses(k) \/ StationHangsUp(k) \/ LegHangsUp(k)
    \/ \E fate \in Fates : StationAnswers(k, fate)
    \/ \E share \in Shares : StationPlays(k, share)

Dial(d) ==
    \/ PartyDone(d) \/ StopWaiting(d) \/ Unavailable(d) \/ Record(d)
    \/ \E p \in Parties : LoadItems(d, p)
    \/ \E i \in Items, k \in Calls : PlaceCall(d, i, k)

People(i) ==
    /\ edits < MaxEdits
    /\ edits' = edits + 1
    /\ \/ \E told \in ByHand : RecordResult(i, told[1], told[2])
       \/ \E st \in {"done", "failed", "cancelled"} : RecordStatus(i, st)
       \/ Stop(i)

Next ==
    \/ \E k \in Calls : Station(k)
    \/ \E d \in Dialers : Dial(d) \/ \E P \in SUBSET Parties : Begin(d, P)
    \/ \E i \in Items : People(i)
    \/ DayPasses

Spec == Init /\ [][Next]_vars

-----------------------------------------------------------------------------
(* Properties *)

\* The outcome a dialer writes is that of the call it has placed to this debtor, whatever the
\* connection hears of other calls; and a debtor counts as having listened only if he did in
\* this call or in an earlier one that the row remembers (_same_call, write_call_result).
ToldIsOwnCall ==
    [][\A d \in Dialers :
          LET i == job[d].item
              k == job[d].call
          IN k # 0 /\ job'[d].call = 0 /\ last'[i].told =>
                /\ row'[i].result = line[k].fate
                /\ row'[i].listen = "heard" \/ attempt'[i] = "done" =>
                      line[k].listen = "heard" \/ job[d].seen[i].listen = "heard"]_vars

\* A debtor whose call has been written down is called again only after the days of his group,
\* never when the group is called once, and a row made by hand never after an answer:
\* by the days of the runs, whatever people write into the rows meanwhile (_attempt_due).
CallsAreSpaced ==
    [][\A d \in Dialers :
          LET i == job'[d].item
          IN job[d].call = 0 /\ job'[d].call # 0 /\ last[i].told =>
                /\ Every[i] > 0
                /\ job[d].day - last[i].day >= Every[i]
                /\ PartyOf[i] \notin Scenario => last[i].result # "answered"]_vars

=============================================================================
