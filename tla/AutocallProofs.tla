---------------------------- MODULE AutocallProofs ----------------------------
(***************************************************************************)
(* Theorems about Autocall for any parties, rows, groups, dialers and      *)
(* calls of the station, any outcomes, faults and edits.                   *)
(***************************************************************************)
EXTENDS Autocall, TLAPS

-----------------------------------------------------------------------------
(* The inductive invariant *)

\* What the row remembers of a call that was written down: the day at least, and the answer.
Remembered(i) ==
    /\ last[i].day <= today
    /\ last[i].told => /\ 1 <= last[i].day /\ last[i].day <= row[i].acted
                       /\ row[i].result = last[i].result

\* A row in the list of a run, or being called, may be called on the day of the run.
MayBeCalled(d, i) ==
    /\ Every[i] > 0
    /\ job[d].day - last[i].day >= Every[i]
    /\ PartyOf[i] \notin Scenario => last[i].result # "answered"

RunOK(d) ==
    /\ job[d].day <= today
    /\ \A i \in DOMAIN job[d].seen : last[i].told => MayBeCalled(d, i)
    /\ job[d].at # 0 => 1 <= job[d].day
    /\ DOMAIN job[d].left # {} => 1 <= job[d].day
    /\ job[d].at = 0 => DOMAIN job[d].seen = {}
    /\ job[d].call # 0 => last[job[d].item].day = job[d].day

\* Runs that do not overlap have different parties to do.
Apart(d, e) == DOMAIN job[d].left \cap DOMAIN job[e].left = {}

Inv ==
    /\ TypeOK
    /\ \A i \in Items : Remembered(i)
    /\ \A d \in Dialers : RunOK(d)
    /\ \A d, e \in Dialers : d # e => Apart(d, e)

-----------------------------------------------------------------------------
(* The helpers *)

LEMMA VerdictIsStatus == \A S : Verdict(S) \in PartyStatus
  BY DEF Verdict, PartyStatus, ItemStatus

LEMMA ReadIsClient ==
    ASSUME NEW c \in Client, NEW k, NEW m,
           m.kind = "started" => m.fate \in CallResult \cup {"none"},
           m.kind = "played" => m.listen \in Listen,
           m.kind = "hangup" => m.cause \in CallResult
    PROVE  /\ Read(c, k, m) \in Client
           /\ (c.end = "told" => c.status # "none") =>
                (Read(c, k, m).end = "told" => Read(c, k, m).status # "none")
<1> DEFINE x == Read(c, k, m)
           Goal == x \in Client /\ ((c.end = "told" => c.status # "none") =>
                                        (x.end = "told" => x.status # "none"))
<1> USE DEF Client, CallResult, Listen
<1>1. ASSUME c.end # "no" PROVE Goal
  <2>1. x = c
    BY <1>1 DEF Read
  <2> HIDE DEF x
  <2> QED BY <2>1
<1>2. ASSUME c.end = "no" /\ m.kind = "refused" PROVE Goal
  BY <1>2 DEF Read
<1>3. ASSUME c.end = "no" /\ m.kind = "started" PROVE Goal
  <2>1. x = IF m.of # k THEN c
            ELSE IF m.fate = "none" THEN [c EXCEPT !.known = TRUE]
            ELSE [c EXCEPT !.known = TRUE, !.status = m.fate,
                           !.end = IF m.fate = "answered" THEN "no" ELSE "told"]
    BY <1>3 DEF Read
  <2> HIDE DEF x
  <2> QED BY <1>3, <2>1
<1>4. ASSUME c.end = "no" /\ m.kind = "played" PROVE Goal
  <2>1. x = IF SameCall(c, k, m) THEN [c EXCEPT !.listen = m.listen] ELSE c
    BY <1>4 DEF Read
  <2> HIDE DEF x
  <2> QED BY <1>4, <2>1
<1>5. ASSUME c.end = "no" /\ m.kind = "hangup" PROVE Goal
  <2>1. x = IF SameCall(c, k, m)
            THEN [c EXCEPT !.end = "told", !.status = IF c.status = "none" THEN m.cause ELSE c.status]
            ELSE c
    BY <1>5 DEF Read
  <2> HIDE DEF x
  <2> QED BY <1>5, <2>1
<1>6. ASSUME c.end = "no" /\ m.kind \notin {"refused", "started", "played", "hangup"} PROVE Goal
  BY <1>6 DEF Read
<1> HIDE DEF x
<1>7. Goal
  BY <1>1, <1>2, <1>3, <1>4, <1>5, <1>6
<1> QED BY <1>7 DEF x

LEMMA WrittenIsRow ==
    ASSUME NEW r \in Row, NEW i, NEW p, NEW result \in CallResult, NEW listen \in Listen,
           NEW day \in Days
    PROVE  /\ Written(r, i, p, result, listen, day) \in Row
           /\ Written(r, i, p, result, listen, day).acted = day
           /\ Written(r, i, p, result, listen, day).result = result
  BY DEF Written, Row, ItemStatus, CallResult, Listen

LEMMA AttemptIsStatus == \A r \in Row : AttemptOf(r) \in AttemptStatus \cup {"none"}
  BY DEF AttemptOf, Row, CallResult, AttemptStatus

LEMMA RolledIsParty ==
    ASSUME party \in [Parties -> Party], NEW p \in Parties, NEW seen, NEW R
    PROVE  Rolled(p, seen, R) \in [Parties -> Party]
<1>1. PartyVerdict(p, R) \in PartyStatus
  BY VerdictIsStatus DEF PartyVerdict
<1> QED BY <1>1 DEF Rolled, Party

LEMMA LinesAreLines ==
    ASSUME line \in [Calls -> Line]
    PROVE  /\ NoLine \in Line
           /\ \A k \in Calls, fate \in CallResult \cup {"none"} : Over(k, fate) \in [Calls -> Line]
           /\ \A k \in Calls : LeftLine(k) \in [Calls -> Line]
           /\ \A k \in Calls, fate \in CallResult, st \in {"up", "ending"} :
                 [line EXCEPT ![k].state = st, ![k].fate = fate] \in [Calls -> Line]
<1>1. NoLine \in Line
  BY DEF NoLine, Line, Listen
<1>2. ASSUME NEW k \in Calls, NEW fate \in CallResult \cup {"none"}
      PROVE  Over(k, fate) \in [Calls -> Line]
  BY <1>1 DEF Over, Line
<1>3. ASSUME NEW k \in Calls PROVE LeftLine(k) \in [Calls -> Line]
  BY <1>1 DEF LeftLine
<1>4. ASSUME NEW k \in Calls, NEW fate \in CallResult, NEW st \in {"up", "ending"}
      PROVE  [line EXCEPT ![k].state = st, ![k].fate = fate] \in [Calls -> Line]
  BY DEF Line
<1> QED BY <1>1, <1>2, <1>3, <1>4

\* The row that is called is dropped from the list, nothing else of the run changes.
LEMMA NextRowIsJob ==
    ASSUME NEW j \in Job
    PROVE  /\ NextRow(j) \in Job
           /\ NextRow(j).at = j.at /\ NextRow(j).day = j.day /\ NextRow(j).left = j.left
           /\ NextRow(j).call = 0 /\ NextRow(j).ami = NewClient
           /\ DOMAIN NextRow(j).seen = DOMAIN j.seen \ {j.item}
<1> DEFINE f == [i \in DOMAIN j.seen \ {j.item} |-> j.seen[i]]
<1>1. NextRow(j) = [j EXCEPT !.item = 0, !.call = 0, !.ami = NewClient, !.seen = f]
  BY DEF NextRow, Job
<1>2. PICK I \in SUBSET Items : j.seen \in [I -> Row]
  BY DEF Job
<1>3. f \in [I \ {j.item} -> Row]
  BY <1>2
<1>4. f \in UNION {[J -> Row] : J \in SUBSET Items}
  BY <1>3
<1>5. NewClient \in Client
  BY DEF NewClient, Client, Listen
<1>6. DOMAIN f = DOMAIN j.seen \ {j.item}
  OBVIOUS
<1> HIDE DEF f
<1> QED BY <1>1, <1>4, <1>5, <1>6 DEF Job

-----------------------------------------------------------------------------
(* A run that only hears or waits: its lists and its call stay. *)

Answered(c) == c.end = "told" => c.status # "none"

SameRun(d) == /\ Answered(job[d].ami) => Answered(job'[d].ami)
              /\ job'[d].at = job[d].at /\ job'[d].day = job[d].day
              /\ job'[d].left = job[d].left /\ job'[d].seen = job[d].seen
              /\ job'[d].item = job[d].item /\ job'[d].call = job[d].call

LEMMA HearingKeepsRuns ==
    ASSUME job \in [Dialers -> Job], NEW m, job' = Hears(m),
           m.kind = "started" => m.fate \in CallResult \cup {"none"},
           m.kind = "played" => m.listen \in Listen,
           m.kind = "hangup" => m.cause \in CallResult
    PROVE  job' \in [Dialers -> Job] /\ \A d \in Dialers : SameRun(d)
<1>1. ASSUME NEW d \in Dialers PROVE job'[d] \in Job /\ SameRun(d)
  <2>1. job[d] \in Job /\ job[d].ami \in Client
    BY DEF Job
  <2>2. /\ Read(job[d].ami, job[d].call, m) \in Client
        /\ Answered(job[d].ami) => Answered(Read(job[d].ami, job[d].call, m))
    BY <2>1, ReadIsClient DEF Answered
  <2>3. job'[d] = IF job[d].call = 0 THEN job[d]
                  ELSE [job[d] EXCEPT !.ami = Read(job[d].ami, job[d].call, m)]
    BY <2>1 DEF Hears, Job
  <2> QED BY <2>1, <2>2, <2>3 DEF SameRun, Job
<1>2. job' = [d \in Dialers |-> job'[d]]
  BY DEF Hears
<1> QED BY <1>1, <1>2

LEMMA StationKeepsRuns ==
    ASSUME TypeOK, NEW k \in Calls, Station(k)
    PROVE  /\ job' \in [Dialers -> Job] /\ \A d \in Dialers : SameRun(d)
           /\ line' \in [Calls -> Line]
           /\ StationOnly
<1> DEFINE Goal == /\ job' \in [Dialers -> Job] /\ \A d \in Dialers : SameRun(d)
                   /\ line' \in [Calls -> Line]
                   /\ StationOnly
<1>0. /\ job \in [Dialers -> Job] /\ line \in [Calls -> Line]
      /\ line[k].fate \in CallResult \cup {"none"}
  BY DEF TypeOK, Line
<1>1. CASE StationRefuses(k)
  <2>1. job' = Hears([kind |-> "refused", of |-> k])
    BY <1>1 DEF StationRefuses
  <2>2. job' \in [Dialers -> Job] /\ \A d \in Dialers : SameRun(d)
    BY <1>0, <2>1, HearingKeepsRuns
  <2> QED BY <1>0, <1>1, <2>2, LinesAreLines DEF StationRefuses
<1>2. CASE StationHangsUp(k)
  <2>1. PICK cause \in CallResult : job' = Hears([kind |-> "hangup", of |-> k, cause |-> cause])
    BY <1>2 DEF StationHangsUp, Causes, CallResult
  <2>2. job' \in [Dialers -> Job] /\ \A d \in Dialers : SameRun(d)
    BY <1>0, <2>1, HearingKeepsRuns
  <2> QED BY <1>0, <1>2, <2>2, LinesAreLines DEF StationHangsUp
<1>3. CASE LegHangsUp(k)
  <2>1. PICK cause \in CallResult : job' = Hears([kind |-> "hangup", of |-> k, cause |-> cause])
    BY <1>3 DEF LegHangsUp, Causes
  <2>2. job' \in [Dialers -> Job] /\ \A d \in Dialers : SameRun(d)
    BY <1>0, <2>1, HearingKeepsRuns
  <2> QED BY <1>0, <1>3, <2>2 DEF LegHangsUp
<1>4. ASSUME NEW fate \in Fates, StationAnswers(k, fate) PROVE Goal
  <2>0. fate \in CallResult
    BY AutocallAssumption DEF AutocallAssumption
  <2>1. PICK told \in {fate, "none"} : job' = Hears([kind |-> "started", of |-> k, fate |-> told])
    BY <1>4 DEF StationAnswers
  <2>2. told \in CallResult \cup {"none"}
    BY <2>0
  <2>3. job' \in [Dialers -> Job] /\ \A d \in Dialers : SameRun(d)
    BY <1>0, <2>1, <2>2, HearingKeepsRuns
  <2>4. line' \in [Calls -> Line]
    <3>1. \/ line' = Over(k, fate)
          \/ \E st \in {"up", "ending"} : line' = [line EXCEPT ![k].state = st, ![k].fate = fate]
      BY <1>4 DEF StationAnswers
    <3>2. /\ Over(k, fate) \in [Calls -> Line]
          /\ \A st \in {"up", "ending"} :
                [line EXCEPT ![k].state = st, ![k].fate = fate] \in [Calls -> Line]
      BY <1>0, <2>0, LinesAreLines
    <3> QED BY <3>1, <3>2
  <2> QED BY <1>4, <2>3, <2>4 DEF StationAnswers
<1>5. ASSUME NEW share \in Shares, StationPlays(k, share) PROVE Goal
  <2>0. share \in Listen
    BY AutocallAssumption DEF AutocallAssumption
  <2>1. job' = Hears([kind |-> "played", of |-> k, listen |-> share])
    BY <1>5 DEF StationPlays
  <2>2. job' \in [Dialers -> Job] /\ \A d \in Dialers : SameRun(d)
    BY <1>0, <2>0, <2>1, HearingKeepsRuns
  <2>3. line' \in [Calls -> Line]
    BY <1>0, <1>5, <2>0 DEF StationPlays, Line
  <2> QED BY <1>5, <2>2, <2>3 DEF StationPlays
<1> QED BY <1>1, <1>2, <1>3, <1>4, <1>5 DEF Station

\* What a run does when it goes from row to row: the parties it has to do and its day stay,
\* its list loses a row.
NextRowOf(d) ==
    /\ job' \in [Dialers -> Job]
    /\ \A e \in Dialers \ {d} : job'[e] = job[e]
    /\ job'[d].at = job[d].at /\ job'[d].day = job[d].day
    /\ DOMAIN job'[d].left = DOMAIN job[d].left
    /\ job'[d].call = 0 /\ job'[d].ami = NewClient
    /\ DOMAIN job'[d].seen = DOMAIN job[d].seen \ {job[d].item}

LEMMA UnavailableStep ==
    ASSUME TypeOK, NEW d \in Dialers, Unavailable(d)
    PROVE  NextRowOf(d) /\ line' \in [Calls -> Line]
<1>1. job \in [Dialers -> Job] /\ job[d] \in Job /\ line \in [Calls -> Line]
  BY DEF TypeOK
<1>2. job' = [job EXCEPT ![d] = NextRow(job[d])]
  BY DEF Unavailable
<1>3. job[d].call \in Calls
  BY <1>1 DEF Unavailable, Job
<1>4. line' \in [Calls -> Line]
  BY <1>1, <1>3, LinesAreLines DEF Unavailable
<1> QED BY <1>1, <1>2, <1>4, NextRowIsJob DEF NextRowOf

LEMMA RecordStep ==
    ASSUME TypeOK, NEW d \in Dialers, Record(d)
    PROVE  /\ NextRowOf(d) /\ line' \in [Calls -> Line]
           /\ party' \in [Parties -> Party] /\ attempt' \in [Items -> AttemptStatus \cup {"none"}]
           /\ last' \in [Items -> [day: Days, told: BOOLEAN, result: CallResult \cup {"none"}]]
           /\ job[d].item \in DOMAIN job[d].seen /\ job[d].item \in Items
           /\ \E r \in Row : /\ row' = [row EXCEPT ![job[d].item] = r]
                             /\ r.acted = job[d].day
                             /\ last' = [last EXCEPT ![job[d].item].told = TRUE,
                                                     ![job[d].item].result = r.result]
<1> DEFINE i == job[d].item
           p == job[d].at
           seen == job[d].left[p]
           r == Written(job[d].seen[i], i, seen, job[d].ami.status, Reported(job[d].ami), job[d].day)
           j == NextRow(job[d])
           f == [job[d].left EXCEPT ![p] = [seen EXCEPT !.status = PartyVerdict(p, row')]]
<1>1. /\ job \in [Dialers -> Job] /\ job[d] \in Job /\ line \in [Calls -> Line]
      /\ job[d].call \in Calls /\ job[d].ami \in Client /\ job[d].day \in Days
      /\ i \in DOMAIN job[d].seen
  BY DEF TypeOK, Record, Job
<1>2. job[d].seen[i] \in Row /\ i \in Items
  BY <1>1 DEF Job
<1>3. p \in DOMAIN job[d].left /\ p \in Parties
  <2>1. PartyOf[i] = p /\ PartyOf[i] \in Parties
    BY <1>1, <1>2, AutocallAssumption DEF AutocallAssumption, TypeOK
  <2>2. 0 \notin Parties
    BY AutocallAssumption DEF AutocallAssumption
  <2> QED BY <2>1, <2>2 DEF TypeOK
<1>4. PICK P \in SUBSET Parties : job[d].left \in [P -> Party]
  BY <1>1 DEF Job
<1>5. f \in [P -> Party] /\ DOMAIN f = DOMAIN job[d].left
  BY <1>3, <1>4, VerdictIsStatus DEF PartyVerdict, Party
<1>6. job[d].ami.end = "told"
  BY DEF Record
<1>7. job[d].ami.status \in CallResult /\ Reported(job[d].ami) \in Listen
  BY <1>1, <1>6 DEF TypeOK, Reported, Client, Listen
<1>8. r \in Row /\ r.acted = job[d].day /\ r.result = job[d].ami.status
  BY <1>1, <1>2, <1>7, WrittenIsRow
<1>9. /\ row' = [row EXCEPT ![i] = r]
      /\ attempt' = [attempt EXCEPT ![i] = AttemptOf(r)]
      /\ last' = [last EXCEPT ![i].told = TRUE, ![i].result = job[d].ami.status]
      /\ party' = Rolled(p, seen, row')
      /\ job' = [job EXCEPT ![d] = [j EXCEPT !.left = f]]
      /\ line' = LeftLine(job[d].call)
  BY DEF Record
<1>10. /\ j \in Job /\ j.at = job[d].at /\ j.day = job[d].day /\ j.left = job[d].left
       /\ j.call = 0 /\ j.ami = NewClient /\ DOMAIN j.seen = DOMAIN job[d].seen \ {i}
  BY <1>1, NextRowIsJob
<1>11. NextRowOf(d)
  <2>1. job' = [job EXCEPT ![d] = [j EXCEPT !.left = f]]
    BY <1>9, <1>10
  <2>2. f \in UNION {[S -> Party] : S \in SUBSET Parties}
    BY <1>5
  <2> HIDE DEF f, j, r, seen
  <2>3. /\ [j EXCEPT !.left = f] \in Job
        /\ [j EXCEPT !.left = f].left = f /\ [j EXCEPT !.left = f].seen = j.seen
        /\ [j EXCEPT !.left = f].at = j.at /\ [j EXCEPT !.left = f].day = j.day
        /\ [j EXCEPT !.left = f].call = j.call /\ [j EXCEPT !.left = f].ami = j.ami
    BY <1>10, <2>2 DEF Job
  <2> QED BY <1>1, <1>5, <1>10, <2>1, <2>3 DEF NextRowOf
<1>12. line' \in [Calls -> Line]
  BY <1>1, <1>9, LinesAreLines
<1>13. party' \in [Parties -> Party]
  BY <1>3, <1>9, RolledIsParty DEF TypeOK
<1>14. attempt' \in [Items -> AttemptStatus \cup {"none"}]
  BY <1>8, <1>9, AttemptIsStatus DEF TypeOK
<1>15. last' \in [Items -> [day: Days, told: BOOLEAN, result: CallResult \cup {"none"}]]
  <2>1. last \in [Items -> [day: Days, told: BOOLEAN, result: CallResult \cup {"none"}]]
    BY DEF TypeOK
  <2>2. \A x \in [day: Days, told: BOOLEAN, result: CallResult \cup {"none"}] :
           [x EXCEPT !.told = TRUE, !.result = job[d].ami.status]
              \in [day: Days, told: BOOLEAN, result: CallResult \cup {"none"}]
    BY <1>7
  <2>3. last' = [last EXCEPT ![i] = [last[i] EXCEPT !.told = TRUE, !.result = job[d].ami.status]]
    BY <1>2, <1>9, <2>1
  <2> HIDE DEF i
  <2> QED BY <1>2, <2>1, <2>2, <2>3
<1> QED BY <1>1, <1>2, <1>8, <1>9, <1>11, <1>12, <1>13, <1>14, <1>15

-----------------------------------------------------------------------------
(* The types *)

LEMMA BeginStep ==
    ASSUME TypeOK, NEW d \in Dialers, NEW P \in SUBSET Parties, Begin(d, P)
    PROVE  /\ job' \in [Dialers -> Job]
           /\ \A e \in Dialers \ {d} : job'[e] = job[e]
           /\ job[d] = Idle
           /\ job'[d].at = 0 /\ job'[d].day = today /\ job'[d].call = 0 /\ job'[d].ami = NewClient
           /\ DOMAIN job'[d].seen = {}
           /\ Overlap \/ \A e \in Dialers : DOMAIN job'[d].left \cap DOMAIN job[e].left = {}
<1> DEFINE due == {p \in P : party[p].status \in {"assigned", "running"}}
           left == [p \in due |-> party[p]]
           j == [Idle EXCEPT !.day = today, !.left = left]
<1>1. /\ job' = [job EXCEPT ![d] = j] /\ job[d] = Idle
      /\ Overlap \/ \A e \in Dialers : due \cap DOMAIN job[e].left = {}
  BY DEF Begin
<1>2. left \in [due -> Party]
  BY DEF TypeOK
<1>3. left \in UNION {[S -> Party] : S \in SUBSET Parties} /\ DOMAIN left = due
  BY <1>2
<1>4. Nothing \in [{} -> Row] /\ DOMAIN Nothing = {}
  BY DEF Nothing
<1>5. Nothing \in UNION {[I -> Row] : I \in SUBSET Items}
  BY <1>4
<1>6. NewClient \in Client
  BY DEF NewClient, Client, Listen
<1>7. today \in Days
  BY AutocallAssumption DEF TypeOK, Days, AutocallAssumption
<1> HIDE DEF left, due
<1>8. /\ j \in Job /\ j.at = 0 /\ j.day = today /\ j.call = 0 /\ j.ami = NewClient
      /\ j.seen = Nothing /\ j.left = left
  BY <1>3, <1>5, <1>6, <1>7 DEF Idle, Job
<1> HIDE DEF j
<1> QED BY <1>1, <1>3, <1>4, <1>8 DEF TypeOK

LEMMA LoadStep ==
    ASSUME TypeOK, NEW d \in Dialers, NEW p \in Parties, LoadItems(d, p)
    PROVE  /\ job' \in [Dialers -> Job]
           /\ \A e \in Dialers \ {d} : job'[e] = job[e]
           /\ job'[d].at = p /\ p \in DOMAIN job[d].left
           /\ job'[d].day = job[d].day /\ job'[d].left = job[d].left
           /\ job'[d].call = job[d].call /\ job'[d].item = job[d].item
           /\ job'[d].ami = job[d].ami
           /\ job[d].at = 0
           /\ \A i \in DOMAIN job'[d].seen :
                 /\ i \in Items /\ PartyOf[i] = p
                 /\ AttemptDue(job[d].left[p], row[i], i, job[d].day)
<1> DEFINE due == {i \in RowsOf(p) : /\ row[i].status \in OpenItem
                                     /\ AttemptDue(job[d].left[p], row[i], i, job[d].day)}
           f == [i \in due |-> row[i]]
           j == [job[d] EXCEPT !.at = p, !.seen = f]
<1>1. /\ job[d].at = 0 /\ p \in DOMAIN job[d].left
      /\ job' = [job EXCEPT ![d].at = p, ![d].seen = f]
  BY DEF LoadItems, First
<1>2. job \in [Dialers -> Job] /\ job[d] \in Job
  BY DEF TypeOK
<1>3. \A i \in due : i \in Items /\ PartyOf[i] = p /\ AttemptDue(job[d].left[p], row[i], i, job[d].day)
  BY DEF RowsOf
<1>4. f \in [due -> Row] /\ DOMAIN f = due
  BY <1>3 DEF TypeOK
<1>5. f \in UNION {[I -> Row] : I \in SUBSET Items}
  BY <1>3, <1>4
<1> HIDE DEF f, due
<1>6. job' = [job EXCEPT ![d] = j]
  BY <1>1, <1>2
<1>7. /\ j \in Job /\ j.at = p /\ j.seen = f /\ j.left = job[d].left /\ j.day = job[d].day
      /\ j.call = job[d].call /\ j.item = job[d].item /\ j.ami = job[d].ami
  BY <1>2, <1>5 DEF Job
<1> HIDE DEF j
<1>8. job'[d] = j /\ job' \in [Dialers -> Job] /\ \A e \in Dialers \ {d} : job'[e] = job[e]
  BY <1>2, <1>6, <1>7
<1> QED BY <1>1, <1>3, <1>4, <1>7, <1>8

LEMMA DoneStep ==
    ASSUME TypeOK, NEW d \in Dialers, PartyDone(d)
    PROVE  /\ job' \in [Dialers -> Job]
           /\ \A e \in Dialers \ {d} : job'[e] = job[e]
           /\ job'[d].at = 0 /\ DOMAIN job'[d].seen = {} /\ job[d].call = 0
           /\ job'[d].call = 0 /\ job'[d].ami \in {job[d].ami, NewClient}
           /\ DOMAIN job'[d].left \subseteq DOMAIN job[d].left
           /\ DOMAIN job'[d].left # {} => job'[d].day = job[d].day
           /\ job'[d].day \in {0, job[d].day}
<1> DEFINE left == [p \in DOMAIN job[d].left \ {job[d].at} |-> job[d].left[p]]
           j == [job[d] EXCEPT !.at = 0, !.left = left]
<1>1. /\ job' = [job EXCEPT ![d] = IF DOMAIN left = {} THEN Idle ELSE j]
      /\ DOMAIN job[d].seen = {}
  BY DEF PartyDone
<1>2. job \in [Dialers -> Job] /\ job[d] \in Job /\ job[d].call = 0
  BY <1>1 DEF TypeOK
<1>3. PICK P \in SUBSET Parties : job[d].left \in [P -> Party]
  BY <1>2 DEF Job
<1>4. left \in [P \ {job[d].at} -> Party] /\ DOMAIN left = DOMAIN job[d].left \ {job[d].at}
  BY <1>3
<1>5. left \in UNION {[S -> Party] : S \in SUBSET Parties}
  BY <1>4
<1> HIDE DEF left
<1>6. /\ j \in Job /\ j.at = 0 /\ j.left = left /\ j.seen = job[d].seen /\ j.day = job[d].day
      /\ j.call = job[d].call /\ j.ami = job[d].ami
  BY <1>2, <1>5 DEF Job
<1>7. /\ Idle \in Job /\ Idle.at = 0 /\ DOMAIN Idle.left = {} /\ DOMAIN Idle.seen = {}
      /\ Idle.day = 0 /\ Idle.call = 0 /\ Idle.ami = NewClient
  <2>1. Nothing \in [{} -> Row] /\ Nothing \in [{} -> Party] /\ DOMAIN Nothing = {}
    BY DEF Nothing
  <2>2. /\ Nothing \in UNION {[I -> Row] : I \in SUBSET Items}
        /\ Nothing \in UNION {[S -> Party] : S \in SUBSET Parties}
    BY <2>1
  <2>3. NewClient \in Client /\ 0 \in Days
    BY AutocallAssumption DEF NewClient, Client, Listen, Days, AutocallAssumption
  <2> QED BY <2>1, <2>2, <2>3 DEF Idle, Job
<1> HIDE DEF j
<1> QED BY <1>1, <1>2, <1>4, <1>6, <1>7

LEMMA CallStep ==
    ASSUME TypeOK, NEW d \in Dialers, NEW i \in Items, NEW k \in Calls, PlaceCall(d, i, k)
    PROVE  /\ job' \in [Dialers -> Job]
           /\ \A e \in Dialers \ {d} : job'[e] = job[e]
           /\ job'[d].at = job[d].at /\ job'[d].day = job[d].day /\ job'[d].left = job[d].left
           /\ job'[d].seen = job[d].seen /\ job'[d].item = i /\ i \in DOMAIN job[d].seen
           /\ job'[d].ami = NewClient
           /\ last' \in [Items -> [day: Days, told: BOOLEAN, result: CallResult \cup {"none"}]]
           /\ last' = [last EXCEPT ![i] = [day |-> job[d].day, told |-> FALSE, result |-> "none"]]
           /\ line' \in [Calls -> Line]
<1> DEFINE j == [job[d] EXCEPT !.item = i, !.call = k, !.ami = NewClient]
<1>1. /\ job' = [job EXCEPT ![d] = j] /\ i \in DOMAIN job[d].seen
      /\ last' = [last EXCEPT ![i] = [day |-> job[d].day, told |-> FALSE, result |-> "none"]]
      /\ line' = [line EXCEPT ![k] = [NoLine EXCEPT !.state = "dialing"]]
  BY DEF PlaceCall, First
<1>2. job \in [Dialers -> Job] /\ job[d] \in Job /\ job[d].day \in Days
  BY DEF TypeOK, Job
<1>3. NewClient \in Client
  BY DEF NewClient, Client, Listen
<1>4. /\ j \in Job /\ j.at = job[d].at /\ j.day = job[d].day /\ j.left = job[d].left
      /\ j.seen = job[d].seen /\ j.item = i /\ j.ami = NewClient
  BY <1>2, <1>3 DEF Job
<1>5. line' \in [Calls -> Line]
  BY <1>1 DEF TypeOK, Line, NoLine, Listen
<1>6. last' \in [Items -> [day: Days, told: BOOLEAN, result: CallResult \cup {"none"}]]
  BY <1>1, <1>2 DEF TypeOK
<1> HIDE DEF j
<1> QED BY <1>1, <1>2, <1>4, <1>5, <1>6

LEMMA WaitStep ==
    ASSUME TypeOK, NEW d \in Dialers, StopWaiting(d)
    PROVE  job' \in [Dialers -> Job] /\ \A e \in Dialers : SameRun(e)
<1> DEFINE c == [job[d].ami EXCEPT !.end = IF job[d].ami.status = "none" THEN "error" ELSE "told"]
           j == [job[d] EXCEPT !.ami = c]
<1>1. job \in [Dialers -> Job] /\ job[d] \in Job /\ job[d].ami \in Client
  BY DEF TypeOK, Job
<1>2. job' = [job EXCEPT ![d] = j]
  BY <1>1 DEF StopWaiting
<1>3. c \in Client /\ Answered(c)
  BY <1>1 DEF Client, Answered
<1> HIDE DEF c
<1>4. /\ j \in Job /\ j.at = job[d].at /\ j.day = job[d].day /\ j.left = job[d].left
      /\ j.seen = job[d].seen /\ j.item = job[d].item /\ j.call = job[d].call /\ j.ami = c
  BY <1>1, <1>3 DEF Job
<1> HIDE DEF j
<1> QED BY <1>1, <1>2, <1>3, <1>4 DEF SameRun

\* What people write is a row with an outcome of the day, or with another status.
LEMMA PeopleStep ==
    ASSUME TypeOK, NEW i \in Items, People(i)
    PROVE  /\ party' \in [Parties -> Party] /\ row' \in [Items -> Row]
           /\ attempt' \in [Items -> AttemptStatus \cup {"none"}]
           /\ last' \in [Items -> [day: Days, told: BOOLEAN, result: CallResult \cup {"none"}]]
           /\ UNCHANGED <<today, line, job>> /\ edits' = edits + 1
           /\ \A x \in Items \ {i} : row'[x] = row[x] /\ last'[x] = last[x]
           /\ last'[i].day = last[i].day
           /\ last'[i].told => /\ last[i].told /\ last'[i].result = last[i].result
                               /\ row'[i].result = row[i].result
                               /\ row'[i].acted \in {row[i].acted, today}
<1> DEFINE Lasts == [Items -> [day: Days, told: BOOLEAN, result: CallResult \cup {"none"}]]
           p == PartyOf[i]
           Goal == /\ party' \in [Parties -> Party] /\ row' \in [Items -> Row]
                   /\ attempt' \in [Items -> AttemptStatus \cup {"none"}]
                   /\ last' \in Lasts
                   /\ UNCHANGED <<today, line, job>>
                   /\ \A x \in Items \ {i} : row'[x] = row[x] /\ last'[x] = last[x]
                   /\ last'[i].day = last[i].day
                   /\ last'[i].told => /\ last[i].told /\ last'[i].result = last[i].result
                                       /\ row'[i].result = row[i].result
                                       /\ row'[i].acted \in {row[i].acted, today}
<1>0. /\ row \in [Items -> Row] /\ row[i] \in Row /\ last \in Lasts /\ party \in [Parties -> Party]
      /\ attempt \in [Items -> AttemptStatus \cup {"none"}]
      /\ today \in Days /\ p \in Parties
  BY AutocallAssumption DEF TypeOK, Days, AutocallAssumption
<1>1. ASSUME NEW told \in ByHand, RecordResult(i, told[1], told[2]) PROVE Goal
  <2> DEFINE r == Written(row[i], i, party[p], told[1], told[2], today)
  <2>1. told[1] \in CallResult /\ told[2] \in Listen
    BY AutocallAssumption DEF AutocallAssumption
  <2>2. r \in Row
    BY <1>0, <2>1, WrittenIsRow
  <2>3. /\ row' = [row EXCEPT ![i] = r] /\ last' = [last EXCEPT ![i].told = FALSE]
        /\ attempt' = [attempt EXCEPT ![i] = AttemptOf(row'[i])]
        /\ party' = Rolled(p, party[p], row') /\ UNCHANGED <<today, line, job>>
    BY <1>1 DEF RecordResult
  <2> HIDE DEF r
  <2>4. row' \in [Items -> Row] /\ row'[i] \in Row
    BY <1>0, <2>2, <2>3
  <2>5. attempt' \in [Items -> AttemptStatus \cup {"none"}]
    BY <1>0, <2>3, <2>4, AttemptIsStatus
  <2>6. party' \in [Parties -> Party]
    BY <1>0, <2>3, RolledIsParty
  <2>7. last' \in Lasts /\ ~last'[i].told /\ last'[i].day = last[i].day
    BY <1>0, <2>3
  <2> QED BY <1>0, <2>3, <2>4, <2>5, <2>6, <2>7
<1>2. ASSUME NEW st \in {"done", "failed", "cancelled"}, RecordStatus(i, st) PROVE Goal
  <2>1. /\ row' = [row EXCEPT ![i].status = st, ![i].acted = today]
        /\ party' = Rolled(p, party[p], row') /\ UNCHANGED <<today, attempt, last, line, job>>
    BY <1>2 DEF RecordStatus
  <2>2. row' \in [Items -> Row] /\ row'[i].acted = today /\ row'[i].result = row[i].result
    BY <1>0, <2>1 DEF Row, ItemStatus
  <2>3. party' \in [Parties -> Party]
    BY <1>0, <2>1, RolledIsParty
  <2> QED BY <1>0, <2>1, <2>2, <2>3
<1>3. ASSUME Stop(i) PROVE Goal
  <2> DEFINE R == IF row[i].status \in {"done", "cancelled"} THEN row
                  ELSE [row EXCEPT ![i].status = "done", ![i].acted = today]
  <2>1. /\ row' = R /\ UNCHANGED <<today, attempt, last, line, job>>
        /\ \/ party' = [party EXCEPT ![p] = [status |-> "done", stopped |-> TRUE]]
           \/ party' = Rolled(p, party[p], R)
    BY <1>3 DEF Stop
  <2>2. /\ R \in [Items -> Row] /\ R[i].result = row[i].result /\ R[i].acted \in {row[i].acted, today}
        /\ \A x \in Items \ {i} : R[x] = row[x]
    BY <1>0 DEF Row, ItemStatus
  <2> HIDE DEF R
  <2>3. ASSUME party' = [party EXCEPT ![p] = [status |-> "done", stopped |-> TRUE]]
        PROVE  party' \in [Parties -> Party]
    BY <1>0, <2>3 DEF Party, PartyStatus, ItemStatus
  <2>4. ASSUME party' = Rolled(p, party[p], R) PROVE party' \in [Parties -> Party]
    BY <1>0, <2>4, RolledIsParty
  <2> QED BY <1>0, <2>1, <2>2, <2>3, <2>4
<1>4. Goal
  BY <1>1, <1>2, <1>3 DEF People
<1> QED BY <1>4 DEF People

LEMMA TypeInit == Init => TypeOK
<1> SUFFICES ASSUME Init PROVE TypeOK
  OBVIOUS
<1>1. /\ Nothing \in UNION {[I -> Row] : I \in SUBSET Items}
      /\ Nothing \in UNION {[S -> Party] : S \in SUBSET Parties}
      /\ DOMAIN Nothing = {}
  <2>1. Nothing \in [{} -> Row] /\ Nothing \in [{} -> Party] /\ DOMAIN Nothing = {}
    BY DEF Nothing
  <2> QED BY <2>1
<1>2. 0 \in Days /\ 1 \in 1 .. MaxDay /\ 0 \in 0 .. MaxEdits
  BY AutocallAssumption DEF Days, AutocallAssumption
<1>3. NewClient \in Client /\ NewClient.end = "no"
  BY DEF NewClient, Client, Listen
<1>4. /\ Idle \in Job /\ Idle.at = 0 /\ DOMAIN Idle.seen = {} /\ Idle.call = 0
      /\ Idle.ami = NewClient
  BY <1>1, <1>2, <1>3 DEF Idle, Job
<1> HIDE DEF Idle, NewClient
<1>5. party \in [Parties -> Party] /\ row \in [Items -> Row]
  BY <1>2 DEF Init, Party, PartyStatus, ItemStatus, Row, Listen
<1>6. /\ attempt \in [Items -> AttemptStatus \cup {"none"}]
      /\ last \in [Items -> [day: Days, told: BOOLEAN, result: CallResult \cup {"none"}]]
  BY <1>2 DEF Init
<1>7. line \in [Calls -> Line] /\ job \in [Dialers -> Job]
  BY <1>4, LinesAreLines DEF Init, NoLine, Line, Listen
<1>8. /\ today \in 1 .. MaxDay /\ edits \in 0 .. MaxEdits /\ \A d \in Dialers : job[d] = Idle
  BY <1>2 DEF Init
<1> QED BY <1>3, <1>4, <1>5, <1>6, <1>7, <1>8 DEF TypeOK

LEMMA TypeStep == TypeOK /\ [Next]_vars => TypeOK'
<1> SUFFICES ASSUME TypeOK, [Next]_vars PROVE TypeOK'
  OBVIOUS
<1> DEFINE RunType(j) == /\ j.at \in DOMAIN j.left \cup {0}
                         /\ \A i \in DOMAIN j.seen : PartyOf[i] = j.at
                         /\ j.call # 0 => j.item \in DOMAIN j.seen
                         /\ j.ami.end = "told" => j.ami.status # "none"
<1>0. \A d \in Dialers : RunType(job[d])
  BY DEF TypeOK
<1>n. NewClient.end = "no"
  BY DEF NewClient
<1> HIDE DEF NewClient
<1>1. ASSUME NEW k \in Calls, Station(k) PROVE TypeOK'
  <2>1. /\ job' \in [Dialers -> Job] /\ \A d \in Dialers : SameRun(d)
        /\ line' \in [Calls -> Line] /\ StationOnly
    BY <1>1, StationKeepsRuns
  <2>2. \A d \in Dialers : RunType(job'[d])
    BY <1>0, <2>1 DEF SameRun, Answered
  <2> QED BY <2>1, <2>2 DEF StationOnly, TypeOK
<1>2. ASSUME NEW d \in Dialers, NEW P \in SUBSET Parties, Begin(d, P) PROVE TypeOK'
  <2>1. job' \in [Dialers -> Job] /\ \A e \in Dialers : RunType(job'[e])
    BY <1>0, <1>2, <1>n, BeginStep
  <2> QED BY <1>2, <2>1 DEF Begin, TypeOK
<1>3. ASSUME NEW d \in Dialers, PartyDone(d) PROVE TypeOK'
  <2>1. job' \in [Dialers -> Job] /\ \A e \in Dialers : RunType(job'[e])
    BY <1>0, <1>3, <1>n, DoneStep
  <2> QED BY <1>3, <2>1 DEF PartyDone, TypeOK
<1>4. ASSUME NEW d \in Dialers, StopWaiting(d) PROVE TypeOK'
  <2>1. job' \in [Dialers -> Job] /\ \A e \in Dialers : SameRun(e)
    BY <1>4, WaitStep
  <2>2. \A e \in Dialers : RunType(job'[e])
    BY <1>0, <2>1 DEF SameRun, Answered
  <2> QED BY <1>4, <2>1, <2>2 DEF StopWaiting, TypeOK
<1>5. ASSUME NEW d \in Dialers, Unavailable(d) PROVE TypeOK'
  <2>1. NextRowOf(d) /\ line' \in [Calls -> Line]
    BY <1>5, UnavailableStep
  <2>2. \A e \in Dialers : RunType(job'[e])
    BY <1>0, <2>1, <1>n DEF NextRowOf
  <2> QED BY <1>5, <2>1, <2>2 DEF Unavailable, TypeOK, NextRowOf
<1>6. ASSUME NEW d \in Dialers, Record(d) PROVE TypeOK'
  <2>1. /\ NextRowOf(d) /\ line' \in [Calls -> Line]
        /\ party' \in [Parties -> Party] /\ attempt' \in [Items -> AttemptStatus \cup {"none"}]
        /\ last' \in [Items -> [day: Days, told: BOOLEAN, result: CallResult \cup {"none"}]]
        /\ \E r \in Row : row' = [row EXCEPT ![job[d].item] = r]
    BY <1>6, RecordStep
  <2>2. \A e \in Dialers : RunType(job'[e])
    BY <1>0, <2>1, <1>n DEF NextRowOf
  <2>3. row' \in [Items -> Row] /\ UNCHANGED <<today, edits>>
    BY <1>6, <2>1 DEF Record, TypeOK
  <2> QED BY <2>1, <2>2, <2>3 DEF TypeOK, NextRowOf
<1>7. ASSUME NEW d \in Dialers, NEW p \in Parties, LoadItems(d, p) PROVE TypeOK'
  <2>1. /\ job' \in [Dialers -> Job] /\ \A e \in Dialers \ {d} : job'[e] = job[e]
        /\ job'[d].at = p /\ p \in DOMAIN job[d].left /\ job'[d].left = job[d].left
        /\ job'[d].call = job[d].call /\ job'[d].item = job[d].item /\ job'[d].ami = job[d].ami
        /\ job[d].at = 0 /\ \A i \in DOMAIN job'[d].seen : PartyOf[i] = p
    BY <1>7, LoadStep
  <2>2. job[d].call = 0
    <3>1. DOMAIN job[d].seen = {} \/ job[d].call = 0
      <4>1. \A i \in DOMAIN job[d].seen : i \in Items /\ PartyOf[i] = 0
        BY <1>0, <2>1 DEF TypeOK, Job
      <4>2. \A i \in Items : PartyOf[i] # 0
        BY AutocallAssumption DEF AutocallAssumption
      <4> QED BY <4>1, <4>2
    <3> QED BY <1>0, <3>1
  <2>3. \A e \in Dialers : RunType(job'[e])
    BY <1>0, <2>1, <2>2
  <2> QED BY <1>7, <2>1, <2>3 DEF LoadItems, TypeOK
<1>8. ASSUME NEW d \in Dialers, NEW i \in Items, NEW k \in Calls, PlaceCall(d, i, k) PROVE TypeOK'
  <2>1. /\ job' \in [Dialers -> Job] /\ \A e \in Dialers \ {d} : job'[e] = job[e]
        /\ job'[d].at = job[d].at /\ job'[d].left = job[d].left
        /\ job'[d].seen = job[d].seen /\ job'[d].item = i /\ i \in DOMAIN job[d].seen
        /\ job'[d].ami = NewClient
        /\ last' \in [Items -> [day: Days, told: BOOLEAN, result: CallResult \cup {"none"}]]
        /\ line' \in [Calls -> Line]
    BY <1>8, CallStep
  <2>2. \A e \in Dialers : RunType(job'[e])
    BY <1>0, <2>1, <1>n
  <2> QED BY <1>8, <2>1, <2>2 DEF PlaceCall, TypeOK
<1>9. ASSUME NEW i \in Items, People(i) PROVE TypeOK'
  <2>1. edits' \in 0 .. MaxEdits
    BY <1>9, AutocallAssumption DEF People, TypeOK, AutocallAssumption
  <2> QED BY <1>9, <2>1, PeopleStep DEF TypeOK
<1>10. CASE DayPasses
  BY <1>10, AutocallAssumption DEF DayPasses, TypeOK, AutocallAssumption
<1>11. CASE UNCHANGED vars
  BY <1>11 DEF vars, TypeOK
<1> QED BY <1>1, <1>2, <1>3, <1>4, <1>5, <1>6, <1>7, <1>8, <1>9, <1>10, <1>11 DEF Next, Dial

\* The runs, the rows and the calls are of their types whatever the dialers hear and people
\* write: a run at work is at a party it has loaded, calls a row of its list, and a call that
\* is over with a report has an outcome (place_call, _wait_outcome).
THEOREM Types == Spec => []TypeOK
<1>1. Init => TypeOK
  BY TypeInit
<1>2. TypeOK /\ [Next]_vars => TypeOK'
  BY TypeStep
<1> QED BY <1>1, <1>2, PTL DEF Spec

-----------------------------------------------------------------------------
(* The calls are spaced *)

\* A run that is at work on a row is at the party of the row, which it has still to do.
LEMMA AtItsParty ==
    ASSUME TypeOK, NEW d \in Dialers, NEW i \in DOMAIN job[d].seen
    PROVE  i \in Items /\ PartyOf[i] = job[d].at /\ job[d].at # 0 /\ PartyOf[i] \in DOMAIN job[d].left
<1>1. job[d] \in Job
  BY DEF TypeOK
<1>2. i \in Items
  BY <1>1 DEF Job
<1> QED BY <1>2, AutocallAssumption DEF TypeOK, AutocallAssumption

\* Two runs do not have the same row in their lists.
LEMMA OwnRows ==
    ASSUME TypeOK, NEW d \in Dialers, NEW e \in Dialers, d # e, Apart(d, e)
    PROVE  \A i \in DOMAIN job[d].seen : i \notin DOMAIN job[e].seen
  BY AtItsParty DEF Apart

LEMMA InvInit == Init => Inv
<1> SUFFICES ASSUME Init PROVE Inv
  OBVIOUS
<1>1. TypeOK
  BY TypeInit
<1>2. \A d \in Dialers : job[d] = Idle
  BY DEF Init
<1>3. DOMAIN Nothing = {}
  BY DEF Nothing
<1>4. \A d \in Dialers : RunOK(d)
  BY <1>2, <1>3 DEF RunOK, Idle, Init
<1>5. \A i \in Items : Remembered(i)
  BY DEF Remembered, Init
<1>6. \A d, e \in Dialers : Apart(d, e)
  BY <1>2, <1>3 DEF Apart, Idle
<1> QED BY <1>1, <1>4, <1>5, <1>6 DEF Inv

\* A due row may be called on the day of the run.
LEMMA DueMayBeCalled ==
    ASSUME TypeOK, NEW i \in Items, Remembered(i), last[i].told,
           NEW p, NEW day \in Days, AttemptDue(p, row[i], i, day)
    PROVE  /\ Every[i] > 0 /\ day - last[i].day >= Every[i]
           /\ PartyOf[i] \notin Scenario => last[i].result # "answered"
<1>1. /\ row[i].acted \in Nat /\ last[i].day \in Nat /\ day \in Nat /\ Every[i] \in Nat
      /\ 1 <= last[i].day /\ last[i].day <= row[i].acted /\ row[i].result = last[i].result
  <2>1. row[i] \in Row /\ last[i] \in [day: Days, told: BOOLEAN, result: CallResult \cup {"none"}]
    BY DEF TypeOK
  <2> QED BY <2>1, AutocallAssumption DEF Row, Days, Remembered, AutocallAssumption
<1> QED BY <1>1 DEF AttemptDue

LEMMA InvStep == ~Overlap /\ Inv /\ [Next]_vars => Inv'
<1> SUFFICES ASSUME ~Overlap, Inv, [Next]_vars PROVE Inv'
  OBVIOUS
<1> DEFINE Rows == \A i \in Items : Remembered(i)
           Runs == \A d \in Dialers : RunOK(d)
           AllApart == \A d, e \in Dialers : d # e => Apart(d, e)
<1>0. TypeOK /\ TypeOK' /\ Rows /\ Runs /\ AllApart
  BY TypeStep DEF Inv
<1>t. today \in Nat /\ \A i \in Items : last[i].day \in Nat /\ row[i].acted \in Nat
  <2>1. \A i \in Items : row[i] \in Row /\ last[i] \in [day: Days, told: BOOLEAN, result: CallResult \cup {"none"}]
    BY <1>0 DEF TypeOK
  <2>2. MaxDay \in Nat /\ \A x \in Days : x \in Nat
    BY AutocallAssumption DEF AutocallAssumption, Days
  <2>3. today \in Nat
    BY <1>0, <2>2 DEF TypeOK
  <2>4. \A i \in Items : last[i].day \in Days /\ row[i].acted \in Days
    BY <2>1 DEF Row
  <2> QED BY <2>2, <2>3, <2>4
<1>d. \A d \in Dialers : job[d] \in Job /\ job[d].day \in Nat
  BY <1>0 DEF TypeOK, Job, Days
<1>s. ASSUME \A d \in Dialers : SameRun(d), UNCHANGED <<today, row, last>>
      PROVE  Rows' /\ Runs' /\ AllApart'
  <2>1. \A d \in Dialers : RunOK(d)'
    BY <1>0, <1>s DEF SameRun, RunOK, MayBeCalled
  <2> QED BY <1>0, <1>s, <2>1 DEF SameRun, Remembered, Apart
<1>1. ASSUME NEW k \in Calls, Station(k) PROVE Rows' /\ Runs' /\ AllApart'
  BY <1>0, <1>1, <1>s, StationKeepsRuns DEF StationOnly
<1>2. ASSUME NEW d \in Dialers, NEW P \in SUBSET Parties, Begin(d, P)
      PROVE  Rows' /\ Runs' /\ AllApart'
  <2>1. /\ \A e \in Dialers \ {d} : job'[e] = job[e]
        /\ job'[d].at = 0 /\ job'[d].day = today /\ job'[d].call = 0 /\ DOMAIN job'[d].seen = {}
        /\ \A e \in Dialers : DOMAIN job'[d].left \cap DOMAIN job[e].left = {}
    BY <1>0, <1>2, BeginStep
  <2>2. UNCHANGED <<today, row, last>> /\ 1 <= today
    BY <1>0, <1>2 DEF Begin, TypeOK
  <2>3. Rows'
    BY <1>0, <2>2 DEF Remembered
  <2>4. ASSUME NEW e \in Dialers PROVE RunOK(e)'
    BY <1>0, <1>t, <2>1, <2>2 DEF RunOK, MayBeCalled
  <2>5. AllApart'
    BY <1>0, <2>1 DEF Apart
  <2> QED BY <2>3, <2>4, <2>5
<1>3. ASSUME NEW d \in Dialers, PartyDone(d) PROVE Rows' /\ Runs' /\ AllApart'
  <2>1. /\ \A e \in Dialers \ {d} : job'[e] = job[e]
        /\ job'[d].at = 0 /\ DOMAIN job'[d].seen = {} /\ job'[d].call = 0
        /\ DOMAIN job'[d].left \subseteq DOMAIN job[d].left
        /\ DOMAIN job'[d].left # {} => job'[d].day = job[d].day
        /\ job'[d].day \in {0, job[d].day}
    BY <1>0, <1>3, DoneStep
  <2>2. UNCHANGED <<today, row, last>>
    BY <1>3 DEF PartyDone
  <2>3. Rows'
    BY <1>0, <2>2 DEF Remembered
  <2>4. ASSUME NEW e \in Dialers PROVE RunOK(e)'
    BY <1>0, <1>t, <2>1, <2>2 DEF RunOK, MayBeCalled
  <2>5. AllApart'
    BY <1>0, <2>1 DEF Apart
  <2> QED BY <2>3, <2>4, <2>5
<1>4. ASSUME NEW d \in Dialers, StopWaiting(d) PROVE Rows' /\ Runs' /\ AllApart'
  BY <1>0, <1>4, <1>s, WaitStep DEF StopWaiting
<1>5. ASSUME NEW d \in Dialers, Unavailable(d) PROVE Rows' /\ Runs' /\ AllApart'
  <2>1. NextRowOf(d)
    BY <1>0, <1>5, UnavailableStep
  <2>2. UNCHANGED <<today, row, last>>
    BY <1>5 DEF Unavailable
  <2>3. Rows'
    BY <1>0, <2>2 DEF Remembered
  <2>4. ASSUME NEW e \in Dialers PROVE RunOK(e)'
    BY <1>0, <2>1, <2>2 DEF NextRowOf, RunOK, MayBeCalled
  <2>5. AllApart'
    BY <1>0, <2>1 DEF NextRowOf, Apart
  <2> QED BY <2>3, <2>4, <2>5
<1>6. ASSUME NEW d \in Dialers, Record(d) PROVE Rows' /\ Runs' /\ AllApart'
  <2> DEFINE i == job[d].item
  <2>1. NextRowOf(d) /\ i \in DOMAIN job[d].seen /\ i \in Items
    BY <1>0, <1>6, RecordStep
  <2>2. PICK r \in Row : /\ row' = [row EXCEPT ![i] = r] /\ r.acted = job[d].day
                         /\ last' = [last EXCEPT ![i].told = TRUE, ![i].result = r.result]
    BY <1>0, <1>6, RecordStep
  <2>3. today' = today /\ job[d].call # 0 /\ job[d].at # 0
    BY <1>0, <1>6, <2>1, AtItsParty DEF Record
  <2> HIDE DEF i
  <2>4. /\ row'[i] = r /\ last'[i].told /\ last'[i].result = r.result /\ last'[i].day = last[i].day
        /\ \A x \in Items \ {i} : row'[x] = row[x] /\ last'[x] = last[x]
    BY <1>0, <2>1, <2>2 DEF TypeOK
  <2>5. last[i].day = job[d].day /\ 1 <= job[d].day /\ job[d].day <= today
    BY <1>0, <2>3 DEF RunOK, i
  <2>6. ASSUME NEW x \in Items PROVE Remembered(x)'
    <3>1. CASE x = i
      BY <1>d, <2>2, <2>3, <2>4, <2>5, <3>1 DEF Remembered
    <3>2. CASE x # i
      BY <1>0, <2>3, <2>4, <3>2 DEF Remembered
    <3> QED BY <3>1, <3>2
  <2>7. ASSUME NEW e \in Dialers, e # d PROVE RunOK(e)'
    <3>1. i \notin DOMAIN job[e].seen /\ \A x \in DOMAIN job[e].seen : x \in Items
      BY <1>0, <2>1, <2>7, OwnRows, AtItsParty
    <3>2. job'[e] = job[e] /\ (job[e].call # 0 => job[e].item \in DOMAIN job[e].seen)
      BY <1>0, <2>1, <2>7 DEF NextRowOf, TypeOK
    <3> QED BY <1>0, <2>3, <2>4, <3>1, <3>2 DEF RunOK, MayBeCalled
  <2>8. RunOK(d)'
    <3>1. \A x \in DOMAIN job'[d].seen : x \in Items \ {i} /\ x \in DOMAIN job[d].seen
      BY <1>0, <2>1, AtItsParty DEF NextRowOf, i
    <3> QED BY <1>0, <2>1, <2>3, <2>4, <3>1 DEF NextRowOf, RunOK, MayBeCalled
  <2>9. AllApart'
    BY <1>0, <2>1 DEF NextRowOf, Apart
  <2> QED BY <2>6, <2>7, <2>8, <2>9
<1>7. ASSUME NEW d \in Dialers, NEW p \in Parties, LoadItems(d, p) PROVE Rows' /\ Runs' /\ AllApart'
  <2>1. /\ \A e \in Dialers \ {d} : job'[e] = job[e]
        /\ job'[d].at = p /\ p \in DOMAIN job[d].left
        /\ job'[d].day = job[d].day /\ job'[d].left = job[d].left
        /\ job'[d].call = job[d].call /\ job'[d].item = job[d].item
        /\ \A i \in DOMAIN job'[d].seen :
              i \in Items /\ AttemptDue(job[d].left[p], row[i], i, job[d].day)
    BY <1>0, <1>7, LoadStep
  <2>2. UNCHANGED <<today, row, last>> /\ p # 0
    BY <1>7, AutocallAssumption DEF LoadItems, AutocallAssumption
  <2>3. Rows'
    BY <1>0, <2>2 DEF Remembered
  <2>4. RunOK(d)'
    <3>1. job[d].day \in Days
      BY <1>d DEF Job
    <3>2. ASSUME NEW i \in DOMAIN job'[d].seen, last[i].told PROVE MayBeCalled(d, i)'
      BY <1>0, <2>1, <2>2, <3>1, <3>2, DueMayBeCalled DEF MayBeCalled
    <3> QED BY <1>0, <2>1, <2>2, <3>2 DEF RunOK
  <2>5. ASSUME NEW e \in Dialers, e # d PROVE RunOK(e)'
    BY <1>0, <2>1, <2>2, <2>5 DEF RunOK, MayBeCalled
  <2>6. AllApart'
    BY <1>0, <2>1 DEF Apart
  <2> QED BY <2>3, <2>4, <2>5, <2>6
<1>8. ASSUME NEW d \in Dialers, NEW i \in Items, NEW k \in Calls, PlaceCall(d, i, k)
      PROVE  Rows' /\ Runs' /\ AllApart'
  <2>1. /\ \A e \in Dialers \ {d} : job'[e] = job[e]
        /\ job'[d].at = job[d].at /\ job'[d].day = job[d].day /\ job'[d].left = job[d].left
        /\ job'[d].seen = job[d].seen /\ job'[d].item = i /\ i \in DOMAIN job[d].seen
        /\ last' = [last EXCEPT ![i] = [day |-> job[d].day, told |-> FALSE, result |-> "none"]]
    BY <1>0, <1>8, CallStep
  <2>2. UNCHANGED <<today, row>>
    BY <1>8 DEF PlaceCall
  <2>3. /\ last'[i].day = job[d].day /\ ~last'[i].told
        /\ \A x \in Items \ {i} : last'[x] = last[x]
    BY <1>0, <2>1 DEF TypeOK
  <2>4. ASSUME NEW x \in Items PROVE Remembered(x)'
    <3>1. CASE x = i
      BY <1>0, <2>2, <2>3, <3>1 DEF Remembered, RunOK
    <3>2. CASE x # i
      BY <1>0, <2>2, <2>3, <3>2 DEF Remembered
    <3> QED BY <3>1, <3>2
  <2>5. RunOK(d)'
    <3>1. \A x \in DOMAIN job[d].seen : x \in Items
      BY <1>0, AtItsParty
    <3> QED BY <1>0, <2>1, <2>2, <2>3, <3>1 DEF RunOK, MayBeCalled
  <2>6. ASSUME NEW e \in Dialers, e # d PROVE RunOK(e)'
    <3>1. i \notin DOMAIN job[e].seen /\ \A x \in DOMAIN job[e].seen : x \in Items
      BY <1>0, <2>1, <2>6, OwnRows, AtItsParty
    <3>2. job'[e] = job[e] /\ (job[e].call # 0 => job[e].item \in DOMAIN job[e].seen)
      BY <1>0, <2>1, <2>6 DEF TypeOK
    <3> QED BY <1>0, <2>2, <2>3, <3>1, <3>2 DEF RunOK, MayBeCalled
  <2>7. AllApart'
    BY <1>0, <2>1 DEF Apart
  <2> QED BY <2>4, <2>5, <2>6, <2>7
<1>9. ASSUME NEW i \in Items, People(i) PROVE Rows' /\ Runs' /\ AllApart'
  <2>1. /\ UNCHANGED <<today, line, job>>
        /\ \A x \in Items \ {i} : row'[x] = row[x] /\ last'[x] = last[x]
        /\ last'[i].day = last[i].day
        /\ last'[i].told => /\ last[i].told /\ last'[i].result = last[i].result
                            /\ row'[i].result = row[i].result
                            /\ row'[i].acted \in {row[i].acted, today}
    BY <1>0, <1>9, PeopleStep
  <2>2. ASSUME NEW x \in Items PROVE Remembered(x)'
    <3>1. CASE x = i
      BY <1>0, <1>t, <2>1, <3>1 DEF Remembered
    <3>2. CASE x # i
      BY <1>0, <2>1, <3>2 DEF Remembered
    <3> QED BY <3>1, <3>2
  <2>3. ASSUME NEW d \in Dialers PROVE RunOK(d)'
    <3>1. \A x \in DOMAIN job[d].seen : x \in Items
      BY <1>0, AtItsParty
    <3>2. job[d].call # 0 => job[d].item \in DOMAIN job[d].seen
      BY <1>0 DEF TypeOK
    <3>3. \A x \in Items : /\ last'[x].day = last[x].day
                           /\ last'[x].told => last[x].told /\ last'[x].result = last[x].result
      BY <2>1
    <3> QED BY <1>0, <2>1, <3>1, <3>2, <3>3 DEF RunOK, MayBeCalled
  <2>4. AllApart'
    BY <1>0, <2>1 DEF Apart
  <2> QED BY <2>2, <2>3, <2>4
<1>10. ASSUME DayPasses PROVE Rows' /\ Runs' /\ AllApart'
  <2>1. today' = today + 1 /\ UNCHANGED <<row, last, job>>
    BY <1>10 DEF DayPasses
  <2>2. ASSUME NEW x \in Items PROVE Remembered(x)'
    BY <1>0, <1>t, <2>1 DEF Remembered
  <2>3. ASSUME NEW d \in Dialers PROVE RunOK(d)'
    BY <1>0, <1>t, <1>d, <2>1 DEF RunOK, MayBeCalled
  <2>4. AllApart'
    BY <1>0, <2>1 DEF Apart
  <2> QED BY <2>2, <2>3, <2>4
<1>11. ASSUME UNCHANGED vars PROVE Rows' /\ Runs' /\ AllApart'
  BY <1>0, <1>11 DEF vars, Remembered, RunOK, MayBeCalled, Apart
<1>12. Rows' /\ Runs' /\ AllApart'
  BY <1>1, <1>2, <1>3, <1>4, <1>5, <1>6, <1>7, <1>8, <1>9, <1>10, <1>11 DEF Next, Dial
<1> QED BY <1>0, <1>12 DEF Inv

\* The step that places a call: the row is of the list of the run, so it may be called.
LEMMA SpacedStep ==
    ASSUME Inv, [Next]_vars, NEW d \in Dialers, job[d].call = 0, job'[d].call # 0,
           last[job'[d].item].told
    PROVE  LET i == job'[d].item
           IN /\ Every[i] > 0
              /\ job[d].day - last[i].day >= Every[i]
              /\ PartyOf[i] \notin Scenario => last[i].result # "answered"
<1>0. TypeOK /\ RunOK(d)
  BY DEF Inv
<1>1. ASSUME NEW e \in Dialers, NEW i \in Items, NEW k \in Calls, PlaceCall(e, i, k)
      PROVE  job'[d].item \in DOMAIN job[d].seen
  BY <1>0, <1>1, CallStep
<1>2. \/ \E e \in Dialers, i \in Items, k \in Calls : PlaceCall(e, i, k)
      \/ job'[d].call = job[d].call \/ job'[d].call = 0
  <2>1. ASSUME NEW k \in Calls, Station(k) PROVE job'[d].call = job[d].call
    BY <1>0, <2>1, StationKeepsRuns DEF SameRun
  <2>2. ASSUME NEW e \in Dialers, NEW P \in SUBSET Parties, Begin(e, P)
        PROVE  job'[d].call = job[d].call \/ job'[d].call = 0
    BY <1>0, <2>2, BeginStep
  <2>3. ASSUME NEW e \in Dialers, PartyDone(e)
        PROVE  job'[d].call = job[d].call \/ job'[d].call = 0
    BY <1>0, <2>3, DoneStep
  <2>4. ASSUME NEW e \in Dialers, StopWaiting(e) PROVE job'[d].call = job[d].call
    BY <1>0, <2>4, WaitStep DEF SameRun
  <2>5. ASSUME NEW e \in Dialers, Unavailable(e)
        PROVE  job'[d].call = job[d].call \/ job'[d].call = 0
    BY <1>0, <2>5, UnavailableStep DEF NextRowOf
  <2>6. ASSUME NEW e \in Dialers, Record(e)
        PROVE  job'[d].call = job[d].call \/ job'[d].call = 0
    BY <1>0, <2>6, RecordStep DEF NextRowOf
  <2>7. ASSUME NEW e \in Dialers, NEW p \in Parties, LoadItems(e, p) PROVE job'[d].call = job[d].call
    BY <1>0, <2>7, LoadStep
  <2>8. ASSUME NEW i \in Items, People(i) PROVE job'[d].call = job[d].call
    BY <1>0, <2>8, PeopleStep
  <2>9. ASSUME DayPasses \/ UNCHANGED vars PROVE job'[d].call = job[d].call
    BY <2>9 DEF DayPasses, vars
  <2> QED BY <2>1, <2>2, <2>3, <2>4, <2>5, <2>6, <2>7, <2>8, <2>9 DEF Next, Dial
<1>3. job'[d].item \in DOMAIN job[d].seen
  BY <1>1, <1>2
<1> QED BY <1>0, <1>3 DEF RunOK, MayBeCalled

\* While no two runs have the same party to do, a debtor whose call has been written down is
\* called again only when his row allows it, for any number of runs, faults and edits
\* (_repeat_rule, _attempt_due).
THEOREM Spaced == ASSUME ~Overlap PROVE Spec => CallsAreSpaced
<1>1. Init => Inv
  BY InvInit
<1>2. Inv /\ [Next]_vars => Inv'
  BY InvStep
<1>3. Inv /\ [Next]_vars =>
        [\A d \in Dialers :
            LET i == job'[d].item
            IN job[d].call = 0 /\ job'[d].call # 0 /\ last[i].told =>
                  /\ Every[i] > 0
                  /\ job[d].day - last[i].day >= Every[i]
                  /\ PartyOf[i] \notin Scenario => last[i].result # "answered"]_vars
  BY SpacedStep
<1> QED BY <1>1, <1>2, <1>3, PTL DEF Spec, CallsAreSpaced

-----------------------------------------------------------------------------
(* Whose outcome is written *)

\* What a connection takes for the outcome of its call and the share listened to is true of
\* the call c is about, and nothing is taken for an outcome before the station has answered.
TrueOf(c, n) ==
    /\ c.known => c.status # "none"
    /\ n.state = "dialing" => c.status = "none"
    /\ c.status # "none" => n.fate = c.status
    /\ c.listen # "none" => n.listen = c.listen

\* A call belongs to one run, and the row that is being called has no outcome of it yet.
OwnCall(d) ==
    job[d].call # 0 =>
        /\ \A e \in Dialers \ {d} : job[e].call # job[d].call
        /\ ~last[job[d].item].told
        /\ TrueOf(job[d].ami, line[job[d].call])

OwnInv == Inv /\ \A d \in Dialers : OwnCall(d)

\* A message that tells of the call n what happened when it became n1.
TellsOf(m, n, n1) ==
    \/ /\ m.kind = "refused"
       /\ n1.state = "over" /\ n1.fate = n.fate /\ n1.listen = n.listen
    \/ /\ m.kind = "started" /\ m.fate # "none"
       /\ n.state = "dialing" /\ n1.state # "dialing"
       /\ n1.fate = m.fate /\ n1.listen = n.listen
    \/ /\ m.kind = "played"
       /\ n.listen = "none" /\ n1.listen = m.listen
       /\ n1.state = n.state /\ n1.fate = n.fate
    \/ /\ m.kind = "hangup"
       /\ n1.state # "dialing" /\ n1.fate = n.fate /\ n1.listen = n.listen

LEMMA ReadsTheTruth ==
    ASSUME NEW c \in Client, NEW k, NEW m, NEW n \in Line, NEW n1 \in Line, TrueOf(c, n),
           m.kind \in {"refused", "started", "played", "hangup"},
           IF m.of = k THEN TellsOf(m, n, n1) ELSE n1 = n
    PROVE  TrueOf(Read(c, k, m), n1)
<1> DEFINE x == Read(c, k, m)
<1> SUFFICES TrueOf(x, n1)
  OBVIOUS
<1> USE DEF Client
<1>1. CASE c.end # "no"
  <2>1. x = c
    BY <1>1 DEF Read
  <2> QED BY <2>1 DEF TrueOf, TellsOf
<1>2. CASE c.end = "no" /\ m.of # k
  <2>1. x = c
    BY <1>2 DEF Read, SameCall
  <2> QED BY <1>2, <2>1
<1>3. CASE c.end = "no" /\ m.of = k /\ m.kind = "refused"
  <2>1. x = [c EXCEPT !.end = "error"]
    BY <1>3 DEF Read
  <2>2. x.known = c.known /\ x.status = c.status /\ x.listen = c.listen
    BY <2>1
  <2> HIDE DEF x
  <2> QED BY <1>3, <2>2 DEF TrueOf, TellsOf
<1>4. CASE c.end = "no" /\ m.of = k /\ m.kind = "started"
  <2>1. m.fate # "none"
    BY <1>4 DEF TellsOf
  <2>2. x = [c EXCEPT !.known = TRUE, !.status = m.fate,
                      !.end = IF m.fate = "answered" THEN "no" ELSE "told"]
    BY <1>4, <2>1 DEF Read
  <2>3. x.status = m.fate /\ x.listen = c.listen
    BY <2>2
  <2> HIDE DEF x
  <2> QED BY <1>4, <2>1, <2>3 DEF TrueOf, TellsOf
<1>5. CASE c.end = "no" /\ m.of = k /\ m.kind = "played"
  <2>1. x = IF c.known THEN [c EXCEPT !.listen = m.listen] ELSE c
    BY <1>5 DEF Read, SameCall
  <2>2. x.known = c.known /\ x.status = c.status /\ x.listen \in {c.listen, m.listen}
    BY <2>1
  <2>3. c.listen = "none"
    BY <1>5 DEF TrueOf, TellsOf
  <2> HIDE DEF x
  <2> QED BY <1>5, <2>2, <2>3 DEF TrueOf, TellsOf
<1>6. CASE c.end = "no" /\ m.of = k /\ m.kind = "hangup"
  <2>1. x = IF c.known
            THEN [c EXCEPT !.end = "told", !.status = IF c.status = "none" THEN m.cause ELSE c.status]
            ELSE c
    BY <1>6 DEF Read, SameCall
  <2>2. c.known => c.status # "none"
    BY DEF TrueOf
  <2>3. x.known = c.known /\ x.status = c.status /\ x.listen = c.listen
    BY <2>1, <2>2
  <2> HIDE DEF x
  <2> QED BY <1>6, <2>3 DEF TrueOf, TellsOf
<1> QED BY <1>1, <1>2, <1>3, <1>4, <1>5, <1>6

\* Whatever the station does, what a connection holds stays true of its call.
LEMMA StationTellsTruth ==
    ASSUME "vague" \notin Faults, TypeOK, NEW k \in Calls, Station(k),
           NEW d \in Dialers, job[d].call # 0, TrueOf(job[d].ami, line[job[d].call])
    PROVE  TrueOf(job'[d].ami, line'[job[d].call])
<1> DEFINE x == job[d].call
           c == job[d].ami
<1>1. /\ job[d] \in Job /\ c \in Client /\ x \in Calls /\ InUse(x)
      /\ line \in [Calls -> Line] /\ line[x] \in Line /\ line[k] \in Line
  BY DEF TypeOK, Job, InUse
<1>2. line' \in [Calls -> Line] /\ line'[x] \in Line
  BY <1>1, StationKeepsRuns
<1>3. ASSUME NEW m, job' = Hears(m), m.of = k,
             m.kind \in {"refused", "started", "played", "hangup"},
             \A y \in Calls \ {k} : line'[y] = line[y],
             x = k => TellsOf(m, line[k], line'[k])
      PROVE  TrueOf(job'[d].ami, line'[x])
  <2>1. job'[d].ami = Read(c, x, m)
    BY <1>1, <1>3 DEF Hears, Job
  <2>2. IF m.of = x THEN TellsOf(m, line[x], line'[x]) ELSE line'[x] = line[x]
    BY <1>1, <1>3
  <2>3. TrueOf(Read(c, x, m), line'[x])
    BY <1>1, <1>2, <1>3, <2>2, ReadsTheTruth
  <2> QED BY <2>1, <2>3
<1>o. ASSUME NEW fate, line' = Over(k, fate)
      PROVE  /\ \A y \in Calls \ {k} : line'[y] = line[y]
             /\ x = k => line'[k].state = "over" /\ line'[k].fate = fate /\ line'[k].listen = line[k].listen
  BY <1>1, <1>o DEF Over, Line
<1>4. CASE StationRefuses(k)
  <2> DEFINE m == [kind |-> "refused", of |-> k]
  <2>1. job' = Hears(m) /\ line' = Over(k, line[k].fate)
    BY <1>4 DEF StationRefuses
  <2>2. x = k => TellsOf(m, line[k], line'[k])
    BY <1>o, <2>1 DEF TellsOf
  <2>3. m.of = k /\ m.kind = "refused"
    OBVIOUS
  <2> HIDE DEF m
  <2> QED BY <1>3, <1>o, <2>1, <2>2, <2>3
<1>5. CASE StationHangsUp(k)
  <2> DEFINE m == [kind |-> "hangup", of |-> k,
                   cause |-> IF line[k].fate \in Causes THEN line[k].fate ELSE "no_answer"]
  <2>1. job' = Hears(m) /\ line' = Over(k, line[k].fate)
    BY <1>5 DEF StationHangsUp
  <2>2. x = k => TellsOf(m, line[k], line'[k])
    BY <1>o, <2>1 DEF TellsOf
  <2>3. m.of = k /\ m.kind = "hangup"
    OBVIOUS
  <2> HIDE DEF m
  <2> QED BY <1>3, <1>o, <2>1, <2>2, <2>3
<1>6. CASE LegHangsUp(k)
  <2>0. PICK cause \in Causes : job' = Hears([kind |-> "hangup", of |-> k, cause |-> cause])
    BY <1>6 DEF LegHangsUp
  <2> DEFINE m == [kind |-> "hangup", of |-> k, cause |-> cause]
  <2>1. job' = Hears(m) /\ line' = line /\ line[k].state = "up"
    BY <1>6, <2>0 DEF LegHangsUp
  <2>2. TellsOf(m, line[k], line'[k])
    BY <2>1 DEF TellsOf
  <2>3. m.of = k /\ m.kind = "hangup"
    OBVIOUS
  <2> HIDE DEF m
  <2> QED BY <1>3, <2>1, <2>2, <2>3
<1>7. ASSUME NEW fate \in Fates, StationAnswers(k, fate) PROVE TrueOf(job'[d].ami, line'[x])
  <2> DEFINE m == [kind |-> "started", of |-> k, fate |-> fate]
  <2>0. fate # "none"
    BY AutocallAssumption DEF AutocallAssumption, CallResult
  <2>1. /\ job' = Hears(m) /\ line[k].state = "dialing"
        /\ line' = IF fate = "answered" THEN [line EXCEPT ![k].state = "up", ![k].fate = fate]
                   ELSE Over(k, fate)
    BY <1>7 DEF StationAnswers
  <2>2. /\ \A y \in Calls \ {k} : line'[y] = line[y]
        /\ x = k => /\ line'[k].state # "dialing" /\ line'[k].fate = fate
                    /\ line'[k].listen = line[k].listen
    <3>1. CASE fate = "answered"
      BY <1>1, <2>1, <3>1 DEF Line
    <3>2. CASE fate # "answered"
      BY <1>o, <2>1, <3>2
    <3> QED BY <3>1, <3>2
  <2>3. x = k => TellsOf(m, line[k], line'[k])
    BY <2>0, <2>1, <2>2 DEF TellsOf
  <2>4. m.of = k /\ m.kind = "started"
    OBVIOUS
  <2> HIDE DEF m
  <2> QED BY <1>3, <2>1, <2>2, <2>3, <2>4
<1>8. ASSUME NEW share \in Shares, StationPlays(k, share) PROVE TrueOf(job'[d].ami, line'[x])
  <2> DEFINE m == [kind |-> "played", of |-> k, listen |-> share]
  <2>1. /\ job' = Hears(m) /\ line[k].listen = "none" /\ line' = [line EXCEPT ![k].listen = share]
    BY <1>8 DEF StationPlays
  <2>2. /\ \A y \in Calls \ {k} : line'[y] = line[y]
        /\ line'[k].listen = share /\ line'[k].state = line[k].state /\ line'[k].fate = line[k].fate
    BY <1>1, <2>1 DEF Line
  <2>3. TellsOf(m, line[k], line'[k])
    BY <2>1, <2>2 DEF TellsOf
  <2>4. m.of = k /\ m.kind = "played"
    OBVIOUS
  <2> HIDE DEF m
  <2> QED BY <1>3, <2>1, <2>2, <2>3, <2>4
<1> QED BY <1>4, <1>5, <1>6, <1>7, <1>8 DEF Station

\* The call of another run is not of this one, and its end leaves this one's as it is.
LEMMA OthersLineStays ==
    ASSUME TypeOK, NEW d \in Dialers, NEW e \in Dialers, job[d].call # 0, job[e].call # job[d].call,
           job[e].call # 0, line' = LeftLine(job[e].call)
    PROVE  line'[job[d].call] = line[job[d].call]
<1>1. job[d] \in Job /\ job[e] \in Job /\ line \in [Calls -> Line]
  BY DEF TypeOK
<1>2. job[d].call \in Calls /\ job[e].call \in Calls
  BY <1>1 DEF Job
<1> QED BY <1>1, <1>2 DEF LeftLine

\* A run whose call stays, of a row whose outcome is not written meanwhile.
LEMMA CallStays ==
    ASSUME NEW d \in Dialers, OwnCall(d), job[d].call # 0 => job'[d].call = job[d].call \/ job'[d].call = 0,
           job[d].call = 0 => job'[d].call = 0,
           job'[d].call # 0 => /\ job'[d].item = job[d].item
                               /\ \A e \in Dialers \ {d} : job'[e].call \in {0, job[e].call}
                               /\ last'[job[d].item].told => last[job[d].item].told
                               /\ TrueOf(job'[d].ami, line'[job[d].call])
    PROVE  OwnCall(d)'
  BY DEF OwnCall

LEMMA OwnInit == Init => OwnInv
<1> SUFFICES ASSUME Init PROVE OwnInv
  OBVIOUS
<1>1. \A d \in Dialers : job[d].call = 0
  BY DEF Init, Idle
<1> QED BY <1>1, InvInit DEF OwnInv, OwnCall

LEMMA OwnStep == ~Overlap /\ "vague" \notin Faults /\ OwnInv /\ [Next]_vars => OwnInv'
<1> SUFFICES ASSUME ~Overlap, "vague" \notin Faults, OwnInv, [Next]_vars PROVE OwnInv'
  OBVIOUS
<1> DEFINE Own == \A d \in Dialers : OwnCall(d)
<1>0. Inv /\ Inv' /\ TypeOK /\ Own /\ \A d, e \in Dialers : d # e => Apart(d, e)
  BY InvStep DEF OwnInv, Inv
<1>c. \A d \in Dialers : /\ job[d] \in Job
                         /\ job[d].call # 0 => job[d].call \in Calls /\ job[d].item \in DOMAIN job[d].seen
  BY <1>0 DEF TypeOK, Job
<1>n. 0 \notin Calls
  BY AutocallAssumption DEF AutocallAssumption
<1>s. \A d \in Dialers : job[d].call # 0 =>
         /\ \A e \in Dialers \ {d} : job[e].call # job[d].call
         /\ ~last[job[d].item].told
         /\ TrueOf(job[d].ami, line[job[d].call])
  BY <1>0 DEF OwnCall
<1>1. ASSUME NEW k \in Calls, Station(k) PROVE Own'
  <2>1. \A d \in Dialers : job'[d].call = job[d].call /\ job'[d].item = job[d].item
    BY <1>0, <1>1, StationKeepsRuns DEF SameRun
  <2>2. last' = last
    BY <1>0, <1>1, StationKeepsRuns DEF StationOnly
  <2>3. ASSUME NEW d \in Dialers, job[d].call # 0 PROVE TrueOf(job'[d].ami, line'[job[d].call])
    BY <1>0, <1>1, <1>s, <2>3, StationTellsTruth
  <2>4. ASSUME NEW d \in Dialers PROVE OwnCall(d)'
    BY <1>0, <2>1, <2>2, <2>3, CallStays
  <2> QED BY <2>4
\* A run other than d goes on as it was when d leaves its call or has none.
<1>2. ASSUME NEW d \in Dialers, \A e \in Dialers \ {d} : job'[e] = job[e],
             job'[d].call = 0, last' = last,
             line' = line \/ (job[d].call # 0 /\ line' = LeftLine(job[d].call))
      PROVE  Own'
  <2>1. OwnCall(d)'
    BY <1>2 DEF OwnCall
  <2>2. ASSUME NEW e \in Dialers, e # d PROVE OwnCall(e)'
    <3>1. job[e].call # 0 => line'[job[e].call] = line[job[e].call]
      BY <1>0, <1>2, <1>s, <2>2, OthersLineStays
    <3>2. /\ job'[e] = job[e]
          /\ \A f \in Dialers : job'[f].call \in {0, job[f].call}
      BY <1>2, <2>2
    <3>3. job[e].call # 0 => TrueOf(job'[e].ami, line'[job[e].call])
      BY <1>s, <3>1, <3>2
    <3> QED BY <1>0, <1>2, <3>2, <3>3, CallStays
  <2> QED BY <2>1, <2>2
<1>3. ASSUME NEW d \in Dialers, NEW P \in SUBSET Parties, Begin(d, P) PROVE Own'
  <2>1. (\A e \in Dialers \ {d} : job'[e] = job[e]) /\ job'[d].call = 0
    BY <1>0, <1>3, BeginStep
  <2>2. last' = last /\ line' = line
    BY <1>3 DEF Begin
  <2> QED BY <1>2, <2>1, <2>2
<1>4. ASSUME NEW d \in Dialers, PartyDone(d) PROVE Own'
  <2>1. (\A e \in Dialers \ {d} : job'[e] = job[e]) /\ job'[d].call = 0
    BY <1>0, <1>4, DoneStep
  <2>2. last' = last /\ line' = line
    BY <1>4 DEF PartyDone
  <2> QED BY <1>2, <2>1, <2>2
<1>5. ASSUME NEW d \in Dialers, Unavailable(d) PROVE Own'
  <2>1. (\A e \in Dialers \ {d} : job'[e] = job[e]) /\ job'[d].call = 0
    BY <1>0, <1>5, UnavailableStep DEF NextRowOf
  <2>2. last' = last /\ job[d].call # 0 /\ line' = LeftLine(job[d].call)
    BY <1>5 DEF Unavailable
  <2> QED BY <1>2, <2>1, <2>2
<1>6. ASSUME NEW d \in Dialers, StopWaiting(d) PROVE Own'
  <2>1. \A e \in Dialers : job'[e].call = job[e].call /\ job'[e].item = job[e].item
    BY <1>0, <1>6, WaitStep DEF SameRun
  <2>2. last' = last /\ line' = line
    BY <1>6 DEF StopWaiting
  <2>3. ASSUME NEW e \in Dialers
        PROVE  /\ job'[e].ami.known = job[e].ami.known /\ job'[e].ami.status = job[e].ami.status
               /\ job'[e].ami.listen = job[e].ami.listen
    <3>1. job \in [Dialers -> Job] /\ job[e] \in Job /\ job[e].ami \in Client
      BY <1>0 DEF TypeOK, Job
    <3>2. PICK end \in {"error", "told"} : job' = [job EXCEPT ![d].ami.end = end]
      BY <1>6 DEF StopWaiting
    <3>3. job'[e] = IF e = d THEN [job[e] EXCEPT !.ami.end = end] ELSE job[e]
      BY <3>1, <3>2
    <3> QED BY <3>1, <3>3 DEF Job, Client
  <2>4. ASSUME NEW e \in Dialers, job[e].call # 0 PROVE TrueOf(job'[e].ami, line'[job[e].call])
    BY <1>s, <2>2, <2>3, <2>4 DEF TrueOf
  <2>5. ASSUME NEW e \in Dialers PROVE OwnCall(e)'
    BY <1>0, <2>1, <2>2, <2>4, CallStays
  <2> QED BY <2>5
<1>7. ASSUME NEW d \in Dialers, Record(d) PROVE Own'
  <2>1. /\ \A e \in Dialers \ {d} : job'[e] = job[e]
        /\ job'[d].call = 0 /\ job[d].item \in DOMAIN job[d].seen /\ job[d].item \in Items
    BY <1>0, <1>7, RecordStep DEF NextRowOf
  <2>2. job[d].call # 0 /\ line' = LeftLine(job[d].call)
    BY <1>7 DEF Record
  <2>3. \A x \in Items \ {job[d].item} : last'[x] = last[x]
    <3>1. PICK x : last' = [last EXCEPT ![job[d].item].told = TRUE, ![job[d].item].result = x]
      BY <1>7 DEF Record
    <3> QED BY <1>0, <3>1 DEF TypeOK
  <2>4. OwnCall(d)'
    BY <2>1 DEF OwnCall
  <2>5. ASSUME NEW e \in Dialers, e # d PROVE OwnCall(e)'
    <3>1. job[e].call # 0 => line'[job[e].call] = line[job[e].call]
      BY <1>0, <1>s, <2>2, <2>5, OthersLineStays
    <3>2. /\ job'[e] = job[e]
          /\ \A f \in Dialers : job'[f].call \in {0, job[f].call}
      BY <2>1, <2>5
    <3>3. job[e].call # 0 => TrueOf(job'[e].ami, line'[job[e].call])
      BY <1>s, <3>1, <3>2
    <3>4. job[e].call # 0 => last'[job[e].item] = last[job[e].item]
      BY <1>0, <1>c, <2>1, <2>3, <2>5, OwnRows, AtItsParty
    <3> QED BY <1>0, <3>2, <3>3, <3>4, CallStays
  <2> QED BY <2>4, <2>5
<1>8. ASSUME NEW d \in Dialers, NEW p \in Parties, LoadItems(d, p) PROVE Own'
  <2>1. /\ \A e \in Dialers \ {d} : job'[e] = job[e]
        /\ job'[d].call = job[d].call /\ job'[d].item = job[d].item /\ job'[d].ami = job[d].ami
    BY <1>0, <1>8, LoadStep
  <2>2. last' = last /\ line' = line
    BY <1>8 DEF LoadItems
  <2>3. ASSUME NEW e \in Dialers
        PROVE  job'[e].call = job[e].call /\ job'[e].item = job[e].item /\ job'[e].ami = job[e].ami
    BY <2>1
  <2>4. ASSUME NEW e \in Dialers PROVE OwnCall(e)'
    BY <1>0, <1>s, <2>2, <2>3, CallStays
  <2> QED BY <2>4
<1>9. ASSUME NEW d \in Dialers, NEW i \in Items, NEW k \in Calls, PlaceCall(d, i, k) PROVE Own'
  <2>1. /\ \A e \in Dialers \ {d} : job'[e] = job[e]
        /\ job'[d].item = i /\ job'[d].ami = NewClient
        /\ last' = [last EXCEPT ![i] = [day |-> job[d].day, told |-> FALSE, result |-> "none"]]
    BY <1>0, <1>9, CallStep
  <2>2. /\ ~InUse(k) /\ job[d].call = 0
        /\ line' = [line EXCEPT ![k] = [NoLine EXCEPT !.state = "dialing"]]
        /\ job' = [job EXCEPT ![d] = [job[d] EXCEPT !.item = i, !.call = k, !.ami = NewClient]]
    BY <1>9 DEF PlaceCall
  <2>3. job'[d].call = k /\ \A e \in Dialers : job[e].call # k
    BY <1>0, <1>c, <2>2 DEF TypeOK, InUse, Job
  <2>4. /\ ~last'[i].told /\ \A x \in Items \ {i} : last'[x] = last[x]
        /\ \A x \in Calls \ {k} : line'[x] = line[x]
        /\ line'[k] = [NoLine EXCEPT !.state = "dialing"]
    BY <1>0, <2>1, <2>2 DEF TypeOK
  <2>5. OwnCall(d)'
    <3>1. TrueOf(NewClient, line'[k])
      BY <2>4 DEF TrueOf, NewClient
    <3> QED BY <2>1, <2>3, <2>4, <3>1 DEF OwnCall
  <2>6. ASSUME NEW e \in Dialers, e # d PROVE OwnCall(e)'
    <3>1. job'[e] = job[e] /\ \A f \in Dialers \ {d} : job'[f].call = job[f].call
      BY <2>1, <2>6
    <3>2. job[e].call # 0 => /\ line'[job[e].call] = line[job[e].call]
                             /\ job[e].item \in Items
      BY <1>0, <1>c, <2>3, <2>4, AtItsParty
    <3>3. job[e].call # 0 => ~last'[job[e].item].told
      BY <1>s, <2>4, <3>2
    <3> QED BY <1>s, <2>3, <3>1, <3>2, <3>3 DEF OwnCall
  <2> QED BY <2>5, <2>6
<1>10. ASSUME NEW i \in Items, People(i) PROVE Own'
  <2>1. /\ UNCHANGED <<line, job>>
        /\ \A x \in Items : last'[x].told => last[x].told
    BY <1>0, <1>10, PeopleStep
  <2>2. ASSUME NEW e \in Dialers PROVE OwnCall(e)'
    <3>1. job[e].call # 0 => job[e].item \in Items
      BY <1>0, <1>c, AtItsParty
    <3> QED BY <1>0, <1>s, <2>1, <3>1, CallStays
  <2> QED BY <2>2
<1>11. ASSUME DayPasses \/ UNCHANGED vars PROVE Own'
  <2>1. UNCHANGED <<line, job, last>>
    BY <1>11 DEF DayPasses, vars
  <2> QED BY <1>0, <2>1 DEF OwnCall
<1>12. Own'
  BY <1>1, <1>3, <1>4, <1>5, <1>6, <1>7, <1>8, <1>9, <1>10, <1>11 DEF Next, Dial
<1> QED BY <1>0, <1>12 DEF OwnInv

\* The step that leaves a call with an outcome in its row has written that of the call.
LEMMA ToldStep ==
    ASSUME OwnInv, [Next]_vars, NEW d \in Dialers, job[d].call # 0, job'[d].call = 0,
           last'[job[d].item].told
    PROVE  LET i == job[d].item
               k == job[d].call
           IN /\ row'[i].result = line[k].fate
              /\ row'[i].listen = "heard" \/ attempt'[i] = "done" =>
                    line[k].listen = "heard" \/ job[d].seen[i].listen = "heard"
<1> DEFINE i == job[d].item
           k == job[d].call
           c == job[d].ami
           Goal == /\ row'[i].result = line[k].fate
                   /\ row'[i].listen = "heard" \/ attempt'[i] = "done" =>
                         line[k].listen = "heard" \/ job[d].seen[i].listen = "heard"
<1>0. /\ TypeOK /\ ~last[i].told /\ TrueOf(c, line[k])
      /\ job[d] \in Job /\ c \in Client /\ i \in DOMAIN job[d].seen
  BY DEF OwnInv, OwnCall, Inv, TypeOK, Job
<1>1. CASE Record(d)
  <2> DEFINE p == job[d].at
             s == job[d].seen[i]
             r == Written(s, i, job[d].left[p], c.status, Reported(c), job[d].day)
  <2>1. i \in Items /\ s \in Row
    BY <1>0, AtItsParty DEF Job
  <2>2. c.end = "told" /\ row' = [row EXCEPT ![i] = r] /\ attempt' = [attempt EXCEPT ![i] = AttemptOf(r)]
    BY <1>1 DEF Record
  <2>3. row'[i] = r /\ attempt'[i] = AttemptOf(r)
    BY <1>0, <2>1, <2>2 DEF TypeOK
  <2>4. c.status # "none" /\ c.status \in CallResult /\ line[k].fate = c.status
    BY <1>0, <2>2 DEF TypeOK, TrueOf, Client
  <2>5. /\ r.result = c.status
        /\ r.listen = IF Reported(c) = "none" THEN s.listen ELSE Reported(c)
    BY DEF Written
  <2>6. AttemptOf(r) = "done" => r.listen = "heard"
    <3> HIDE DEF r
    <3> QED BY <2>4, <2>5 DEF AttemptOf, CallResult
  <2>7. r.listen = "heard" => line[k].listen = "heard" \/ s.listen = "heard"
    <3> HIDE DEF r, s
    <3> QED BY <1>0, <2>5 DEF Reported, TrueOf
  <2> HIDE DEF r, s
  <2> QED BY <2>3, <2>4, <2>5, <2>6, <2>7 DEF s
<1>2. CASE ~Record(d)
  <2>1. ASSUME NEW x \in Calls, Station(x) PROVE FALSE
    BY <1>0, <2>1, StationKeepsRuns DEF SameRun
  <2>2. ASSUME NEW e \in Dialers, NEW P \in SUBSET Parties, Begin(e, P) PROVE FALSE
    <3>1. Idle.call = 0
      BY DEF Idle
    <3> QED BY <1>0, <2>2, <3>1, BeginStep
  <2>3. ASSUME NEW e \in Dialers, PartyDone(e) PROVE FALSE
    BY <1>0, <2>3, DoneStep
  <2>4. ASSUME NEW e \in Dialers, StopWaiting(e) PROVE FALSE
    BY <1>0, <2>4, WaitStep DEF SameRun
  <2>5. ASSUME NEW e \in Dialers, Unavailable(e) PROVE FALSE
    BY <1>0, <2>5 DEF Unavailable
  <2>6. ASSUME NEW e \in Dialers, Record(e) PROVE FALSE
    <3>1. e # d
      BY <1>2, <2>6
    <3>2. NextRowOf(e)
      BY <1>0, <2>6, RecordStep
    <3> QED BY <1>0, <3>1, <3>2 DEF NextRowOf
  <2>7. ASSUME NEW e \in Dialers, NEW p \in Parties, LoadItems(e, p) PROVE FALSE
    BY <1>0, <2>7, LoadStep
  <2>8. ASSUME NEW e \in Dialers, NEW x \in Items, NEW y \in Calls, PlaceCall(e, x, y) PROVE FALSE
    <3>1. job[e].call = 0 /\ \A f \in Dialers \ {e} : job'[f] = job[f]
      BY <1>0, <2>8, CallStep DEF PlaceCall
    <3> QED BY <3>1
  <2>9. ASSUME NEW x \in Items, People(x) PROVE FALSE
    BY <1>0, <2>9, PeopleStep
  <2>10. ASSUME DayPasses \/ UNCHANGED vars PROVE FALSE
    BY <2>10 DEF DayPasses, vars
  <2> QED BY <2>1, <2>2, <2>3, <2>4, <2>5, <2>6, <2>7, <2>8, <2>9, <2>10 DEF Next, Dial
<1> QED BY <1>1, <1>2

\* While no two runs have the same party to do and the station gives a reason with every
\* answer, what a run writes into a row is the outcome of the call it has placed to this
\* debtor, for any number of connections, however their messages come
\* (_wait_outcome, _same_call, write_call_result).
THEOREM OwnOutcome == ASSUME ~Overlap, "vague" \notin Faults PROVE Spec => ToldIsOwnCall
<1>1. Init => OwnInv
  BY OwnInit
<1>2. OwnInv /\ [Next]_vars => OwnInv'
  BY OwnStep
<1>3. OwnInv /\ [Next]_vars =>
        [\A d \in Dialers :
            LET i == job[d].item
                k == job[d].call
            IN k # 0 /\ job'[d].call = 0 /\ last'[i].told =>
                  /\ row'[i].result = line[k].fate
                  /\ row'[i].listen = "heard" \/ attempt'[i] = "done" =>
                        line[k].listen = "heard" \/ job[d].seen[i].listen = "heard"]_vars
  BY ToldStep
<1> QED BY <1>1, <1>2, <1>3, PTL DEF Spec, ToldIsOwnCall

===============================================================================
