------------------------ MODULE NoticeDeliveryProofs ------------------------
(***************************************************************************)
(* Theorems about NoticeDelivery for every number of rows, notifications,  *)
(* workers and gateway processes, and every combination of faults.         *)
(***************************************************************************)
EXTENDS NoticeDelivery, TLAPS

\* rollup() always has a verdict, and it is a status.
LEMMA VerdictIsStatus == \A S : Verdict(S) \in PartyStatus
  BY DEF Verdict, PartyStatus, ItemStatus, OpenItem

-----------------------------------------------------------------------------
(* The inductive invariant *)

\* A request in progress knows its notification and its row.
KnowsRow(j)    == j.row \in Rows
KnowsNotice(j) == j.notice \in Notices

JobOK(j) ==
    /\ j.step \in {"lock", "post", "save", "note", "find"} => KnowsNotice(j)
    /\ j.step \in {"lock", "roll", "rollsave", "rowsave", "hand", "close", "moverow"} => KnowsRow(j)
    /\ j.step \in {"post", "save"} /\ j.kind = "send" => KnowsRow(j)
    /\ j.step = "lock" => j.kind = "send"
    /\ j.step = "moverow" => j.seen \in ItemStatus

JobInv == \A w \in Workers : JobOK(job[w])

\* A journal row names its notification; only journal rows are delivered.
LogInv == /\ \A l \in Logs : log[l].status # "none" => log[l].notice \in Notices
          /\ \A g \in Gateways, l \in Logs : dlv[g][l].step # "none" => log[l].status # "none"

-----------------------------------------------------------------------------
(* Types *)

LEMMA InitType == NoticeAssumption /\ Init => TypeOK /\ JobInv
  BY DEF NoticeAssumption, Init, TypeOK, JobInv, JobOK, Idle, NoDelivery, Job, JobStep, JobKind,
         SendEntries, HandEntries,
         Notice, Row, Log, Delivery,
         PartyStatus, ItemStatus, NoticeStatus, LogStatus, DlvStep, CallbackTries, At

\* A step of a delivery that leaves the backend alone keeps the types.
LEMMA GatewayType ==
    ASSUME TypeOK, JobInv, NEW g \in Gateways, NEW l \in Logs,
           Claim(g, l) \/ Hand(g, l) \/ StoreOutcome(g, l) \/ CallbackLost(g, l)
    PROVE  TypeOK' /\ JobInv'
  <1>1. CASE Claim(g, l)
    <2>1. log' \in [Logs -> Log]
      <3>1. CASE Claimable(l)
        <4>1. log' = [log EXCEPT ![l] = [status |-> "processing", notice |-> @.notice, fresh |-> TRUE]]
          BY <1>1, <3>1 DEF Claim
        <4> QED BY <4>1 DEF TypeOK, Log, LogStatus
      <3>2. CASE ~Claimable(l)
        BY <1>1, <3>2 DEF Claim, TypeOK
      <3> QED BY <3>1, <3>2
    <2>2. dlv' \in [Gateways -> [Logs -> Delivery]]
      <3>1. CASE Claimable(l)
        <4>1. dlv' = [dlv EXCEPT ![g][l] = At("claimed", FALSE, 0)]
          BY <1>1, <3>1 DEF Claim
        <4> QED BY <4>1 DEF TypeOK, Delivery, DlvStep, At, CallbackTries
      <3>2. CASE ~Claimable(l)
        <4>1. dlv' = [dlv EXCEPT ![g][l] = NoDelivery]
          BY <1>1, <3>2 DEF Claim
        <4> QED BY <4>1 DEF TypeOK, Delivery, DlvStep, At, NoDelivery, CallbackTries
      <3> QED BY <3>1, <3>2
    <2> QED BY <1>1, <2>1, <2>2 DEF Claim, backend, TypeOK, JobInv
  <1>2. CASE Hand(g, l)
    <2>1. PICK ok \in BOOLEAN :
             /\ dlv' = [dlv EXCEPT ![g][l] = At("handed", ok, 0)]
             /\ handed' = [handed EXCEPT ![l] = IF ok THEN @ + 1 ELSE @]
      BY <1>2 DEF Hand
    <2>2. dlv' \in [Gateways -> [Logs -> Delivery]]
      <3>1. At("handed", ok, 0) \in Delivery
        BY DEF Delivery, DlvStep, CallbackTries, At
      <3>2. dlv \in [Gateways -> [Logs -> Delivery]] /\ dlv[g] \in [Logs -> Delivery]
        BY DEF TypeOK
      <3>3. [dlv[g] EXCEPT ![l] = At("handed", ok, 0)] \in [Logs -> Delivery]
        BY <3>1, <3>2
      <3>4. dlv' = [dlv EXCEPT ![g] = [dlv[g] EXCEPT ![l] = At("handed", ok, 0)]]
        BY <2>1
      <3> QED BY <3>2, <3>3, <3>4
    <2>3. handed' \in [Logs -> Nat]
      BY <2>1 DEF TypeOK
    <2> QED BY <1>2, <2>2, <2>3 DEF Hand, backend, TypeOK, JobInv
  <1>3. CASE StoreOutcome(g, l)
    <2> DEFINE s == IF dlv[g][l].ok THEN "delivered" ELSE "failed"
               x == At("calling", dlv[g][l].ok, 0)
    <2>0. log' = [log EXCEPT ![l].status = s] /\ dlv' = [dlv EXCEPT ![g][l] = x]
      BY <1>3 DEF StoreOutcome
    <2>1. log' \in [Logs -> Log]
      <3>1. s \in LogStatus
        BY DEF LogStatus
      <3> HIDE DEF s
      <3> QED BY <2>0, <3>1 DEF TypeOK, Log
    <2>2. dlv' \in [Gateways -> [Logs -> Delivery]]
      <3>1. x \in Delivery
        BY DEF TypeOK, Delivery, DlvStep, At, CallbackTries
      <3> HIDE DEF x
      <3> QED BY <2>0, <3>1 DEF TypeOK
    <2> QED BY <1>3, <2>1, <2>2 DEF StoreOutcome, backend, TypeOK, JobInv
  <1>4. CASE CallbackLost(g, l)
    <2>1. dlv' \in [Gateways -> [Logs -> Delivery]]
      <3> DEFINE d == dlv[g][l]
      <3>1. d \in Delivery
        BY DEF TypeOK
      <3>2. CASE d.tries + 1 < CallbackTries
        <4>1. dlv' = [dlv EXCEPT ![g][l] = At("calling", d.ok, d.tries + 1)]
          BY <1>4, <3>2 DEF CallbackLost
        <4>2. d.tries + 1 \in 0 .. CallbackTries
          BY <3>1, <3>2 DEF Delivery, CallbackTries
        <4> QED BY <3>1, <4>1, <4>2 DEF TypeOK, Delivery, DlvStep, At
      <3>3. CASE ~ (d.tries + 1 < CallbackTries)
        <4>1. dlv' = [dlv EXCEPT ![g][l] = NoDelivery]
          BY <1>4, <3>3 DEF CallbackLost
        <4> QED BY <4>1 DEF TypeOK, Delivery, DlvStep, At, NoDelivery, CallbackTries
      <3> QED BY <3>2, <3>3
    <2> QED BY <1>4, <2>1 DEF CallbackLost, backend, TypeOK, JobInv
  <1> QED
    BY <1>1, <1>2, <1>3, <1>4

\* A worker goes on to x, a request that knows what it needs.
LEMMA JobGoesOn ==
    ASSUME TypeOK, JobInv, NEW w \in Workers, NEW x \in Job, JobOK(x),
           job' = [job EXCEPT ![w] = x]
    PROVE  job' \in [Workers -> Job] /\ JobInv'
  <1>1. job' \in [Workers -> Job]
    BY DEF TypeOK
  <1>2. \A v \in Workers : job'[v] = x \/ job'[v] = job[v]
    BY DEF TypeOK
  <1> QED
    BY <1>1, <1>2 DEF JobInv

LEMMA IdleIsOK == Idle \in Job /\ JobOK(Idle)
  BY DEF Idle, Job, JobStep, JobKind, SendEntries, HandEntries, JobOK, PartyStatus, ItemStatus

\* A row takes the verdict of its letter.
LEMMA RowTakesStatus ==
    ASSUME NEW r \in Row, NEW s \in ItemStatus
    PROVE  [r EXCEPT !.status = s] \in Row /\ [r EXCEPT !.status = s].notice = r.notice
  BY DEF Row

\* What a step by hand, or of auto_complete, may do: it leaves notifications, parties
\* and the gateway alone, and ties a row only to what it was loaded with.
HandStep == {"hand", "close", "moverow"}

HandGoesOn(w) == \E x \in Job :
    /\ job' = [job EXCEPT ![w] = x]
    /\ JobOK(x)
    /\ job[w].step \in HandStep \cup {"idle"}
    /\ x.step \in HandStep \cup {"roll", "rollsave"}
    /\ x.step = "hand" => x.notice = row[x.row].notice

HandWrites(w) == \A i \in Rows :
    /\ row'[i].status # row[i].status => WritesByHand(w, i)
    /\ \/ row'[i].notice = row[i].notice
       \/ job[w].step = "hand" /\ job[w].row = i /\ row'[i].notice = job[w].notice

LEMMA ByHandLeaves ==
    ASSUME NEW w \in Workers, ByHand(w)
    PROVE  UNCHANGED <<notice, party, lock, gateway>>
  BY DEF ByHand, TakeRow, SaveByHand, StopParty, MoveParty, MoveRow, AutoComplete

LEMMA ByHandStep ==
    ASSUME NoticeAssumption, TypeOK, JobInv, NEW w \in Workers, ByHand(w)
    PROVE  HandGoesOn(w) /\ row' \in [Rows -> Row] /\ HandWrites(w)
  <1> DEFINE j == job[w]
  <1> USE DEF HandStep
  <1>0. j \in Job /\ JobOK(j) /\ Idle \in Job
    BY IdleIsOK DEF TypeOK, JobInv
  <1>1. ASSUME UNCHANGED row PROVE row' \in [Rows -> Row] /\ HandWrites(w)
    BY <1>1 DEF TypeOK, HandWrites
  <1>2. ASSUME NEW i \in Rows, NEW kind \in {"record", "stop"}, TakeRow(w, kind, i)
        PROVE  HandGoesOn(w) /\ UNCHANGED row
    <2> DEFINE s == IF kind = "stop" /\ row[i].status \in ClosedItem THEN "close" ELSE "hand"
               x == [Idle EXCEPT !.step = s, !.kind = kind, !.row = i, !.notice = row[i].notice,
                                 !.seen = party[PartyOf[i]]]
    <2>1. s \in {"hand", "close"} /\ row[i].notice \in Notices \cup {None} /\ party[PartyOf[i]] \in PartyStatus
      BY DEF NoticeAssumption, TypeOK, Row
    <2>2. job' = [job EXCEPT ![w] = x] /\ j.step = "idle"
      BY <1>2 DEF TakeRow
    <2> HIDE DEF s
    <2>3. x \in Job /\ x.step = s /\ x.row = i /\ x.notice = row[i].notice
      <3>1. x \in Job
        BY <1>0, <2>1 DEF Job, JobStep, JobKind, HandEntries
      <3> QED BY <1>0, <3>1 DEF Job
    <2> HIDE DEF x
    <2>4. JobOK(x)
      BY <2>1, <2>3 DEF JobOK, KnowsRow
    <2> QED BY <1>2, <2>1, <2>2, <2>3, <2>4 DEF TakeRow, HandGoesOn
  <1>3. CASE SaveByHand(w)
    <2> DEFINE t == IF j.kind = "stop" THEN "close" ELSE "roll"
               x == [j EXCEPT !.step = t]
    <2>1. PICK s \in ItemStatus : row' = [row EXCEPT ![j.row] = [status |-> s, notice |-> j.notice]]
      BY <1>3 DEF SaveByHand, ItemStatus
    <2>2. j.step = "hand" /\ j.row \in Rows /\ j.notice \in Notices \cup {None}
      BY <1>0, <1>3 DEF SaveByHand, JobOK, KnowsRow, Job
    <2>3. job' = [job EXCEPT ![w] = x] /\ t \in {"close", "roll"}
      BY <1>3 DEF SaveByHand
    <2> HIDE DEF t
    <2>4. x \in Job /\ x.step = t /\ x.row = j.row
      BY <1>0, <2>3 DEF Job, JobStep
    <2> HIDE DEF x
    <2>5. HandGoesOn(w)
      BY <2>2, <2>3, <2>4 DEF HandGoesOn, JobOK, KnowsRow
    <2>6. row' \in [Rows -> Row]
      BY <2>1, <2>2 DEF TypeOK, Row
    <2>7. job'[w] # job[w]
      BY <2>2, <2>3, <2>4 DEF TypeOK
    <2>8. HandWrites(w)
      BY <2>1, <2>2, <2>7 DEF HandWrites, WritesByHand, TypeOK
    <2> QED BY <2>5, <2>6, <2>8
  <1>4. CASE StopParty(w)
    <2> DEFINE closed == RowStatuses(PartyOf[j.row]) \subseteq ClosedItem
               t == IF closed THEN "rollsave" ELSE "roll"
               v == IF closed THEN "done" ELSE j.seen
               x == [j EXCEPT !.step = t, !.seen = v]
    <2>1. job' = [job EXCEPT ![w] = x] /\ j.step = "close"
      BY <1>4 DEF StopParty
    <2>0. t \in {"roll", "rollsave"} /\ v \in PartyStatus
      BY <1>0 DEF Job, PartyStatus, ItemStatus
    <2> HIDE DEF t, v
    <2>2. x \in Job /\ x.step = t /\ x.row = j.row
      BY <1>0, <2>0 DEF Job, JobStep
    <2> HIDE DEF x
    <2>3. HandGoesOn(w)
      BY <1>0, <2>0, <2>1, <2>2 DEF HandGoesOn, JobOK, KnowsRow
    <2> QED BY <1>1, <1>4, <2>3 DEF StopParty
  <1>5. ASSUME NEW i \in Rows, NEW s \in PartyStatus, MoveParty(w, i, s)
        PROVE  HandGoesOn(w) /\ UNCHANGED row
    <2> DEFINE t == IF s = "paused" THEN "rollsave" ELSE "moverow"
               x == [Idle EXCEPT !.step = t, !.kind = "move", !.row = i, !.seen = s]
    <2>1. job' = [job EXCEPT ![w] = x] /\ j.step = "idle" /\ t \in {"rollsave", "moverow"}
                                     /\ (t = "moverow" => s \in ItemStatus)
      BY <1>5 DEF MoveParty, PartyStatus
    <2> HIDE DEF t
    <2>2. x \in Job /\ x.step = t /\ x.row = i /\ x.seen = s
      BY <1>0, <2>1 DEF Idle, Job, JobStep, JobKind, SendEntries, HandEntries
    <2> HIDE DEF x
    <2> QED BY <1>5, <2>1, <2>2 DEF MoveParty, HandGoesOn, JobOK, KnowsRow
  <1>6. CASE MoveRow(w)
    <2>1. /\ j.step = "moverow" /\ j.row \in Rows /\ j.seen \in ItemStatus
          /\ row' = [row EXCEPT ![j.row].status = j.seen]
      BY <1>0, <1>6 DEF MoveRow, JobOK, KnowsRow
    <2>2. /\ row' \in [Rows -> Row]
          /\ \A i \in Rows : row'[i].notice = row[i].notice /\ (i # j.row => row'[i] = row[i])
      <3>1. PICK r \in Rows, s \in ItemStatus : /\ r = j.row /\ s = j.seen
                                               /\ row' = [row EXCEPT ![r].status = s]
        BY <2>1
      <3>2. [row[r] EXCEPT !.status = s] \in Row /\ [row[r] EXCEPT !.status = s].notice = row[r].notice
        BY RowTakesStatus DEF TypeOK, Row
      <3>3. row' = [row EXCEPT ![r] = [row[r] EXCEPT !.status = s]]
        BY <3>1
      <3> QED BY <3>1, <3>2, <3>3 DEF TypeOK
    <2> DEFINE a == [j EXCEPT !.step = "rollsave"]
               b(n) == [j EXCEPT !.row = n]
    <2>3. PICK n \in Rows : \/ job' = [job EXCEPT ![w] = a]
                            \/ job' = [job EXCEPT ![w] = b(n)] /\ j.row < n
      BY <1>6, <2>1 DEF MoveRow, RowsOfParty
    <2>4. PICK x \in Job : /\ job' = [job EXCEPT ![w] = x] /\ x.step \in {"rollsave", "moverow"}
                           /\ x.row \in Rows /\ x.seen = j.seen /\ x # j
      <3>1. a \in Job /\ a.step = "rollsave" /\ a.row = j.row /\ a.seen = j.seen
        BY <1>0 DEF Job, JobStep
      <3>2. b(n) \in Job /\ b(n).step = "moverow" /\ b(n).row = n /\ b(n).seen = j.seen
        BY <1>0, <2>1 DEF Job
      <3>3. j.row < n => j.row # n
        BY <2>1 DEF NoticeAssumption
      <3> HIDE DEF a, b
      <3> QED BY <2>1, <2>3, <3>1, <3>2, <3>3
    <2>5. HandGoesOn(w)
      BY <2>1, <2>4 DEF HandGoesOn, JobOK, KnowsRow
    <2>6. HandWrites(w)
      BY <2>1, <2>2, <2>4 DEF HandWrites, WritesByHand, TypeOK
    <2> QED BY <2>2, <2>5, <2>6
  <1>7. ASSUME NEW i \in Rows, AutoComplete(w, i)
        PROVE  HandGoesOn(w) /\ row' \in [Rows -> Row] /\ HandWrites(w)
    <2> DEFINE x == [Idle EXCEPT !.step = "roll", !.kind = "auto", !.row = i]
    <2>1. job' = [job EXCEPT ![w] = x] /\ j.step = "idle"
      BY <1>7 DEF AutoComplete
    <2>2. x \in Job /\ x.step = "roll" /\ x.row = i /\ x.kind = "auto"
      BY <1>0 DEF Idle, Job, JobStep, JobKind, SendEntries, HandEntries
    <2> HIDE DEF x
    <2>3. HandGoesOn(w)
      BY <2>1, <2>2 DEF HandGoesOn, JobOK, KnowsRow
    <2>4. \A n \in Rows : /\ row'[n] = [row[n] EXCEPT !.status = "done"] \/ row'[n] = row[n]
                          /\ PartyOf[n] # PartyOf[i] => row'[n] = row[n]
      BY <1>7 DEF AutoComplete
    <2>5. row' \in [Rows -> Row]
      <3>1. row' = [n \in Rows |-> IF PartyOf[n] = PartyOf[i] THEN [row[n] EXCEPT !.status = "done"]
                                                             ELSE row[n]]
        BY <1>7 DEF AutoComplete
      <3>2. \A n \in Rows : row[n] \in Row /\ [row[n] EXCEPT !.status = "done"] \in Row
        BY RowTakesStatus DEF TypeOK, ItemStatus
      <3> QED BY <3>1, <3>2
    <2>6. job'[w] # job[w] /\ job'[w].kind = "auto" /\ job'[w].row = i
      BY <2>1, <2>2 DEF TypeOK
    <2>7. \A n \in Rows : row'[n].notice = row[n].notice
      <3>1. \A n \in Rows : [row[n] EXCEPT !.status = "done"].notice = row[n].notice
        BY RowTakesStatus DEF TypeOK, ItemStatus
      <3> QED BY <2>4, <3>1
    <2>8. \A n \in Rows : row'[n].status # row[n].status => PartyOf[i] = PartyOf[n]
      BY <2>4
    <2>9. HandWrites(w)
      BY <2>6, <2>7, <2>8 DEF HandWrites, WritesByHand
    <2> QED BY <2>3, <2>5, <2>9
  <1> QED
    BY <1>1, <1>2, <1>3, <1>4, <1>5, <1>6, <1>7 DEF ByHand

\* The steps of a worker on the job it has.
LEMMA WorkerType ==
    ASSUME NoticeAssumption, TypeOK, JobInv, NEW w \in Workers,
           LockNotice(w) \/ NoteOutcome(w) \/ FindRow(w) \/ SaveRow(w) \/ RollupRead(w) \/ RollupSave(w)
    PROVE  TypeOK' /\ JobInv'
  <1> DEFINE j == job[w]
  <1>0. j \in Job /\ JobOK(j) /\ Idle \in Job /\ JobOK(Idle)
    BY IdleIsOK DEF TypeOK, JobInv
  <1>1. CASE LockNotice(w)
    <2>1. CASE notice[j.notice].status = "new"
      <3> DEFINE x == [j EXCEPT !.step = "post"]
      <3>1. x \in Job /\ JobOK(x)
        BY <1>0, <1>1 DEF LockNotice, Job, JobStep, JobOK, KnowsRow, KnowsNotice
      <3>2. job' = [job EXCEPT ![w] = x] /\ lock' = [lock EXCEPT ![j.notice] = w]
        BY <1>1, <2>1 DEF LockNotice
      <3> QED BY <1>1, <3>1, <3>2, JobGoesOn DEF LockNotice, TypeOK, gateway
    <2>2. CASE notice[j.notice].status # "new"
      <3>1. job' = [job EXCEPT ![w] = Idle] /\ UNCHANGED lock
        BY <1>1, <2>2 DEF LockNotice
      <3> QED BY <1>0, <1>1, <3>1, JobGoesOn DEF LockNotice, TypeOK, gateway
    <2> QED BY <2>1, <2>2
  <1>2. CASE NoteOutcome(w)
    <2> DEFINE x == [j EXCEPT !.step = "find"]
    <2>1. x \in Job /\ JobOK(x) /\ job' = [job EXCEPT ![w] = x]
      BY <1>0, <1>2 DEF NoteOutcome, Job, JobStep, JobOK, KnowsRow, KnowsNotice
    <2>2. notice' \in [Notices -> Notice]
      <3>1. PICK s \in NoticeStatus : notice' = [notice EXCEPT ![j.notice].status = s]
        BY <1>2 DEF NoteOutcome, NoticeStatus
      <3>2. j.notice \in Notices
        BY <1>0, <1>2 DEF NoteOutcome, JobOK, KnowsNotice
      <3>3. notice[j.notice] \in Notice
        BY <3>2 DEF TypeOK
      <3>4. [notice[j.notice] EXCEPT !.status = s] \in Notice
        BY <3>3 DEF Notice
      <3> QED BY <3>1, <3>2, <3>4 DEF TypeOK
    <2> QED BY <1>2, <2>1, <2>2, JobGoesOn DEF NoteOutcome, TypeOK, gateway
  <1>3. CASE FindRow(w)
    <2>1. CASE RowsOf(j.notice) = {} /\ job' = [job EXCEPT ![w] = Idle]
      BY <1>0, <1>3, <2>1, JobGoesOn DEF FindRow, TypeOK, gateway
    <2>2. ASSUME NEW i \in RowsOf(j.notice),
                 job' = [job EXCEPT ![w].step = "rowsave", ![w].row = i, ![w].seen = party[PartyOf[i]]]
          PROVE  TypeOK' /\ JobInv'
      <3> DEFINE x == [j EXCEPT !.step = "rowsave", !.row = i, !.seen = party[PartyOf[i]]]
      <3>1. i \in Rows /\ party[PartyOf[i]] \in PartyStatus
        BY <2>2 DEF RowsOf, NoticeAssumption, TypeOK
      <3>2. x \in Job
        BY <1>0, <3>1 DEF Job, JobStep
      <3>3. JobOK(x)
        BY <1>0, <3>1 DEF Job, JobOK, KnowsRow, KnowsNotice
      <3>4. job' = [job EXCEPT ![w] = x]
        BY <2>2
      <3> QED BY <1>3, <3>2, <3>3, <3>4, JobGoesOn DEF FindRow, TypeOK, gateway
    <2> QED BY <1>3, <2>1, <2>2 DEF FindRow
  <1>4. CASE SaveRow(w)
    <2> DEFINE x == [j EXCEPT !.step = "roll"]
    <2>1. x \in Job /\ JobOK(x) /\ job' = [job EXCEPT ![w] = x]
      BY <1>0, <1>4 DEF SaveRow, Job, JobStep, JobOK, KnowsRow, KnowsNotice
    <2>2. row' \in [Rows -> Row]
      <3>1. PICK s \in ItemStatus : row' = [row EXCEPT ![j.row].status = s]
        BY <1>4 DEF SaveRow, ItemStatus
      <3>2. j.row \in Rows
        BY <1>0, <1>4 DEF SaveRow, JobOK, KnowsRow
      <3>3. [row[j.row] EXCEPT !.status = s] \in Row
        BY <3>2, RowTakesStatus DEF TypeOK
      <3> QED BY <3>1, <3>2, <3>3 DEF TypeOK
    <2> QED BY <1>4, <2>1, <2>2, JobGoesOn DEF SaveRow, TypeOK, gateway
  <1>5. CASE RollupRead(w)
    <2> DEFINE v == Verdict(RowStatuses(PartyOf[j.row]))
               x == [j EXCEPT !.step = "rollsave", !.seen = v]
    <2>1. x \in Job /\ JobOK(x)
      BY <1>0, <1>5, VerdictIsStatus DEF RollupRead, Job, JobStep, JobOK, KnowsRow, KnowsNotice
    <2>2. job' = [job EXCEPT ![w] = Idle] \/ job' = [job EXCEPT ![w] = x]
      BY <1>5 DEF RollupRead
    <2> QED BY <1>0, <1>5, <2>1, <2>2, JobGoesOn DEF RollupRead, TypeOK, gateway
  <1>6. CASE RollupSave(w)
    <2>1. party' \in [Parties -> PartyStatus]
      BY <1>0, <1>6 DEF RollupSave, TypeOK, Job
    <2> QED BY <1>0, <1>6, <2>1, JobGoesOn DEF RollupSave, TypeOK, gateway
  <1> QED
    BY <1>1, <1>2, <1>3, <1>4, <1>5, <1>6

\* A request starts, goes to the gateway, or is saved.
LEMMA RequestType ==
    ASSUME NoticeAssumption, TypeOK, JobInv, NEW w \in Workers,
           \/ \E u \in Users, i \in Rows : QueueOne(w, u, i)
           \/ \E k \in Key : CreateNotice(w, k)
           \/ \E n \in Notices : ResendNotice(w, n)
           \/ Post(w) \/ SaveDispatch(w)
    PROVE  TypeOK' /\ JobInv'
  <1> DEFINE j == job[w]
  <1>0. j \in Job /\ JobOK(j) /\ Idle \in Job /\ JobOK(Idle)
    BY IdleIsOK DEF TypeOK, JobInv
  <1>1. ASSUME NEW u \in Users, NEW i \in Rows, QueueOne(w, u, i)
        PROVE  TypeOK' /\ JobInv'
    <2>1. PICK k \in Key : k = <<u, LetterOf[i]>>
      BY DEF Key, NoticeAssumption
    <2>2. PICK m \in Notices : /\ TieRow(w, i, m)
                               /\ \/ UNCHANGED notice
                                  \/ notice' = [notice EXCEPT ![m] = [status |-> "new", key |-> k]]
      BY <1>1, <2>1 DEF QueueOne, OpenWith, TypeOK, Row
    <2>3. notice' \in [Notices -> Notice]
      <3>1. [status |-> "new", key |-> k] \in Notice
        BY DEF Notice, NoticeStatus
      <3> QED BY <2>2, <3>1 DEF TypeOK
    <2>4. row' \in [Rows -> Row]
      <3>1. row' = [row EXCEPT ![i].notice = m]
        BY <2>2 DEF TieRow
      <3>2. [row[i] EXCEPT !.notice = m] \in Row
        BY DEF TypeOK, Row
      <3> QED BY <3>1, <3>2 DEF TypeOK
    <2>5. job' \in [Workers -> Job] /\ JobInv'
      <3> DEFINE x == [Idle EXCEPT !.step = "lock", !.row = i, !.notice = m, !.seen = party[PartyOf[i]]]
      <3>1. party[PartyOf[i]] \in PartyStatus
        BY DEF NoticeAssumption, TypeOK
      <3>2. x \in Job /\ JobOK(x)
        BY <3>1 DEF Idle, Job, JobStep, JobKind, SendEntries, HandEntries, JobOK, KnowsRow, KnowsNotice
      <3>3. job' = [job EXCEPT ![w] = x] \/ job' = [job EXCEPT ![w] = Idle]
        BY <2>2 DEF TieRow
      <3> QED BY <1>0, <3>2, <3>3, JobGoesOn
    <2> QED BY <1>1, <2>3, <2>4, <2>5 DEF QueueOne, TypeOK, gateway
  <1>2. ASSUME NEW k \in Key, CreateNotice(w, k)
        PROVE  TypeOK' /\ JobInv'
    <2>1. PICK n \in Notices :
             /\ notice' = [notice EXCEPT ![n] = [status |-> "new", key |-> k]]
             /\ job' = [job EXCEPT ![w] = [Idle EXCEPT !.step = "post", !.kind = "create", !.notice = n]]
      BY <1>2 DEF CreateNotice
    <2> DEFINE x == [Idle EXCEPT !.step = "post", !.kind = "create", !.notice = n]
    <2>2. x \in Job /\ JobOK(x)
      <3>1. x \in Job
        BY <1>0 DEF Job, JobStep, JobKind, SendEntries
      <3>2. x.step = "post" /\ x.kind = "create" /\ x.notice = n
        BY <1>0 DEF Job
      <3> QED BY <3>1, <3>2 DEF JobOK, KnowsRow, KnowsNotice
    <2>3. notice' \in [Notices -> Notice]
      BY <2>1 DEF TypeOK, Notice, NoticeStatus
    <2> QED BY <1>2, <2>1, <2>2, <2>3, JobGoesOn DEF CreateNotice, TypeOK, gateway
  <1>3. ASSUME NEW n \in Notices, ResendNotice(w, n)
        PROVE  TypeOK' /\ JobInv'
    <2> DEFINE x == [Idle EXCEPT !.step = "post", !.kind = "resend", !.notice = n]
    <2>1. x \in Job /\ JobOK(x) /\ job' = [job EXCEPT ![w] = x]
      BY <1>0, <1>3 DEF ResendNotice, Idle, Job, JobStep, JobKind, SendEntries, HandEntries,
                        JobOK, KnowsRow, KnowsNotice
    <2> QED BY <1>3, <2>1, JobGoesOn DEF ResendNotice, TypeOK, gateway
  <1>4. CASE Post(w)
    <2>1. ASSUME NEW b \in BOOLEAN, job' = [job EXCEPT ![w].step = "save", ![w].ok = b]
          PROVE  job' \in [Workers -> Job] /\ JobInv'
      <3> DEFINE x == [j EXCEPT !.step = "save", !.ok = b]
      <3>1. x \in Job
        BY <1>0 DEF Job, JobStep
      <3>2. JobOK(x)
        BY <1>0, <1>4 DEF Post, Job, JobOK, KnowsRow, KnowsNotice
      <3>3. job' = [job EXCEPT ![w] = x]
        BY <2>1
      <3> QED BY <3>1, <3>2, <3>3, JobGoesOn
    <2>2. CASE \E l \in Logs, g \in Gateways, heard \in BOOLEAN :
             /\ log' = [log EXCEPT ![l] = [status |-> "accepted", notice |-> j.notice, fresh |-> FALSE]]
             /\ dlv' = [dlv EXCEPT ![g][l] = At("task", FALSE, 0)]
             /\ job' = [job EXCEPT ![w].step = "save", ![w].ok = heard]
      <3>1. PICK l \in Logs, g \in Gateways, heard \in BOOLEAN :
             /\ log' = [log EXCEPT ![l] = [status |-> "accepted", notice |-> j.notice, fresh |-> FALSE]]
             /\ dlv' = [dlv EXCEPT ![g][l] = At("task", FALSE, 0)]
             /\ job' = [job EXCEPT ![w].step = "save", ![w].ok = heard]
        BY <2>2
      <3>2. log' \in [Logs -> Log]
        BY <1>0, <3>1 DEF TypeOK, Log, LogStatus, Job
      <3>3. dlv' \in [Gateways -> [Logs -> Delivery]]
        BY <3>1 DEF TypeOK, Delivery, DlvStep, At, CallbackTries
      <3>4. job' \in [Workers -> Job] /\ JobInv'
        BY <2>1, <3>1
      <3> QED BY <1>4, <3>2, <3>3, <3>4 DEF Post, TypeOK
    <2>3. CASE job' = [job EXCEPT ![w].step = "save", ![w].ok = FALSE] /\ UNCHANGED <<log, dlv>>
      <3>1. job' \in [Workers -> Job] /\ JobInv'
        BY <2>1, <2>3
      <3> QED BY <1>4, <2>3, <3>1 DEF Post, TypeOK
    <2> QED BY <1>4, <2>2, <2>3 DEF Post
  <1>5. CASE SaveDispatch(w)
    <2> DEFINE n == j.notice
               clash == j.ok /\ \E m \in OpenWith(notice[n].key) : m # n
               s == IF j.ok THEN "queued" ELSE "failed"
               r == IF j.ok THEN "running" ELSE "failed"
               x == [j EXCEPT !.step = "roll"]
    <2>1. notice' \in [Notices -> Notice]
      <3>1. s \in NoticeStatus
        BY DEF NoticeStatus
      <3>2. notice' = notice \/ notice' = [notice EXCEPT ![n].status = s]
        BY <1>5 DEF SaveDispatch
      <3> HIDE DEF s
      <3>3. CASE notice' = notice
        BY <3>3 DEF TypeOK
      <3>4. CASE notice' = [notice EXCEPT ![n].status = s]
        <4>1. notice \in [Notices -> Notice] /\ \A v \in Notice : [v EXCEPT !.status = s] \in Notice
          BY <3>1 DEF TypeOK, Notice
        <4> HIDE DEF n
        <4> QED BY <3>4, <4>1
      <3> QED BY <3>2, <3>3, <3>4
    <2>2. CASE j.kind = "send" /\ ~clash
      <3>1. row' = [row EXCEPT ![j.row] = [status |-> r, notice |-> n]] /\ job' = [job EXCEPT ![w] = x]
        BY <1>5, <2>2 DEF SaveDispatch
      <3>2. row' \in [Rows -> Row]
        BY <1>0, <3>1 DEF TypeOK, Row, ItemStatus, Job
      <3>3. x \in Job /\ JobOK(x)
        BY <1>0, <1>5, <2>2 DEF SaveDispatch, Job, JobStep, JobOK, KnowsRow, KnowsNotice
      <3>4. lock' \in [Notices -> Workers \cup {None}]
        BY <1>5 DEF SaveDispatch, TypeOK
      <3> QED BY <1>5, <2>1, <3>1, <3>2, <3>3, <3>4, JobGoesOn DEF SaveDispatch, TypeOK, gateway
    <2>3. CASE ~ (j.kind = "send" /\ ~clash)
      <3>1. UNCHANGED row /\ job' = [job EXCEPT ![w] = Idle]
        BY <1>5, <2>3 DEF SaveDispatch
      <3>2. lock' \in [Notices -> Workers \cup {None}]
        BY <1>5 DEF SaveDispatch, TypeOK
      <3> QED BY <1>0, <1>5, <2>1, <3>1, <3>2, JobGoesOn DEF SaveDispatch, TypeOK, gateway
    <2> QED BY <2>2, <2>3
  <1> QED
    BY <1>1, <1>2, <1>3, <1>4, <1>5

LEMMA OtherType ==
    ASSUME TypeOK, JobInv, LogInv,
           \/ \E g \in Gateways : Crash(g) \/ Restart(g) \/ Serve(g)
           \/ \E g \in Gateways, l \in Logs, w \in Workers : CallbackArrives(w, g, l)
           \/ \E l \in Logs : ClaimAges(l)
           \/ UNCHANGED vars
    PROVE  TypeOK' /\ JobInv'
  <1>1. ASSUME NEW g \in Gateways, Crash(g) PROVE TypeOK' /\ JobInv'
    <2>1. dlv' \in [Gateways -> [Logs -> Delivery]]
      BY <1>1 DEF Crash, TypeOK, Delivery, DlvStep, NoDelivery, At, CallbackTries
    <2>2. up' \in [Gateways -> {"down", "resuming", "serving"}] /\ crashes' \in Nat
      BY <1>1 DEF Crash, TypeOK
    <2> QED BY <1>1, <2>1, <2>2 DEF Crash, TypeOK, JobInv, backend
  <1>2. ASSUME NEW g \in Gateways, Restart(g) PROVE TypeOK' /\ JobInv'
    <2>1. dlv' \in [Gateways -> [Logs -> Delivery]]
      BY <1>2 DEF Restart, TypeOK, Delivery, DlvStep, NoDelivery, At, CallbackTries
    <2>2. up' \in [Gateways -> {"down", "resuming", "serving"}]
      BY <1>2 DEF Restart, TypeOK
    <2> QED BY <1>2, <2>1, <2>2 DEF Restart, TypeOK, JobInv, backend
  <1>3. ASSUME NEW g \in Gateways, Serve(g) PROVE TypeOK' /\ JobInv'
    <2>1. up' \in [Gateways -> {"down", "resuming", "serving"}]
      BY <1>3 DEF Serve, TypeOK
    <2> QED BY <1>3, <2>1 DEF Serve, TypeOK, JobInv, backend
  <1>4. ASSUME NEW g \in Gateways, NEW l \in Logs, NEW w \in Workers, CallbackArrives(w, g, l)
        PROVE  TypeOK' /\ JobInv'
    <2> DEFINE x == [Idle EXCEPT !.step = "note", !.kind = "callback",
                                 !.notice = log[l].notice, !.ok = dlv[g][l].ok]
    <2>1. log[l].notice \in Notices /\ dlv[g][l] \in Delivery
      BY <1>4 DEF CallbackArrives, LogInv, TypeOK
    <2>2. x \in Job /\ JobOK(x)
      <3>1. dlv[g][l].ok \in BOOLEAN
        BY <2>1 DEF Delivery
      <3>2. x \in Job
        BY <2>1, <3>1, IdleIsOK DEF Job, JobStep, JobKind, SendEntries, HandEntries
      <3>3. x.step = "note" /\ x.notice \in Notices
        BY <2>1 DEF Idle
      <3> QED BY <3>2, <3>3 DEF JobOK, KnowsNotice
    <2>3. job' = [job EXCEPT ![w] = x]
      BY <1>4 DEF CallbackArrives
    <2>4. dlv' \in [Gateways -> [Logs -> Delivery]]
      <3>1. CASE dlv' = [dlv EXCEPT ![g][l] = NoDelivery]
        BY <3>1 DEF TypeOK, Delivery, DlvStep, At, NoDelivery, CallbackTries
      <3>2. CASE /\ dlv[g][l].tries + 1 < CallbackTries
                 /\ dlv' = [dlv EXCEPT ![g][l] = At("calling", @.ok, @.tries + 1)]
        <4>1. dlv[g][l].tries + 1 \in 0 .. CallbackTries
          BY <2>1, <3>2 DEF Delivery, CallbackTries
        <4>2. At("calling", dlv[g][l].ok, dlv[g][l].tries + 1) \in Delivery
          BY <2>1, <4>1 DEF Delivery, DlvStep, At
        <4> QED BY <3>2, <4>2 DEF TypeOK
      <3> QED BY <1>4, <3>1, <3>2 DEF CallbackArrives
    <2> QED BY <1>4, <2>2, <2>3, <2>4, JobGoesOn DEF CallbackArrives, TypeOK
  <1>5. ASSUME NEW l \in Logs, ClaimAges(l) PROVE TypeOK' /\ JobInv'
    <2>1. log' \in [Logs -> Log]
      BY <1>5 DEF ClaimAges, TypeOK, Log
    <2> QED BY <1>5, <2>1 DEF ClaimAges, TypeOK, JobInv, backend
  <1>6. CASE UNCHANGED vars
    BY <1>6 DEF TypeOK, JobInv, vars, backend, gateway
  <1> QED
    BY <1>1, <1>2, <1>3, <1>4, <1>5, <1>6

LEMMA HandType ==
    ASSUME NoticeAssumption, TypeOK, JobInv, NEW w \in Workers, ByHand(w)
    PROVE  TypeOK' /\ JobInv'
  <1>1. job' \in [Workers -> Job] /\ JobInv'
    BY ByHandStep, JobGoesOn DEF HandGoesOn
  <1> QED BY <1>1, ByHandStep, ByHandLeaves DEF TypeOK, gateway

LEMMA TypeStep ==
    ASSUME NoticeAssumption, TypeOK, JobInv, LogInv, [Next]_vars
    PROVE  TypeOK' /\ JobInv'
  BY GatewayType, WorkerType, RequestType, HandType, OtherType DEF Next, Backend, Gateway

LEMMA LogStep ==
    ASSUME TypeOK, JobInv, LogInv, [Next]_vars
    PROVE  LogInv'
  <1>1. CASE UNCHANGED <<log, dlv>>
    BY <1>1 DEF LogInv
  <1>2. ASSUME NEW w \in Workers, Post(w) PROVE LogInv'
    <2>1. job[w].notice \in Notices
      BY <1>2 DEF Post, JobInv, JobOK, KnowsNotice
    <2>2. CASE UNCHANGED <<log, dlv>>
      BY <1>1, <2>2
    <2>3. CASE \E l \in Logs, g \in Gateways :
             /\ log' = [log EXCEPT ![l] = [status |-> "accepted", notice |-> job[w].notice, fresh |-> FALSE]]
             /\ dlv' = [dlv EXCEPT ![g][l] = At("task", FALSE, 0)]
      BY <2>1, <2>3 DEF LogInv, TypeOK, At
    <2> QED BY <1>2, <2>2, <2>3 DEF Post
  <1>3. ASSUME NEW g \in Gateways, NEW l \in Logs, NEW w \in Workers, CallbackArrives(w, g, l)
        PROVE  LogInv'
    <2>1. UNCHANGED log
      BY <1>3 DEF CallbackArrives
    <2>2. \A h \in Gateways, m \in Logs : dlv'[h][m].step # "none" => dlv[h][m].step # "none"
      BY <1>3 DEF CallbackArrives, TypeOK, At, NoDelivery
    <2> QED BY <2>1, <2>2 DEF LogInv
  <1>4. ASSUME NEW g \in Gateways, NEW l \in Logs,
               Claim(g, l) \/ Hand(g, l) \/ StoreOutcome(g, l) \/ CallbackLost(g, l)
        PROVE  LogInv'
    <2> USE DEF TypeOK, At, NoDelivery
    <2>1. log[l].status # "none"
      BY <1>4 DEF Claim, Hand, StoreOutcome, CallbackLost, LogInv
    <2>2. CASE Claim(g, l)
      <3>1. \A m \in Logs : /\ log[m].status # "none" <=> log'[m].status # "none"
                            /\ log'[m].notice = log[m].notice
        BY <2>1, <2>2 DEF Claim
      <3>2. \A h \in Gateways, m \in Logs : dlv'[h][m].step # "none" => dlv[h][m].step # "none"
        BY <2>2 DEF Claim
      <3> QED BY <3>1, <3>2 DEF LogInv
    <2>3. CASE Hand(g, l)
      <3>1. UNCHANGED log
        BY <2>3 DEF Hand
      <3>2. \A h \in Gateways, m \in Logs : dlv'[h][m].step # "none" => dlv[h][m].step # "none"
        BY <2>3 DEF Hand
      <3> QED BY <3>1, <3>2 DEF LogInv
    <2>4. CASE StoreOutcome(g, l)
      <3>1. \A m \in Logs : /\ log[m].status # "none" <=> log'[m].status # "none"
                            /\ log'[m].notice = log[m].notice
        BY <2>1, <2>4 DEF StoreOutcome, Log
      <3>2. \A h \in Gateways, m \in Logs : dlv'[h][m].step # "none" => dlv[h][m].step # "none"
        BY <2>4 DEF StoreOutcome
      <3> QED BY <3>1, <3>2 DEF LogInv
    <2>5. CASE CallbackLost(g, l)
      <3>1. UNCHANGED log
        BY <2>5 DEF CallbackLost
      <3>2. \A h \in Gateways, m \in Logs : dlv'[h][m].step # "none" => dlv[h][m].step # "none"
        BY <2>5 DEF CallbackLost
      <3> QED BY <3>1, <3>2 DEF LogInv
    <2> QED BY <1>4, <2>2, <2>3, <2>4, <2>5
  <1>5. ASSUME NEW g \in Gateways, Crash(g) PROVE LogInv'
    BY <1>5 DEF Crash, LogInv, TypeOK, NoDelivery, At
  <1>6. ASSUME NEW g \in Gateways, Restart(g) PROVE LogInv'
    BY <1>6 DEF Restart, LogInv, TypeOK, NoDelivery, At, Claimable
  <1>7. ASSUME NEW l \in Logs, ClaimAges(l) PROVE LogInv'
    BY <1>7 DEF ClaimAges, LogInv, TypeOK, Log
  <1>8. ASSUME NEW w \in Workers,
               \/ \E u \in Users, i \in Rows : QueueOne(w, u, i)
               \/ \E k \in Key : CreateNotice(w, k)
               \/ \E n \in Notices : ResendNotice(w, n)
               \/ LockNotice(w) \/ SaveDispatch(w) \/ RollupRead(w) \/ RollupSave(w)
               \/ NoteOutcome(w) \/ FindRow(w) \/ SaveRow(w) \/ ByHand(w)
        PROVE  UNCHANGED <<log, dlv>>
    BY <1>8, ByHandLeaves DEF QueueOne, CreateNotice, ResendNotice, LockNotice, SaveDispatch, RollupRead,
                RollupSave, NoteOutcome, FindRow, SaveRow, gateway
  <1>9. ASSUME NEW g \in Gateways, Serve(g) PROVE UNCHANGED <<log, dlv>>
    BY <1>9 DEF Serve
  <1>10. CASE UNCHANGED vars
    BY <1>1, <1>10 DEF vars, gateway
  <1> QED
    BY <1>1, <1>2, <1>3, <1>4, <1>5, <1>6, <1>7, <1>8, <1>9, <1>10 DEF Next, Backend, Gateway

(***************************************************************************)
(* The records keep their types, for every combination of endpoints and    *)
(* faults: in particular a worker never follows a missing row or           *)
(* notification in the middle of a request.                                *)
(***************************************************************************)
THEOREM TypeCorrect == Spec => []TypeOK
  <1> DEFINE Inv == TypeOK /\ JobInv /\ LogInv
  <1>1. Init => Inv
    <2>1. Init => LogInv
      BY DEF Init, LogInv, NoDelivery, At
    <2> QED BY <2>1, InitType, NoticeAssumption
  <1>2. Inv /\ [Next]_vars => Inv'
    BY TypeStep, LogStep, NoticeAssumption
  <1> QED
    BY <1>1, <1>2, PTL DEF Spec

-----------------------------------------------------------------------------
(* One letter per notification, where a party's "send" is what makes them *)

Used(l) == log[l].status # "none"

Dispatching(w, n) == job[w].step \in {"post", "save"} /\ job[w].notice = n

\* The row lock is held exactly by the worker that dispatches the notification.
LockInv == \A n \in Notices, w \in Workers : lock[n] = w <=> Dispatching(w, n)

\* The constraint uniq_open_account_notification.
UniqueOpen == \A m, n \in Notices :
    /\ notice[m].status \in OpenNotice
    /\ notice[n].status \in OpenNotice
    /\ notice[m].key = notice[n].key
    => m = n

\* What a dispatching worker may rely on.
DispatchInv == \A w \in Workers :
    /\ job[w].step \in {"post", "save"} => /\ job[w].kind = "send"
                                           /\ notice[job[w].notice].status = "new"
    /\ job[w].step = "post" => \A l \in Logs : Used(l) => log[l].notice # job[w].notice

\* A notification whose letter the gateway has is past "new", but for the moment
\* between the gateway's answer and the save.
LetterInv == \A l \in Logs : Used(l) =>
    /\ notice[log[l].notice].status # "none"
    /\ notice[log[l].notice].status = "new"
          => \E w \in Workers : job[w].step = "save" /\ job[w].notice = log[l].notice

SendInv == /\ TypeOK /\ JobInv /\ LogInv
           /\ LockInv /\ UniqueOpen /\ DispatchInv /\ LetterInv /\ OneLetterPerNotice

Rest == LockInv /\ UniqueOpen /\ DispatchInv /\ LetterInv /\ OneLetterPerNotice

\* A step that dispatches nothing and accepts nothing.
LEMMA QuietStep ==
    ASSUME SendInv, UNCHANGED <<notice, lock>>,
           \A w \in Workers : \/ job'[w] = job[w]
                              \/ {job[w].step, job'[w].step} \cap {"post", "save"} = {},
           \A l \in Logs : (Used(l)' <=> Used(l)) /\ log'[l].notice = log[l].notice
    PROVE  Rest'
  <1>1. \A w \in Workers : /\ job'[w].step = "save" <=> job[w].step = "save"
                           /\ job'[w].step = "post" <=> job[w].step = "post"
                           /\ job[w].step \in {"post", "save"} => job'[w] = job[w]
    OBVIOUS
  <1>2. LockInv'
    BY <1>1 DEF SendInv, LockInv, Dispatching
  <1>3. UniqueOpen'
    BY DEF SendInv, UniqueOpen
  <1>4. DispatchInv'
    BY <1>1 DEF SendInv, DispatchInv
  <1>5. LetterInv'
    BY <1>1 DEF SendInv, LetterInv
  <1>6. OneLetterPerNotice'
    BY DEF SendInv, OneLetterPerNotice, Used
  <1> QED BY <1>2, <1>3, <1>4, <1>5, <1>6 DEF Rest

LEMMA QueueKeeps ==
    ASSUME NoticeAssumption, SendInv, NEW w \in Workers, NEW u \in Users, NEW i \in Rows,
           QueueOne(w, u, i)
    PROVE  Rest'
  <1>1. job[w].step = "idle" /\ UNCHANGED <<lock, log>>
    BY DEF QueueOne, gateway
  <1>2. \A v \in Workers : v # w => job'[v] = job[v]
    BY DEF QueueOne, TieRow, SendInv, TypeOK
  <1>3. job'[w].step \in {"idle", "lock"}
    <2>1. PICK m : TieRow(w, i, m)
      BY DEF QueueOne
    <2> DEFINE x == [Idle EXCEPT !.step = "lock", !.row = i, !.notice = m, !.seen = party[PartyOf[i]]]
    <2>2. x.step = "lock" /\ Idle.step = "idle"
      BY DEF Idle
    <2>3. job' = [job EXCEPT ![w] = x] \/ job' = [job EXCEPT ![w] = Idle]
      BY <2>1 DEF TieRow
    <2> HIDE DEF x
    <2> QED BY <2>2, <2>3 DEF SendInv, TypeOK
  <1>4. CASE UNCHANGED notice
    BY <1>1, <1>2, <1>3, <1>4, QuietStep DEF Used
  <1>5. ASSUME NEW m \in Notices, NEW k \in Key, OpenWith(k) = {}, notice[m].status = "none",
               notice' = [notice EXCEPT ![m] = [status |-> "new", key |-> k]]
        PROVE  Rest'
    <2>1. \A n \in Notices : n # m => notice'[n] = notice[n]
      BY <1>5 DEF SendInv, TypeOK
    <2>2. notice'[m] = [status |-> "new", key |-> k]
      BY <1>5 DEF SendInv, TypeOK
    <2>3. \A v \in Workers : /\ job'[v].step = "save" <=> job[v].step = "save"
                             /\ job'[v].step = "post" <=> job[v].step = "post"
                             /\ job[v].step \in {"post", "save"} => job'[v] = job[v]
      BY <1>1, <1>2, <1>3
    <2>4. \A v \in Workers : job[v].step \in {"post", "save"} =>
             job[v].notice \in Notices /\ job[v].notice # m
      BY <1>5 DEF SendInv, DispatchInv, JobInv, JobOK, KnowsNotice
    <2>5. \A l \in Logs : Used(l) => log[l].notice \in Notices /\ log[l].notice # m
      BY <1>5 DEF SendInv, LetterInv, LogInv, Used
    <2>6. LockInv'
      BY <1>1, <2>3 DEF SendInv, LockInv, Dispatching
    <2>7. UniqueOpen'
      BY <1>5, <2>1, <2>2 DEF SendInv, UniqueOpen, OpenWith, OpenNotice
    <2>8. DispatchInv'
      BY <1>1, <2>1, <2>3, <2>4 DEF SendInv, DispatchInv, Used
    <2>9. LetterInv'
      BY <1>1, <2>1, <2>3, <2>5 DEF SendInv, LetterInv, Used
    <2> QED BY <1>1, <2>6, <2>7, <2>8, <2>9 DEF Rest, SendInv, OneLetterPerNotice
  <1>6. <<u, LetterOf[i]>> \in Key
    BY DEF Key, NoticeAssumption
  <1> QED
    BY <1>4, <1>5, <1>6 DEF QueueOne

LEMMA LockKeeps ==
    ASSUME NoticeAssumption, SendInv, NEW w \in Workers, LockNotice(w)
    PROVE  Rest'
  <1> DEFINE n == job[w].notice
  <1>1. n \in Notices /\ job[w].step = "lock" /\ lock[n] = None /\ UNCHANGED <<notice, log>>
    BY DEF LockNotice, SendInv, JobInv, JobOK, KnowsNotice, gateway
  <1>2. CASE notice[n].status = "new" /\ lock' = [lock EXCEPT ![n] = w]
                                      /\ job' = [job EXCEPT ![w].step = "post"]
    <2>1. \A v \in Workers : v # w => job'[v] = job[v]
      BY <1>2 DEF SendInv, TypeOK
    <2>2. job'[w] = [job[w] EXCEPT !.step = "post"]
      BY <1>2 DEF SendInv, TypeOK
    <2>3. job'[w].step = "post" /\ job'[w].notice = n
      BY <2>2 DEF SendInv, TypeOK, Job
    <2>4. \A v \in Workers : ~ Dispatching(v, n)
      BY <1>1 DEF SendInv, LockInv, NoticeAssumption
    <2>5. \A l \in Logs : Used(l) => log[l].notice # n
      BY <1>2, <2>4 DEF SendInv, LetterInv, Dispatching
    <2>6. LockInv'
      BY <1>1, <1>2, <2>1, <2>3, <2>4 DEF SendInv, LockInv, Dispatching, TypeOK
    <2>7. job'[w].kind = "send"
      <3>1. job[w].kind = "send"
        BY <1>1 DEF SendInv, JobInv, JobOK
      <3> QED BY <2>2, <3>1 DEF SendInv, TypeOK, Job
    <2>8. DispatchInv'
      BY <1>1, <1>2, <2>1, <2>3, <2>5, <2>7 DEF SendInv, DispatchInv, Used
    <2>9. LetterInv'
      BY <1>1, <2>1 DEF SendInv, LetterInv, Used
    <2> QED BY <1>1, <2>6, <2>8, <2>9 DEF Rest, SendInv, UniqueOpen, OneLetterPerNotice
  <1>3. CASE job' = [job EXCEPT ![w] = Idle] /\ UNCHANGED lock
    BY <1>1, <1>3, QuietStep DEF Idle, SendInv, TypeOK, Used
  <1> QED
    BY <1>2, <1>3 DEF LockNotice

LEMMA PostKeeps ==
    ASSUME NoticeAssumption, SendInv, NEW w \in Workers, Post(w)
    PROVE  Rest'
  <1> DEFINE n == job[w].notice
  <1>1. n \in Notices /\ job[w].step = "post" /\ UNCHANGED <<notice, lock>>
    BY DEF Post, SendInv, JobInv, JobOK, KnowsNotice
  <1>2. \A v \in Workers : v # w => job'[v] = job[v]
    BY DEF Post, SendInv, TypeOK
  <1>3. job'[w].step = "save" /\ job'[w].notice = n /\ job'[w].kind = job[w].kind
    <2>1. ASSUME NEW b \in BOOLEAN, job' = [job EXCEPT ![w].step = "save", ![w].ok = b]
          PROVE  job'[w].step = "save" /\ job'[w].notice = n /\ job'[w].kind = job[w].kind
      BY <2>1 DEF SendInv, TypeOK, Job
    <2> QED BY <2>1 DEF Post
  <1>4. LockInv'
    BY <1>1, <1>2, <1>3 DEF SendInv, LockInv, Dispatching
  <1>5. \A v \in Workers : Dispatching(v, n) => v = w
    BY <1>1 DEF SendInv, LockInv, Dispatching
  <1>6. \A l \in Logs : Used(l) => log[l].notice # n
    BY <1>1 DEF SendInv, DispatchInv
  <1>7. CASE UNCHANGED log
    <2>1. DispatchInv'
      BY <1>1, <1>2, <1>3, <1>7 DEF SendInv, DispatchInv, Used
    <2>2. LetterInv'
      BY <1>1, <1>2, <1>3, <1>7 DEF SendInv, LetterInv, Used
    <2> QED BY <1>1, <1>4, <1>7, <2>1, <2>2 DEF Rest, SendInv, UniqueOpen, OneLetterPerNotice
  <1>8. ASSUME NEW l \in Logs, ~Used(l),
               log' = [log EXCEPT ![l] = [status |-> "accepted", notice |-> n, fresh |-> FALSE]]
        PROVE  Rest'
    <2>1. \A m \in Logs : m # l => log'[m] = log[m]
      BY <1>8 DEF SendInv, TypeOK
    <2>2. log'[l].notice = n /\ log'[l].status # "none"
      BY <1>8 DEF SendInv, TypeOK
    <2>3. DispatchInv'
      BY <1>1, <1>2, <1>3, <1>5, <2>1, <2>2 DEF SendInv, DispatchInv, Used, Dispatching
    <2>4. LetterInv'
      <3>1. notice[n].status = "new"
        BY <1>1 DEF SendInv, DispatchInv
      <3> QED BY <1>1, <1>2, <1>3, <2>1, <2>2, <3>1 DEF SendInv, LetterInv, Used
    <2>5. OneLetterPerNotice'
      BY <1>6, <1>8, <2>1, <2>2 DEF SendInv, OneLetterPerNotice, Used
    <2> QED BY <1>1, <1>4, <2>3, <2>4, <2>5 DEF Rest, SendInv, UniqueOpen
  <1> QED
    BY <1>7, <1>8 DEF Post, Used

LEMMA SaveKeeps ==
    ASSUME NoticeAssumption, SendInv, NEW w \in Workers, SaveDispatch(w)
    PROVE  Rest'
  <1> DEFINE n == job[w].notice
             s == IF job[w].ok THEN "queued" ELSE "failed"
  <1>1. n \in Notices /\ job[w].step = "save" /\ UNCHANGED log
    BY DEF SaveDispatch, SendInv, JobInv, JobOK, KnowsNotice, gateway
  <1>2. notice[n].status = "new"
    BY <1>1 DEF SendInv, DispatchInv
  <1>3. ~ \E m \in OpenWith(notice[n].key) : m # n
    BY <1>1, <1>2 DEF SendInv, UniqueOpen, OpenWith, OpenNotice
  <1>4. notice' = [notice EXCEPT ![n].status = s]
    BY <1>3 DEF SaveDispatch
  <1>5. /\ \A m \in Notices : m # n => notice'[m] = notice[m]
        /\ notice'[n].status = s
        /\ notice'[n].key = notice[n].key
    BY <1>1, <1>4 DEF SendInv, TypeOK, Notice
  <1>6. \A v \in Workers : v # w => job'[v] = job[v]
    BY DEF SaveDispatch, SendInv, TypeOK
  <1>7. job'[w].step \notin {"post", "save"}
    <2>1. job' = [job EXCEPT ![w].step = "roll"] \/ job' = [job EXCEPT ![w] = Idle]
      BY DEF SaveDispatch
    <2> QED BY <2>1 DEF SendInv, TypeOK, Job, Idle
  <1>8. lock[n] = w /\ lock' = [lock EXCEPT ![n] = None]
    <2>1. lock[n] = w
      BY <1>1 DEF SendInv, LockInv, Dispatching
    <2>2. lock' = [lock EXCEPT ![n] = IF @ = w THEN None ELSE @]
      BY DEF SaveDispatch
    <2> QED BY <2>1, <2>2
  <1>9. LockInv'
    BY <1>1, <1>6, <1>7, <1>8 DEF SendInv, LockInv, Dispatching, TypeOK, NoticeAssumption
  <1>10. UniqueOpen'
    BY <1>1, <1>2, <1>5 DEF SendInv, UniqueOpen, OpenNotice
  <1>11. DispatchInv'
    <2>1. \A v \in Workers : v # w /\ job[v].step \in {"post", "save"} =>
             job[v].notice \in Notices /\ job[v].notice # n
      BY <1>8 DEF SendInv, LockInv, Dispatching, JobInv, JobOK, KnowsNotice
    <2> QED BY <1>1, <1>5, <1>6, <1>7, <2>1 DEF SendInv, DispatchInv, Used
  <1>12. LetterInv'
    <2>1. s # "none" /\ s # "new"
      OBVIOUS
    <2>2. \A l \in Logs : Used(l) => log[l].notice \in Notices
      BY DEF SendInv, LogInv, Used
    <2> QED BY <1>1, <1>5, <1>6, <2>1, <2>2 DEF SendInv, LetterInv, Used
  <1> QED
    BY <1>1, <1>9, <1>10, <1>11, <1>12 DEF Rest, SendInv, OneLetterPerNotice

LEMMA OutcomeKeeps ==
    ASSUME NoticeAssumption, SendInv, NEW w \in Workers, NoteOutcome(w)
    PROVE  Rest'
  <1> DEFINE n == job[w].notice
             s == IF job[w].ok THEN "sent" ELSE "failed"
  <1>1. n \in Notices /\ job[w].step = "note" /\ lock[n] = None /\ UNCHANGED <<lock, log>>
    BY DEF NoteOutcome, SendInv, JobInv, JobOK, KnowsNotice, gateway
  <1>2. notice' = [notice EXCEPT ![n].status = s]
    BY DEF NoteOutcome
  <1>3. /\ \A m \in Notices : m # n => notice'[m] = notice[m]
        /\ notice'[n].status = s
    BY <1>1, <1>2 DEF SendInv, TypeOK, Notice
  <1>4. \A v \in Workers : v # w => job'[v] = job[v]
    BY DEF NoteOutcome, SendInv, TypeOK
  <1>5. job'[w].step = "find"
    BY DEF NoteOutcome, SendInv, TypeOK, Job
  <1>6. \A v \in Workers : job[v].step \in {"post", "save"} =>
           job[v].notice \in Notices /\ job[v].notice # n
    BY <1>1 DEF SendInv, LockInv, Dispatching, JobInv, JobOK, KnowsNotice, NoticeAssumption
  <1>7. LockInv'
    BY <1>1, <1>4, <1>5 DEF SendInv, LockInv, Dispatching
  <1>8. UniqueOpen'
    BY <1>3 DEF SendInv, UniqueOpen, OpenNotice
  <1>9. DispatchInv'
    BY <1>1, <1>3, <1>4, <1>5, <1>6 DEF SendInv, DispatchInv, Used
  <1>10. LetterInv'
    <2>1. \A l \in Logs : Used(l) => log[l].notice \in Notices
      BY DEF SendInv, LogInv, Used
    <2> QED BY <1>1, <1>3, <1>4, <1>5, <2>1 DEF SendInv, LetterInv, Used
  <1> QED
    BY <1>1, <1>7, <1>8, <1>9, <1>10 DEF Rest, SendInv, OneLetterPerNotice

\* The rest of the steps dispatch nothing and accept nothing.
LEMMA OthersKeep ==
    ASSUME SendInv,
           \/ \E w \in Workers : FindRow(w) \/ SaveRow(w) \/ RollupRead(w) \/ RollupSave(w)
           \/ \E w \in Workers, g \in Gateways, l \in Logs : CallbackArrives(w, g, l)
           \/ \E g \in Gateways, l \in Logs :
                 Claim(g, l) \/ Hand(g, l) \/ StoreOutcome(g, l) \/ CallbackLost(g, l)
           \/ \E g \in Gateways : Crash(g) \/ Restart(g) \/ Serve(g)
           \/ \E l \in Logs : ClaimAges(l)
           \/ UNCHANGED vars
    PROVE  Rest'
  <1> USE DEF SendInv
  <1>1. ASSUME NEW w \in Workers, FindRow(w) \/ SaveRow(w) \/ RollupRead(w) \/ RollupSave(w)
        PROVE  Rest'
    <2>1. UNCHANGED <<notice, lock, log>>
      BY <1>1 DEF FindRow, SaveRow, RollupRead, RollupSave, gateway
    <2>2. job[w].step \in {"find", "rowsave", "roll", "rollsave"}
      BY <1>1 DEF FindRow, SaveRow, RollupRead, RollupSave
    <2>3. PICK x : job' = [job EXCEPT ![w] = x] /\ x.step \notin {"post", "save"}
      <3>1. ASSUME NEW i, job' = [job EXCEPT ![w].step = "rowsave", ![w].row = i, ![w].seen = party[PartyOf[i]]]
            PROVE  \E x : job' = [job EXCEPT ![w] = x] /\ x.step \notin {"post", "save"}
        <4> DEFINE x == [job[w] EXCEPT !.step = "rowsave", !.row = i, !.seen = party[PartyOf[i]]]
        <4>1. x.step = "rowsave" /\ job' = [job EXCEPT ![w] = x]
          BY <3>1 DEF TypeOK, Job
        <4> HIDE DEF x
        <4> QED BY <4>1
      <3>2. CASE FindRow(w)
        BY <3>1, <3>2 DEF FindRow, Idle
      <3>3. CASE SaveRow(w)
        <4> DEFINE x == [job[w] EXCEPT !.step = "roll"]
        <4>1. x.step = "roll" /\ job' = [job EXCEPT ![w] = x]
          BY <3>3 DEF SaveRow, TypeOK, Job
        <4> HIDE DEF x
        <4> QED BY <4>1
      <3>4. CASE RollupRead(w)
        <4> DEFINE x == [job[w] EXCEPT !.step = "rollsave", !.seen = Verdict(RowStatuses(PartyOf[job[w].row]))]
        <4>1. x.step = "rollsave" /\ Idle.step = "idle"
          BY DEF TypeOK, Job, Idle
        <4>2. job' = [job EXCEPT ![w] = Idle] \/ job' = [job EXCEPT ![w] = x]
          BY <3>4 DEF RollupRead
        <4> HIDE DEF x
        <4> QED BY <4>1, <4>2
      <3>5. CASE RollupSave(w)
        <4>1. Idle.step = "idle"
          BY DEF Idle
        <4> QED BY <3>5, <4>1 DEF RollupSave
      <3> QED BY <1>1, <3>2, <3>3, <3>4, <3>5
    <2> QED BY <2>1, <2>2, <2>3, QuietStep DEF TypeOK, Used
  <1>2. ASSUME NEW w \in Workers, NEW g \in Gateways, NEW l \in Logs, CallbackArrives(w, g, l)
        PROVE  Rest'
    <2> DEFINE x == [Idle EXCEPT !.step = "note", !.kind = "callback",
                                 !.notice = log[l].notice, !.ok = dlv[g][l].ok]
    <2>1. UNCHANGED <<notice, lock, log>> /\ job[w].step = "idle" /\ job' = [job EXCEPT ![w] = x]
      BY <1>2 DEF CallbackArrives
    <2>2. x.step = "note"
      BY DEF Idle
    <2> QED BY <2>1, <2>2, QuietStep DEF TypeOK, Used
  <1>3. ASSUME NEW g \in Gateways, NEW l \in Logs,
               Claim(g, l) \/ Hand(g, l) \/ StoreOutcome(g, l) \/ CallbackLost(g, l)
        PROVE  Rest'
    <2>1. UNCHANGED <<notice, lock, job>>
      BY <1>3 DEF Claim, Hand, StoreOutcome, CallbackLost, backend
    <2>2. log[l].status # "none"
      BY <1>3 DEF Claim, Hand, StoreOutcome, CallbackLost, LogInv
    <2>3. \A m \in Logs : (Used(m)' <=> Used(m)) /\ log'[m].notice = log[m].notice
      <3>1. CASE Claim(g, l)
        <4>1. \A m \in Logs : /\ log[m].status # "none" <=> log'[m].status # "none"
                              /\ log'[m].notice = log[m].notice
          BY <2>2, <3>1 DEF Claim, TypeOK, At, NoDelivery
        <4> QED BY <4>1 DEF Used
      <3>2. CASE StoreOutcome(g, l)
        BY <2>2, <3>2 DEF StoreOutcome, TypeOK, Log, Used
      <3>3. CASE Hand(g, l) \/ CallbackLost(g, l)
        BY <3>3 DEF Hand, CallbackLost, Used
      <3> QED BY <1>3, <3>1, <3>2, <3>3
    <2> QED BY <2>1, <2>3, QuietStep
  <1>4. ASSUME NEW g \in Gateways, Crash(g) \/ Restart(g) \/ Serve(g)
        PROVE  Rest'
    BY <1>4, QuietStep DEF Crash, Restart, Serve, backend, Used
  <1>5. ASSUME NEW l \in Logs, ClaimAges(l)
        PROVE  Rest'
    <2>1. \A m \in Logs : (Used(m)' <=> Used(m)) /\ log'[m].notice = log[m].notice
      BY <1>5 DEF ClaimAges, TypeOK, Log, Used
    <2> QED BY <1>5, <2>1, QuietStep DEF ClaimAges, backend
  <1>6. CASE UNCHANGED vars
    BY <1>6, QuietStep DEF vars, backend, gateway, Used
  <1> QED
    BY <1>1, <1>2, <1>3, <1>4, <1>5, <1>6

LEMMA HandKeeps ==
    ASSUME NoticeAssumption, SendInv, NEW w \in Workers, ByHand(w)
    PROVE  Rest'
  <1>1. UNCHANGED <<notice, lock, log>>
    BY ByHandLeaves DEF gateway
  <1>2. PICK x \in Job : /\ job' = [job EXCEPT ![w] = x]
                         /\ job[w].step \notin {"post", "save"} /\ x.step \notin {"post", "save"}
    BY ByHandStep DEF HandGoesOn, HandStep, SendInv
  <1> QED BY <1>1, <1>2, QuietStep DEF SendInv, TypeOK, Used

LEMMA InitSend == Init => SendInv
  <1> SUFFICES ASSUME Init PROVE SendInv
    OBVIOUS
  <1>1. TypeOK /\ JobInv
    BY InitType, NoticeAssumption
  <1>2. LogInv /\ LockInv /\ UniqueOpen /\ DispatchInv /\ LetterInv /\ OneLetterPerNotice
    BY NoticeAssumption DEF Init, LogInv, LockInv, UniqueOpen, DispatchInv, LetterInv,
       OneLetterPerNotice, NoDelivery, At, Idle, Dispatching, OpenNotice, Used, NoticeAssumption
  <1> QED BY <1>1, <1>2 DEF SendInv

LEMMA SendStep ==
    ASSUME Endpoints \cap {"create", "resend"} = {}, SendInv, [Next]_vars
    PROVE  SendInv'
  <1>1. TypeOK' /\ JobInv' /\ LogInv'
    BY TypeStep, LogStep, NoticeAssumption DEF SendInv
  <1>2. \A w \in Workers : /\ ~ \E k \in Key : CreateNotice(w, k)
                           /\ ~ \E n \in Notices : ResendNotice(w, n)
    BY DEF CreateNotice, ResendNotice
  <1>3. Rest'
    BY <1>2, NoticeAssumption, QueueKeeps, LockKeeps, PostKeeps, SaveKeeps, OutcomeKeeps, HandKeeps,
        OthersKeep
       DEF Next, Backend, Gateway
  <1> QED BY <1>1, <1>3 DEF SendInv, Rest

(***************************************************************************)
(* When notifications leave only through the party's "send", no            *)
(* notification is given to the gateway twice: not by two clicks in two    *)
(* workers, not after a lost answer, not by a callback that comes early,   *)
(* not by a crash, and not by a row that is written by hand meanwhile and  *)
(* points to an older notification again.  The lock _queue_one takes       *)
(* before it looks at the status again is what makes it so.                *)
(***************************************************************************)
THEOREM OneLetter ==
    ASSUME Endpoints \cap {"create", "resend"} = {}
    PROVE  Spec => []OneLetterPerNotice
  <1>1. SendInv /\ [Next]_vars => SendInv'
    BY SendStep
  <1>2. SendInv => OneLetterPerNotice
    BY DEF SendInv
  <1> QED
    BY InitSend, <1>1, <1>2, PTL DEF Spec

-----------------------------------------------------------------------------
(* One process at a time, when no adapter takes longer than a claim lasts *)

\* Whoever delivers a journal row has a claim that has not run out, and is alone with it.
DeliverInv == \A g \in Gateways, l \in Logs : Delivering(g, l) =>
    /\ log[l].status = "processing" /\ log[l].fresh
    /\ \A h \in Gateways : Delivering(h, l) => h = g

\* What a callback says is what the journal says.
CallInv == \A g \in Gateways, l \in Logs : dlv[g][l].step = "calling" =>
    log[l].status = IF dlv[g][l].ok THEN "delivered" ELSE "failed"

ClaimInv == TypeOK /\ JobInv /\ LogInv /\ DeliverInv /\ CallInv

\* Before a journal row is written nobody delivers it.
LEMMA PostClaims ==
    ASSUME ClaimInv, NEW w \in Workers, Post(w)
    PROVE  DeliverInv' /\ CallInv'
  <1>1. ASSUME NEW l \in Logs, NEW g \in Gateways, log[l].status = "none",
               log' = [log EXCEPT ![l] = [status |-> "accepted", notice |-> job[w].notice, fresh |-> FALSE]],
               dlv' = [dlv EXCEPT ![g][l] = At("task", FALSE, 0)]
        PROVE  DeliverInv' /\ CallInv'
    <2>1. \A h \in Gateways : dlv[h][l].step = "none"
      BY <1>1 DEF ClaimInv, LogInv
    <2>2. /\ dlv'[g][l].step = "task"
          /\ \A h \in Gateways, m \in Logs : h # g \/ m # l => dlv'[h][m] = dlv[h][m]
      BY <1>1 DEF ClaimInv, TypeOK, At
    <2>3. \A m \in Logs : m # l => log'[m] = log[m]
      BY <1>1 DEF ClaimInv, TypeOK
    <2>4. \A h \in Gateways : dlv'[h][l].step \in {"none", "task"}
      BY <2>1, <2>2
    <2> QED BY <2>2, <2>3, <2>4 DEF ClaimInv, DeliverInv, CallInv, Delivering
  <1>2. CASE UNCHANGED <<log, dlv>>
    BY <1>2 DEF ClaimInv, DeliverInv, CallInv, Delivering
  <1> QED
    BY <1>1, <1>2 DEF Post

\* claim() succeeds only where nobody delivers.
LEMMA ClaimClaims ==
    ASSUME ClaimInv, NEW g \in Gateways, NEW l \in Logs, Claim(g, l)
    PROVE  DeliverInv' /\ CallInv'
  <1>1. CASE Claimable(l)
    <2>1. \A h \in Gateways : ~Delivering(h, l) /\ dlv[h][l].step # "calling"
      BY <1>1 DEF ClaimInv, DeliverInv, CallInv, Claimable
    <2>2. /\ dlv'[g][l].step = "claimed"
          /\ \A h \in Gateways, m \in Logs : h # g \/ m # l => dlv'[h][m] = dlv[h][m]
      BY <1>1 DEF ClaimInv, TypeOK, At, Claim
    <2>3. /\ log'[l].status = "processing" /\ log'[l].fresh
          /\ \A m \in Logs : m # l => log'[m] = log[m]
      BY <1>1 DEF ClaimInv, TypeOK, Claim
    <2> QED BY <2>1, <2>2, <2>3 DEF ClaimInv, DeliverInv, CallInv, Delivering
  <1>2. CASE ~Claimable(l)
    <2>1. /\ dlv'[g][l].step = "none" /\ UNCHANGED log
          /\ \A h \in Gateways, m \in Logs : h # g \/ m # l => dlv'[h][m] = dlv[h][m]
      BY <1>2 DEF ClaimInv, TypeOK, At, Claim, NoDelivery
    <2> QED BY <2>1 DEF ClaimInv, DeliverInv, CallInv, Delivering
  <1> QED
    BY <1>1, <1>2

\* Who delivers goes on alone, and reports what it has written down.
LEMMA DeliveryClaims ==
    ASSUME ClaimInv, NEW g \in Gateways, NEW l \in Logs, Hand(g, l) \/ StoreOutcome(g, l)
    PROVE  DeliverInv' /\ CallInv'
  <1>0. Delivering(g, l)
    BY DEF Hand, StoreOutcome, Delivering
  <1>1. CASE Hand(g, l)
    <2>1. /\ dlv'[g][l].step = "handed" /\ UNCHANGED log
          /\ \A h \in Gateways, m \in Logs : h # g \/ m # l => dlv'[h][m] = dlv[h][m]
      BY <1>1 DEF ClaimInv, TypeOK, At, Hand
    <2> QED BY <1>0, <2>1 DEF ClaimInv, DeliverInv, CallInv, Delivering
  <1>2. CASE StoreOutcome(g, l)
    <2>1. /\ dlv'[g][l].step = "calling" /\ dlv'[g][l].ok = dlv[g][l].ok
          /\ \A h \in Gateways, m \in Logs : h # g \/ m # l => dlv'[h][m] = dlv[h][m]
      BY <1>2 DEF ClaimInv, TypeOK, At, StoreOutcome
    <2>2. /\ log'[l].status = IF dlv[g][l].ok THEN "delivered" ELSE "failed"
          /\ \A m \in Logs : m # l => log'[m] = log[m]
      BY <1>2 DEF ClaimInv, StoreOutcome, TypeOK, Log
    <2>3. \A h \in Gateways : h # g => ~Delivering(h, l) /\ dlv[h][l].step # "calling"
      BY <1>0 DEF ClaimInv, DeliverInv, CallInv
    <2> QED BY <2>1, <2>2, <2>3 DEF ClaimInv, DeliverInv, CallInv, Delivering
  <1> QED
    BY <1>1, <1>2

\* The other steps of the gateway: nobody starts to deliver, no live claim ages.
LEMMA RestClaims ==
    ASSUME "stall" \notin Faults, ClaimInv,
           \/ \E g \in Gateways, l \in Logs : CallbackLost(g, l)
           \/ \E w \in Workers, g \in Gateways, l \in Logs : CallbackArrives(w, g, l)
           \/ \E g \in Gateways : Crash(g) \/ Restart(g) \/ Serve(g)
           \/ \E l \in Logs : ClaimAges(l)
    PROVE  DeliverInv' /\ CallInv'
  <1>1. ASSUME NEW g \in Gateways, NEW l \in Logs,
               CallbackLost(g, l) \/ \E w \in Workers : CallbackArrives(w, g, l)
        PROVE  DeliverInv' /\ CallInv'
    <2>1. PICK n : \/ dlv' = [dlv EXCEPT ![g][l] = NoDelivery]
                   \/ dlv' = [dlv EXCEPT ![g][l] = At("calling", dlv[g][l].ok, n)]
      BY <1>1 DEF CallbackLost, CallbackArrives
    <2>2. /\ \A h \in Gateways, m \in Logs : h # g \/ m # l => dlv'[h][m] = dlv[h][m]
          /\ \/ dlv'[g][l].step = "none"
             \/ dlv'[g][l].step = "calling" /\ dlv'[g][l].ok = dlv[g][l].ok
      BY <2>1 DEF ClaimInv, TypeOK, At, NoDelivery
    <2>3. dlv[g][l].step = "calling" /\ UNCHANGED log
      BY <1>1 DEF CallbackLost, CallbackArrives
    <2> QED BY <2>2, <2>3 DEF ClaimInv, DeliverInv, CallInv, Delivering
  <1>2. ASSUME NEW g \in Gateways, Crash(g) \/ Restart(g)
        PROVE  DeliverInv' /\ CallInv'
    <2>1. /\ UNCHANGED log
          /\ \A h \in Gateways \ {g} : dlv'[h] = dlv[h]
          /\ \A l \in Logs : dlv'[g][l].step \in {"none", "task"}
      BY <1>2 DEF At, ClaimInv, TypeOK, Crash, Restart, NoDelivery
    <2> QED BY <2>1 DEF ClaimInv, DeliverInv, CallInv, Delivering
  <1>3. ASSUME NEW g \in Gateways, Serve(g)
        PROVE  DeliverInv' /\ CallInv'
    BY <1>3 DEF Serve, ClaimInv, DeliverInv, CallInv, Delivering
  <1>4. ASSUME NEW l \in Logs, ClaimAges(l)
        PROVE  DeliverInv' /\ CallInv'
    <2>1. \A h \in Gateways : ~Delivering(h, l)
      BY <1>4 DEF ClaimAges
    <2>2. /\ UNCHANGED dlv
          /\ log'[l].status = log[l].status
          /\ \A m \in Logs : m # l => log'[m] = log[m]
      BY <1>4 DEF ClaimAges, ClaimInv, TypeOK, Log
    <2> QED BY <2>1, <2>2 DEF ClaimInv, DeliverInv, CallInv, Delivering
  <1> QED
    BY <1>1, <1>2, <1>3, <1>4

\* The requests of the backend other than dispatch() leave the gateway alone.
LEMMA BackendLeavesGateway ==
    ASSUME NEW w \in Workers, Backend(w), ~Post(w)
    PROVE  UNCHANGED <<log, dlv, handed>>
  BY ByHandLeaves DEF Backend, QueueOne, CreateNotice, ResendNotice, LockNotice, SaveDispatch,
         RollupRead, RollupSave, NoteOutcome, FindRow, SaveRow, gateway

LEMMA ClaimStep ==
    ASSUME "stall" \notin Faults, ClaimInv, [Next]_vars
    PROVE  ClaimInv'
  <1>1. TypeOK' /\ JobInv' /\ LogInv'
    BY TypeStep, LogStep, NoticeAssumption DEF ClaimInv
  <1>2. CASE UNCHANGED <<log, dlv>>
    BY <1>1, <1>2 DEF ClaimInv, DeliverInv, CallInv, Delivering
  <1>3. CASE UNCHANGED vars
    BY <1>2, <1>3 DEF vars, gateway
  <1>4. ASSUME NEW w \in Workers, Backend(w) PROVE DeliverInv' /\ CallInv'
    BY <1>2, <1>4, PostClaims, BackendLeavesGateway DEF ClaimInv
  <1>5. ASSUME NEW g \in Gateways, Gateway(g) PROVE DeliverInv' /\ CallInv'
    BY <1>5, ClaimClaims, DeliveryClaims, RestClaims DEF Gateway
  <1> QED
    BY <1>1, <1>2, <1>3, <1>4, <1>5, RestClaims DEF ClaimInv, Next

LEMMA InitClaim == Init => ClaimInv
  <1>1. Init => LogInv /\ DeliverInv /\ CallInv
    BY DEF At, Init, LogInv, DeliverInv, CallInv, Delivering, NoDelivery
  <1> QED BY <1>1, InitType, NoticeAssumption DEF ClaimInv

(***************************************************************************)
(* claim() gives a journal row to one process, however many there are,     *)
(* whatever crashes and is lost, as long as no adapter takes longer than   *)
(* the two minutes of a claim: only then may a second process take a row   *)
(* from under the first.                                                   *)
(***************************************************************************)
THEOREM OneDeliverer ==
    ASSUME "stall" \notin Faults
    PROVE  Spec => []OneDelivererPerLog
  <1>1. ClaimInv /\ [Next]_vars => ClaimInv'
    BY ClaimStep
  <1>2. ClaimInv => OneDelivererPerLog
    BY DEF ClaimInv, DeliverInv, OneDelivererPerLog
  <1> QED
    BY <1>1, <1>2, InitClaim, PTL DEF Spec

\* A recorded outcome is claimed by nobody, so that nobody hands it over or rewrites it.
LEMMA RecordedStep ==
    ASSUME ClaimInv, [Next]_vars, NEW l \in Logs, log[l].status \in Finished
    PROVE  log'[l].status = log[l].status /\ handed'[l] = handed[l]
  <1> DEFINE Same == log'[l].status = log[l].status /\ handed'[l] = handed[l]
  <1>0. log[l].status \notin {"none", "accepted", "processing"}
    BY DEF Finished
  <1>1. \A g \in Gateways : ~Delivering(g, l)
    BY <1>0 DEF ClaimInv, DeliverInv
  <1>2. CASE UNCHANGED <<log, dlv, handed>>
    BY <1>2
  <1>3. ASSUME NEW w \in Workers, Post(w) PROVE Same
    BY <1>0, <1>3 DEF Post, ClaimInv, TypeOK
  <1>4. ASSUME NEW g \in Gateways, NEW m \in Logs, Claim(g, m) PROVE Same
    BY <1>0, <1>4 DEF Claim, Claimable, ClaimInv, TypeOK
  <1>5. ASSUME NEW g \in Gateways, NEW m \in Logs, Hand(g, m) \/ StoreOutcome(g, m) PROVE Same
    <2>1. m # l
      BY <1>1, <1>5 DEF Hand, StoreOutcome, Delivering
    <2> QED BY <1>5, <2>1 DEF Hand, StoreOutcome, ClaimInv, TypeOK
  <1>6. ASSUME NEW m \in Logs, ClaimAges(m) PROVE Same
    BY <1>6 DEF ClaimAges, ClaimInv, TypeOK, Log
  <1>7. ASSUME NEW g \in Gateways,
               \/ Crash(g) \/ Restart(g) \/ Serve(g)
               \/ \E m \in Logs : CallbackLost(g, m) \/ \E w \in Workers : CallbackArrives(w, g, m)
        PROVE  Same
    BY <1>7 DEF Crash, Restart, Serve, CallbackLost, CallbackArrives
  <1>8. CASE UNCHANGED vars
    BY <1>8 DEF vars, gateway
  <1> QED
    BY <1>2, <1>3, <1>4, <1>5, <1>6, <1>7, <1>8, BackendLeavesGateway DEF Next, Gateway

(***************************************************************************)
(* An outcome in the journal is the last word on its row for every number  *)
(* of processes and crashes: neither a coroutine scheduled before, nor a   *)
(* process that resumes, delivers it again.                                *)
(***************************************************************************)
THEOREM RecordedOutcomeStays ==
    ASSUME "stall" \notin Faults
    PROVE  Spec => RecordedIsFinal
  <1>1. ClaimInv /\ [Next]_vars => ClaimInv'
    BY ClaimStep
  <1>2. ClaimInv /\ [Next]_vars =>
           [\A l \in Logs : log[l].status \in Finished =>
               log'[l].status = log[l].status /\ handed'[l] = handed[l]]_vars
    BY RecordedStep
  <1> QED
    BY <1>1, <1>2, InitClaim, PTL DEF Spec, RecordedIsFinal

-----------------------------------------------------------------------------
(* What delivery says of a row is true: the letter of a row is the letter   *)
(* of its notification, and a good word follows a message that has left.    *)

Written(n) == notice[n].status # "none"

\* Notification n carries the letter of row i.
Carries(n, i) == Written(n) /\ notice[n].key[2] = LetterOf[i]

\* A message of notification n has left.
Left(n) == \E l \in Logs : handed[l] > 0 /\ log[l].notice = n

Tied(i) == row[i].notice # None => Carries(row[i].notice, i)
RowTrue == \A i \in Rows : Tied(i)

\* A sender carries the letter of its row, and so does the notification a row is loaded
\* with; a callback says "delivered" of what has left.
JobTrue(w) ==
    LET j == job[w] IN
    /\ j.step \in {"post", "save"} => Written(j.notice)
    /\ j.step \in {"lock", "post", "save"} /\ j.kind = "send" => Carries(j.notice, j.row)
    /\ j.step \in {"note", "find"} => Written(j.notice) /\ (j.ok => Left(j.notice))
    /\ j.step = "rowsave" /\ j.ok => LetterLeft(j.row)
    /\ j.step = "hand" /\ j.notice # None => Carries(j.notice, j.row)

LogTrue == \A l \in Logs :
    /\ Used(l) => Written(log[l].notice)
    /\ handed[l] > 0 => Used(l)

CallTrue == \A g \in Gateways, l \in Logs :
    dlv[g][l].step \in {"handed", "calling"} /\ dlv[g][l].ok => handed[l] > 0

TrueInv == /\ TypeOK /\ JobInv /\ LogInv
           /\ RowTrue /\ (\A w \in Workers : JobTrue(w)) /\ LogTrue /\ CallTrue

\* Written notifications keep their letter.
NoticesStay == \A n \in Notices : Written(n) => Written(n)' /\ notice'[n].key = notice[n].key

\* What has left is not forgotten.
LettersStay == \A l \in Logs : handed[l] > 0 => handed'[l] > 0 /\ log'[l].notice = log[l].notice

LEMMA NoticeWriters ==
    ASSUME TypeOK, JobInv, NEW w \in Workers, Backend(w)
    PROVE  NoticesStay
  <1> USE DEF NoticesStay, Written
  <1>1. ASSUME NEW n \in Notices, NEW x, x # "none", notice' = [notice EXCEPT ![n].status = x]
        PROVE  NoticesStay
    BY <1>1 DEF TypeOK, Notice
  <1>2. ASSUME NEW n \in Notices, NEW x, notice[n].status = "none", notice' = [notice EXCEPT ![n] = x]
        PROVE  NoticesStay
    BY <1>2 DEF TypeOK
  <1>3. CASE UNCHANGED notice
    BY <1>3
  <1>4. ASSUME NEW u \in Users, NEW i \in Rows, QueueOne(w, u, i) PROVE NoticesStay
    BY <1>2, <1>3, <1>4 DEF QueueOne
  <1>5. ASSUME NEW k \in Key, CreateNotice(w, k) PROVE NoticesStay
    BY <1>2, <1>5 DEF CreateNotice
  <1>6. CASE SaveDispatch(w)
    <2>1. job[w].notice \in Notices
      BY <1>6 DEF SaveDispatch, JobInv, JobOK, KnowsNotice
    <2> DEFINE x == IF job[w].ok THEN "queued" ELSE "failed"
    <2>2. x # "none" /\ (notice' = notice \/ notice' = [notice EXCEPT ![job[w].notice].status = x])
      BY <1>6 DEF SaveDispatch
    <2> HIDE DEF x
    <2> QED BY <1>1, <1>3, <2>1, <2>2
  <1>7. CASE NoteOutcome(w)
    <2>1. job[w].notice \in Notices
      BY <1>7 DEF NoteOutcome, JobInv, JobOK, KnowsNotice
    <2> DEFINE x == IF job[w].ok THEN "sent" ELSE "failed"
    <2>2. x # "none" /\ notice' = [notice EXCEPT ![job[w].notice].status = x]
      BY <1>7 DEF NoteOutcome
    <2> HIDE DEF x
    <2> QED BY <1>1, <2>1, <2>2
  <1>8. CASE \/ \E n \in Notices : ResendNotice(w, n)
             \/ LockNotice(w) \/ Post(w) \/ RollupRead(w) \/ RollupSave(w) \/ FindRow(w) \/ SaveRow(w)
    BY <1>3, <1>8 DEF ResendNotice, LockNotice, Post, RollupRead, RollupSave, FindRow, SaveRow
  <1>9. CASE ByHand(w)
    BY <1>3, <1>9, ByHandLeaves
  <1> QED
    BY <1>4, <1>5, <1>6, <1>7, <1>8, <1>9 DEF Backend

LEMMA NoticesStayStep == TypeOK /\ JobInv /\ [Next]_vars => NoticesStay
  <1> SUFFICES ASSUME TypeOK, JobInv, [Next]_vars PROVE NoticesStay
    OBVIOUS
  <1>1. CASE UNCHANGED notice
    BY <1>1 DEF NoticesStay, Written
  <1>2. ASSUME NEW g \in Gateways, Gateway(g) PROVE UNCHANGED notice
    BY <1>2 DEF Gateway, Claim, Hand, StoreOutcome, CallbackLost, CallbackArrives, Crash, Restart,
                Serve, backend
  <1>3. ASSUME NEW l \in Logs, ClaimAges(l) PROVE UNCHANGED notice
    BY <1>3 DEF ClaimAges, backend
  <1>4. CASE UNCHANGED vars
    BY <1>1, <1>4 DEF vars, backend
  <1> QED
    BY <1>1, <1>2, <1>3, <1>4, NoticeWriters DEF Next

\* What the steps of the gateway do to the journal and to the messages that have left.
LEMMA LogWriters ==
    ASSUME TypeOK, JobInv, LogInv, LogTrue, [Next]_vars
    PROVE  /\ LettersStay
           /\ \A l \in Logs : Used(l) => Used(l)' /\ log'[l].notice = log[l].notice
           /\ \A l \in Logs : handed'[l] > 0 => Used(l)
  <1> DEFINE Kept == /\ \A l \in Logs : Used(l) => Used(l)' /\ log'[l].notice = log[l].notice
                     /\ \A l \in Logs : handed[l] > 0 => handed'[l] > 0
                     /\ \A l \in Logs : handed'[l] > 0 => Used(l)
  <1>1. ASSUME UNCHANGED <<log, handed>> PROVE Kept
    BY <1>1 DEF LogTrue, Used
  <1>2. ASSUME NEW w \in Workers, Post(w) PROVE Kept
    <2>1. UNCHANGED handed
      BY <1>2 DEF Post
    <2>2. CASE UNCHANGED log
      BY <1>1, <2>1, <2>2
    <2>3. ASSUME NEW m \in Logs, NEW x, log[m].status = "none", log' = [log EXCEPT ![m] = x]
          PROVE  Kept
      BY <2>1, <2>3 DEF TypeOK, LogTrue, Used
    <2> QED BY <1>2, <2>2, <2>3 DEF Post
  <1>3. ASSUME NEW g \in Gateways, NEW l \in Logs, Claim(g, l) \/ StoreOutcome(g, l) PROVE Kept
    <2>1. UNCHANGED handed
      BY <1>3 DEF Claim, StoreOutcome
    <2>2. CASE Claim(g, l)
      <3>1. \/ UNCHANGED log
            \/ log' = [log EXCEPT ![l] = [status |-> "processing", notice |-> @.notice, fresh |-> TRUE]]
        BY <2>2 DEF Claim
      <3> QED BY <1>1, <2>1, <3>1 DEF TypeOK, LogTrue, Used
    <2>3. CASE StoreOutcome(g, l)
      BY <2>1, <2>3 DEF StoreOutcome, TypeOK, Log, LogTrue, Used
    <2> QED BY <1>3, <2>2, <2>3
  <1>4. ASSUME NEW g \in Gateways, NEW l \in Logs, Hand(g, l) PROVE Kept
    <2>1. UNCHANGED log /\ Used(l)
      BY <1>4 DEF Hand, LogInv, Used
    <2>2. \A m \in Logs : m # l => handed'[m] = handed[m]
      BY <1>4 DEF Hand, TypeOK
    <2>3. handed[l] > 0 => handed'[l] > 0
      BY <1>4 DEF Hand, TypeOK
    <2> QED BY <2>1, <2>2, <2>3 DEF LogTrue, Used
  <1>5. ASSUME NEW l \in Logs, ClaimAges(l) PROVE Kept
    BY <1>5 DEF ClaimAges, TypeOK, Log, LogTrue, Used
  <1>6. ASSUME NEW g \in Gateways,
               \/ Crash(g) \/ Restart(g) \/ Serve(g)
               \/ \E m \in Logs : CallbackLost(g, m) \/ \E w \in Workers : CallbackArrives(w, g, m)
        PROVE  UNCHANGED <<log, handed>>
    BY <1>6 DEF Crash, Restart, Serve, CallbackLost, CallbackArrives
  <1>7. ASSUME UNCHANGED vars PROVE Kept
    BY <1>1, <1>7 DEF vars, gateway
  <1>8. Kept
    BY <1>1, <1>2, <1>3, <1>4, <1>5, <1>6, <1>7, BackendLeavesGateway DEF Next, Gateway
  <1> QED
    BY <1>8 DEF LettersStay, LogTrue

\* What is known of a notification, a row or a request stays known.
LEMMA KnownStays ==
    ASSUME LogInv, LogTrue, NoticesStay, LettersStay
    PROVE  /\ \A n \in Notices, i \in Rows : Carries(n, i) => Carries(n, i)'
           /\ \A n \in Notices : Left(n) => Left(n)'
           /\ \A i \in Rows : LetterLeft(i) => LetterLeft(i)'
  <1>1. \A l \in Logs : handed[l] > 0 => log[l].notice \in Notices /\ Written(log[l].notice)
    BY DEF LogInv, LogTrue, Used
  <1>2. ASSUME NEW n \in Notices, Left(n) PROVE Left(n)'
    <2>1. PICK l \in Logs : handed[l] > 0 /\ log[l].notice = n
      BY <1>2 DEF Left
    <2> QED BY <2>1 DEF Left, LettersStay
  <1>3. ASSUME NEW i \in Rows, LetterLeft(i) PROVE LetterLeft(i)'
    <2>1. PICK l \in Logs : handed[l] > 0 /\ notice[log[l].notice].key[2] = LetterOf[i]
      BY <1>3 DEF LetterLeft
    <2>2. handed'[l] > 0 /\ notice'[log'[l].notice].key = notice[log[l].notice].key
      BY <1>1, <2>1 DEF LettersStay, NoticesStay
    <2> QED BY <2>1, <2>2 DEF LetterLeft
  <1> QED
    BY <1>2, <1>3 DEF Carries, NoticesStay

LEMMA JobStaysTrue ==
    ASSUME LogInv, LogTrue, NoticesStay, LettersStay, NEW w \in Workers, job[w] \in Job,
           JobOK(job[w]), JobTrue(w), job'[w] = job[w]
    PROVE  JobTrue(w)'
  <1> DEFINE j == job[w]
  <1>1. j.step \in {"post", "save", "note", "find"} => j.notice \in Notices /\ Written(j.notice)
    BY DEF JobOK, KnowsNotice, JobTrue
  <1>2. \/ j.step \in {"lock", "post", "save"} /\ j.kind = "send"
        \/ j.step = "hand" /\ j.notice # None
        => j.notice \in Notices /\ j.row \in Rows /\ Carries(j.notice, j.row)
    BY DEF JobOK, KnowsNotice, KnowsRow, JobTrue, Job
  <1>3. j.step = "rowsave" => j.row \in Rows
    BY DEF JobOK, KnowsRow
  <1> QED
    BY <1>1, <1>2, <1>3, KnownStays DEF JobTrue, NoticesStay, Carries, Written, Left, LetterLeft

\* What the requests and callbacks come to know is true.
LEMMA RequestsTrue ==
    ASSUME NoticeAssumption, TrueInv, NoticesStay, LettersStay, NEW w \in Workers, Backend(w)
    PROVE  JobTrue(w)'
  <1> DEFINE j == job[w]
             y == job'[w]
  <1>0. JobOK(j) /\ JobTrue(w)
    BY DEF TrueInv, JobInv
  <1>1. ASSUME y.step \in {"idle", "roll", "rollsave"} PROVE JobTrue(w)'
    BY <1>1 DEF JobTrue
  <1>2. ASSUME NEW u \in Users, NEW i \in Rows, QueueOne(w, u, i) PROVE JobTrue(w)'
    <2>1. PICK m \in Notices : TieRow(w, i, m) /\ Carries(m, i)'
      <3> DEFINE k == <<u, LetterOf[i]>>
                 n == row[i].notice
      <3>1. ASSUME n # None, UNCHANGED notice, TieRow(w, i, n)
            PROVE  \E m \in Notices : TieRow(w, i, m) /\ Carries(m, i)'
        <4>1. n \in Notices /\ Carries(n, i)
          BY <3>1 DEF TrueInv, RowTrue, Tied, TypeOK, Row
        <4> QED BY <3>1, <4>1 DEF Carries, Written
      <3>2. ASSUME NEW m \in Notices, notice' = [notice EXCEPT ![m] = [status |-> "new", key |-> k]],
                   TieRow(w, i, m)
            PROVE  \E x \in Notices : TieRow(w, i, x) /\ Carries(x, i)'
        BY <3>2 DEF Carries, Written, TrueInv, TypeOK
      <3>3. ASSUME NEW m \in OpenWith(k), UNCHANGED notice, TieRow(w, i, m)
            PROVE  \E x \in Notices : TieRow(w, i, x) /\ Carries(x, i)'
        BY <3>3 DEF Carries, Written, OpenWith, OpenNotice
      <3> QED BY <1>2, <3>1, <3>2, <3>3 DEF QueueOne
    <2> DEFINE x == [Idle EXCEPT !.step = "lock", !.row = i, !.notice = m, !.seen = party[PartyOf[i]]]
    <2>2. x.step = "lock" /\ x.row = i /\ x.notice = m /\ Idle.step = "idle"
      BY DEF Idle
    <2>3. y = x \/ y = Idle
      BY <2>1 DEF TieRow, TrueInv, TypeOK
    <2> HIDE DEF x
    <2> QED BY <2>1, <2>2, <2>3 DEF JobTrue, Carries, Written
  <1>3. ASSUME NEW k \in Key, CreateNotice(w, k) PROVE JobTrue(w)'
    <2>1. PICK n \in Notices :
             /\ notice' = [notice EXCEPT ![n] = [status |-> "new", key |-> k]]
             /\ job' = [job EXCEPT ![w] = [Idle EXCEPT !.step = "post", !.kind = "create", !.notice = n]]
      BY <1>3 DEF CreateNotice
    <2>2. y.step = "post" /\ y.kind = "create" /\ y.notice = n
      BY <2>1 DEF TrueInv, TypeOK, Idle
    <2>3. notice'[n].status = "new"
      BY <2>1 DEF TrueInv, TypeOK
    <2> QED BY <2>2, <2>3 DEF JobTrue, Written
  <1>4. ASSUME NEW n \in Notices, ResendNotice(w, n) PROVE JobTrue(w)'
    <2>1. y.step = "post" /\ y.kind = "resend" /\ y.notice = n
      BY <1>4 DEF ResendNotice, TrueInv, TypeOK, Idle
    <2>2. notice'[n].status # "none"
      BY <1>4 DEF ResendNotice
    <2> QED BY <2>1, <2>2 DEF JobTrue, Written
  <1>5. CASE LockNotice(w)
    <2>1. j.step = "lock" /\ j.kind = "send"
      BY <1>0, <1>5 DEF LockNotice, JobOK
    <2>2. PICK n \in Notices, i \in Rows : n = j.notice /\ i = j.row /\ Carries(n, i)'
      BY <1>0, <2>1, KnownStays DEF JobTrue, JobOK, KnowsRow, KnowsNotice, TrueInv
    <2>3. \/ y.step = "idle"
          \/ y.step = "post" /\ y.notice = j.notice /\ y.row = j.row
      BY <1>5 DEF LockNotice, TrueInv, TypeOK, Job, Idle
    <2> QED BY <1>1, <2>2, <2>3 DEF JobTrue, Carries, Written
  <1>6. CASE Post(w)
    <2>1. y.step = "save" /\ y.notice = j.notice /\ y.row = j.row /\ y.kind = j.kind
      <3>1. ASSUME NEW b \in BOOLEAN, job' = [job EXCEPT ![w].step = "save", ![w].ok = b]
            PROVE  y.step = "save" /\ y.notice = j.notice /\ y.row = j.row /\ y.kind = j.kind
        BY <3>1 DEF TrueInv, TypeOK, Job
      <3> QED BY <1>6, <3>1 DEF Post
    <2>2. j.notice \in Notices /\ Written(j.notice)
      BY <1>0, <1>6 DEF JobTrue, Post, JobOK, KnowsNotice
    <2>3. j.kind = "send" => j.row \in Rows /\ Carries(j.notice, j.row)
      BY <1>0, <1>6 DEF JobTrue, Post, JobOK, KnowsRow
    <2> QED BY <2>1, <2>2, <2>3, KnownStays DEF JobTrue, NoticesStay, Carries, Written, TrueInv
  <1>7. CASE SaveDispatch(w) \/ RollupRead(w) \/ RollupSave(w) \/ SaveRow(w)
    <2>1. \E x : job' = [job EXCEPT ![w] = x] /\ x.step \in {"idle", "roll", "rollsave"}
      <3>1. Idle.step = "idle"
        BY DEF Idle
      <3>2. ASSUME job' = [job EXCEPT ![w].step = "roll"]
            PROVE  \E x : job' = [job EXCEPT ![w] = x] /\ x.step \in {"idle", "roll", "rollsave"}
        <4> DEFINE x == [j EXCEPT !.step = "roll"]
        <4>1. job' = [job EXCEPT ![w] = x] /\ x.step = "roll"
          BY <3>2 DEF TrueInv, TypeOK, Job
        <4> HIDE DEF x
        <4> QED BY <4>1
      <3>3. CASE RollupRead(w)
        <4> DEFINE x == [j EXCEPT !.step = "rollsave", !.seen = Verdict(RowStatuses(PartyOf[j.row]))]
        <4>1. x.step = "rollsave"
          BY DEF TrueInv, TypeOK, Job
        <4>2. job' = [job EXCEPT ![w] = Idle] \/ job' = [job EXCEPT ![w] = x]
          BY <3>3 DEF RollupRead
        <4> HIDE DEF x
        <4> QED BY <3>1, <4>1, <4>2
      <3> QED BY <1>7, <3>1, <3>2, <3>3 DEF SaveDispatch, RollupSave, SaveRow
    <2> QED BY <1>1, <2>1 DEF TrueInv, TypeOK
  <1>8. CASE NoteOutcome(w)
    <2>1. y.step = "find" /\ y.notice = j.notice /\ y.ok = j.ok /\ j.step = "note"
      BY <1>8 DEF NoteOutcome, TrueInv, TypeOK, Job
    <2>2. j.notice \in Notices /\ Written(j.notice) /\ (j.ok => Left(j.notice))
      BY <1>0, <2>1 DEF JobTrue, JobOK, KnowsNotice
    <2> QED BY <2>1, <2>2, KnownStays DEF JobTrue, NoticesStay, Written, Left, TrueInv
  <1>9. CASE FindRow(w)
    <2>1. ASSUME NEW i \in RowsOf(j.notice),
                 job' = [job EXCEPT ![w].step = "rowsave", ![w].row = i, ![w].seen = party[PartyOf[i]]]
          PROVE  JobTrue(w)'
      <3>1. y.step = "rowsave" /\ y.row = i /\ y.ok = j.ok
        BY <2>1 DEF TrueInv, TypeOK, Job
      <3>2. i \in Rows /\ row[i].notice = j.notice /\ j.notice \in Notices /\ j.step = "find"
        BY <1>0, <1>9 DEF FindRow, RowsOf, JobOK, KnowsNotice
      <3>3. Carries(j.notice, i)
        BY <3>2 DEF TrueInv, RowTrue, Tied, NoticeAssumption
      <3>4. j.ok => LetterLeft(i)
        BY <1>0, <3>2, <3>3 DEF JobTrue, Left, LetterLeft, Carries
      <3>5. j.ok => LetterLeft(i)'
        BY <3>2, <3>4, KnownStays DEF TrueInv
      <3> QED BY <3>1, <3>5 DEF JobTrue, LetterLeft
    <2>2. CASE job' = [job EXCEPT ![w] = Idle]
      <3>1. y.step = "idle"
        BY <2>2 DEF TrueInv, TypeOK, Idle
      <3> QED BY <1>1, <3>1
    <2> QED BY <1>9, <2>1, <2>2 DEF FindRow
  <1>10. CASE ByHand(w)
    <2>1. UNCHANGED notice
      BY <1>10, ByHandLeaves
    <2>2. PICK x \in Job : /\ y = x /\ JobOK(x) /\ x.step \in HandStep \cup {"roll", "rollsave"}
                           /\ x.step = "hand" => x.notice = row[x.row].notice
      BY <1>10, ByHandStep DEF HandGoesOn, TrueInv, TypeOK
    <2>3. CASE x.step = "hand"
      <3>1. x.row \in Rows
        BY <2>2, <2>3 DEF JobOK, KnowsRow
      <3>2. x.notice # None => Carries(x.notice, x.row)
        BY <2>2, <2>3, <3>1 DEF TrueInv, RowTrue, Tied
      <3> QED BY <2>1, <2>2, <2>3, <3>2 DEF JobTrue, Carries, Written
    <2>4. CASE x.step # "hand"
      BY <2>2, <2>4 DEF JobTrue, HandStep
    <2> QED BY <2>3, <2>4
  <1> QED
    BY <1>2, <1>3, <1>4, <1>5, <1>6, <1>7, <1>8, <1>9, <1>10 DEF Backend

LEMMA JobsTrue ==
    ASSUME NoticeAssumption, TrueInv, NoticesStay, LettersStay, [Next]_vars
    PROVE  \A w \in Workers : JobTrue(w)'
  <1>2. ASSUME NEW v \in Workers, job'[v] = job[v] PROVE JobTrue(v)'
    BY <1>2, JobStaysTrue DEF TrueInv, TypeOK, JobInv
  <1>3. ASSUME NEW w \in Workers, Backend(w) PROVE \A v \in Workers \ {w} : job'[v] = job[v]
    <2> USE DEF TrueInv, TypeOK
    <2>1. ASSUME NEW u \in Users, NEW i \in Rows, QueueOne(w, u, i)
          PROVE  \A v \in Workers \ {w} : job'[v] = job[v]
      BY <2>1 DEF QueueOne, TieRow
    <2>2. ASSUME \/ \E k \in Key : CreateNotice(w, k)
                 \/ \E n \in Notices : ResendNotice(w, n)
                 \/ LockNotice(w) \/ Post(w)
          PROVE  \A v \in Workers \ {w} : job'[v] = job[v]
      BY <2>2 DEF CreateNotice, ResendNotice, LockNotice, Post
    <2>3. ASSUME SaveDispatch(w) \/ RollupRead(w) \/ RollupSave(w)
          PROVE  \A v \in Workers \ {w} : job'[v] = job[v]
      BY <2>3 DEF SaveDispatch, RollupRead, RollupSave
    <2>4. ASSUME NoteOutcome(w) \/ FindRow(w) \/ SaveRow(w)
          PROVE  \A v \in Workers \ {w} : job'[v] = job[v]
      BY <2>4 DEF NoteOutcome, FindRow, SaveRow
    <2>5. ASSUME ByHand(w) PROVE \A v \in Workers \ {w} : job'[v] = job[v]
      <3>1. PICK x \in Job : job' = [job EXCEPT ![w] = x]
        BY <2>5, ByHandStep DEF HandGoesOn
      <3> QED BY <3>1
    <2> QED BY <1>3, <2>1, <2>2, <2>3, <2>4, <2>5 DEF Backend
  <1>4. ASSUME NEW w \in Workers, NEW g \in Gateways, NEW l \in Logs, CallbackArrives(w, g, l)
        PROVE  \A v \in Workers : JobTrue(v)'
    <2>1. \A v \in Workers \ {w} : job'[v] = job[v]
      BY <1>4 DEF CallbackArrives, TrueInv, TypeOK
    <2>2. job'[w].step = "note" /\ job'[w].notice = log[l].notice /\ job'[w].ok = dlv[g][l].ok
      BY <1>4 DEF CallbackArrives, TrueInv, TypeOK, Idle
    <2>3. Used(l) /\ (dlv[g][l].ok => handed[l] > 0) /\ UNCHANGED <<notice, log, handed>>
      BY <1>4 DEF CallbackArrives, TrueInv, LogInv, CallTrue, Used
    <2>4. JobTrue(w)'
      BY <2>2, <2>3 DEF TrueInv, LogTrue, JobTrue, Left, Written
    <2> QED BY <1>2, <2>1, <2>4
  <1>5. CASE UNCHANGED job
    BY <1>2, <1>5
  <1>6. ASSUME NEW g \in Gateways, NEW l \in Logs,
               Claim(g, l) \/ Hand(g, l) \/ StoreOutcome(g, l) \/ CallbackLost(g, l)
        PROVE  UNCHANGED job
    BY <1>6 DEF Claim, Hand, StoreOutcome, CallbackLost, backend
  <1>7. ASSUME NEW g \in Gateways, Crash(g) \/ Restart(g) \/ Serve(g) PROVE UNCHANGED job
    BY <1>7 DEF Crash, Restart, Serve, backend
  <1>8. ASSUME NEW l \in Logs, ClaimAges(l) PROVE UNCHANGED job
    BY <1>8 DEF ClaimAges, backend
  <1>9. CASE UNCHANGED vars
    BY <1>5, <1>9 DEF vars, backend
  <1>10. ASSUME NEW w \in Workers, Backend(w) PROVE \A v \in Workers : JobTrue(v)'
    BY <1>2, <1>3, <1>10, RequestsTrue
  <1> QED
    BY <1>4, <1>5, <1>6, <1>7, <1>8, <1>9, <1>10 DEF Next, Gateway

\* A row is tied by a sender, or goes back to the notification it was loaded with.
LEMMA RowsTrue ==
    ASSUME NoticeAssumption, TrueInv, NoticesStay, LettersStay, [Next]_vars
    PROVE  RowTrue'
  <1>1. ASSUME NEW i \in Rows, row'[i].notice = row[i].notice
        PROVE  Tied(i)'
    <2>1. row[i].notice # None => row[i].notice \in Notices
      BY DEF TrueInv, TypeOK, Row
    <2>2. row[i].notice # None => Carries(row[i].notice, i)
      BY DEF TrueInv, RowTrue, Tied
    <2> QED BY <1>1, <2>1, <2>2 DEF NoticesStay, Tied, Carries, Written
  <1>2. ASSUME NEW i \in Rows, NEW n, row'[i].notice = n,
               notice'[n].status # "none" /\ notice'[n].key[2] = LetterOf[i]
        PROVE  Tied(i)'
    BY <1>2 DEF Tied, Carries, Written
  <1>3. CASE UNCHANGED row
    BY <1>1, <1>3 DEF RowTrue
  <1>4. ASSUME NEW w \in Workers, NEW u \in Users, NEW i \in Rows, QueueOne(w, u, i) PROVE RowTrue'
    <2>1. PICK m : /\ row' = [row EXCEPT ![i].notice = m]
                   /\ \/ notice'[m].status # "none" /\ notice'[m].key[2] = LetterOf[i]
                      \/ row'[i] = row[i]
      <3> DEFINE k == <<u, LetterOf[i]>>
                 n == row[i].notice
      <3>1. ASSUME n # None, TieRow(w, i, n) PROVE row' = [row EXCEPT ![i].notice = n] /\ row'[i] = row[i]
        BY <3>1 DEF TieRow, TrueInv, TypeOK, Row
      <3>2. ASSUME NEW m \in Notices, notice' = [notice EXCEPT ![m] = [status |-> "new", key |-> k]],
                   TieRow(w, i, m)
            PROVE  row' = [row EXCEPT ![i].notice = m] /\ notice'[m].status # "none"
                                                        /\ notice'[m].key[2] = LetterOf[i]
        BY <3>2 DEF TieRow, TrueInv, TypeOK
      <3>3. ASSUME NEW m \in OpenWith(k), UNCHANGED notice, TieRow(w, i, m)
            PROVE  row' = [row EXCEPT ![i].notice = m] /\ notice'[m].status # "none"
                                                        /\ notice'[m].key[2] = LetterOf[i]
        BY <3>3 DEF TieRow, OpenWith, OpenNotice
      <3> QED BY <1>4, <3>1, <3>2, <3>3 DEF QueueOne
    <2>2. \A x \in Rows : x # i => row'[x] = row[x]
      BY <2>1 DEF TrueInv, TypeOK
    <2>3. row'[i].notice = m
      BY <2>1 DEF TrueInv, TypeOK, Row
    <2> QED BY <1>1, <1>2, <2>1, <2>2, <2>3 DEF RowTrue
  <1>5. ASSUME NEW w \in Workers, SaveDispatch(w) PROVE RowTrue'
    <2> DEFINE j == job[w]
    <2>1. ASSUME NEW s, j.kind = "send", row' = [row EXCEPT ![j.row] = [status |-> s, notice |-> j.notice]]
          PROVE  RowTrue'
      <3>1. j.row \in Rows /\ j.notice \in Notices /\ Carries(j.notice, j.row)
        BY <1>5, <2>1 DEF SaveDispatch, TrueInv, JobInv, JobOK, KnowsRow, KnowsNotice, JobTrue
      <3>2. notice'[j.notice].status # "none" /\ notice'[j.notice].key[2] = LetterOf[j.row]
        BY <3>1 DEF Carries, Written, NoticesStay
      <3>3. /\ row'[j.row].notice = j.notice
            /\ \A x \in Rows : x # j.row => row'[x] = row[x]
        BY <2>1, <3>1 DEF TrueInv, TypeOK
      <3> HIDE DEF j
      <3> QED BY <1>1, <1>2, <3>1, <3>2, <3>3 DEF RowTrue
    <2> QED BY <1>3, <1>5, <2>1 DEF SaveDispatch
  <1>6. ASSUME NEW w \in Workers, SaveRow(w) PROVE RowTrue'
    <2>1. \A i \in Rows : row'[i].notice = row[i].notice
      BY <1>6 DEF SaveRow, TrueInv, TypeOK, Row
    <2> QED BY <1>1, <2>1 DEF RowTrue
  <1>7. ASSUME NEW w \in Workers, ByHand(w) PROVE RowTrue'
    <2> DEFINE j == job[w]
    <2>1. \A i \in Rows : \/ row'[i].notice = row[i].notice
                          \/ j.step = "hand" /\ j.row = i /\ row'[i].notice = j.notice
      BY <1>7, ByHandStep DEF HandWrites, TrueInv
    <2>2. j.step = "hand" /\ j.notice # None => j.notice \in Notices /\ Carries(j.notice, j.row)
      BY DEF TrueInv, TypeOK, Job, JobTrue
    <2>3. j.step = "hand" /\ j.notice # None =>
             notice'[j.notice].status # "none" /\ notice'[j.notice].key[2] = LetterOf[j.row]
      BY <2>2 DEF Carries, Written, NoticesStay
    <2> HIDE DEF j
    <2>4. ASSUME NEW i \in Rows PROVE Tied(i)'
      <3>1. CASE row'[i].notice = None
        BY <3>1 DEF Tied
      <3> QED BY <1>1, <1>2, <2>1, <2>3, <3>1
    <2> QED BY <2>4 DEF RowTrue
  <1>8. ASSUME NEW w \in Workers,
               \/ \E k \in Key : CreateNotice(w, k)
               \/ \E n \in Notices : ResendNotice(w, n)
               \/ LockNotice(w) \/ Post(w) \/ RollupRead(w) \/ RollupSave(w)
               \/ NoteOutcome(w) \/ FindRow(w)
        PROVE  UNCHANGED row
    BY <1>8 DEF CreateNotice, ResendNotice, LockNotice, Post, RollupRead, RollupSave, NoteOutcome, FindRow
  <1>9. ASSUME NEW g \in Gateways, Gateway(g) PROVE UNCHANGED row
    BY <1>9 DEF Gateway, Claim, Hand, StoreOutcome, CallbackLost, CallbackArrives, Crash, Restart,
                Serve, backend
  <1>10. ASSUME NEW l \in Logs, ClaimAges(l) PROVE UNCHANGED row
    BY <1>10 DEF ClaimAges, backend
  <1>11. CASE UNCHANGED vars
    BY <1>3, <1>11 DEF vars, backend
  <1> QED
    BY <1>3, <1>4, <1>5, <1>6, <1>7, <1>8, <1>9, <1>10, <1>11 DEF Next, Backend

\* A journal row is made for a written notification.
LEMMA LogsTrue ==
    ASSUME NoticeAssumption, TrueInv, NoticesStay, [Next]_vars
    PROVE  LogTrue'
  <1>1. /\ \A l \in Logs : Used(l) => Used(l)' /\ log'[l].notice = log[l].notice
        /\ \A l \in Logs : handed'[l] > 0 => Used(l)
    BY LogWriters DEF TrueInv
  <1>2. ASSUME NEW l \in Logs, Used(l) PROVE notice'[log'[l].notice].status # "none"
    BY <1>1, <1>2 DEF TrueInv, LogInv, LogTrue, NoticesStay, Used, Written
  <1>3. ASSUME NEW w \in Workers, Post(w), NEW l \in Logs, ~Used(l), Used(l)'
        PROVE  notice'[log'[l].notice].status # "none"
    <2>1. Written(job[w].notice) /\ UNCHANGED notice
      BY <1>3 DEF Post, TrueInv, JobTrue
    <2>2. PICK m \in Logs :
             log' = [log EXCEPT ![m] = [status |-> "accepted", notice |-> job[w].notice, fresh |-> FALSE]]
      BY <1>3 DEF Post, Used
    <2>3. log'[l].notice = job[w].notice
      BY <1>3, <2>2 DEF Used, TrueInv, TypeOK
    <2> QED BY <2>1, <2>3 DEF Written
  <1>4. ASSUME NEW l \in Logs, ~Used(l), Used(l)' PROVE \E w \in Workers : Post(w)
    <2>1. CASE UNCHANGED log
      BY <1>4, <2>1 DEF Used
    <2>2. ASSUME NEW g \in Gateways, NEW m \in Logs, Claim(g, m) \/ StoreOutcome(g, m) PROVE FALSE
      <3>1. Used(m)
        BY <2>2 DEF Claim, StoreOutcome, TrueInv, LogInv, Used
      <3>2. m # l => log'[l] = log[l]
        BY <2>2 DEF Claim, StoreOutcome, TrueInv, TypeOK
      <3> QED BY <1>4, <3>1, <3>2 DEF Used
    <2>3. ASSUME NEW m \in Logs, ClaimAges(m) PROVE FALSE
      BY <1>4, <2>3 DEF ClaimAges, TrueInv, TypeOK, Log, Used
    <2>4. ASSUME NEW g \in Gateways,
                 \/ Crash(g) \/ Restart(g) \/ Serve(g)
                 \/ \E m \in Logs : \/ Hand(g, m) \/ CallbackLost(g, m)
                                    \/ \E w \in Workers : CallbackArrives(w, g, m)
          PROVE  UNCHANGED log
      BY <2>4 DEF Crash, Restart, Serve, Hand, CallbackLost, CallbackArrives
    <2>5. CASE UNCHANGED vars
      BY <2>1, <2>5 DEF vars, gateway
    <2> QED BY <2>1, <2>2, <2>3, <2>4, <2>5, BackendLeavesGateway DEF Next, Gateway
  <1> QED
    BY <1>1, <1>2, <1>3, <1>4 DEF LogTrue, Used, Written

\* A coroutine says "ok" once the adapter has taken the message.
LEMMA CallsTrue ==
    ASSUME TrueInv, LettersStay, [Next]_vars
    PROVE  CallTrue'
  <1> DEFINE Still(h, m) == \/ dlv'[h][m].step \notin {"handed", "calling"}
                            \/ /\ dlv[h][m].step \in {"handed", "calling"}
                               /\ dlv'[h][m].ok = dlv[h][m].ok
  <1>1. ASSUME \A h \in Gateways, m \in Logs : Still(h, m) PROVE CallTrue'
    BY <1>1 DEF CallTrue, TrueInv, LettersStay
  <1>2. ASSUME UNCHANGED dlv PROVE CallTrue'
    BY <1>1, <1>2
  <1>3. ASSUME NEW w \in Workers, Post(w) PROVE \A h \in Gateways, m \in Logs : Still(h, m)
    BY <1>3 DEF Post, TrueInv, TypeOK, At
  <1>4. ASSUME NEW g \in Gateways, NEW l \in Logs, Claim(g, l) \/ StoreOutcome(g, l)
        PROVE  \A h \in Gateways, m \in Logs : Still(h, m)
    BY <1>4 DEF Claim, StoreOutcome, TrueInv, TypeOK, At, NoDelivery
  <1>5. ASSUME NEW g \in Gateways, NEW l \in Logs,
               CallbackLost(g, l) \/ \E w \in Workers : CallbackArrives(w, g, l)
        PROVE  \A h \in Gateways, m \in Logs : Still(h, m)
    <2>1. PICK n : \/ dlv' = [dlv EXCEPT ![g][l] = NoDelivery]
                   \/ dlv' = [dlv EXCEPT ![g][l] = At("calling", dlv[g][l].ok, n)]
      BY <1>5 DEF CallbackLost, CallbackArrives
    <2>2. dlv[g][l].step = "calling"
      BY <1>5 DEF CallbackLost, CallbackArrives
    <2> QED BY <2>1, <2>2 DEF TrueInv, TypeOK, At, NoDelivery
  <1>6. ASSUME NEW g \in Gateways, Crash(g) \/ Restart(g)
        PROVE  \A h \in Gateways, m \in Logs : Still(h, m)
    <2>1. \A h \in Gateways \ {g}, m \in Logs : dlv'[h][m] = dlv[h][m]
      BY <1>6 DEF Crash, Restart, TrueInv, TypeOK
    <2>2. \A m \in Logs : dlv'[g][m].step \notin {"handed", "calling"}
      BY <1>6 DEF Crash, Restart, TrueInv, TypeOK, At, NoDelivery
    <2> QED BY <2>1, <2>2
  <1>7. ASSUME NEW g \in Gateways, NEW l \in Logs, Hand(g, l) PROVE CallTrue'
    <2>1. PICK ok \in BOOLEAN : /\ dlv' = [dlv EXCEPT ![g][l] = At("handed", ok, 0)]
                                /\ handed' = [handed EXCEPT ![l] = IF ok THEN @ + 1 ELSE @]
      BY <1>7 DEF Hand
    <2>2. /\ dlv'[g][l].ok = ok
          /\ \A h \in Gateways, m \in Logs : h # g \/ m # l => dlv'[h][m] = dlv[h][m]
      BY <2>1 DEF TrueInv, TypeOK, At
    <2>3. ok => handed'[l] > 0
      BY <2>1 DEF TrueInv, TypeOK
    <2> QED BY <2>2, <2>3 DEF CallTrue, TrueInv, LettersStay
  <1>8. ASSUME NEW g \in Gateways, Serve(g) PROVE UNCHANGED dlv
    BY <1>8 DEF Serve
  <1>9. ASSUME NEW l \in Logs, ClaimAges(l) PROVE UNCHANGED dlv
    BY <1>9 DEF ClaimAges
  <1>10. ASSUME UNCHANGED vars PROVE UNCHANGED dlv
    BY <1>10 DEF vars, gateway
  <1> QED
    BY <1>1, <1>2, <1>3, <1>4, <1>5, <1>6, <1>7, <1>8, <1>9, <1>10, BackendLeavesGateway
    DEF Next, Gateway

LEMMA InitTrue == Init => TrueInv
  <1> SUFFICES ASSUME Init PROVE TrueInv
    OBVIOUS
  <1>1. TypeOK /\ JobInv
    BY InitType, NoticeAssumption
  <1>2. LogInv /\ RowTrue /\ (\A w \in Workers : JobTrue(w)) /\ LogTrue /\ CallTrue
    BY DEF Init, LogInv, RowTrue, Tied, JobTrue, LogTrue, CallTrue, Used, NoDelivery, At, Idle
  <1> QED BY <1>1, <1>2 DEF TrueInv

LEMMA TrueStep ==
    ASSUME TrueInv, [Next]_vars
    PROVE  TrueInv'
  <1>1. TypeOK' /\ JobInv' /\ LogInv'
    BY TypeStep, LogStep, NoticeAssumption DEF TrueInv
  <1>2. NoticesStay /\ LettersStay
    BY NoticesStayStep, LogWriters DEF TrueInv
  <1> QED BY <1>1, <1>2, JobsTrue, RowsTrue, LogsTrue, CallsTrue, NoticeAssumption DEF TrueInv

\* A row becomes "done" by a callback, by hand, or by auto_complete.
LEMMA DoneStep ==
    ASSUME NoticeAssumption, TrueInv, [Next]_vars, NEW i \in Rows,
           row[i].status # "done", row'[i].status = "done"
    PROVE  LetterLeft(i) \/ \E w \in Workers : WritesByHand(w, i)
  <1>1. ASSUME row'[i].status = row[i].status PROVE FALSE
    BY <1>1
  <1>2. ASSUME NEW w \in Workers, NEW u \in Users, NEW n \in Rows, QueueOne(w, u, n) PROVE FALSE
    <2>1. PICK m : row' = [row EXCEPT ![n].notice = m]
      BY <1>2 DEF QueueOne, TieRow
    <2> QED BY <1>1, <2>1 DEF TrueInv, TypeOK, Row
  <1>3. ASSUME NEW w \in Workers, SaveDispatch(w) PROVE FALSE
    <2>1. PICK s, m : /\ s # "done"
                      /\ \/ row' = row
                         \/ row' = [row EXCEPT ![job[w].row] = [status |-> s, notice |-> m]]
      BY <1>3 DEF SaveDispatch
    <2> QED BY <1>1, <2>1 DEF TrueInv, TypeOK
  <1>4. ASSUME NEW w \in Workers, SaveRow(w) PROVE LetterLeft(i)
    <2>1. job[w].step = "rowsave" /\ (job[w].ok => LetterLeft(job[w].row))
      BY <1>4 DEF SaveRow, TrueInv, JobTrue
    <2>2. row' = [row EXCEPT ![job[w].row].status = IF job[w].ok THEN "done" ELSE "failed"]
      BY <1>4 DEF SaveRow
    <2>3. i # job[w].row => row'[i] = row[i]
      BY <2>2 DEF TrueInv, TypeOK
    <2>4. i = job[w].row => (row'[i].status = IF job[w].ok THEN "done" ELSE "failed")
      BY <2>2 DEF TrueInv, TypeOK, Row
    <2> QED BY <2>1, <2>3, <2>4
  <1>5. ASSUME NEW w \in Workers, ByHand(w) PROVE WritesByHand(w, i)
    BY <1>5, ByHandStep DEF HandWrites, TrueInv
  <1>6. ASSUME NEW w \in Workers,
               \/ \E k \in Key : CreateNotice(w, k)
               \/ \E n \in Notices : ResendNotice(w, n)
               \/ LockNotice(w) \/ Post(w) \/ RollupRead(w) \/ RollupSave(w)
               \/ NoteOutcome(w) \/ FindRow(w)
        PROVE  UNCHANGED row
    BY <1>6 DEF CreateNotice, ResendNotice, LockNotice, Post, RollupRead, RollupSave, NoteOutcome, FindRow
  <1>7. ASSUME NEW g \in Gateways, Gateway(g) PROVE UNCHANGED row
    BY <1>7 DEF Gateway, Claim, Hand, StoreOutcome, CallbackLost, CallbackArrives, Crash, Restart,
                Serve, backend
  <1>8. ASSUME NEW l \in Logs, ClaimAges(l) PROVE UNCHANGED row
    BY <1>8 DEF ClaimAges, backend
  <1>9. ASSUME UNCHANGED vars PROVE UNCHANGED row
    BY <1>9 DEF vars, backend
  <1> QED
    BY <1>1, <1>2, <1>3, <1>4, <1>5, <1>6, <1>7, <1>8, <1>9 DEF Next, Backend

(***************************************************************************)
(* Whatever is sent, lost, delivered twice, crashes or is written by hand  *)
(* meanwhile: unless a person or auto_complete writes it so, a row becomes *)
(* "done" only when a message with its letter has left, though the         *)
(* callback finds the row in one transaction and writes it in another, and *)
(* the row may be tied to a later or an earlier notification by then.      *)
(***************************************************************************)
THEOREM DoneRowsAreTrue == Spec => DoneRowWasDelivered
  <1>1. TrueInv /\ [Next]_vars => TrueInv'
    BY TrueStep
  <1>2. TrueInv /\ [Next]_vars =>
           [\A i \in Rows : row[i].status # "done" /\ row'[i].status = "done" =>
               LetterLeft(i) \/ \E w \in Workers : WritesByHand(w, i)]_vars
    BY DoneStep, NoticeAssumption
  <1> QED
    BY InitTrue, <1>1, <1>2, PTL DEF Spec, DoneRowWasDelivered

-----------------------------------------------------------------------------
(* A party is counted from its rows, as long as one worker serves: a second  *)
(* one may count between the reading and the saving of the first.            *)

Counted(p) == RowStatuses(p) # {} => CountsAs(p, party[p])

\* The worker has written a row, or begun to move them all, and is about to count the party.
CountStep == {"roll", "rollsave", "close", "moverow"}
Counting(w, p) == job[w].step \in CountStep /\ PartyOf[job[w].row] = p

\* A request that will count compares with the party as it is; what it saves counts the
\* rows as they are; a move has passed the rows before the one it is at.
SeenIsTrue(w) ==
    LET j == job[w] IN
    /\ \/ j.step \in {"lock", "rowsave", "roll", "hand", "close"}
       \/ j.step \in {"post", "save"} /\ j.kind = "send"
       => j.seen = party[PartyOf[j.row]]
    /\ j.step = "rollsave" => CountsAs(PartyOf[j.row], j.seen)
    /\ j.step = "moverow" =>
          \A x \in RowsOfParty(PartyOf[j.row]) : x < j.row => row[x].status = j.seen

Ledger == /\ \A p \in Parties : Counted(p) \/ \E w \in Workers : Counting(w, p)
          /\ \A w \in Workers : SeenIsTrue(w)

CountInv == TypeOK /\ JobInv /\ LogInv /\ Ledger

\* The verdict of rows that are all alike, and of rows that are all closed.
LEMMA VerdictOfOne == \A x \in ItemStatus : Verdict({x}) = x
  <1> SUFFICES ASSUME NEW x \in ItemStatus PROVE Verdict({x}) = x
    OBVIOUS
  <1>1. x \in {"assigned", "running", "done", "failed", "cancelled"}
    BY DEF ItemStatus
  <1>2. CASE x = "assigned"
    BY <1>2 DEF Verdict, OpenItem
  <1>3. CASE x = "running"
    BY <1>3 DEF Verdict, OpenItem
  <1>4. CASE x = "done"
    BY <1>4 DEF Verdict, OpenItem
  <1>5. CASE x = "failed"
    BY <1>5 DEF Verdict, OpenItem
  <1>6. CASE x = "cancelled"
    BY <1>6 DEF Verdict, OpenItem
  <1> QED
    BY <1>1, <1>2, <1>3, <1>4, <1>5, <1>6

LEMMA VerdictOfClosed ==
    ASSUME NEW S, S \subseteq ClosedItem, S # {}, S # {"cancelled"}
    PROVE  Verdict(S) = "done"
  <1>1. S \cap OpenItem = {} /\ "running" \notin S /\ "failed" \notin S /\ S # {"assigned"}
    BY DEF ClosedItem, OpenItem
  <1> QED
    BY <1>1 DEF Verdict

LEMMA SameRowsSameStatuses ==
    ASSUME NEW p, \A i \in Rows : PartyOf[i] = p => row'[i].status = row[i].status
    PROVE  RowStatuses(p)' = RowStatuses(p)
  BY DEF RowStatuses, RowsOfParty

\* A step that writes neither a status of a row nor a party, of the only worker.
LEMMA OnlyWorkerReads ==
    ASSUME NoticeAssumption, CountInv, NEW w \in Workers, \A v \in Workers : v = w,
           ~ \E p \in Parties : Counting(w, p),
           UNCHANGED party, \A i \in Rows : row'[i].status = row[i].status,
           SeenIsTrue(w)'
    PROVE  Ledger'
  <1>1. \A p \in Parties : RowStatuses(p)' = RowStatuses(p)
    BY SameRowsSameStatuses
  <1>2. \A p \in Parties : Counted(p)'
    BY <1>1 DEF CountInv, Ledger, Counted, CountsAs
  <1> QED
    BY <1>2 DEF Ledger

LEMMA OnlyWorkerCounts ==
    ASSUME NoticeAssumption, CountInv, NEW w \in Workers, \A v \in Workers : v = w, Backend(w)
    PROVE  Ledger'
  <1> DEFINE j == job[w]
             y == job'[w]
  <1>0. JobOK(j) /\ SeenIsTrue(w)
    BY DEF CountInv, JobInv, Ledger
  <1>1. ASSUME j.step \notin CountStep PROVE ~ \E p \in Parties : Counting(w, p)
    BY <1>1 DEF Counting
  <1>2. ASSUME NEW u \in Users, NEW i \in Rows, QueueOne(w, u, i) PROVE Ledger'
    <2>1. PICK m : TieRow(w, i, m)
      BY <1>2 DEF QueueOne
    <2>2. j.step = "idle" /\ UNCHANGED party
      BY <1>2 DEF QueueOne
    <2>3. \A x \in Rows : row'[x].status = row[x].status
      BY <2>1 DEF TieRow, CountInv, TypeOK, Row
    <2> DEFINE x == [Idle EXCEPT !.step = "lock", !.row = i, !.notice = m, !.seen = party[PartyOf[i]]]
    <2>4. x.step = "lock" /\ x.row = i /\ x.seen = party[PartyOf[i]] /\ Idle.step = "idle"
      BY DEF Idle
    <2>5. y = x \/ y = Idle
      BY <2>1 DEF TieRow, CountInv, TypeOK
    <2> HIDE DEF x
    <2>6. SeenIsTrue(w)'
      BY <2>2, <2>4, <2>5 DEF SeenIsTrue
    <2> QED BY <1>1, <2>2, <2>3, <2>6, OnlyWorkerReads DEF CountStep
  <1>3. ASSUME NEW k \in Key, CreateNotice(w, k) PROVE Ledger'
    <2>1. UNCHANGED <<party, row>> /\ j.step = "idle" /\ y.step = "post" /\ y.kind = "create"
      BY <1>3 DEF CreateNotice, CountInv, TypeOK, Idle
    <2>2. SeenIsTrue(w)'
      BY <2>1 DEF SeenIsTrue
    <2> QED BY <1>1, <2>1, <2>2, OnlyWorkerReads DEF CountStep
  <1>4. ASSUME NEW n \in Notices, ResendNotice(w, n) PROVE Ledger'
    <2>1. UNCHANGED <<party, row>> /\ j.step = "idle" /\ y.step = "post" /\ y.kind = "resend"
      BY <1>4 DEF ResendNotice, CountInv, TypeOK, Idle
    <2>2. SeenIsTrue(w)'
      BY <2>1 DEF SeenIsTrue
    <2> QED BY <1>1, <2>1, <2>2, OnlyWorkerReads DEF CountStep
  <1>5. CASE LockNotice(w)
    <2>1. UNCHANGED <<party, row>> /\ j.step = "lock"
      BY <1>5 DEF LockNotice
    <2>2. \/ y.step = "idle"
          \/ y.step = "post" /\ y.row = j.row /\ y.seen = j.seen
      BY <1>5 DEF LockNotice, CountInv, TypeOK, Job, Idle
    <2>3. SeenIsTrue(w)'
      BY <1>0, <2>1, <2>2 DEF SeenIsTrue
    <2> QED BY <1>1, <2>1, <2>3, OnlyWorkerReads DEF CountStep
  <1>6. CASE Post(w)
    <2>1. UNCHANGED <<party, row>> /\ j.step = "post"
      BY <1>6 DEF Post
    <2>2. y.step = "save" /\ y.row = j.row /\ y.seen = j.seen /\ y.kind = j.kind
      <3>1. ASSUME NEW b \in BOOLEAN, job' = [job EXCEPT ![w].step = "save", ![w].ok = b]
            PROVE  y.step = "save" /\ y.row = j.row /\ y.seen = j.seen /\ y.kind = j.kind
        BY <3>1 DEF CountInv, TypeOK, Job
      <3> QED BY <1>6, <3>1 DEF Post
    <2>3. SeenIsTrue(w)'
      BY <1>0, <2>1, <2>2 DEF SeenIsTrue
    <2> QED BY <1>1, <2>1, <2>3, OnlyWorkerReads DEF CountStep
  <1>7. ASSUME NEW i \in Rows, i = j.row, j.seen = party[PartyOf[i]], UNCHANGED party,
               j.step \notin CountStep, \A x \in Rows : x # i => row'[x] = row[x],
               NEW t \in {"roll", "close"}, job' = [job EXCEPT ![w].step = t]
        PROVE  Ledger'
    <2>1. y.step = t /\ y.row = i /\ y.seen = j.seen
      BY <1>7 DEF CountInv, TypeOK, Job
    <2>2. \A p \in Parties : p # PartyOf[i] => RowStatuses(p)' = RowStatuses(p)
      BY <1>7, SameRowsSameStatuses
    <2>3. \A p \in Parties : Counted(p)' \/ Counting(w, p)'
      BY <1>7, <2>1, <2>2 DEF CountInv, Ledger, Counted, CountsAs, Counting, CountStep
    <2>4. SeenIsTrue(w)'
      BY <1>7, <2>1 DEF SeenIsTrue
    <2> QED BY <2>3, <2>4 DEF Ledger
  <1>8. CASE SaveDispatch(w)
    <2>1. j.step = "save" /\ UNCHANGED party
      BY <1>8 DEF SaveDispatch
    <2>2. CASE UNCHANGED row /\ job' = [job EXCEPT ![w] = Idle]
      <3>1. y.step = "idle"
        BY <2>2 DEF CountInv, TypeOK, Idle
      <3>2. SeenIsTrue(w)'
        BY <3>1 DEF SeenIsTrue
      <3> QED BY <1>1, <2>1, <2>2, <3>2, OnlyWorkerReads DEF CountStep
    <2>3. ASSUME j.kind = "send", job' = [job EXCEPT ![w].step = "roll"],
                 row' = [row EXCEPT ![j.row] = [status |-> IF j.ok THEN "running" ELSE "failed",
                                                notice |-> j.notice]]
          PROVE  Ledger'
      <3>1. PICK i \in Rows : i = j.row
        BY <1>0, <2>1, <2>3 DEF JobOK, KnowsRow
      <3>2. j.seen = party[PartyOf[i]]
        BY <1>0, <2>1, <2>3, <3>1 DEF SeenIsTrue
      <3>3. \A x \in Rows : x # i => row'[x] = row[x]
        BY <2>3, <3>1 DEF CountInv, TypeOK
      <3> QED BY <1>7, <2>1, <2>3, <3>1, <3>2, <3>3 DEF CountStep
    <2> QED BY <1>8, <2>2, <2>3 DEF SaveDispatch
  <1>9. CASE SaveRow(w)
    <2>1. j.step = "rowsave" /\ UNCHANGED party /\ job' = [job EXCEPT ![w].step = "roll"]
      BY <1>9 DEF SaveRow
    <2>2. PICK i \in Rows : i = j.row
      BY <1>0, <2>1 DEF JobOK, KnowsRow
    <2>3. j.seen = party[PartyOf[i]]
      BY <1>0, <2>1, <2>2 DEF SeenIsTrue
    <2>4. \A x \in Rows : x # i => row'[x] = row[x]
      BY <1>9, <2>2 DEF SaveRow, CountInv, TypeOK
    <2> QED BY <1>7, <2>1, <2>2, <2>3, <2>4 DEF CountStep
  <1>10. CASE RollupRead(w)
    <2> DEFINE v == Verdict(RowStatuses(PartyOf[j.row]))
               x == [j EXCEPT !.step = "rollsave", !.seen = v]
    <2>1. j.step = "roll" /\ UNCHANGED <<party, row>>
      BY <1>10 DEF RollupRead
    <2>2. PICK i \in Rows : i = j.row /\ PartyOf[i] \in Parties
      BY <1>0, <2>1 DEF JobOK, KnowsRow, NoticeAssumption
    <2>3. j.seen = party[PartyOf[i]]
      BY <1>0, <2>1, <2>2 DEF SeenIsTrue
    <2>4. \A p \in Parties : RowStatuses(p)' = RowStatuses(p)
      BY <2>1, SameRowsSameStatuses
    <2>5. CASE j.seen \in {v, "paused"} /\ job' = [job EXCEPT ![w] = Idle]
      <3>1. y.step = "idle"
        BY <2>5 DEF CountInv, TypeOK, Idle
      <3>2. ASSUME NEW p \in Parties PROVE Counted(p)
        <4>1. CASE p = PartyOf[i]
          BY <2>2, <2>3, <2>5, <4>1 DEF Counted, CountsAs
        <4>2. CASE p # PartyOf[i]
          BY <2>2, <4>2 DEF CountInv, Ledger, Counting
        <4> QED BY <4>1, <4>2
      <3>3. \A p \in Parties : Counted(p)'
        BY <2>1, <2>4, <3>2 DEF Counted, CountsAs
      <3>4. SeenIsTrue(w)'
        BY <3>1 DEF SeenIsTrue
      <3> QED BY <3>3, <3>4 DEF Ledger
    <2>6. CASE job' = [job EXCEPT ![w] = x]
      <3>1. PICK q : q = v
        OBVIOUS
      <3>2. y.step = "rollsave" /\ y.row = i /\ y.seen = q
        BY <2>2, <2>6, <3>1 DEF CountInv, TypeOK, Job
      <3>3. \A p \in Parties : Counted(p)' \/ Counting(w, p)'
        BY <2>1, <2>2, <2>4, <3>2 DEF CountInv, Ledger, Counted, CountsAs, Counting, CountStep
      <3>4. CountsAs(PartyOf[i], q)'
        BY <2>2, <2>4, <3>1 DEF CountsAs
      <3>5. SeenIsTrue(w)'
        BY <3>2, <3>4 DEF SeenIsTrue, CountsAs
      <3> QED BY <3>3, <3>5 DEF Ledger
    <2> QED BY <1>10, <2>5, <2>6 DEF RollupRead
  <1>11. CASE RollupSave(w)
    <2>1. j.step = "rollsave" /\ UNCHANGED row
      BY <1>11 DEF RollupSave
    <2>2. PICK i \in Rows : i = j.row /\ PartyOf[i] \in Parties
      BY <1>0, <2>1 DEF JobOK, KnowsRow, NoticeAssumption
    <2>3. CountsAs(PartyOf[i], j.seen)
      BY <1>0, <2>1, <2>2 DEF SeenIsTrue
    <2>4. /\ party'[PartyOf[i]] = j.seen
          /\ \A p \in Parties : p # PartyOf[i] => party'[p] = party[p]
      BY <1>11, <2>2 DEF RollupSave, CountInv, TypeOK
    <2>5. y.step = "idle"
      BY <1>11 DEF RollupSave, CountInv, TypeOK, Idle
    <2>6. \A p \in Parties : RowStatuses(p)' = RowStatuses(p)
      BY <2>1, SameRowsSameStatuses
    <2>7. \A p \in Parties : Counted(p)'
      BY <2>2, <2>3, <2>4, <2>6 DEF CountInv, Ledger, Counted, CountsAs, Counting
    <2>8. SeenIsTrue(w)'
      BY <2>5 DEF SeenIsTrue
    <2> QED BY <2>7, <2>8 DEF Ledger
  <1>12. CASE NoteOutcome(w)
    <2>1. UNCHANGED <<party, row>> /\ j.step = "note" /\ y.step = "find"
      BY <1>12 DEF NoteOutcome, CountInv, TypeOK, Job
    <2>2. SeenIsTrue(w)'
      BY <2>1 DEF SeenIsTrue
    <2> QED BY <1>1, <2>1, <2>2, OnlyWorkerReads DEF CountStep
  <1>13. CASE FindRow(w)
    <2>1. UNCHANGED <<party, row>> /\ j.step = "find"
      BY <1>13 DEF FindRow
    <2>2. ASSUME NEW i,
                 job' = [job EXCEPT ![w].step = "rowsave", ![w].row = i, ![w].seen = party[PartyOf[i]]]
          PROVE  SeenIsTrue(w)'
      <3>1. y.step = "rowsave" /\ y.row = i /\ y.seen = party[PartyOf[i]]
        BY <2>2 DEF CountInv, TypeOK, Job
      <3> QED BY <2>1, <3>1 DEF SeenIsTrue
    <2>3. CASE job' = [job EXCEPT ![w] = Idle]
      <3>1. y.step = "idle"
        BY <2>3 DEF CountInv, TypeOK, Idle
      <3>2. SeenIsTrue(w)'
        BY <3>1 DEF SeenIsTrue
      <3> QED BY <1>1, <2>1, <3>2, OnlyWorkerReads DEF CountStep
    <2> QED BY <1>1, <1>13, <2>1, <2>2, <2>3, OnlyWorkerReads DEF FindRow, CountStep
  <1>14. ASSUME NEW i \in Rows, NEW kind \in {"record", "stop"}, TakeRow(w, kind, i) PROVE Ledger'
    <2>1. UNCHANGED <<party, row>> /\ j.step = "idle"
      BY <1>14 DEF TakeRow
    <2>2. y.step \in {"hand", "close"} /\ y.row = i /\ y.seen = party[PartyOf[i]]
      BY <1>14 DEF TakeRow, CountInv, TypeOK, Idle
    <2>3. SeenIsTrue(w)'
      BY <2>1, <2>2 DEF SeenIsTrue
    <2> QED BY <1>1, <2>1, <2>3, OnlyWorkerReads DEF CountStep
  <1>15. CASE SaveByHand(w)
    <2>1. j.step = "hand" /\ UNCHANGED party
      BY <1>15 DEF SaveByHand
    <2>2. PICK i \in Rows : i = j.row
      BY <1>0, <2>1 DEF JobOK, KnowsRow
    <2>3. j.seen = party[PartyOf[i]]
      BY <1>0, <2>1, <2>2 DEF SeenIsTrue
    <2>4. \A x \in Rows : x # i => row'[x] = row[x]
      BY <1>15, <2>2 DEF SaveByHand, CountInv, TypeOK
    <2>5. PICK t \in {"roll", "close"} : job' = [job EXCEPT ![w].step = t]
      BY <1>15 DEF SaveByHand
    <2> QED BY <1>7, <2>1, <2>2, <2>3, <2>4, <2>5 DEF CountStep
  <1>16. CASE StopParty(w)
    <2>1. j.step = "close" /\ UNCHANGED <<party, row>>
      BY <1>16 DEF StopParty
    <2>2. PICK i \in Rows : i = j.row /\ PartyOf[i] \in Parties
      BY <1>0, <2>1 DEF JobOK, KnowsRow, NoticeAssumption
    <2> DEFINE S == RowStatuses(PartyOf[i])
    <2>3. \A p \in Parties : RowStatuses(p)' = RowStatuses(p)
      BY <2>1, SameRowsSameStatuses
    <2>4. /\ y.row = i
          /\ \/ y.step = "roll" /\ y.seen = j.seen
             \/ y.step = "rollsave" /\ y.seen = "done" /\ S \subseteq ClosedItem
      BY <1>16, <2>2 DEF StopParty, CountInv, TypeOK, Job
    <2>5. S # {}
      BY <2>2 DEF RowStatuses, RowsOfParty
    <2> HIDE DEF S
    <2>6. S \subseteq ClosedItem => Verdict(S) = "done" \/ S = {"cancelled"}
      BY <2>5, VerdictOfClosed
    <2>7. S \subseteq ClosedItem => CountsAs(PartyOf[i], "done")'
      BY <2>2, <2>3, <2>6 DEF CountsAs, S
    <2>8. j.seen = party[PartyOf[i]]
      BY <1>0, <2>1, <2>2 DEF SeenIsTrue
    <2>9. SeenIsTrue(w)'
      BY <2>1, <2>4, <2>7, <2>8 DEF SeenIsTrue, CountsAs
    <2>10. \A p \in Parties : Counted(p)' \/ Counting(w, p)'
      BY <2>1, <2>2, <2>3, <2>4 DEF CountInv, Ledger, Counted, CountsAs, Counting, CountStep
    <2> QED BY <2>9, <2>10 DEF Ledger
  <1>17. ASSUME NEW i \in Rows, NEW s \in PartyStatus, MoveParty(w, i, s) PROVE Ledger'
    <2>1. UNCHANGED <<party, row>> /\ j.step = "idle" /\ \A x \in RowsOfParty(PartyOf[i]) : i <= x
      BY <1>17 DEF MoveParty
    <2>2. y.row = i /\ (y.step = "moverow" \/ (y.step = "rollsave" /\ y.seen = "paused"))
      BY <1>17 DEF MoveParty, CountInv, TypeOK, Idle
    <2>3. \A x \in RowsOfParty(PartyOf[i]) : ~ (x < i)
      BY <2>1 DEF RowsOfParty, NoticeAssumption
    <2>4. SeenIsTrue(w)'
      BY <2>2, <2>3 DEF SeenIsTrue, RowsOfParty, CountsAs
    <2> QED BY <1>1, <2>1, <2>4, OnlyWorkerReads DEF CountStep
  <1>18. CASE MoveRow(w)
    <2>1. j.step = "moverow" /\ UNCHANGED party
      BY <1>18 DEF MoveRow
    <2>2. PICK i \in Rows : i = j.row /\ PartyOf[i] \in Parties /\ j.seen \in ItemStatus
      BY <1>0, <2>1 DEF JobOK, KnowsRow, NoticeAssumption
    <2> DEFINE P == RowsOfParty(PartyOf[i])
               Ahead == {x \in P : i < x}
    <2>3. /\ row'[i].status = j.seen
          /\ \A x \in Rows : x # i => row'[x] = row[x]
      BY <1>18, <2>2 DEF MoveRow, CountInv, TypeOK, Row
    <2>4. \A x \in P : x \in Rows /\ (x < i => row[x].status = j.seen)
      BY <1>0, <2>1, <2>2 DEF SeenIsTrue, RowsOfParty
    <2>5. \A x \in P : x <= i => row'[x].status = j.seen
      <3>0. i \in Nat /\ \A x \in P : x \in Nat
        BY <2>2, <2>4 DEF NoticeAssumption
      <3>1. \A x \in P : x <= i => x < i \/ x = i
        <4> HIDE DEF P
        <4> QED BY <3>0
      <3>2. ASSUME NEW x \in P, x <= i PROVE row'[x].status = j.seen
        <4>1. CASE x = i
          BY <2>3, <4>1
        <4>2. CASE x < i /\ x # i
          BY <2>3, <2>4, <4>2
        <4> QED BY <3>1, <3>2, <4>1, <4>2
      <3> HIDE DEF P
      <3> QED BY <3>2
    <2>6. \A p \in Parties : p # PartyOf[i] => RowStatuses(p)' = RowStatuses(p)
      BY <2>2, <2>3, SameRowsSameStatuses
    <2>7. ASSUME y.step \in CountStep, y.row \in P
          PROVE  \A p \in Parties : Counted(p)' \/ Counting(w, p)'
      <3>1. PartyOf[y.row] = PartyOf[i]
        BY <2>7 DEF RowsOfParty
      <3> QED BY <2>1, <2>2, <2>6, <2>7, <3>1 DEF CountInv, Ledger, Counted, CountsAs, Counting
    <2>8. CASE Ahead = {} /\ job' = [job EXCEPT ![w].step = "rollsave"]
      <3>1. y.step = "rollsave" /\ y.row = i /\ y.seen = j.seen
        BY <2>2, <2>8 DEF CountInv, TypeOK, Job
      <3>2. i \in P /\ \A x \in P : row'[x].status = j.seen
        BY <2>2, <2>4, <2>5, <2>8 DEF RowsOfParty, NoticeAssumption
      <3>3. RowStatuses(PartyOf[i])' = {j.seen}
        BY <3>2 DEF RowStatuses, RowsOfParty
      <3>4. PICK q \in ItemStatus : q = j.seen
        BY <2>2
      <3>5. CountsAs(PartyOf[i], q)'
        BY <3>3, <3>4, VerdictOfOne DEF CountsAs
      <3>6. SeenIsTrue(w)'
        BY <3>1, <3>4, <3>5 DEF SeenIsTrue, CountsAs
      <3> QED BY <2>7, <3>1, <3>2, <3>6 DEF Ledger, CountStep
    <2>9. ASSUME NEW n \in Ahead, \A x \in Ahead : n <= x, job' = [job EXCEPT ![w].row = n]
          PROVE  Ledger'
      <3>1. y.step = "moverow" /\ y.row = n /\ y.seen = j.seen
        BY <2>1, <2>9 DEF CountInv, TypeOK, Job
      <3>2. n \in P /\ PartyOf[n] = PartyOf[i] /\ i < n
        BY <2>9 DEF RowsOfParty
      <3>3. \A x \in P : x < n => row'[x].status = j.seen
        BY <2>2, <2>4, <2>5, <2>9, <3>2 DEF NoticeAssumption
      <3>4. SeenIsTrue(w)'
        BY <3>1, <3>2, <3>3 DEF SeenIsTrue, RowsOfParty
      <3> QED BY <2>7, <3>1, <3>2, <3>4 DEF Ledger, CountStep
    <2> QED BY <1>18, <2>2, <2>8, <2>9 DEF MoveRow
  <1>19. ASSUME NEW i \in Rows, AutoComplete(w, i) PROVE Ledger'
    <2>1. j.step = "idle" /\ UNCHANGED party /\ party[PartyOf[i]] = "assigned"
      BY <1>19 DEF AutoComplete
    <2>2. y.step = "roll" /\ y.row = i /\ y.seen = "assigned"
      BY <1>19 DEF AutoComplete, CountInv, TypeOK, Idle
    <2>3. \A x \in Rows : PartyOf[x] # PartyOf[i] => row'[x] = row[x]
      BY <1>19 DEF AutoComplete
    <2>4. \A p \in Parties : p # PartyOf[i] => RowStatuses(p)' = RowStatuses(p)
      BY <2>3, SameRowsSameStatuses
    <2>5. \A p \in Parties : Counted(p)' \/ Counting(w, p)'
      BY <2>1, <2>2, <2>4 DEF CountInv, Ledger, Counted, CountsAs, Counting, CountStep
    <2>6. SeenIsTrue(w)'
      BY <2>1, <2>2 DEF SeenIsTrue
    <2> QED BY <2>5, <2>6 DEF Ledger
  <1> QED
    BY <1>2, <1>3, <1>4, <1>5, <1>6, <1>8, <1>9, <1>10, <1>11, <1>12, <1>13, <1>14, <1>15, <1>16,
       <1>17, <1>18, <1>19 DEF Backend, ByHand

(***************************************************************************)
(* With one worker the party is counted from its rows whenever no request  *)
(* is in progress, for every order of sending, repeating, callbacks, moves,*)
(* stops and results by hand, and although a callback finds its row one    *)
(* transaction before it writes it and a move writes the rows one by one.  *)
(***************************************************************************)
THEOREM PartiesAreCounted ==
    ASSUME \A v, w \in Workers : v = w
    PROVE  Spec => []PartyCountedFromRows
  <1>1. Init => CountInv
    <2> SUFFICES ASSUME Init PROVE CountInv
      OBVIOUS
    <2>1. TypeOK /\ JobInv
      BY InitType, NoticeAssumption
    <2>2. LogInv /\ \A w \in Workers : SeenIsTrue(w)
      BY DEF Init, LogInv, SeenIsTrue, NoDelivery, At, Idle
    <2>3. ASSUME NEW p \in Parties PROVE Counted(p)
      <3>1. RowStatuses(p) # {} => RowStatuses(p) = {"assigned"}
        BY DEF Init, RowStatuses, RowsOfParty
      <3>2. Verdict({"assigned"}) = "assigned"
        BY DEF Verdict, OpenItem
      <3> QED BY <3>1, <3>2 DEF Init, Counted, CountsAs
    <2> QED BY <2>1, <2>2, <2>3 DEF CountInv, Ledger
  <1>2. CountInv /\ [Next]_vars => CountInv'
    <2> SUFFICES ASSUME CountInv, [Next]_vars PROVE CountInv'
      OBVIOUS
    <2>1. TypeOK' /\ JobInv' /\ LogInv'
      BY TypeStep, LogStep, NoticeAssumption DEF CountInv
    <2>2. ASSUME UNCHANGED <<row, party, job>> PROVE Ledger'
      <3>1. \A p : RowStatuses(p)' = RowStatuses(p)
        BY <2>2 DEF RowStatuses, RowsOfParty
      <3>2. \A w \in Workers : SeenIsTrue(w)'
        BY <2>2, <3>1 DEF CountInv, Ledger, SeenIsTrue, CountsAs
      <3>3. \A p \in Parties : Counted(p)' \/ \E w \in Workers : Counting(w, p)'
        BY <2>2, <3>1 DEF CountInv, Ledger, Counted, CountsAs, Counting
      <3> QED BY <3>2, <3>3 DEF Ledger
    <2>3. ASSUME NEW w \in Workers, NEW g \in Gateways, NEW l \in Logs, CallbackArrives(w, g, l)
          PROVE  Ledger'
      <3>1. /\ UNCHANGED <<row, party>> /\ job[w].step = "idle"
            /\ job'[w].step = "note" /\ job'[w].kind = "callback"
        BY <2>3 DEF CallbackArrives, CountInv, TypeOK, Idle
      <3>2. SeenIsTrue(w)' /\ ~ \E p \in Parties : Counting(w, p)
        BY <3>1 DEF SeenIsTrue, Counting, CountStep
      <3> QED BY <3>1, <3>2, OnlyWorkerReads, NoticeAssumption
    <2>4. ASSUME NEW g \in Gateways, NEW l \in Logs,
                 Claim(g, l) \/ Hand(g, l) \/ StoreOutcome(g, l) \/ CallbackLost(g, l)
          PROVE  Ledger'
      BY <2>2, <2>4 DEF Claim, Hand, StoreOutcome, CallbackLost, backend
    <2>5. ASSUME NEW g \in Gateways, Crash(g) \/ Restart(g) \/ Serve(g) PROVE Ledger'
      BY <2>2, <2>5 DEF Crash, Restart, Serve, backend
    <2>6. ASSUME NEW l \in Logs, ClaimAges(l) PROVE Ledger'
      BY <2>2, <2>6 DEF ClaimAges, backend
    <2>7. ASSUME UNCHANGED vars PROVE Ledger'
      BY <2>2, <2>7 DEF vars, backend
    <2>8. ASSUME NEW w \in Workers, Backend(w) PROVE Ledger'
      BY <2>8, OnlyWorkerCounts, NoticeAssumption
    <2> QED BY <2>1, <2>3, <2>4, <2>5, <2>6, <2>7, <2>8 DEF CountInv, Next, Gateway
  <1>3. CountInv => PartyCountedFromRows
    BY DEF CountInv, Ledger, PartyCountedFromRows, Counted, Counting, CountStep
  <1> QED
    BY <1>1, <1>2, <1>3, PTL DEF Spec

=============================================================================
