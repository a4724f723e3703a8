------------------------ MODULE NoticePromiseProofs ------------------------
(***************************************************************************)
(* NoticeDelivery keeps the promise of NoticeLifecycle, for every number   *)
(* of rows, notifications, workers and gateway processes, when letters     *)
(* leave through queue_notices and no adapter outlasts a claim; rows may   *)
(* be written by hand meanwhile.                                           *)
(***************************************************************************)
EXTENDS NoticeDeliveryProofs

\* The journal has the outcome ok of notification n in row l.
Shows(l, n, ok) == /\ log[l].status = IF ok THEN "delivered" ELSE "failed"
                   /\ log[l].notice = n

\* What a callback says, and what the record shows as sent, is in the journal; a
\* dispatch that heard "accepted" has its letter there.
ReportInv ==
    /\ \A w \in Workers : job[w].step = "note" =>
          \E l \in Logs : Shows(l, job[w].notice, job[w].ok)
    /\ \A w \in Workers : job[w].step = "save" /\ job[w].ok =>
          \E l \in Logs : Used(l) /\ log[l].notice = job[w].notice
    /\ \A n \in Notices : notice[n].status = "sent" => \E l \in Logs : Shows(l, n, TRUE)

PromiseInv == SendInv /\ ClaimInv /\ TrueInv /\ ReportInv

-----------------------------------------------------------------------------
(* The invariant *)

\* What the journal shows, it goes on showing.
LEMMA ShownStays ==
    ASSUME ClaimInv, TrueInv, [Next]_vars, NEW l \in Logs
    PROVE  /\ Used(l) => log'[l].status # "none" /\ log'[l].notice = log[l].notice
           /\ log[l].status \in Finished => /\ log'[l].status = log[l].status
                                            /\ log'[l].notice = log[l].notice
  <1>1. Used(l) => log'[l].status # "none" /\ log'[l].notice = log[l].notice
    BY LogWriters DEF TrueInv, Used
  <1>2. log[l].status \in Finished => Used(l) /\ log'[l].status = log[l].status
    BY RecordedStep DEF Finished, Used
  <1> QED BY <1>1, <1>2

\* A worker that has just come to neither a callback nor a save claims nothing new.
LEMMA ReportKept ==
    ASSUME ClaimInv, TrueInv, ReportInv, [Next]_vars,
           \A w \in Workers : job'[w] = job[w] \/ job'[w].step \notin {"note", "save"},
           \A n \in Notices : notice'[n].status = "sent" =>
              notice[n].status = "sent" \/ \E l \in Logs : Shows(l, n, TRUE)
    PROVE  ReportInv'
  <1>1. ASSUME NEW w \in Workers, job'[w].step = "note"
        PROVE  \E l \in Logs : /\ log'[l].status = IF job'[w].ok THEN "delivered" ELSE "failed"
                               /\ log'[l].notice = job'[w].notice
    <2>1. PICK l \in Logs : Shows(l, job[w].notice, job[w].ok)
      BY <1>1 DEF ReportInv
    <2> QED BY <1>1, <2>1, ShownStays DEF Shows, Finished
  <1>2. ASSUME NEW w \in Workers, job'[w].step = "save", job'[w].ok
        PROVE  \E l \in Logs : log'[l].status # "none" /\ log'[l].notice = job'[w].notice
    BY <1>2, ShownStays DEF ReportInv, Used
  <1>3. ASSUME NEW n \in Notices, notice'[n].status = "sent"
        PROVE  \E l \in Logs : log'[l].status = "delivered" /\ log'[l].notice = n
    <2>1. PICK l \in Logs : Shows(l, n, TRUE)
      BY <1>3 DEF ReportInv
    <2> QED BY <2>1, ShownStays DEF Shows, Finished
  <1> QED BY <1>1, <1>2, <1>3 DEF ReportInv, Shows, Used

\* After a step of its own, other than a dispatch, a worker is at neither.
LEMMA WorkerGoesOn ==
    ASSUME TypeOK, JobInv, NEW w \in Workers, Backend(w), ~Post(w), ~ByHand(w)
    PROVE  \A v \in Workers : job'[v] = job[v] \/ job'[v].step \notin {"note", "save"}
  <1> DEFINE Goes == \A v \in Workers : job'[v] = job[v] \/ job'[v].step \notin {"note", "save"}
  <1>0. job[w] \in Job /\ Idle.step = "idle"
    BY DEF TypeOK, Idle
  <1>1. ASSUME NEW x, x.step \notin {"note", "save"}, job' = [job EXCEPT ![w] = x] PROVE Goes
    BY <1>1 DEF TypeOK
  <1>2. CASE job' = [job EXCEPT ![w] = Idle]
    BY <1>0, <1>1, <1>2
  <1>3. ASSUME NEW s \in {"post", "find", "roll"}, job' = [job EXCEPT ![w].step = s] PROVE Goes
    <2> DEFINE x == [job[w] EXCEPT !.step = s]
    <2>1. x.step = s /\ job' = [job EXCEPT ![w] = x]
      BY <1>0, <1>3 DEF Job
    <2> HIDE DEF x
    <2> QED BY <1>1, <2>1
  <1>4. ASSUME NEW u \in Users, NEW i \in Rows, QueueOne(w, u, i) PROVE Goes
    <2>1. PICK m : TieRow(w, i, m)
      BY <1>4 DEF QueueOne
    <2> DEFINE x == [Idle EXCEPT !.step = "lock", !.row = i, !.notice = m, !.seen = party[PartyOf[i]]]
    <2>2. x.step = "lock"
      BY DEF Idle
    <2>3. job' = [job EXCEPT ![w] = x] \/ job' = [job EXCEPT ![w] = Idle]
      BY <2>1 DEF TieRow
    <2> HIDE DEF x
    <2> QED BY <1>1, <1>2, <2>2, <2>3
  <1>5. ASSUME NEW n, NEW k,
               job' = [job EXCEPT ![w] = [Idle EXCEPT !.step = "post", !.kind = k, !.notice = n]]
        PROVE  Goes
    <2> DEFINE x == [Idle EXCEPT !.step = "post", !.kind = k, !.notice = n]
    <2>1. x.step = "post" /\ job' = [job EXCEPT ![w] = x]
      BY <1>5 DEF Idle
    <2> HIDE DEF x
    <2> QED BY <1>1, <2>1
  <1>6. CASE FindRow(w)
    <2>1. ASSUME NEW i, job' = [job EXCEPT ![w].step = "rowsave", ![w].row = i, ![w].seen = party[PartyOf[i]]]
          PROVE  Goes
      <3> DEFINE x == [job[w] EXCEPT !.step = "rowsave", !.row = i, !.seen = party[PartyOf[i]]]
      <3>1. x.step = "rowsave" /\ job' = [job EXCEPT ![w] = x]
        BY <1>0, <2>1 DEF Job
      <3> HIDE DEF x
      <3> QED BY <1>1, <3>1
    <2> QED BY <1>2, <1>6, <2>1 DEF FindRow
  <1>7. CASE RollupRead(w)
    <2> DEFINE x == [job[w] EXCEPT !.step = "rollsave", !.seen = Verdict(RowStatuses(PartyOf[job[w].row]))]
    <2>1. x.step = "rollsave"
      BY <1>0 DEF Job
    <2>2. job' = [job EXCEPT ![w] = Idle] \/ job' = [job EXCEPT ![w] = x]
      BY <1>7 DEF RollupRead
    <2> HIDE DEF x
    <2> QED BY <1>1, <1>2, <2>1, <2>2
  <1>8. ASSUME LockNotice(w) \/ SaveDispatch(w) \/ RollupSave(w) \/ NoteOutcome(w) \/ SaveRow(w)
        PROVE  Goes
    BY <1>2, <1>3, <1>8 DEF LockNotice, SaveDispatch, RollupSave, NoteOutcome, SaveRow
  <1>9. ASSUME NEW k \in Key, CreateNotice(w, k) PROVE Goes
    BY <1>5, <1>9 DEF CreateNotice
  <1>10. ASSUME NEW n \in Notices, ResendNotice(w, n) PROVE Goes
    BY <1>5, <1>10 DEF ResendNotice
  <1> QED
    BY <1>4, <1>6, <1>7, <1>8, <1>9, <1>10 DEF Backend

LEMMA HandGoesReport ==
    ASSUME TypeOK, NEW w \in Workers, HandGoesOn(w)
    PROVE  \A v \in Workers : job'[v] = job[v] \/ job'[v].step \notin {"note", "save"}
  <1>1. PICK x \in Job : job' = [job EXCEPT ![w] = x] /\ x.step \notin {"note", "save"}
    BY DEF HandGoesOn, HandStep
  <1> QED BY <1>1 DEF TypeOK

\* Only a callback makes a notification "sent", and it says so of what has been delivered.
LEMMA SentWriters ==
    ASSUME TypeOK, JobInv, ReportInv, NEW w \in Workers, Backend(w), NEW n \in Notices,
           notice'[n].status = "sent"
    PROVE  notice[n].status = "sent" \/ \E l \in Logs : Shows(l, n, TRUE)
  <1>1. CASE UNCHANGED notice
    BY <1>1
  <1>2. ASSUME NEW m \in Notices, NEW k, notice' = [notice EXCEPT ![m] = [status |-> "new", key |-> k]]
        PROVE  notice[n].status = "sent"
    BY <1>2 DEF TypeOK
  <1>3. CASE SaveDispatch(w)
    <2>1. PICK s \in {"queued", "failed"} :
             UNCHANGED notice \/ notice' = [notice EXCEPT ![job[w].notice].status = s]
      BY <1>3 DEF SaveDispatch
    <2>2. CASE notice' = [notice EXCEPT ![job[w].notice].status = s]
      BY <2>2 DEF TypeOK, Notice
    <2> QED BY <1>1, <2>1, <2>2
  <1>4. CASE NoteOutcome(w)
    <2>1. job[w].step = "note" /\ job[w].notice \in Notices
      BY <1>4 DEF NoteOutcome, JobInv, JobOK, KnowsNotice
    <2>2. PICK l \in Logs : Shows(l, job[w].notice, job[w].ok)
      BY <2>1 DEF ReportInv
    <2>3. CASE n = job[w].notice /\ job[w].ok
      BY <2>2, <2>3 DEF Shows
    <2>4. CASE n = job[w].notice /\ ~job[w].ok
      BY <1>4, <2>4 DEF NoteOutcome, TypeOK, Notice
    <2>5. CASE n # job[w].notice
      BY <1>4, <2>5 DEF NoteOutcome, TypeOK
    <2> QED BY <2>3, <2>4, <2>5
  <1>5. ASSUME NEW u \in Users, NEW i \in Rows, QueueOne(w, u, i) PROVE notice[n].status = "sent"
    BY <1>1, <1>2, <1>5 DEF QueueOne
  <1>6. ASSUME NEW k \in Key, CreateNotice(w, k) PROVE notice[n].status = "sent"
    BY <1>2, <1>6 DEF CreateNotice
  <1>7. ASSUME \/ \E m \in Notices : ResendNotice(w, m)
               \/ LockNotice(w) \/ Post(w) \/ RollupRead(w) \/ RollupSave(w) \/ FindRow(w) \/ SaveRow(w)
        PROVE  UNCHANGED notice
    BY <1>7 DEF ResendNotice, LockNotice, Post, RollupRead, RollupSave, FindRow, SaveRow
  <1>8. ASSUME ByHand(w) PROVE UNCHANGED notice
    BY <1>8, ByHandLeaves
  <1> QED
    BY <1>1, <1>3, <1>4, <1>5, <1>6, <1>7, <1>8 DEF Backend

LEMMA ReportStep ==
    ASSUME ClaimInv, TrueInv, ReportInv, [Next]_vars
    PROVE  ReportInv'
  <1> USE DEF ClaimInv
  <1>1. ASSUME UNCHANGED <<notice, job>> PROVE ReportInv'
    BY <1>1, ReportKept
  <1>2. ASSUME NEW w \in Workers, Post(w) PROVE ReportInv'
    <2>1. UNCHANGED notice /\ \A v \in Workers : v # w => job'[v] = job[v]
      BY <1>2 DEF Post, TypeOK
    <2>2. ASSUME NEW n \in Notices, notice'[n].status = "sent"
          PROVE  \E l \in Logs : log'[l].status = "delivered" /\ log'[l].notice = n
      <3>1. PICK l \in Logs : Shows(l, n, TRUE)
        BY <2>1, <2>2 DEF ReportInv
      <3> QED BY <3>1, ShownStays DEF Shows, Finished
    <2>3. ASSUME NEW v \in Workers, job'[v].step = "note"
          PROVE  \E l \in Logs : /\ log'[l].status = IF job'[v].ok THEN "delivered" ELSE "failed"
                                 /\ log'[l].notice = job'[v].notice
      <3>1. v # w
        <4>1. PICK b \in BOOLEAN : job' = [job EXCEPT ![w].step = "save", ![w].ok = b]
          BY <1>2 DEF Post
        <4>2. job'[w].step = "save"
          BY <4>1 DEF TypeOK, Job
        <4> QED BY <2>3, <4>2
      <3>2. job'[v] = job[v]
        BY <2>1, <3>1
      <3>3. PICK l \in Logs : Shows(l, job[v].notice, job[v].ok)
        BY <2>3, <3>2 DEF ReportInv
      <3>4. log[l].status \in Finished
        BY <3>3 DEF Shows, Finished
      <3>5. log'[l].status = log[l].status /\ log'[l].notice = log[l].notice
        BY <3>4, ShownStays DEF Finished
      <3> QED BY <3>2, <3>3, <3>5 DEF Shows
    <2>4. ASSUME NEW v \in Workers, job'[v].step = "save", job'[v].ok
          PROVE  \E l \in Logs : log'[l].status # "none" /\ log'[l].notice = job'[v].notice
      <3>1. CASE v = w
        <4>0. job'[w].notice = job[w].notice
          <5>1. ASSUME NEW b \in BOOLEAN, job' = [job EXCEPT ![w].step = "save", ![w].ok = b]
                PROVE  job'[w].notice = job[w].notice
            BY <5>1 DEF TypeOK, Job
          <5> QED BY <1>2, <5>1 DEF Post
        <4>1. CASE \E l \in Logs : log' = [log EXCEPT ![l] = [status |-> "accepted", notice |-> job[w].notice,
                                                              fresh |-> FALSE]]
          <5>1. PICK l \in Logs : log' = [log EXCEPT ![l] = [status |-> "accepted", notice |-> job[w].notice,
                                                             fresh |-> FALSE]]
            BY <4>1
          <5>2. log'[l].status # "none" /\ log'[l].notice = job[w].notice
            BY <5>1 DEF TypeOK
          <5> QED BY <3>1, <4>0, <5>2
        <4>2. CASE job' = [job EXCEPT ![w].step = "save", ![w].ok = FALSE]
          BY <2>4, <3>1, <4>2 DEF TypeOK, Job
        <4> QED BY <1>2, <4>1, <4>2 DEF Post
      <3>2. CASE v # w
        BY <2>1, <2>4, <3>2, ShownStays DEF ReportInv, Used
      <3> QED BY <3>1, <3>2
    <2> QED BY <2>2, <2>3, <2>4 DEF ReportInv, Shows, Used
  <1>3. ASSUME NEW w \in Workers, Backend(w), ~Post(w) PROVE ReportInv'
    <2>1. ~ByHand(w) => \A v \in Workers : job'[v] = job[v] \/ job'[v].step \notin {"note", "save"}
      BY <1>3, WorkerGoesOn
    <2>2. ByHand(w) => HandGoesOn(w)
      BY NoticeAssumption, ByHandStep
    <2> QED BY <1>3, <2>1, <2>2, HandGoesReport, SentWriters, ReportKept
  <1>4. ASSUME NEW w \in Workers, NEW g \in Gateways, NEW l \in Logs, CallbackArrives(w, g, l)
        PROVE  ReportInv'
    <2> DEFINE x == [Idle EXCEPT !.step = "note", !.kind = "callback",
                                 !.notice = log[l].notice, !.ok = dlv[g][l].ok]
    <2>1. x.step = "note" /\ x.notice = log[l].notice /\ x.ok = dlv[g][l].ok
      BY DEF Idle
    <2>2. UNCHANGED <<notice, log>> /\ dlv[g][l].step = "calling" /\ job' = [job EXCEPT ![w] = x]
      BY <1>4 DEF CallbackArrives
    <2> HIDE DEF x
    <2>3. job'[w] = x /\ \A v \in Workers : v # w => job'[v] = job[v]
      BY <2>2 DEF TypeOK
    <2>4. log[l].status = IF x.ok THEN "delivered" ELSE "failed"
      BY <2>1, <2>2 DEF CallInv
    <2> QED BY <2>1, <2>2, <2>3, <2>4 DEF ReportInv, Shows, Used
  <1>5. ASSUME NEW g \in Gateways, NEW l \in Logs,
               Claim(g, l) \/ Hand(g, l) \/ StoreOutcome(g, l) \/ CallbackLost(g, l)
        PROVE  ReportInv'
    BY <1>1, <1>5 DEF Claim, Hand, StoreOutcome, CallbackLost, backend
  <1>6. ASSUME NEW g \in Gateways, Crash(g) \/ Restart(g) \/ Serve(g) PROVE ReportInv'
    BY <1>1, <1>6 DEF Crash, Restart, Serve, backend
  <1>7. ASSUME NEW l \in Logs, ClaimAges(l) PROVE ReportInv'
    BY <1>1, <1>7 DEF ClaimAges, backend
  <1>8. CASE UNCHANGED vars
    BY <1>1, <1>8 DEF vars, backend
  <1> QED
    BY <1>2, <1>3, <1>4, <1>5, <1>6, <1>7, <1>8 DEF Next, Gateway

LEMMA InitPromise == Init => PromiseInv
  <1>1. Init => ReportInv
    <2> SUFFICES ASSUME Init PROVE ReportInv
      OBVIOUS
    <2>1. \A w \in Workers : job[w].step = "idle"
      BY DEF Init, Idle
    <2>2. \A n \in Notices : notice[n].status = "none"
      BY DEF Init
    <2> QED BY <2>1, <2>2 DEF ReportInv
  <1> QED BY <1>1, InitSend, InitClaim, InitTrue DEF PromiseInv

LEMMA PromiseStep ==
    ASSUME Endpoints \cap {"create", "resend"} = {}, "stall" \notin Faults, PromiseInv, [Next]_vars
    PROVE  PromiseInv'
  BY SendStep, ClaimStep, TrueStep, ReportStep DEF PromiseInv

(***************************************************************************)
(* Sent for ever, for every number of workers and gateway processes: a     *)
(* notification has one letter, so a later word about it, however often    *)
(* and however late a callback repeats it, is the same word; and no worker *)
(* holds a dispatch of it any more that it could still record as refused.  *)
(***************************************************************************)
THEOREM SentStays ==
    ASSUME Endpoints \cap {"create", "resend"} = {}, "stall" \notin Faults
    PROVE  Spec => SentIsFinal
  <1>1. PromiseInv /\ [Next]_vars => PromiseInv'
    BY PromiseStep
  <1>2. ASSUME PromiseInv, [Next]_vars, NEW n \in Notices, notice[n].status = "sent"
        PROVE  notice'[n].status = "sent"
    <2> USE DEF PromiseInv, SendInv
    <2>1. CASE UNCHANGED notice
      BY <1>2, <2>1
    <2>2. ASSUME NEW m \in Notices, NEW k, notice[m].status = "none",
                 notice' = [notice EXCEPT ![m] = [status |-> "new", key |-> k]]
          PROVE  notice'[n].status = "sent"
      BY <1>2, <2>2 DEF TypeOK
    <2>3. ASSUME NEW w \in Workers, SaveDispatch(w) PROVE notice'[n].status = "sent"
      <3>1. job[w].notice # n
        BY <1>2, <2>3 DEF SaveDispatch, DispatchInv
      <3> QED BY <1>2, <2>3, <3>1 DEF SaveDispatch, TypeOK
    <2>4. ASSUME NEW w \in Workers, NoteOutcome(w) PROVE notice'[n].status = "sent"
      <3>1. CASE job[w].notice = n
        <4>1. PICK l \in Logs : Shows(l, n, job[w].ok)
          BY <1>2, <2>4, <3>1 DEF NoteOutcome, ReportInv
        <4>2. PICK m \in Logs : Shows(m, n, TRUE)
          BY <1>2 DEF ReportInv
        <4>3. l = m
          BY <1>2, <4>1, <4>2 DEF Shows, OneLetterPerNotice
        <4>4. job[w].ok
          BY <4>1, <4>2, <4>3 DEF Shows
        <4> QED BY <1>2, <2>4, <3>1, <4>4 DEF NoteOutcome, TypeOK, Notice
      <3>2. CASE job[w].notice # n
        BY <1>2, <2>4, <3>2 DEF NoteOutcome, TypeOK
      <3> QED BY <3>1, <3>2
    <2>5. ASSUME NEW w \in Workers, Backend(w) PROVE notice'[n].status = "sent"
      <3>1. ASSUME NEW u \in Users, NEW i \in Rows, QueueOne(w, u, i) PROVE notice'[n].status = "sent"
        BY <2>1, <2>2, <3>1 DEF QueueOne
      <3>2. ASSUME NEW k \in Key, CreateNotice(w, k) PROVE notice'[n].status = "sent"
        BY <2>2, <3>2 DEF CreateNotice
      <3>3. ASSUME \/ \E m \in Notices : ResendNotice(w, m)
                   \/ LockNotice(w) \/ Post(w) \/ RollupRead(w) \/ RollupSave(w) \/ FindRow(w) \/ SaveRow(w)
            PROVE  UNCHANGED notice
        BY <3>3 DEF ResendNotice, LockNotice, Post, RollupRead, RollupSave, FindRow, SaveRow
      <3>4. ASSUME ByHand(w) PROVE UNCHANGED notice
        BY <3>4, ByHandLeaves
      <3> QED BY <2>1, <2>3, <2>4, <2>5, <3>1, <3>2, <3>3, <3>4 DEF Backend
    <2>6. ASSUME \/ \E g \in Gateways : Gateway(g)
                 \/ \E l \in Logs : ClaimAges(l)
                 \/ UNCHANGED vars
          PROVE  UNCHANGED notice
      <3>1. ASSUME NEW g \in Gateways, NEW l \in Logs,
                   Claim(g, l) \/ Hand(g, l) \/ StoreOutcome(g, l) \/ CallbackLost(g, l)
            PROVE  UNCHANGED notice
        BY <3>1 DEF Claim, Hand, StoreOutcome, CallbackLost, backend
      <3>2. ASSUME NEW g \in Gateways, NEW l \in Logs, NEW w \in Workers, CallbackArrives(w, g, l)
            PROVE  UNCHANGED notice
        BY <3>2 DEF CallbackArrives
      <3>3. ASSUME NEW g \in Gateways, Crash(g) \/ Restart(g) \/ Serve(g) PROVE UNCHANGED notice
        BY <3>3 DEF Crash, Restart, Serve, backend
      <3>4. ASSUME UNCHANGED vars \/ \E l \in Logs : ClaimAges(l) PROVE UNCHANGED notice
        BY <3>4 DEF ClaimAges, vars, backend
      <3> QED BY <2>6, <3>1, <3>2, <3>3, <3>4 DEF Gateway
    <2> QED BY <1>2, <2>1, <2>5, <2>6 DEF Next
  <1>3. PromiseInv /\ [Next]_vars =>
           [\A n \in Notices : notice[n].status = "sent" => notice'[n].status = "sent"]_vars
    BY <1>2
  <1> QED
    BY <1>1, <1>3, InitPromise, PTL DEF Spec, SentIsFinal

-----------------------------------------------------------------------------
(* The refinement.  Stage and Letter are what NoticeLifecycle sees.           *)

Stage  == [n \in Notices |-> notice[n].status]
Letter == [n \in Notices |-> LetterOfNotice(n)]

\* What NoticeLifecycle sees of one journal row.
Seen(status) == IF status \in Finished THEN status ELSE "pending"

\* With one journal row a notification there is no choice what its letter is.
LettersMatch ==
    /\ \A l \in Logs : Used(l) => LetterOfNotice(log[l].notice) = Seen(log[l].status)
    /\ \A n \in Notices : (\A l \in Logs : Used(l) => log[l].notice # n) => LetterOfNotice(n) = "none"

LEMMA LettersAreJournal == OneLetterPerNotice => LettersMatch
  <1> SUFFICES ASSUME OneLetterPerNotice PROVE LettersMatch
    OBVIOUS
  <1>1. ASSUME NEW l \in Logs, Used(l) PROVE LetterOfNotice(log[l].notice) = Seen(log[l].status)
    <2> DEFINE S == {log[k].status : k \in {m \in Logs : log[m].status # "none" /\ log[m].notice = log[l].notice}}
    <2>1. S = {log[l].status}
      BY <1>1 DEF OneLetterPerNotice, Used
    <2>2. LetterOfNotice(log[l].notice) = IF S = {} THEN "none"
                                          ELSE IF "delivered" \in S THEN "delivered"
                                          ELSE IF "failed" \in S THEN "failed" ELSE "pending"
      BY DEF LetterOfNotice
    <2> QED BY <2>1, <2>2 DEF Seen, Finished
  <1>2. ASSUME NEW n \in Notices, \A l \in Logs : Used(l) => log[l].notice # n
        PROVE  LetterOfNotice(n) = "none"
    <2>1. {log[k].status : k \in {m \in Logs : log[m].status # "none" /\ log[m].notice = n}} = {}
      BY <1>2 DEF Used
    <2> QED BY <2>1 DEF LetterOfNotice
  <1> QED BY <1>1, <1>2 DEF LettersMatch

LEMMA LettersMatchNext == OneLetterPerNotice' => LettersMatch'
  BY LettersAreJournal, PTL

\* A step that changes no outcome changes no letter.
LEMMA LettersUnchanged ==
    ASSUME LettersMatch, LettersMatch',
           \A l \in Logs : /\ Used(l) <=> log'[l].status # "none"
                           /\ Used(l) => /\ log'[l].notice = log[l].notice
                                         /\ Seen(log'[l].status) = Seen(log[l].status)
    PROVE  UNCHANGED Letter
  <1>1. ASSUME NEW n \in Notices PROVE LetterOfNotice(n)' = LetterOfNotice(n)
    <2>1. CASE \E l \in Logs : Used(l) /\ log[l].notice = n
      <3>1. PICK l \in Logs : Used(l) /\ log[l].notice = n
        BY <2>1
      <3>2. LetterOfNotice(n) = Seen(log[l].status)
        BY <3>1 DEF LettersMatch
      <3>3. log'[l].status # "none" /\ log'[l].notice = n
        BY <3>1
      <3>4. LetterOfNotice(n)' = Seen(log'[l].status)
        BY <3>3 DEF LettersMatch, Used, Seen
      <3> QED BY <3>1, <3>2, <3>4
    <2>2. CASE \A l \in Logs : Used(l) => log[l].notice # n
      <3>1. \A l \in Logs : log'[l].status # "none" => log'[l].notice # n
        BY <2>2
      <3> QED BY <2>2, <3>1 DEF LettersMatch, Used
    <2> QED BY <2>1, <2>2
  <1> QED BY <1>1 DEF Letter

\* One journal row takes a new status, the others stay.
LEMMA LetterMoves ==
    ASSUME LettersMatch, LettersMatch', OneLetterPerNotice', NEW l \in Logs, NEW n \in Notices,
           log'[l].notice = n, log'[l].status # "none",
           \A m \in Logs : m # l => log'[m] = log[m],
           Used(l) => log[l].notice = n
    PROVE  Letter' = [Letter EXCEPT ![n] = Seen(log'[l].status)]
  <1>1. LetterOfNotice(n)' = Seen(log'[l].status)
    BY DEF LettersMatch, Used, Seen
  <1>2. ASSUME NEW o \in Notices, o # n PROVE LetterOfNotice(o)' = LetterOfNotice(o)
    <2>1. CASE \E m \in Logs : Used(m) /\ log[m].notice = o
      <3>1. PICK m \in Logs : Used(m) /\ log[m].notice = o
        BY <2>1
      <3>2. m # l /\ log'[m] = log[m]
        BY <1>2, <3>1
      <3>3. LetterOfNotice(o) = Seen(log[m].status)
        BY <3>1 DEF LettersMatch
      <3>4. LetterOfNotice(o)' = Seen(log'[m].status)
        BY <3>1, <3>2 DEF LettersMatch, Used, Seen
      <3> QED BY <3>2, <3>3, <3>4
    <2>2. CASE \A m \in Logs : Used(m) => log[m].notice # o
      <3>1. \A m \in Logs : log'[m].status # "none" => log'[m].notice # o
        BY <1>2, <2>2 DEF Used
      <3> QED BY <2>2, <3>1 DEF LettersMatch, Used
    <2> QED BY <2>1, <2>2
  <1> QED BY <1>1, <1>2 DEF Letter

\* The steps of a worker that the outside sees.
LEMMA QueueMaps ==
    ASSUME PromiseInv, NEW w \in Workers, NEW u \in Users, NEW i \in Rows, QueueOne(w, u, i)
    PROVE  UNCHANGED <<notice, log>> \/ Promise!Next
  <1>1. UNCHANGED log
    BY DEF QueueOne, gateway
  <1>2. ASSUME NEW m \in Notices, NEW k, notice[m].status = "none",
               notice' = [notice EXCEPT ![m] = [status |-> "new", key |-> k]]
        PROVE  Promise!Next
    <2>1. Stage[m] = "none" /\ Stage' = [Stage EXCEPT ![m] = "new"]
      BY <1>2 DEF Stage, PromiseInv, SendInv, TypeOK
    <2>2. UNCHANGED Letter
      BY <1>1 DEF Letter, LetterOfNotice
    <2>3. Promise!Write(m)
      BY <2>1, <2>2 DEF Promise!Write, Stage, Letter
    <2> QED BY <2>3 DEF Promise!Next
  <1> QED BY <1>1, <1>2 DEF QueueOne

LEMMA PostMaps ==
    ASSUME PromiseInv, LettersMatch, LettersMatch', OneLetterPerNotice', NEW w \in Workers, Post(w)
    PROVE  UNCHANGED <<notice, log>> \/ Promise!Next
  <1> USE DEF PromiseInv, SendInv
  <1> DEFINE n == job[w].notice
  <1>1. /\ UNCHANGED notice /\ n \in Notices /\ notice[n].status = "new"
        /\ \A l \in Logs : Used(l) => log[l].notice # n
    BY DEF Post, JobInv, JobOK, KnowsNotice, DispatchInv
  <1>2. ASSUME NEW l \in Logs, ~Used(l),
               log' = [log EXCEPT ![l] = [status |-> "accepted", notice |-> n, fresh |-> FALSE]]
        PROVE  Promise!Next
    <2>1. log'[l].status = "accepted" /\ log'[l].notice = n /\ \A m \in Logs : m # l => log'[m] = log[m]
      BY <1>2 DEF TypeOK
    <2>2. Letter' = [Letter EXCEPT ![n] = "pending"]
      <3>1. Letter' = [Letter EXCEPT ![n] = Seen(log'[l].status)]
        BY <1>1, <1>2, <2>1, LetterMoves
      <3> QED BY <2>1, <3>1 DEF Seen, Finished
    <2>3. Stage[n] = "new" /\ Letter[n] = "none" /\ UNCHANGED Stage
      BY <1>1 DEF Stage, Letter, LettersMatch
    <2>4. Promise!HandOver(n)
      BY <2>2, <2>3 DEF Promise!HandOver, Stage, Letter
    <2> QED BY <1>1, <2>4 DEF Promise!Next
  <1> QED BY <1>1, <1>2 DEF Post, Used

LEMMA SaveMaps ==
    ASSUME PromiseInv, LettersMatch, NEW w \in Workers, SaveDispatch(w)
    PROVE  Promise!Next
  <1> USE DEF PromiseInv, SendInv
  <1> DEFINE s == IF job[w].ok THEN "queued" ELSE "failed"
  <1>1. PICK n \in Notices : /\ n = job[w].notice /\ notice[n].status = "new"
                             /\ job[w].step = "save" /\ UNCHANGED log
    BY DEF SaveDispatch, JobInv, JobOK, KnowsNotice, DispatchInv, gateway
  <1>2. ~ \E m \in OpenWith(notice[n].key) : m # n
    BY <1>1 DEF UniqueOpen, OpenWith, OpenNotice
  <1>3. notice' = [notice EXCEPT ![n].status = s]
    BY <1>1, <1>2 DEF SaveDispatch
  <1>4. Stage[n] = "new" /\ Stage' = [Stage EXCEPT ![n] = s]
    BY <1>1, <1>3 DEF Stage, TypeOK, Notice
  <1>5. UNCHANGED Letter
    BY <1>1 DEF Letter, LetterOfNotice
  <1>6. CASE job[w].ok
    <2>1. PICK l \in Logs : Used(l) /\ log[l].notice = n
      BY <1>1, <1>6 DEF ReportInv
    <2>2. Letter[n] # "none"
      BY <1>1, <2>1 DEF Letter, LettersMatch, Seen, Finished
    <2>3. Promise!RecordQueued(n)
      BY <1>4, <1>5, <1>6, <2>2 DEF Promise!RecordQueued, Stage, Letter
    <2> QED BY <1>1, <2>3 DEF Promise!Next
  <1>7. CASE ~job[w].ok
    <2>1. Promise!RecordFailed(n)
      BY <1>4, <1>5, <1>7 DEF Promise!RecordFailed, Stage, Letter
    <2> QED BY <1>1, <2>1 DEF Promise!Next
  <1> QED BY <1>6, <1>7

\* A callback reports what the journal has, or repeats it.
LEMMA OutcomeMaps ==
    ASSUME PromiseInv, LettersMatch, NEW w \in Workers, NoteOutcome(w)
    PROVE  UNCHANGED <<Stage, Letter>> \/ Promise!Next
  <1> USE DEF PromiseInv, SendInv
  <1> DEFINE s == IF job[w].ok THEN "sent" ELSE "failed"
  <1>1. PICK n \in Notices : n = job[w].notice /\ job[w].step = "note" /\ UNCHANGED log /\ lock[n] = None
    BY DEF NoteOutcome, JobInv, JobOK, KnowsNotice, gateway
  <1>2. Stage' = [Stage EXCEPT ![n] = s]
    BY <1>1 DEF NoteOutcome, Stage, TypeOK, Notice
  <1>3. UNCHANGED Letter
    BY <1>1 DEF Letter, LetterOfNotice
  <1>4. PICK l \in Logs : Shows(l, n, job[w].ok)
    BY <1>1 DEF ReportInv
  <1>5. Used(l) /\ log[l].notice = n /\ log[l].status = IF job[w].ok THEN "delivered" ELSE "failed"
    BY <1>4 DEF Used, Shows
  <1>6. Letter[n] = IF job[w].ok THEN "delivered" ELSE "failed"
    BY <1>1, <1>5 DEF Letter, LettersMatch, Seen, Finished
  <1>7. notice[n].status \notin {"none", "new"}
    <2>1. ~ \E v \in Workers : Dispatching(v, n)
      BY <1>1, NoticeAssumption DEF LockInv, NoticeAssumption
    <2> QED BY <1>5, <2>1 DEF LetterInv, Dispatching
  <1>8. CASE notice[n].status = "sent"
    <2>1. PICK m \in Logs : Shows(m, n, TRUE)
      BY <1>1, <1>8 DEF ReportInv
    <2>2. l = m
      BY <1>5, <2>1 DEF Shows, OneLetterPerNotice, Used
    <2>3. job[w].ok
      BY <1>5, <2>1, <2>2 DEF Shows
    <2>4. UNCHANGED Stage
      BY <1>1, <1>2, <1>8, <2>3 DEF Stage
    <2> QED BY <1>3, <2>4
  <1>9. CASE notice[n].status # "sent"
    <2>1. Stage[n] \in {"queued", "failed"}
      BY <1>1, <1>7, <1>9 DEF Stage, TypeOK, Notice, NoticeStatus
    <2>2. Promise!Report(n)
      BY <1>2, <1>3, <1>6, <2>1 DEF Promise!Report, Stage, Letter
    <2> QED BY <1>1, <2>2 DEF Promise!Next
  <1> QED BY <1>8, <1>9

\* The journal: a claim shows nothing, an outcome delivers.
LEMMA JournalMaps ==
    ASSUME PromiseInv, LettersMatch, LettersMatch', OneLetterPerNotice',
           \/ \E g \in Gateways, l \in Logs : Claim(g, l) \/ StoreOutcome(g, l)
           \/ \E l \in Logs : ClaimAges(l)
    PROVE  UNCHANGED <<Stage, Letter>> \/ Promise!Next
  <1> USE DEF PromiseInv, SendInv
  <1>1. UNCHANGED Stage
    BY DEF Claim, StoreOutcome, ClaimAges, backend, Stage
  <1>2. ASSUME NEW g \in Gateways, NEW l \in Logs, Claim(g, l) PROVE UNCHANGED Letter
    <2>1. CASE UNCHANGED log
      BY <2>1 DEF Letter, LetterOfNotice
    <2>2. CASE /\ Claimable(l)
               /\ log' = [log EXCEPT ![l] = [status |-> "processing", notice |-> log[l].notice, fresh |-> TRUE]]
      <3>1. log[l].status \in {"accepted", "processing"}
        BY <2>2 DEF Claimable
      <3>2. /\ log'[l].status = "processing" /\ log'[l].notice = log[l].notice
            /\ \A m \in Logs : m # l => log'[m] = log[m]
        BY <2>2 DEF TypeOK
      <3> QED BY <3>1, <3>2, LettersUnchanged DEF Used, Seen, Finished
    <2> QED BY <1>2, <2>1, <2>2 DEF Claim
  <1>3. ASSUME NEW l \in Logs, ClaimAges(l) PROVE UNCHANGED Letter
    <2>1. \A m \in Logs : log'[m].status = log[m].status /\ log'[m].notice = log[m].notice
      BY <1>3 DEF ClaimAges, TypeOK, Log
    <2> QED BY <2>1, LettersUnchanged DEF Used
  <1>4. ASSUME NEW g \in Gateways, NEW l \in Logs, StoreOutcome(g, l) PROVE Promise!Next
    <2>1. log[l].status = "processing"
      BY <1>4 DEF StoreOutcome, ClaimInv, DeliverInv, Delivering
    <2>2. PICK n \in Notices : n = log[l].notice
      BY <2>1 DEF LogInv
    <2>3. /\ log'[l].status \in {"delivered", "failed"} /\ log'[l].notice = n
          /\ \A m \in Logs : m # l => log'[m] = log[m]
      BY <1>4, <2>2 DEF StoreOutcome, TypeOK, Log
    <2>4. Letter' = [Letter EXCEPT ![n] = Seen(log'[l].status)]
      BY <2>2, <2>3, LetterMoves
    <2>5. PICK o \in {"delivered", "failed"} : Letter' = [Letter EXCEPT ![n] = o]
      BY <2>3, <2>4 DEF Seen, Finished
    <2>6. Letter[n] = "pending"
      BY <2>1, <2>2 DEF Letter, LettersMatch, Seen, Finished, Used
    <2>7. Promise!Deliver(n)
      BY <1>1, <2>5, <2>6 DEF Promise!Deliver, Stage, Letter
    <2> QED BY <2>7 DEF Promise!Next
  <1> QED BY <1>1, <1>2, <1>3, <1>4

LEMMA PromiseMaps ==
    ASSUME Endpoints \cap {"create", "resend"} = {}, PromiseInv, PromiseInv', [Next]_vars
    PROVE  UNCHANGED <<Stage, Letter>> \/ Promise!Next
  <1> DEFINE Maps == UNCHANGED <<Stage, Letter>> \/ Promise!Next
  <1>1. LettersMatch /\ LettersMatch' /\ OneLetterPerNotice'
    BY LettersAreJournal, LettersMatchNext DEF PromiseInv, SendInv
  <1>2. ASSUME UNCHANGED <<notice, log>> PROVE Maps
    BY <1>2 DEF Stage, Letter, LetterOfNotice
  <1>3. ASSUME NEW w \in Workers, Backend(w) PROVE Maps
    <2>1. ASSUME LockNotice(w) \/ RollupRead(w) \/ RollupSave(w) \/ FindRow(w) \/ SaveRow(w)
          PROVE  UNCHANGED <<notice, log>>
      BY <2>1 DEF LockNotice, RollupRead, RollupSave, FindRow, SaveRow, gateway
    <2>2. ASSUME ByHand(w) PROVE UNCHANGED <<notice, log>>
      BY <2>2, ByHandLeaves DEF gateway
    <2>3. /\ ~ \E k \in Key : CreateNotice(w, k)
          /\ ~ \E n \in Notices : ResendNotice(w, n)
      BY DEF CreateNotice, ResendNotice
    <2> QED BY <1>1, <1>2, <1>3, <2>1, <2>2, <2>3, QueueMaps, PostMaps, SaveMaps, OutcomeMaps DEF Backend
  <1>4. ASSUME NEW g \in Gateways, Gateway(g) PROVE Maps
    <2>1. ASSUME \/ \E l \in Logs : \/ Hand(g, l) \/ CallbackLost(g, l)
                                    \/ \E w \in Workers : CallbackArrives(w, g, l)
                 \/ Crash(g) \/ Restart(g) \/ Serve(g)
          PROVE  UNCHANGED <<notice, log>>
      BY <2>1 DEF Hand, CallbackLost, CallbackArrives, Crash, Restart, Serve, backend
    <2> QED BY <1>1, <1>2, <1>4, <2>1, JournalMaps DEF Gateway
  <1>5. CASE UNCHANGED vars
    BY <1>2, <1>5 DEF vars, backend, gateway
  <1> QED BY <1>1, <1>3, <1>4, <1>5, JournalMaps DEF Next

(***************************************************************************)
(* queue_notices, the gateway and the callback together keep the promise   *)
(* of NoticeLifecycle: whatever calls, answers and callbacks are lost and  *)
(* whatever processes crash, each notification goes through the stages a   *)
(* reader of the record expects, its letter is handed over at most once,   *)
(* and the record reports the outcome the journal has.                     *)
(***************************************************************************)
THEOREM KeepsThePromise ==
    ASSUME Endpoints \cap {"create", "resend"} = {}, "stall" \notin Faults
    PROVE  Spec => KeepsPromise
  <1>1. PromiseInv /\ [Next]_vars => PromiseInv'
    BY PromiseStep
  <1>2. Init => Promise!Init
    <2> SUFFICES ASSUME Init PROVE Promise!Init
      OBVIOUS
    <2>1. Stage = [n \in Notices |-> "none"]
      BY DEF Init, Stage
    <2>2. Letter = [n \in Notices |-> "none"]
      BY DEF Init, Letter, LetterOfNotice
    <2> QED BY <2>1, <2>2 DEF Promise!Init, Stage, Letter
  <1>3. PromiseInv /\ PromiseInv' /\ [Next]_vars => [Promise!Next]_(Promise!vars)
    BY PromiseMaps DEF Promise!vars, Stage, Letter
  <1> QED
    BY <1>1, <1>2, <1>3, InitPromise, PTL DEF Spec, KeepsPromise, Promise!Spec

=============================================================================
