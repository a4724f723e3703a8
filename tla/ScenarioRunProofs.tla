-------------------------- MODULE ScenarioRunProofs ---------------------------
(***************************************************************************)
(* Theorems about ScenarioRun for every set of accounts, scenarios and     *)
(* workers, every list of steps, and every selection of the requests.      *)
(***************************************************************************)
EXTENDS ScenarioRun, FiniteSetTheorems, TLAPS

-----------------------------------------------------------------------------
(* The run of an account and its history                                   *)

\* A record of a run: its fields and no other
Fields(r) ==
    r = [scen |-> r.scen, ver |-> r.ver, awaiting |-> r.awaiting, finished |-> r.finished,
         paused |-> r.paused, skipped |-> r.skipped, aged |-> r.aged]

RunShape(r) ==
    /\ Fields(r)
    /\ r.scen \in Scenarios \cup {None}
    /\ r.finished \in BOOLEAN
    /\ r.scen = None => ~r.finished

\* h are the open assignments of an account whose run is r.
Follows(h, r) ==
    /\ h \in [Scenarios -> Nat]
    /\ \A s \in Scenarios : h[s] = IF r.scen = s /\ ~r.finished THEN 1 ELSE 0

RunInv ==
    /\ run = [a \in Accounts |-> run[a]]
    /\ hist = [a \in Accounts |-> hist[a]]
    /\ \A a \in Accounts : RunShape(run[a]) /\ Follows(hist[a], run[a])

\* What the history is about stays as it was.
SameRun(r, q) == RunShape(q) /\ q.scen = r.scen /\ q.finished = r.finished

LEMMA SameRunFollows ==
    ASSUME NEW h, NEW r, NEW q, Follows(h, r), SameRun(r, q)
    PROVE  Follows(h, q)
  BY DEF Follows, SameRun

\* Every account keeps its scenario and whether its run is over.
LEMMA RunsKept ==
    ASSUME RunInv, hist' = hist, run' = [a \in Accounts |-> run'[a]],
           \A a \in Accounts : SameRun(run[a], run'[a])
    PROVE  RunInv'
  BY SameRunFollows DEF RunInv, SameRun

\* One account changes, its history with it.
LEMMA OneRunChanges ==
    ASSUME RunInv, NEW a \in Accounts, NEW r, NEW h, RunShape(r), Follows(h, r),
           run' = [run EXCEPT ![a] = r], hist' = [hist EXCEPT ![a] = h]
    PROVE  RunInv'
<1>1. run' = [b \in Accounts |-> IF b = a THEN r ELSE run[b]]
  BY DEF RunInv
<1>2. hist' = [b \in Accounts |-> IF b = a THEN h ELSE hist[b]]
  BY DEF RunInv
<1> QED BY <1>1, <1>2 DEF RunInv

\* One field changes.
WithScen(r, x)     == [r EXCEPT !.scen = x]
WithFinished(r, x) == [r EXCEPT !.finished = x]
WithVer(r, x)      == [r EXCEPT !.ver = x]
WithAwaiting(r, x) == [r EXCEPT !.awaiting = x]
WithPaused(r, x)   == [r EXCEPT !.paused = x]
WithSkipped(r, x)  == [r EXCEPT !.skipped = x]
WithAged(r, x)     == [r EXCEPT !.aged = x]

Alike(r, q) == Fields(q) /\ q.scen = r.scen /\ q.finished = r.finished

LEMMA OneField ==
    ASSUME NEW r, Fields(r), NEW x
    PROVE  /\ Fields(WithScen(r, x)) /\ WithScen(r, x).scen = x /\ WithScen(r, x).finished = r.finished
           /\ Fields(WithFinished(r, x)) /\ WithFinished(r, x).scen = r.scen /\ WithFinished(r, x).finished = x
           /\ Alike(r, WithVer(r, x)) /\ Alike(r, WithAwaiting(r, x)) /\ Alike(r, WithPaused(r, x))
           /\ Alike(r, WithSkipped(r, x)) /\ Alike(r, WithAged(r, x))
<1>1. Fields(WithScen(r, x)) /\ WithScen(r, x).scen = x /\ WithScen(r, x).finished = r.finished
  BY DEF Fields, WithScen
<1>2. Fields(WithFinished(r, x)) /\ WithFinished(r, x).scen = r.scen /\ WithFinished(r, x).finished = x
  BY DEF Fields, WithFinished
<1>3. Alike(r, WithVer(r, x))
  BY DEF Fields, Alike, WithVer
<1>4. Alike(r, WithAwaiting(r, x))
  BY DEF Fields, Alike, WithAwaiting
<1>5. Alike(r, WithPaused(r, x))
  BY DEF Fields, Alike, WithPaused
<1>6. Alike(r, WithSkipped(r, x))
  BY DEF Fields, Alike, WithSkipped
<1>7. Alike(r, WithAged(r, x))
  BY DEF Fields, Alike, WithAged
<1> QED BY <1>1, <1>2, <1>3, <1>4, <1>5, <1>6, <1>7

LEMMA AlikeIsSameRun ==
    ASSUME NEW r, NEW q, RunShape(r), Alike(r, q)
    PROVE  SameRun(r, q)
  BY DEF RunShape, SameRun, Alike

\* Fields the history does not look at
LEMMA FieldsOfRun ==
    ASSUME NEW r, RunShape(r), NEW x
    PROVE  /\ SameRun(r, r)
           /\ SameRun(r, [r EXCEPT !.ver = x])
           /\ SameRun(r, [r EXCEPT !.awaiting = x])
           /\ SameRun(r, [r EXCEPT !.skipped = x])
           /\ SameRun(r, [r EXCEPT !.aged = x])
           /\ \A y : SameRun(r, [r EXCEPT !.ver = x, !.awaiting = y])
<1>0. Fields(r)
  BY DEF RunShape
<1>1. SameRun(r, r)
  BY DEF SameRun
<1>2. SameRun(r, WithVer(r, x)) /\ SameRun(r, WithAwaiting(r, x)) /\ SameRun(r, WithSkipped(r, x))
      /\ SameRun(r, WithAged(r, x))
  BY <1>0, OneField, AlikeIsSameRun
<1>3. ASSUME NEW y PROVE SameRun(r, WithAwaiting(WithVer(r, x), y))
  <2>1. Alike(r, WithVer(r, x)) /\ Fields(WithVer(r, x))
    BY <1>0, OneField DEF Alike
  <2>2. Alike(WithVer(r, x), WithAwaiting(WithVer(r, x), y))
    BY <2>1, OneField
  <2>3. Alike(r, WithAwaiting(WithVer(r, x), y))
    BY <2>1, <2>2 DEF Alike
  <2> QED BY <2>3, AlikeIsSameRun
<1> QED BY <1>1, <1>2, <1>3 DEF WithVer, WithAwaiting, WithSkipped, WithAged

\* A run that begins, waiting for the button or not, its days counted from an older one or not
BegunWith(s, x, y) == WithAged(WithAwaiting(NewRun(s), x), y)

Begun(r, s) == RunShape(r) /\ r.scen = s /\ ~r.finished

LEMMA NewRunShape ==
    ASSUME NEW s \in Scenarios, NEW x, NEW y
    PROVE  /\ Begun(NewRun(s), s)
           /\ Begun(WithAwaiting(NewRun(s), x), s)
           /\ Begun(BegunWith(s, x, y), s)
<1> DEFINE n == WithScen(NoRun, s)
<1>1. Fields(NoRun) /\ NoRun.finished = FALSE
  BY DEF Fields, NoRun
<1>2. Fields(n) /\ n.scen = s /\ n.finished = FALSE
  BY <1>1, OneField
<1> HIDE DEF n
<1>3. NewRun(s) = WithVer(n, Len(scen[s].revs))
  BY DEF NewRun, WithVer, WithScen, n
<1>4. Fields(NewRun(s)) /\ NewRun(s).scen = s /\ NewRun(s).finished = FALSE
  BY <1>2, <1>3, OneField DEF Alike
<1>5. Fields(WithAwaiting(NewRun(s), x)) /\ WithAwaiting(NewRun(s), x).scen = s
      /\ WithAwaiting(NewRun(s), x).finished = FALSE
  BY <1>4, OneField DEF Alike
<1>6. Fields(BegunWith(s, x, y)) /\ BegunWith(s, x, y).scen = s /\ BegunWith(s, x, y).finished = FALSE
  BY <1>5, OneField DEF Alike, BegunWith
<1>7. s # None
  BY ScenarioAssumption
<1> QED BY <1>4, <1>5, <1>6, <1>7 DEF Begun, RunShape

\* The history of an account that had no run, and begins one of s
LEMMA FirstFollows ==
    ASSUME NEW a \in Accounts, RunInv, ~Exists(run[a]), NEW s \in Scenarios,
           NEW r, r.scen = s, ~r.finished
    PROVE  Follows([hist[a] EXCEPT ![s] = @ + 1], r)
<1>1. hist[a] \in [Scenarios -> Nat] /\ \A t \in Scenarios : hist[a][t] = 0
  BY ScenarioAssumption DEF RunInv, Follows, Exists
<1> QED BY <1>1 DEF Follows

\* _remember, after _finish_run of what was there
LEMMA MovedFollows ==
    ASSUME NEW a \in Accounts, RunInv, NEW s \in Scenarios, NEW r, r.scen = s, ~r.finished
    PROVE  /\ Follows(HistoryMoved(a, s)[a], r)
           /\ HistoryMoved(a, s) = [hist EXCEPT ![a] = HistoryMoved(a, s)[a]]
<1> DEFINE h == [t \in Scenarios |->
                   LET rest == IF t = run[a].scen /\ ~run[a].finished THEN 0 ELSE hist[a][t]
                   IN  rest + IF t = s THEN 1 ELSE 0]
<1>1. HistoryMoved(a, s) = [hist EXCEPT ![a] = h]
  BY DEF HistoryMoved
<1>2. HistoryMoved(a, s)[a] = h
  BY <1>1 DEF RunInv
<1>3. \A t \in Scenarios : h[t] = IF t = s THEN 1 ELSE 0
  BY DEF RunInv, Follows
<1>4. Follows(h, r)
  BY <1>3 DEF Follows
<1> QED BY <1>1, <1>2, <1>4

\* A run that ends takes its assignment with it.
LEMMA EndedFollows ==
    ASSUME NEW a \in Accounts, RunInv, Exists(run[a]), ~run[a].finished
    PROVE  LET r == [run[a] EXCEPT !.finished = TRUE, !.awaiting = FALSE] IN
           /\ RunShape(r)
           /\ Follows([hist[a] EXCEPT ![run[a].scen] = 0], r)
<1> DEFINE r == [run[a] EXCEPT !.finished = TRUE, !.awaiting = FALSE]
<1>1. RunShape(run[a]) /\ Follows(hist[a], run[a])
  BY DEF RunInv
<1>2. RunShape(r) /\ r.scen = run[a].scen /\ r.finished
  <2> DEFINE q == WithFinished(run[a], TRUE)
  <2>1. Fields(q) /\ q.scen = run[a].scen /\ q.finished = TRUE
    BY <1>1, OneField DEF RunShape
  <2> HIDE DEF q
  <2>2. r = WithAwaiting(q, FALSE)
    BY DEF WithAwaiting, WithFinished, q
  <2> HIDE DEF r
  <2>3. Fields(r) /\ r.scen = run[a].scen /\ r.finished = TRUE
    <3>1. Alike(q, WithAwaiting(q, FALSE))
      BY <2>1, OneField
    <3> QED BY <2>1, <2>2, <3>1 DEF Alike
  <2> QED BY <1>1, <2>3 DEF RunShape, Exists
<1> HIDE DEF r
<1>3. Follows([hist[a] EXCEPT ![run[a].scen] = 0], r)
  BY <1>1, <1>2 DEF Follows, RunShape
<1> QED BY <1>2, <1>3 DEF r

LEMMA EndKeepsInv ==
    ASSUME RunInv, NEW a \in Accounts, Exists(run[a]), ~run[a].finished,
           run' = [run EXCEPT ![a].finished = TRUE, ![a].awaiting = FALSE],
           hist' = [hist EXCEPT ![a][run[a].scen] = 0]
    PROVE  RunInv'
<1>1. run' = [run EXCEPT ![a] = [run[a] EXCEPT !.finished = TRUE, !.awaiting = FALSE]]
  BY DEF RunInv
<1>2. hist' = [hist EXCEPT ![a] = [hist[a] EXCEPT ![run[a].scen] = 0]]
  BY DEF RunInv
<1> QED BY <1>1, <1>2, EndedFollows, OneRunChanges

-----------------------------------------------------------------------------
(* Every step keeps the run and the history together *)

LEMMA InitRunInv == Init => RunInv
<1> SUFFICES ASSUME Init PROVE RunInv
  OBVIOUS
<1>1. RunShape(NoRun) /\ NoRun.scen = None
  BY DEF RunShape, Fields, NoRun
<1>2. \A a \in Accounts : run[a] = NoRun /\ hist[a] = [s \in Scenarios |-> 0]
  BY DEF Init
<1>3. Follows([s \in Scenarios |-> 0], NoRun)
  BY <1>1, ScenarioAssumption DEF Follows
<1>4. run = [a \in Accounts |-> run[a]] /\ hist = [a \in Accounts |-> hist[a]]
  BY DEF Init
<1> QED BY <1>1, <1>2, <1>3, <1>4 DEF RunInv

LEMMA NothingToTheRun ==
    ASSUME RunInv, UNCHANGED <<run, hist>>
    PROVE  RunInv'
  BY DEF RunInv

\* The engine
LEMMA EngineKeepsRun ==
    ASSUME RunInv, NEW w \in Workers, Step1(w)
    PROVE  RunInv'
<1>1. CASE SkipMessenger(w) /\ job[w].acct \in Accounts
  <2>1. hist' = hist /\ run' = [run EXCEPT ![job[w].acct] =
                                  [run[job[w].acct] EXCEPT !.skipped = job[w].seen.skipped \cup {job[w].step.order}]]
    BY <1>1 DEF SkipMessenger
  <2>2. run' = [a \in Accounts |-> run'[a]]
    BY <2>1 DEF RunInv
  <2>3. \A a \in Accounts : SameRun(run[a], run'[a])
    BY <2>1, FieldsOfRun DEF RunInv
  <2> QED BY <2>1, <2>2, <2>3, RunsKept
<1>2. CASE SkipMessenger(w) /\ job[w].acct \notin Accounts
  BY <1>2, NothingToTheRun DEF SkipMessenger, RunInv
<1>3. CASE ~SkipMessenger(w)
  BY <1>3, NothingToTheRun DEF Step1, Enter, Look, LaunchOk, LaunchRefused
<1> QED BY <1>1, <1>2, <1>3

\* Imports and the button
LEMMA SettleKeepsRun ==
    ASSUME RunInv, NEW a \in Accounts, Settle(a)
    PROVE  RunInv'
<1>1. CASE Exists(run[a]) /\ ~run[a].finished
  BY <1>1, EndKeepsInv DEF Settle
<1>2. CASE ~(Exists(run[a]) /\ ~run[a].finished)
  BY <1>2, NothingToTheRun DEF Settle
<1> QED BY <1>1, <1>2

LEMMA DefaultIsScenario == Default \in Scenarios
  BY ScenarioAssumption

LEMMA BeginKeepsRun ==
    ASSUME RunInv, NEW w \in Workers, NEW a \in Accounts, ImportDebtor(w, a) \/ Start(w, a)
    PROVE  RunInv'
<1>1. CASE ImportDebtor(w, a)
  <2>1. CASE Exists(run[a])
    BY <1>1, <2>1, NothingToTheRun DEF ImportDebtor, Bind
  <2>2. CASE ~Exists(run[a])
    <3> DEFINE r == [NewRun(Default) EXCEPT !.awaiting = ~auto]
               h == [hist[a] EXCEPT ![Default] = @ + 1]
    <3>1. run' = [run EXCEPT ![a] = r] /\ hist' = [hist EXCEPT ![a] = h]
      BY <1>1, <2>2 DEF ImportDebtor, Bind
    <3>2. RunShape(r) /\ r.scen = Default /\ ~r.finished
      BY DefaultIsScenario, NewRunShape DEF Begun, WithAwaiting
    <3> HIDE DEF r
    <3>3. Follows(h, r)
      BY <2>2, <3>2, DefaultIsScenario, FirstFollows
    <3> HIDE DEF h
    <3> QED BY <3>1, <3>2, <3>3, OneRunChanges
  <2> QED BY <2>1, <2>2
<1>2. CASE Start(w, a)
  <2>1. CASE Exists(run[a])
    <3>1. hist' = hist /\ run' = [run EXCEPT ![a] = [run[a] EXCEPT !.awaiting = FALSE]]
      BY <1>2, <2>1 DEF Start
    <3>2. run' = [b \in Accounts |-> run'[b]] /\ \A b \in Accounts : SameRun(run[b], run'[b])
      BY <3>1, FieldsOfRun DEF RunInv
    <3> QED BY <3>1, <3>2, RunsKept
  <2>2. CASE ~Exists(run[a])
    <3> DEFINE r == NewRun(Default)
               h == [hist[a] EXCEPT ![Default] = @ + 1]
    <3>1. run' = [run EXCEPT ![a] = r] /\ hist' = [hist EXCEPT ![a] = h]
      BY <1>2, <2>2 DEF Start
    <3>2. RunShape(r) /\ r.scen = Default /\ ~r.finished
      BY DefaultIsScenario, NewRunShape DEF Begun, WithAwaiting
    <3> HIDE DEF r
    <3>3. Follows(h, r)
      BY <2>2, <3>2, DefaultIsScenario, FirstFollows
    <3> HIDE DEF h
    <3> QED BY <3>1, <3>2, <3>3, OneRunChanges
  <2> QED BY <2>1, <2>2
<1> QED BY <1>1, <1>2

\* replace_accounts
LEMMA ReplaceKeepsRun ==
    ASSUME RunInv, NEW w \in Workers, NEW a \in Accounts, NEW s \in Scenarios, Replace(w, a, s)
    PROVE  RunInv'
<1>1. CASE run[a].scen = s /\ ~run[a].finished
  <2>1. hist' = hist /\ run' = [run EXCEPT ![a] = [run[a] EXCEPT !.ver = Len(scen[s].revs), !.awaiting = ~auto]]
    BY <1>1 DEF Replace
  <2>2. run' = [b \in Accounts |-> run'[b]] /\ \A b \in Accounts : SameRun(run[b], run'[b])
    BY <2>1, FieldsOfRun DEF RunInv
  <2> QED BY <2>1, <2>2, RunsKept
<1>2. CASE ~(run[a].scen = s /\ ~run[a].finished)
  <2> DEFINE r == [NewRun(s) EXCEPT !.awaiting = ~auto, !.aged = run[a].aged]
  <2>1. run' = [run EXCEPT ![a] = r] /\ hist' = HistoryMoved(a, s)
    BY <1>2 DEF Replace
  <2>2. r = BegunWith(s, ~auto, run[a].aged)
    BY DEF BegunWith, WithAged, WithAwaiting
  <2>3. RunShape(r) /\ r.scen = s /\ ~r.finished
    <3> HIDE DEF r
    <3> QED BY <2>2, NewRunShape DEF Begun
  <2> HIDE DEF r
  <2> QED BY <2>1, <2>3, MovedFollows, OneRunChanges
<1> QED BY <1>1, <1>2

\* assign_run: also of a run that is over, and stays over.
LEMMA AssignKeepsRun ==
    ASSUME RunInv, NEW w \in Workers, NEW a \in Accounts, NEW s \in Scenarios,
           NEW u \in BOOLEAN, NEW p \in BOOLEAN, Assign(w, a, s, u, p)
    PROVE  RunInv'
<1> DEFINE ends == run[a].scen # s /\ ~run[a].finished
<1>1. PICK ver, waits, skipped :
          run' = [run EXCEPT ![a] = [run[a] EXCEPT !.scen = s, !.ver = ver, !.paused = p, !.awaiting = waits,
                                                   !.skipped = skipped]]
  BY DEF Assign
<1> DEFINE r == [run[a] EXCEPT !.scen = s, !.ver = ver, !.paused = p, !.awaiting = waits, !.skipped = skipped]
<1>2. RunShape(run[a]) /\ Follows(hist[a], run[a])
  BY DEF RunInv
<1>3. RunShape(r) /\ r.scen = s /\ r.finished = run[a].finished
  <2> DEFINE q1 == WithScen(run[a], s)
             q2 == WithVer(q1, ver)
             q3 == WithPaused(q2, p)
             q4 == WithAwaiting(q3, waits)
  <2>1. Fields(q1) /\ q1.scen = s /\ q1.finished = run[a].finished
    BY <1>2, OneField DEF RunShape
  <2> HIDE DEF q1
  <2>2. Fields(q2) /\ q2.scen = s /\ q2.finished = run[a].finished
    BY <2>1, OneField DEF Alike
  <2> HIDE DEF q2
  <2>3. Fields(q3) /\ q3.scen = s /\ q3.finished = run[a].finished
    BY <2>2, OneField DEF Alike
  <2> HIDE DEF q3
  <2>4. Fields(q4) /\ q4.scen = s /\ q4.finished = run[a].finished
    BY <2>3, OneField DEF Alike
  <2> HIDE DEF q4
  <2>5. r = WithSkipped(q4, skipped)
    BY DEF q1, q2, q3, q4, WithScen, WithVer, WithPaused, WithAwaiting, WithSkipped
  <2> HIDE DEF r
  <2>6. Fields(r) /\ r.scen = s /\ r.finished = run[a].finished
    BY <2>4, <2>5, OneField DEF Alike
  <2> QED BY <1>2, <2>6, ScenarioAssumption DEF RunShape
<1>4. run' = [run EXCEPT ![a] = r]
  BY <1>1
<1> HIDE DEF r
<1>5. CASE ~Exists(run[a]) \/ ends
  <2>1. ~r.finished
    BY <1>2, <1>3, <1>5 DEF RunShape, Exists
  <2>2. hist' = HistoryMoved(a, s)
    BY <1>5 DEF Assign
  <2> QED BY <1>3, <1>4, <2>1, <2>2, MovedFollows, OneRunChanges
<1>6. CASE ~(~Exists(run[a]) \/ ends)
  <2>1. hist' = hist
    BY <1>6 DEF Assign
  <2>2. hist' = [hist EXCEPT ![a] = hist[a]]
    BY <2>1 DEF RunInv
  <2>3. Follows(hist[a], r)
    BY <1>2, <1>3, <1>6 DEF Follows, RunShape
  <2> QED BY <1>3, <1>4, <2>2, <2>3, OneRunChanges
<1> QED BY <1>5, <1>6

\* skip_current_step and stop_measure
LEMMA SkipAndStopKeepRun ==
    ASSUME RunInv, NEW w \in Workers, NEW a \in Accounts,
           SkipStep(w, a) \/ \E m \in rows[a] : StopRow(w, a, m)
    PROVE  RunInv'
<1>1. CASE SkipStep(w, a)
  <2>1. PICK o : hist' = hist /\ run' = [run EXCEPT ![a].skipped = @ \cup {o}]
    BY <1>1 DEF SkipStep
  <2>2. run' = [run EXCEPT ![a] = [run[a] EXCEPT !.skipped = run[a].skipped \cup {o}]]
    BY <2>1 DEF RunInv
  <2>3. run' = [b \in Accounts |-> run'[b]] /\ \A b \in Accounts : SameRun(run[b], run'[b])
    BY <2>2, FieldsOfRun DEF RunInv
  <2> QED BY <2>1, <2>3, RunsKept
<1>2. ASSUME NEW m \in rows[a], StopRow(w, a, m)
      PROVE  RunInv'
  <2>1. \/ UNCHANGED <<run, hist>>
        \/ /\ Exists(run[a]) /\ ~run[a].finished
           /\ run' = [run EXCEPT ![a].finished = TRUE, ![a].awaiting = FALSE]
           /\ hist' = [hist EXCEPT ![a][run[a].scen] = 0]
    BY <1>2 DEF StopRow
  <2> QED BY <2>1, NothingToTheRun, EndKeepsInv
<1> QED BY <1>1, <1>2

\* publish and its moved runs
LEMMA PublishKeepsRun ==
    ASSUME RunInv, NEW s, NEW p, NEW mv, PublishAs(s, p, mv), hist' = hist
    PROVE  RunInv'
<1>1. run' = [b \in Accounts |-> IF mv /\ run[b].scen = s
                                 THEN [run[b] EXCEPT !.ver = Len(scen[s].revs) + 1] ELSE run[b]]
  BY DEF PublishAs
<1>2. run' = [b \in Accounts |-> run'[b]] /\ \A b \in Accounts : SameRun(run[b], run'[b])
  BY <1>1, FieldsOfRun DEF RunInv
<1> QED BY <1>2, RunsKept

LEMMA DaysKeepRun ==
    ASSUME RunInv, DayPasses
    PROVE  RunInv'
<1>1. hist' = hist
      /\ run' = [b \in Accounts |-> IF Exists(run[b]) THEN [run[b] EXCEPT !.aged = TRUE] ELSE run[b]]
  BY DEF DayPasses
<1>2. run' = [b \in Accounts |-> run'[b]] /\ \A b \in Accounts : SameRun(run[b], run'[b])
  BY <1>1, FieldsOfRun DEF RunInv
<1> QED BY <1>1, <1>2, RunsKept

LEMMA NextKeepsRun ==
    ASSUME RunInv, [Next]_vars
    PROVE  RunInv'
<1>1. ASSUME NEW w \in Workers, Step1(w) PROVE RunInv'
  BY <1>1, EngineKeepsRun
<1>2. ASSUME NEW w \in Workers, NEW a \in Accounts, Import(w, a) \/ Start(w, a)
      PROVE  RunInv'
  BY <1>2, SettleKeepsRun, BeginKeepsRun DEF Import, ImportPaid
<1>3. ASSUME NEW w \in Workers, NEW a \in Accounts, NEW s \in Scenarios,
             Replace(w, a, s) \/ \E u, p \in BOOLEAN : Assign(w, a, s, u, p)
      PROVE  RunInv'
  BY <1>3, ReplaceKeepsRun, AssignKeepsRun
<1>4. ASSUME NEW w \in Workers, NEW a \in Accounts,
             SkipStep(w, a) \/ \E m \in rows[a] : StopRow(w, a, m)
      PROVE  RunInv'
  BY <1>4, SkipAndStopKeepRun
<1>5. ASSUME NEW w \in Workers, NEW a \in Accounts, NEW m \in rows[a],
             (\E st \in Outcomes : FinishRow(w, a, m, st)) \/ \E st \in {"open", "done"} : SyncClaim(w, a, m, st)
      PROVE  RunInv'
  BY <1>5, NothingToTheRun DEF FinishRow, SyncClaim
<1>6. ASSUME NEW w \in Workers, NEW a \in Accounts, OpenCase(w, a)
      PROVE  RunInv'
  BY <1>6, NothingToTheRun DEF OpenCase
<1>7. ASSUME NEW w \in Workers, NEW s \in Scenarios,
             \/ \E p \in Plans : EditDraft(w, s, p)
             \/ \E t \in Scenarios : CopyScenario(w, s, t)
      PROVE  RunInv'
  BY <1>7, NothingToTheRun DEF EditDraft, CopyScenario
<1>8. ASSUME NEW w \in Workers, NEW s \in Scenarios, NEW mv \in BOOLEAN,
             Publish(w, s, mv) \/ \E v \in 1..MaxVersion : RestoreScenario(w, s, v, mv)
      PROVE  RunInv'
  BY <1>8, PublishKeepsRun DEF Publish, RestoreScenario
<1>9. CASE SetMode \/ DayPasses
  BY <1>9, NothingToTheRun, DaysKeepRun DEF SetMode
<1>10. ASSUME NEW a \in Accounts, Debt(a) \/ Block(a) \/ Deliver(a) \/ CutOff(a)
       PROVE  RunInv'
  BY <1>10, NothingToTheRun DEF Debt, Block, Deliver, CutOff
<1>11. CASE UNCHANGED vars
  BY <1>11, NothingToTheRun DEF vars
<1> QED BY <1>1, <1>2, <1>3, <1>4, <1>5, <1>6, <1>7, <1>8, <1>9, <1>10, <1>11 DEF Next

THEOREM InvHolds == Spec => []RunInv
<1>1. RunInv /\ [Next]_vars => RunInv'
  BY NextKeepsRun
<1> QED BY InitRunInv, <1>1, PTL DEF Spec

\* The open assignments of every account are the scenario of its run, and none when it is over.
THEOREM HistoryFollowsRun == Spec => []AssignmentsFollowRun
<1>1. RunInv => AssignmentsFollowRun
  BY DEF RunInv, Follows, AssignmentsFollowRun
<1> QED BY InvHolds, <1>1, PTL

-----------------------------------------------------------------------------
(* Published versions                                                      *)

ScenInv == scen \in [Scenarios -> Scenario]

\* What a version becomes when s changes to c: itself, or the upgrade of a stock chain.
Kept(c, s) ==
    \A v \in DOMAIN scen[s].revs :
        v \in DOMAIN c.revs /\ c.revs[v] \in {scen[s].revs[v], Upgraded(scen[s].revs[v])}

RevisionsKept == \A s \in Scenarios : Kept(scen'[s], s)

LEMMA OneScenarioChanges ==
    ASSUME ScenInv, NEW s \in Scenarios, NEW c \in Scenario, Kept(c, s),
           scen' = [scen EXCEPT ![s] = c]
    PROVE  ScenInv' /\ RevisionsKept
  BY DEF ScenInv, RevisionsKept, Kept

LEMMA NoScenarioChanges ==
    ASSUME ScenInv, UNCHANGED scen
    PROVE  ScenInv' /\ RevisionsKept
  BY DEF ScenInv, RevisionsKept, Kept

LEMMA UpgradedIsPlan == \A p \in Plans : Upgraded(p) \in Plans
  BY ScenarioAssumption DEF Upgraded

\* upgrade_legacy_scenario, by an import or the button
LEMMA UpgradeKeepsVersions ==
    ASSUME ScenInv, scen' = Upgrade(Default)
    PROVE  ScenInv' /\ RevisionsKept
<1> DEFINE revs == [v \in DOMAIN scen[Default].revs |-> Upgraded(scen[Default].revs[v])]
           c == [scen[Default] EXCEPT !.draft = Upgraded(@), !.revs = revs]
<1>1. scen[Default] \in Scenario
  BY DefaultIsScenario DEF ScenInv
<1>2. revs \in Seq(Plans) /\ DOMAIN revs = DOMAIN scen[Default].revs
  BY <1>1, UpgradedIsPlan DEF Scenario
<1>3. c \in Scenario /\ c.revs = revs
  <2> HIDE DEF revs
  <2> QED BY <1>1, <1>2, UpgradedIsPlan DEF Scenario
<1>4. scen' = [scen EXCEPT ![Default] = c]
  BY DefaultIsScenario DEF Upgrade, ScenInv
<1> HIDE DEF c
<1>5. Kept(c, Default)
  BY <1>2, <1>3 DEF Kept
<1> QED BY <1>3, <1>4, <1>5, DefaultIsScenario, OneScenarioChanges

\* The editor appends a version or changes the draft.
LEMMA EditorKeepsVersions ==
    ASSUME ScenInv, NEW s \in Scenarios, NEW p \in Plans, NEW st \in {"draft", "active"},
           \/ scen' = [scen EXCEPT ![s].status = st, ![s].draft = p]
           \/ scen' = [scen EXCEPT ![s].status = st, ![s].draft = p, ![s].revs = Append(@, p)]
    PROVE  ScenInv' /\ RevisionsKept
<1>1. scen[s] \in Scenario
  BY DEF ScenInv
<1>2. CASE scen' = [scen EXCEPT ![s].status = st, ![s].draft = p]
  <2> DEFINE c == [scen[s] EXCEPT !.status = st, !.draft = p]
  <2>1. c \in Scenario /\ c.revs = scen[s].revs
    BY <1>1 DEF Scenario
  <2>2. scen' = [scen EXCEPT ![s] = c]
    BY <1>2 DEF ScenInv
  <2> HIDE DEF c
  <2>3. Kept(c, s)
    BY <2>1 DEF Kept
  <2> QED BY <2>1, <2>2, <2>3, OneScenarioChanges
<1>3. CASE scen' = [scen EXCEPT ![s].status = st, ![s].draft = p, ![s].revs = Append(@, p)]
  <2> DEFINE revs == Append(scen[s].revs, p)
             c == [scen[s] EXCEPT !.status = st, !.draft = p, !.revs = revs]
  <2>1. scen[s].revs \in Seq(Plans) /\ revs \in Seq(Plans)
    BY <1>1 DEF Scenario
  <2>2. c \in Scenario /\ c.revs = revs
    <3> HIDE DEF revs
    <3> QED BY <1>1, <2>1 DEF Scenario
  <2>3. scen' = [scen EXCEPT ![s] = c]
    BY <1>3 DEF ScenInv
  <2> HIDE DEF c
  <2>4. Kept(c, s)
    BY <2>1, <2>2 DEF Kept
  <2> QED BY <2>2, <2>3, <2>4, OneScenarioChanges
<1> QED BY <1>2, <1>3

LEMMA PublishKeepsVersions ==
    ASSUME ScenInv, NEW w \in Workers, NEW s \in Scenarios, NEW mv \in BOOLEAN,
           Publish(w, s, mv) \/ \E v \in 1..MaxVersion : RestoreScenario(w, s, v, mv)
    PROVE  ScenInv' /\ RevisionsKept
<1>1. scen[s] \in Scenario
  BY DEF ScenInv
<1>2. PICK p \in Plans : PublishAs(s, p, mv)
  BY <1>1 DEF Publish, RestoreScenario, Scenario
<1> QED BY <1>2, EditorKeepsVersions DEF PublishAs

LEMMA DraftKeepsVersions ==
    ASSUME ScenInv, NEW w \in Workers, NEW s \in Scenarios,
           \/ \E p \in Plans : EditDraft(w, s, p)
           \/ \E t \in Scenarios : CopyScenario(w, s, t)
    PROVE  ScenInv' /\ RevisionsKept
<1>1. \A t \in Scenarios : scen[t] \in Scenario
  BY DEF ScenInv
<1>2. ASSUME NEW p \in Plans, EditDraft(w, s, p) PROVE ScenInv' /\ RevisionsKept
  <2> DEFINE st == IF scen[s].status = "none" THEN "draft" ELSE scen[s].status
  <2>1. st \in {"draft", "active"}
    BY <1>1 DEF Scenario
  <2>2. scen' = [scen EXCEPT ![s].status = st, ![s].draft = p]
    BY <1>2 DEF EditDraft, ScenInv
  <2> HIDE DEF st
  <2> QED BY <2>1, <2>2, EditorKeepsVersions
<1>3. ASSUME NEW t \in Scenarios, CopyScenario(w, s, t) PROVE ScenInv' /\ RevisionsKept
  <2>1. scen[s].draft \in Plans
    BY <1>1 DEF Scenario
  <2> QED BY <1>3, <2>1, EditorKeepsVersions DEF CopyScenario
<1> QED BY <1>2, <1>3

LEMMA NextKeepsVersions ==
    ASSUME ScenInv, [Next]_vars
    PROVE  ScenInv' /\ RevisionsKept
<1>1. ASSUME NEW w \in Workers, Step1(w) PROVE UNCHANGED scen
  BY <1>1 DEF Step1, Enter, Look, SkipMessenger, LaunchOk, LaunchRefused
<1>2. ASSUME NEW w \in Workers, NEW a \in Accounts, Import(w, a) \/ Start(w, a)
      PROVE  UNCHANGED scen \/ scen' = Upgrade(Default)
  BY <1>2 DEF Import, ImportPaid, ImportDebtor, Bind, Start
<1>3. ASSUME NEW w \in Workers, NEW a \in Accounts, NEW s \in Scenarios,
             Replace(w, a, s) \/ \E u, p \in BOOLEAN : Assign(w, a, s, u, p)
      PROVE  UNCHANGED scen
  BY <1>3 DEF Replace, Assign
<1>4. ASSUME NEW w \in Workers, NEW a \in Accounts, SkipStep(w, a) \/ OpenCase(w, a)
      PROVE  UNCHANGED scen
  BY <1>4 DEF SkipStep, OpenCase
<1>5. ASSUME NEW w \in Workers, NEW a \in Accounts, NEW m \in rows[a],
             \/ StopRow(w, a, m)
             \/ \E st \in Outcomes : FinishRow(w, a, m, st)
             \/ \E st \in {"open", "done"} : SyncClaim(w, a, m, st)
      PROVE  UNCHANGED scen
  BY <1>5 DEF StopRow, FinishRow, SyncClaim
<1>6. CASE SetMode \/ DayPasses \/ UNCHANGED vars
  BY <1>6, NoScenarioChanges DEF SetMode, DayPasses, vars
<1>7. ASSUME NEW a \in Accounts, Debt(a) \/ Block(a) \/ Deliver(a) \/ CutOff(a)
      PROVE  UNCHANGED scen
  BY <1>7 DEF Debt, Block, Deliver, CutOff
<1> QED BY <1>1, <1>2, <1>3, <1>4, <1>5, <1>6, <1>7, NoScenarioChanges, UpgradeKeepsVersions,
           PublishKeepsVersions, DraftKeepsVersions DEF Next

LEMMA InitScenInv == Init => ScenInv
<1> SUFFICES ASSUME Init PROVE ScenInv
  OBVIOUS
<1>1. \A s \in Scenarios : FirstPlan[s] \in Plans
  BY ScenarioAssumption
<1>2. \A p \in Plans : <<p>> \in Seq(Plans)
  OBVIOUS
<1>3. << >> \in Seq(Plans)
  OBVIOUS
<1> QED BY <1>1, <1>2, <1>3 DEF Init, ScenInv, Scenario

\* What a version's steps are never changes, the upgrade of a stock chain excepted.
THEOREM VersionsAreKept == Spec => RevisionsStay
<1>1. ScenInv /\ [Next]_vars => ScenInv' /\ RevisionsKept
  BY NextKeepsVersions
<1>2. RevisionsKept =>
        \A s \in Scenarios : \A v \in DOMAIN scen[s].revs :
          /\ v \in DOMAIN scen'[s].revs
          /\ scen'[s].revs[v] \in {scen[s].revs[v], Upgraded(scen[s].revs[v])}
  BY DEF RevisionsKept, Kept
<1> QED BY InitScenInv, <1>1, <1>2, PTL DEF Spec, RevisionsStay

-----------------------------------------------------------------------------
(* A run's version exists                                                  *)

\* No scenario has more versions than the bound, an active one has one, and the one an
\* import binds is active.
VersionsSound ==
    /\ \A s \in Scenarios : /\ Len(scen[s].revs) <= MaxVersion
                            /\ scen[s].status = "active" => scen[s].revs # <<>>
    /\ scen[Default].status = "active"

\* What a step does to the scenarios: nothing, the upgrade, a draft, or one version more.
NewDraft(s, p, st) ==
    /\ st = "active" <=> scen[s].status = "active"
    /\ scen' = [scen EXCEPT ![s].status = st, ![s].draft = p]

NewVersion(s, p) ==
    /\ Len(scen[s].revs) < MaxVersion
    /\ scen' = [scen EXCEPT ![s].status = "active", ![s].draft = p, ![s].revs = Append(@, p)]

LEMMA ScenarioSteps ==
    ASSUME ScenInv, [Next]_vars
    PROVE  \/ UNCHANGED scen
           \/ scen' = Upgrade(Default)
           \/ \E s \in Scenarios, p \in Plans, st \in {"draft", "active"} : NewDraft(s, p, st)
           \/ \E s \in Scenarios, p \in Plans : NewVersion(s, p)
<1> DEFINE Goal == \/ UNCHANGED scen
                   \/ scen' = Upgrade(Default)
                   \/ \E s \in Scenarios, p \in Plans, st \in {"draft", "active"} : NewDraft(s, p, st)
                   \/ \E s \in Scenarios, p \in Plans : NewVersion(s, p)
<1>0. \A s \in Scenarios : scen[s] \in Scenario
  BY DEF ScenInv
<1>1. ASSUME NEW w \in Workers, Step1(w) PROVE UNCHANGED scen
  BY <1>1 DEF Step1, Enter, Look, SkipMessenger, LaunchOk, LaunchRefused
<1>2. ASSUME NEW w \in Workers, NEW a \in Accounts, Import(w, a) \/ Start(w, a)
      PROVE  UNCHANGED scen \/ scen' = Upgrade(Default)
  BY <1>2 DEF Import, ImportPaid, ImportDebtor, Bind, Start
<1>3. ASSUME NEW w \in Workers, NEW a \in Accounts,
             \/ \E s \in Scenarios : Replace(w, a, s) \/ \E u, p \in BOOLEAN : Assign(w, a, s, u, p)
             \/ SkipStep(w, a) \/ OpenCase(w, a)
             \/ \E m \in rows[a] : \/ StopRow(w, a, m)
                                   \/ \E st \in Outcomes : FinishRow(w, a, m, st)
                                   \/ \E st \in {"open", "done"} : SyncClaim(w, a, m, st)
      PROVE  UNCHANGED scen
  BY <1>3 DEF Replace, Assign, SkipStep, OpenCase, StopRow, FinishRow, SyncClaim
<1>4. CASE SetMode \/ DayPasses \/ UNCHANGED vars
  BY <1>4 DEF SetMode, DayPasses, vars
<1>5. ASSUME NEW a \in Accounts, Debt(a) \/ Block(a) \/ Deliver(a) \/ CutOff(a)
      PROVE  UNCHANGED scen
  BY <1>5 DEF Debt, Block, Deliver, CutOff
<1>6. ASSUME NEW w \in Workers, NEW s \in Scenarios, NEW p \in Plans, EditDraft(w, s, p)
      PROVE  \E st \in {"draft", "active"} : NewDraft(s, p, st)
  <2> DEFINE st == IF scen[s].status = "none" THEN "draft" ELSE scen[s].status
  <2>1. st \in {"draft", "active"} /\ (st = "active" <=> scen[s].status = "active")
    BY <1>0 DEF Scenario
  <2>2. scen' = [scen EXCEPT ![s].status = st, ![s].draft = p]
    BY <1>6 DEF EditDraft, ScenInv
  <2> HIDE DEF st
  <2> QED BY <2>1, <2>2 DEF NewDraft
<1>7. ASSUME NEW w \in Workers, NEW s \in Scenarios, NEW t \in Scenarios, CopyScenario(w, s, t)
      PROVE  \E p \in Plans : NewDraft(t, p, "draft")
  <2>1. scen[s].draft \in Plans
    BY <1>0 DEF Scenario
  <2> QED BY <1>7, <2>1 DEF CopyScenario, NewDraft
<1>8. ASSUME NEW w \in Workers, NEW s \in Scenarios, NEW mv \in BOOLEAN,
             Publish(w, s, mv) \/ \E v \in 1..MaxVersion : RestoreScenario(w, s, v, mv)
      PROVE  \E p \in Plans : NewVersion(s, p)
  <2>1. PICK p \in Plans : PublishAs(s, p, mv)
    BY <1>0, <1>8 DEF Publish, RestoreScenario, Scenario
  <2> QED BY <2>1 DEF PublishAs, NewVersion
<1> QED BY <1>1, <1>2, <1>3, <1>4, <1>5, <1>6, <1>7, <1>8 DEF Next

LEMMA NextKeepsSound ==
    ASSUME ScenInv, VersionsSound, [Next]_vars
    PROVE  VersionsSound'
<1>0. /\ \A s \in Scenarios : scen[s] \in Scenario
      /\ DOMAIN scen = Scenarios
      /\ Default \in Scenarios /\ MaxVersion \in Nat
  BY DefaultIsScenario, ScenarioAssumption DEF ScenInv
<1>1. CASE UNCHANGED scen
  BY <1>1 DEF VersionsSound
<1>2. CASE scen' = Upgrade(Default)
  <2> DEFINE revs == [v \in DOMAIN scen[Default].revs |-> Upgraded(scen[Default].revs[v])]
  <2>1. revs \in Seq(Plans) /\ Len(revs) = Len(scen[Default].revs)
    BY <1>0, UpgradedIsPlan DEF Scenario
  <2>2. /\ scen'[Default].revs = revs /\ scen'[Default].status = scen[Default].status
        /\ \A s \in Scenarios : s # Default => scen'[s] = scen[s]
    <3> HIDE DEF revs
    <3> QED BY <1>0, <1>2 DEF Upgrade, Scenario, revs
  <2>3. scen[Default].revs \in Seq(Plans)
    BY <1>0 DEF Scenario
  <2> HIDE DEF revs
  <2>4. Len(scen[Default].revs) # 0
    BY <1>0, <2>3 DEF VersionsSound
  <2>5. scen'[Default].revs # <<>>
    BY <2>1, <2>2, <2>4
  <2> QED BY <2>1, <2>2, <2>5 DEF VersionsSound
<1>3. ASSUME NEW s \in Scenarios, NEW p \in Plans, NEW st \in {"draft", "active"}, NewDraft(s, p, st)
      PROVE  VersionsSound'
  <2>1. /\ scen'[s].revs = scen[s].revs /\ (scen'[s].status = "active" <=> scen[s].status = "active")
        /\ \A t \in Scenarios : t # s => scen'[t] = scen[t]
    BY <1>0, <1>3 DEF NewDraft, Scenario
  <2> QED BY <1>0, <2>1 DEF VersionsSound
<1>4. ASSUME NEW s \in Scenarios, NEW p \in Plans, NewVersion(s, p)
      PROVE  VersionsSound'
  <2>1. /\ scen'[s].revs = Append(scen[s].revs, p) /\ scen'[s].status = "active"
        /\ \A t \in Scenarios : t # s => scen'[t] = scen[t]
    BY <1>0, <1>4 DEF NewVersion, Scenario
  <2>2. /\ scen[s].revs \in Seq(Plans) /\ Len(Append(scen[s].revs, p)) = Len(scen[s].revs) + 1
        /\ Append(scen[s].revs, p) # <<>>
    BY <1>0 DEF Scenario
  <2>3. Len(scen'[s].revs) <= MaxVersion
    BY <1>0, <1>4, <2>1, <2>2 DEF NewVersion
  <2> QED BY <1>0, <2>1, <2>2, <2>3 DEF VersionsSound
<1> QED BY <1>1, <1>2, <1>3, <1>4, ScenarioSteps

LEMMA InitSound ==
    ASSUME Init
    PROVE  VersionsSound
<1>1. \A s \in Scenarios : scen[s].revs = IF s \in Published THEN <<FirstPlan[s]>> ELSE <<>>
  BY DEF Init
<1>2. \A s \in Scenarios : scen[s].status = "active" <=> s \in Published
  BY DEF Init
<1>3. MaxVersion \in Nat /\ MaxVersion >= 1 /\ Default \in Published /\ Default \in Scenarios
  BY ScenarioAssumption
<1>4. \A p : Len(<<p>>) = 1 /\ <<p>> # <<>>
  OBVIOUS
<1>5. Len(<<>>) = 0
  OBVIOUS
<1>6. ASSUME NEW s \in Scenarios PROVE Len(scen[s].revs) <= MaxVersion
  <2>1. Len(scen[s].revs) = 0 \/ Len(scen[s].revs) = 1
    <3>1. scen[s].revs = <<FirstPlan[s]>> \/ scen[s].revs = <<>>
      BY <1>1
    <3> QED BY <1>4, <1>5, <3>1
  <2> DEFINE n == Len(scen[s].revs)
  <2>2. n = 0 \/ n = 1
    BY <2>1
  <2> HIDE DEF n
  <2>3. n <= MaxVersion
    BY <1>3, <2>2
  <2> QED BY <2>3 DEF n
<1> QED BY <1>1, <1>2, <1>3, <1>4, <1>6 DEF VersionsSound

\* A run is of a version that its scenario has.
OfVersion(sc, r) == r.scen # None => r.ver \in DOMAIN sc[r.scen].revs

RunsTyped ==
    /\ run \in [Accounts -> Run]
    /\ \A a \in Accounts : OfVersion(scen, run[a])

ScenRunInv == ScenInv /\ VersionsSound /\ RunsTyped

\* A version that is there stays there.
LEMMA VersionStays ==
    ASSUME RevisionsKept, NEW r \in Run, OfVersion(scen, r)
    PROVE  OfVersion(scen', r)
  BY DEF RevisionsKept, Kept, OfVersion, Run

LEMMA OneTypedRunChanges ==
    ASSUME RunsTyped, RevisionsKept, NEW a \in Accounts, NEW r \in Run, OfVersion(scen, r),
           run' = [run EXCEPT ![a] = r]
    PROVE  RunsTyped'
<1>1. run' = [b \in Accounts |-> IF b = a THEN r ELSE run[b]] /\ run' \in [Accounts -> Run]
  BY DEF RunsTyped
<1>2. \A b \in Accounts : run'[b] \in Run /\ OfVersion(scen, run'[b])
  BY <1>1 DEF RunsTyped
<1> QED BY <1>1, <1>2, VersionStays DEF RunsTyped

LEMMA NoTypedRunChanges ==
    ASSUME RunsTyped, RevisionsKept, UNCHANGED run
    PROVE  RunsTyped'
  BY VersionStays DEF RunsTyped

\* The version a run begins with
LEMMA LastVersion ==
    ASSUME ScenInv, VersionsSound, NEW s \in Scenarios, scen[s].status = "active"
    PROVE  /\ Len(scen[s].revs) \in DOMAIN scen[s].revs
           /\ Len(scen[s].revs) \in 0..MaxVersion
<1>1. scen[s].revs \in Seq(Plans) /\ scen[s].revs # <<>> /\ Len(scen[s].revs) <= MaxVersion
      /\ MaxVersion \in Nat
  BY ScenarioAssumption DEF ScenInv, Scenario, VersionsSound
<1> QED BY <1>1

LEMMA NoRunTyped == NoRun \in Run /\ NoRun.scen = None
  BY ScenarioAssumption DEF NoRun, Run

LEMMA NewRunTyped ==
    ASSUME ScenInv, VersionsSound, NEW s \in Scenarios, scen[s].status = "active"
    PROVE  /\ NewRun(s) \in Run
           /\ NewRun(s).scen = s /\ NewRun(s).ver = Len(scen[s].revs)
           /\ NewRun(s).skipped = {} /\ ~NewRun(s).finished /\ ~NewRun(s).paused /\ ~NewRun(s).awaiting
  BY LastVersion DEF NewRun, NoRun, Run

Typed(r) == r \in Run /\ OfVersion(scen, r)

\* Fields that are not about the version
LEMMA TypedFlags ==
    ASSUME NEW r, Typed(r), NEW x \in BOOLEAN, NEW y \in BOOLEAN
    PROVE  /\ Typed([r EXCEPT !.awaiting = x])
           /\ Typed([r EXCEPT !.aged = x])
           /\ Typed([r EXCEPT !.finished = x, !.awaiting = y])
           /\ Typed([r EXCEPT !.awaiting = x, !.aged = y])
  BY DEF Run, OfVersion, Typed

LEMMA TypedSkipped ==
    ASSUME NEW r, Typed(r), NEW x \in SUBSET Orders
    PROVE  Typed([r EXCEPT !.skipped = x])
  BY DEF Run, OfVersion, Typed

LEMMA TypedVersion ==
    ASSUME NEW r, r \in Run, NEW v \in 0..MaxVersion, NEW x \in BOOLEAN
    PROVE  /\ [r EXCEPT !.ver = v] \in Run
           /\ [r EXCEPT !.ver = v].scen = r.scen /\ [r EXCEPT !.ver = v].ver = v
           /\ [r EXCEPT !.ver = v, !.awaiting = x] \in Run
           /\ [r EXCEPT !.ver = v, !.awaiting = x].scen = r.scen
           /\ [r EXCEPT !.ver = v, !.awaiting = x].ver = v
  BY DEF Run

\* What the engine does to a run is to skip the order of a messenger step.
LEMMA EngineKeepsTyped ==
    ASSUME RunsTyped, RevisionsKept, NEW w \in Workers, Step1(w),
           job[w].at = "launch" => job[w].step \in Step /\ job[w].seen \in Run
    PROVE  RunsTyped'
<1>1. CASE SkipMessenger(w) /\ job[w].acct \in Accounts
  <2> DEFINE a == job[w].acct
             sk == job[w].seen.skipped \cup {job[w].step.order}
  <2>1. sk \in SUBSET Orders
    BY <1>1 DEF SkipMessenger, Run, Step, Orders
  <2>2. run' = [run EXCEPT ![a] = [run[a] EXCEPT !.skipped = sk]]
    BY <1>1 DEF SkipMessenger
  <2> HIDE DEF sk
  <2>3. Typed(run[a])
    BY <1>1 DEF RunsTyped, Typed
  <2>4. Typed([run[a] EXCEPT !.skipped = sk])
    BY <2>1, <2>3, TypedSkipped
  <2> QED BY <1>1, <2>2, <2>4, OneTypedRunChanges DEF Typed
<1>2. CASE SkipMessenger(w) /\ job[w].acct \notin Accounts
  BY <1>2, NoTypedRunChanges DEF SkipMessenger, RunsTyped
<1>3. CASE ~SkipMessenger(w)
  BY <1>3, NoTypedRunChanges DEF Step1, Enter, Look, LaunchOk, LaunchRefused
<1> QED BY <1>1, <1>2, <1>3

LEMMA EndKeepsTyped ==
    ASSUME RunsTyped, RevisionsKept, NEW a \in Accounts,
           run' = [run EXCEPT ![a].finished = TRUE, ![a].awaiting = FALSE]
    PROVE  RunsTyped'
<1> DEFINE r == [run[a] EXCEPT !.finished = TRUE, !.awaiting = FALSE]
<1>1. run' = [run EXCEPT ![a] = r]
  BY DEF RunsTyped
<1>2. r \in Run /\ OfVersion(scen, r)
  <2>1. Typed(run[a])
    BY DEF RunsTyped, Typed
  <2> QED BY <2>1, TypedFlags DEF Typed
<1> HIDE DEF r
<1> QED BY <1>1, <1>2, OneTypedRunChanges

LEMMA BeginKeepsTyped ==
    ASSUME ScenRunInv, RevisionsKept, auto \in BOOLEAN, NEW w \in Workers, NEW a \in Accounts,
           ImportDebtor(w, a) \/ Start(w, a)
    PROVE  RunsTyped'
<1>0. /\ Default \in Scenarios /\ scen[Default].status = "active"
      /\ Typed(run[a]) /\ (~auto) \in BOOLEAN
  BY DefaultIsScenario DEF ScenRunInv, VersionsSound, RunsTyped, Typed
<1>1. Typed(NewRun(Default))
  BY <1>0, NewRunTyped, LastVersion DEF ScenRunInv, Typed, OfVersion
<1>2. CASE ImportDebtor(w, a) /\ ~Exists(run[a])
  <2> DEFINE r == [NewRun(Default) EXCEPT !.awaiting = ~auto]
  <2>1. run' = [run EXCEPT ![a] = r]
    BY <1>2 DEF ImportDebtor, Bind
  <2>2. Typed(r)
    BY <1>0, <1>1, TypedFlags
  <2> HIDE DEF r
  <2> QED BY <2>1, <2>2, OneTypedRunChanges DEF ScenRunInv, Typed
<1>3. CASE Start(w, a) /\ ~Exists(run[a])
  <2>1. run' = [run EXCEPT ![a] = NewRun(Default)]
    BY <1>3 DEF Start
  <2> QED BY <1>1, <2>1, OneTypedRunChanges DEF ScenRunInv, Typed
<1>4. CASE Start(w, a) /\ Exists(run[a])
  <2>1. run' = [run EXCEPT ![a] = [run[a] EXCEPT !.awaiting = FALSE]]
    BY <1>4 DEF Start
  <2>2. Typed([run[a] EXCEPT !.awaiting = FALSE])
    BY <1>0, TypedFlags
  <2> QED BY <2>1, <2>2, OneTypedRunChanges DEF ScenRunInv, Typed
<1>5. CASE ImportDebtor(w, a) /\ Exists(run[a])
  BY <1>5, NoTypedRunChanges DEF ImportDebtor, Bind, ScenRunInv
<1> QED BY <1>2, <1>3, <1>4, <1>5

LEMMA ReplaceKeepsTyped ==
    ASSUME ScenRunInv, RevisionsKept, auto \in BOOLEAN, NEW w \in Workers, NEW a \in Accounts,
           NEW s \in Scenarios, Replace(w, a, s)
    PROVE  RunsTyped'
<1>0. scen[s].status = "active" /\ run[a] \in Run /\ (~auto) \in BOOLEAN
  BY DEF Replace, ScenRunInv, RunsTyped
<1>1. Len(scen[s].revs) \in DOMAIN scen[s].revs /\ Len(scen[s].revs) \in 0..MaxVersion
  BY <1>0, LastVersion DEF ScenRunInv
<1>2. CASE run[a].scen = s /\ ~run[a].finished
  <2> DEFINE r == [run[a] EXCEPT !.ver = Len(scen[s].revs), !.awaiting = ~auto]
  <2>1. run' = [run EXCEPT ![a] = r]
    BY <1>2 DEF Replace, ScenRunInv, RunsTyped
  <2>2. r \in Run /\ r.scen = s /\ r.ver = Len(scen[s].revs)
    <3> DEFINE v == Len(scen[s].revs)
               x == ~auto
    <3>1. v \in 0..MaxVersion /\ x \in BOOLEAN
      BY <1>0, <1>1
    <3> HIDE DEF v, x
    <3>2. r = [run[a] EXCEPT !.ver = v, !.awaiting = x]
      BY DEF v, x
    <3> HIDE DEF r
    <3>3. /\ [run[a] EXCEPT !.ver = v, !.awaiting = x] \in Run
          /\ [run[a] EXCEPT !.ver = v, !.awaiting = x].scen = run[a].scen
          /\ [run[a] EXCEPT !.ver = v, !.awaiting = x].ver = v
      BY <1>0, <3>1 DEF Run
    <3>4. r \in Run /\ r.scen = run[a].scen /\ r.ver = v
      BY <3>2, <3>3
    <3> QED BY <1>2, <3>4 DEF v
  <2> HIDE DEF r
  <2> QED BY <1>1, <2>1, <2>2, OneTypedRunChanges DEF ScenRunInv, OfVersion
<1>3. CASE ~(run[a].scen = s /\ ~run[a].finished)
  <2> DEFINE n == NewRun(s)
             r == [n EXCEPT !.awaiting = ~auto, !.aged = run[a].aged]
  <2>1. run' = [run EXCEPT ![a] = r]
    BY <1>3 DEF Replace
  <2>2. n \in Run /\ n.scen = s /\ n.ver = Len(scen[s].revs)
    BY <1>0, NewRunTyped DEF ScenRunInv
  <2> HIDE DEF n
  <2>3. run[a].aged \in BOOLEAN /\ Typed(n)
    BY <1>0, <1>1, <2>2 DEF Run, Typed, OfVersion
  <2>4. Typed(r)
    BY <1>0, <2>3, TypedFlags
  <2> HIDE DEF r
  <2> QED BY <2>1, <2>4, OneTypedRunChanges DEF ScenRunInv, Typed
<1> QED BY <1>2, <1>3

LEMMA AssignKeepsTyped ==
    ASSUME ScenRunInv, RevisionsKept, auto \in BOOLEAN, NEW w \in Workers, NEW a \in Accounts,
           NEW s \in Scenarios, NEW u \in BOOLEAN, NEW p \in BOOLEAN, Assign(w, a, s, u, p)
    PROVE  RunsTyped'
<1> DEFINE ver   == IF u \/ run[a].scen # s THEN Len(scen[s].revs) ELSE run[a].ver
           ends  == run[a].scen # s /\ ~run[a].finished
           waits == IF p THEN run[a].awaiting /\ ~(ends /\ Exists(run[a])) ELSE ~auto
           skip  == IF ends THEN {} ELSE run[a].skipped
           r     == [run[a] EXCEPT !.scen = s, !.ver = ver, !.paused = p, !.awaiting = waits, !.skipped = skip]
<1>0. scen[s].status = "active" /\ run[a] \in Run /\ OfVersion(scen, run[a])
  BY DEF Assign, ScenRunInv, RunsTyped
<1>1. Len(scen[s].revs) \in DOMAIN scen[s].revs /\ Len(scen[s].revs) \in 0..MaxVersion
  BY <1>0, LastVersion DEF ScenRunInv
<1>2. run' = [run EXCEPT ![a] = r]
  BY DEF Assign
<1>3. ver \in 0..MaxVersion /\ ver \in DOMAIN scen[s].revs /\ waits \in BOOLEAN /\ skip \in SUBSET Orders
  <2>1. run[a].scen = s => s # None
    BY ScenarioAssumption
  <2> QED BY <1>0, <1>1, <2>1 DEF Run, OfVersion
<1> HIDE DEF ver, waits, skip
<1>4. r \in Run /\ r.scen = s /\ r.ver = ver
  BY <1>0, <1>3 DEF Run
<1> HIDE DEF r
<1> QED BY <1>2, <1>3, <1>4, OneTypedRunChanges DEF ScenRunInv, OfVersion

LEMMA PlanIsSteps ==
    ASSUME ScenInv, NEW r, Typed(r), Exists(r)
    PROVE  PlanOf(r) \in Seq(Step)
<1>1. r.scen \in Scenarios /\ r.ver \in DOMAIN scen[r.scen].revs
  BY DEF Typed, OfVersion, Exists, Run
<1>2. scen[r.scen].revs \in Seq(Plans)
  BY <1>1 DEF ScenInv, Scenario
<1>3. scen[r.scen].revs[r.ver] \in Plans
  BY <1>1, <1>2
<1> QED BY <1>3, ScenarioAssumption DEF PlanOf

LEMMA LeastOrder ==
    ASSUME NEW L, L \subseteq 1..3, L # {}
    PROVE  \E o \in L : \A q \in L : o <= q
<1>1. CASE 1 \in L
  BY <1>1
<1>2. CASE 1 \notin L /\ 2 \in L
  BY <1>2
<1>3. CASE 1 \notin L /\ 2 \notin L
  <2>1. PICK q \in L : TRUE
    OBVIOUS
  <2>2. \A x \in L : x = 3
    BY <1>3
  <2> QED BY <2>1, <2>2
<1> QED BY <1>1, <1>2, <1>3

LEMMA SkipKeepsTyped ==
    ASSUME ScenRunInv, RevisionsKept, NEW w \in Workers, NEW a \in Accounts, SkipStep(w, a)
    PROVE  RunsTyped'
<1> DEFINE left == {PlanOf(run[a])[i].order : i \in DOMAIN PlanOf(run[a])} \ DoneOrders(Own(a, run[a]), run[a])
           first == CHOOSE o \in left : \A q \in left : o <= q
<1>0. Typed(run[a]) /\ Exists(run[a])
  BY DEF SkipStep, ScenRunInv, RunsTyped, Typed
<1>1. PlanOf(run[a]) \in Seq(Step)
  BY <1>0, PlanIsSteps DEF ScenRunInv, Typed
<1>2. left \subseteq 1..3 /\ left # {}
  <2>1. \A i \in DOMAIN PlanOf(run[a]) : PlanOf(run[a])[i].order \in 1..3
    <3> DEFINE plan == PlanOf(run[a])
    <3> HIDE DEF plan
    <3>1. \A i \in DOMAIN plan : plan[i] \in Step
      BY <1>1 DEF plan
    <3>2. \A i \in DOMAIN plan : plan[i].order \in 1..3
      BY <3>1 DEF Step
    <3> QED BY <3>2 DEF plan
  <2> QED BY <2>1 DEF SkipStep
<1>3. first \in left
  <2> HIDE DEF left
  <2>1. \E o \in left : \A q \in left : o <= q
    BY <1>2, LeastOrder
  <2> QED BY <2>1
<1>4. run' = [run EXCEPT ![a] = [run[a] EXCEPT !.skipped = run[a].skipped \cup {first}]]
  BY DEF SkipStep
<1> HIDE DEF first
<1>5. run[a].skipped \cup {first} \in SUBSET Orders
  BY <1>0, <1>2, <1>3 DEF Run, Orders, Typed
<1>6. Typed([run[a] EXCEPT !.skipped = run[a].skipped \cup {first}])
  BY <1>0, <1>5, TypedSkipped
<1> QED BY <1>4, <1>6, OneTypedRunChanges DEF ScenRunInv, Typed

LEMMA PublishKeepsTyped ==
    ASSUME ScenRunInv, RevisionsKept, NEW s \in Scenarios, NEW p \in Plans, NEW mv \in BOOLEAN,
           PublishAs(s, p, mv)
    PROVE  RunsTyped'
<1> DEFINE v == Len(scen[s].revs) + 1
<1>0. /\ scen[s].revs \in Seq(Plans) /\ MaxVersion \in Nat
      /\ \A b \in Accounts : run[b] \in Run /\ OfVersion(scen, run[b])
  BY ScenarioAssumption DEF ScenRunInv, RunsTyped, ScenInv, Scenario
<1>1. v \in 0..MaxVersion
  BY <1>0 DEF PublishAs
<1>2. scen'[s].revs = Append(scen[s].revs, p)
  BY DEF PublishAs, ScenRunInv, ScenInv, Scenario
<1>3. v \in DOMAIN scen'[s].revs
  BY <1>0, <1>2
<1> HIDE DEF v
<1>4. run' = [b \in Accounts |-> IF mv /\ run[b].scen = s THEN [run[b] EXCEPT !.ver = v] ELSE run[b]]
  BY DEF PublishAs, v
<1>5. ASSUME NEW b \in Accounts PROVE run'[b] \in Run /\ OfVersion(scen', run'[b])
  <2>1. CASE mv /\ run[b].scen = s
    <3>1. run'[b] = [run[b] EXCEPT !.ver = v]
      BY <1>4, <2>1
    <3>2. run'[b] \in Run /\ run'[b].scen = s /\ run'[b].ver = v
      <4>1. run[b] \in Run /\ TRUE \in BOOLEAN
        BY <1>0
      <4>2. /\ [run[b] EXCEPT !.ver = v] \in Run
            /\ [run[b] EXCEPT !.ver = v].scen = run[b].scen /\ [run[b] EXCEPT !.ver = v].ver = v
        BY <1>1, <4>1, TypedVersion
      <4> QED BY <2>1, <3>1, <4>2
    <3> QED BY <1>3, <3>2 DEF OfVersion
  <2>2. CASE ~(mv /\ run[b].scen = s)
    BY <1>0, <1>4, <2>2, VersionStays
  <2> QED BY <2>1, <2>2
<1>6. run' \in [Accounts -> Run]
  BY <1>4, <1>5
<1> QED BY <1>5, <1>6 DEF RunsTyped

LEMMA DaysKeepTyped ==
    ASSUME RunsTyped, RevisionsKept, DayPasses
    PROVE  RunsTyped'
<1>0. run' = [b \in Accounts |-> IF Exists(run[b]) THEN [run[b] EXCEPT !.aged = TRUE] ELSE run[b]]
  BY DEF DayPasses
<1>1. ASSUME NEW b \in Accounts PROVE run'[b] \in Run /\ OfVersion(scen', run'[b])
  <2>1. Typed(run[b])
    BY DEF RunsTyped, Typed
  <2>2. run'[b] = run[b] \/ run'[b] = [run[b] EXCEPT !.aged = TRUE]
    BY <1>0
  <2>3. Typed(run'[b])
    BY <2>1, <2>2, TypedFlags
  <2> QED BY <2>3, VersionStays DEF Typed
<1>2. run' \in [Accounts -> Run]
  BY <1>0, <1>1
<1> QED BY <1>1, <1>2 DEF RunsTyped

-----------------------------------------------------------------------------
(* The rows of an account                                                  *)

Statuses == {"open", "done", "failed", "cancelled"}

RowsTyped ==
    /\ rows \in [Accounts -> SUBSET Row]
    /\ \A a \in Accounts : IsFiniteSet(rows[a])

LEMMA ImageIsFinite ==
    ASSUME NEW S, IsFiniteSet(S), NEW f, S = DOMAIN f
    PROVE  IsFiniteSet({f[x] : x \in S})
<1> DEFINE T == {f[x] : x \in S}
           g == [x \in S |-> f[x]]
<1>1. g \in Surjection(S, T)
  BY DEF Surjection
<1> QED BY <1>1, FS_Surjection

LEMMA OneAccountsRows ==
    ASSUME RowsTyped, NEW a \in Accounts, NEW R \in SUBSET Row, IsFiniteSet(R),
           rows' = [rows EXCEPT ![a] = R]
    PROVE  RowsTyped'
  BY DEF RowsTyped

\* The copy of a new row is none of its step's: there are more numbers than rows.
LEMMA CopyIsFree ==
    ASSUME NEW of, IsFiniteSet(of)
    PROVE  LET c == CHOOSE c \in 0..Cardinality(of) : \A m \in of : m.copy # c
           IN  c \in Nat /\ \A m \in of : m.copy # c
<1> DEFINE n == Cardinality(of)
<1>1. n \in Nat
  BY FS_CardinalityType
<1> HIDE DEF n
<1>2. IsFiniteSet(0..n) /\ Cardinality(0..n) = n + 1
  BY <1>1, FS_Interval
<1>3. \E c \in 0..n : \A m \in of : m.copy # c
  <2> SUFFICES ASSUME \A c \in 0..n : \E m \in of : m.copy = c
               PROVE  FALSE
    OBVIOUS
  <2> DEFINE f == [c \in 0..n |-> CHOOSE m \in of : m.copy = c]
  <2>1. ASSUME NEW c \in 0..n PROVE f[c] \in of /\ f[c].copy = c
    <3>1. \E m \in of : m.copy = c
      OBVIOUS
    <3>2. f[c] = CHOOSE m \in of : m.copy = c
      OBVIOUS
    <3> HIDE DEF f
    <3> QED BY <3>1, <3>2
  <2>2. f \in [0..n -> of]
    BY <2>1
  <2> HIDE DEF f
  <2>3. Cardinality(of) < Cardinality(0..n)
    BY <1>1, <1>2 DEF n
  <2>4. PICK x, y \in 0..n : x # y /\ f[x] = f[y]
    <3> DEFINE D == 0..n
    <3>1. IsFiniteSet(D) /\ IsFiniteSet(of) /\ Cardinality(of) < Cardinality(D) /\ f \in [D -> of]
      BY <1>2, <2>2, <2>3
    <3> HIDE DEF D
    <3>2. \E x, y \in D : x # y /\ f[x] = f[y]
      BY <3>1, FS_PigeonHole
    <3> QED BY <3>2 DEF D
  <2> QED BY <2>1, <2>4
<1>4. 0..n \subseteq Nat
  BY <1>1
<1> QED BY <1>3, <1>4 DEF n

LEMMA NewRowTyped ==
    ASSUME RowsTyped, NEW a \in Accounts, NEW r \in Run, NEW s \in Step, NEW st \in Statuses
    PROVE  /\ NewRow(a, r, s, st) \in Row
           /\ NewRow(a, r, s, st).scen = r.scen /\ NewRow(a, r, s, st).ver = r.ver
           /\ NewRow(a, r, s, st).order = s.order /\ NewRow(a, r, s, st).action = s.action
           /\ NewRow(a, r, s, st).status = st
           /\ \A m \in StartedOf(Own(a, r), s) : m.copy # NewRow(a, r, s, st).copy
<1> DEFINE of == StartedOf(Own(a, r), s)
           c == CHOOSE c \in 0..Cardinality(of) : \A m \in of : m.copy # c
<1>1. of \in SUBSET rows[a] /\ IsFiniteSet(rows[a])
  BY DEF StartedOf, Own, RowsTyped
<1>2. IsFiniteSet(of)
  BY <1>1, FS_Subset
<1>3. c \in Nat /\ \A m \in of : m.copy # c
  BY <1>2, CopyIsFree
<1>4. NewRow(a, r, s, st) = [scen |-> r.scen, ver |-> r.ver, order |-> s.order, action |-> s.action,
                             copy |-> c, status |-> st, name |-> s.name, aged |-> FALSE, cut |-> FALSE]
  BY DEF NewRow
<1> HIDE DEF of, c
<1>5. r.scen \in Scenarios \cup {None} /\ r.ver \in 0..MaxVersion
  BY DEF Run
<1>6. s.order \in 0..3 /\ s.action \in Actions \cup {"claim"} /\ s.name \in Templates
  BY DEF Step
<1> QED BY <1>3, <1>4, <1>5, <1>6 DEF Row, Statuses, of

\* What an operation does to a row leaves its step alone.
LEMMA RowFields ==
    ASSUME NEW m \in Row, NEW st \in Statuses, NEW x \in BOOLEAN, NEW y \in Templates
    PROVE  /\ [m EXCEPT !.status = st] \in Row
           /\ [m EXCEPT !.status = st, !.name = y, !.aged = x] \in Row
           /\ SameRow(m, [m EXCEPT !.status = st, !.name = y, !.aged = x])
           /\ [m EXCEPT !.name = y, !.aged = x] \in Row
  BY DEF Row, SameRow, SameStep, Statuses

\* Every row is changed by f.
LEMMA MappedRows ==
    ASSUME RowsTyped, NEW a \in Accounts, NEW f, DOMAIN f = rows[a], \A m \in rows[a] : f[m] \in Row
    PROVE  {f[m] : m \in rows[a]} \in SUBSET Row /\ IsFiniteSet({f[m] : m \in rows[a]})
  BY ImageIsFinite DEF RowsTyped

\* One row is replaced.
LEMMA OneRowReplaced ==
    ASSUME RowsTyped, NEW a \in Accounts, NEW m, NEW n \in Row,
           rows' = [rows EXCEPT ![a] = (rows[a] \ {m}) \cup {n}]
    PROVE  RowsTyped'
<1>1. rows[a] \in SUBSET Row /\ IsFiniteSet(rows[a])
  BY DEF RowsTyped
<1>2. IsFiniteSet((rows[a] \ {m}) \cup {n})
  BY <1>1, FS_RemoveElement, FS_AddElement
<1> QED BY <1>1, <1>2, OneAccountsRows

\* The fate of a row under _close_measures
Closed(m, st) == IF m.status \in {"open", "failed"} /\ ~m.cut THEN [m EXCEPT !.status = st] ELSE m

LEMMA ClosedTyped ==
    ASSUME RowsTyped, NEW a \in Accounts, NEW st \in Statuses
    PROVE  /\ ClosedBy(a, st) = {Closed(m, st) : m \in rows[a]}
           /\ ClosedBy(a, st) \in SUBSET Row /\ IsFiniteSet(ClosedBy(a, st))
<1> DEFINE f == [m \in rows[a] |-> Closed(m, st)]
<1>1. \A m \in rows[a] : Closed(m, st) \in Row
  <2>1. ASSUME NEW m \in Row PROVE [m EXCEPT !.status = st] \in Row
    BY <2>1 DEF Row, Statuses
  <2> QED BY <2>1 DEF RowsTyped, Closed
<1>2. {f[m] : m \in rows[a]} \in SUBSET Row /\ IsFiniteSet({f[m] : m \in rows[a]})
  <2>1. DOMAIN f = rows[a] /\ \A m \in rows[a] : f[m] \in Row
    BY <1>1
  <2> HIDE DEF f
  <2> QED BY <2>1, MappedRows
<1>3. {f[m] : m \in rows[a]} = {Closed(m, st) : m \in rows[a]}
  OBVIOUS
<1>4. ClosedBy(a, st) = {Closed(m, st) : m \in rows[a]}
  BY DEF ClosedBy, Closed
<1> QED BY <1>2, <1>3, <1>4

JobsTyped ==
    /\ job \in [Workers -> Job]
    /\ \A w \in Workers : /\ job[w].at # "idle" => job[w].acct \in Accounts
                          /\ job[w].at = "launch" => job[w].step \in Step /\ Exists(job[w].seen)

\* The type invariant, and what it needs
TypeInv ==
    /\ ScenRunInv /\ RunInv
    /\ RowsTyped /\ JobsTyped
    /\ acc \in [Accounts -> Account]
    /\ auto \in BOOLEAN

LEMMA LaunchTyped ==
    ASSUME TypeInv, NEW w \in Workers, job[w].at = "launch"
    PROVE  /\ job[w].acct \in Accounts /\ job[w].step \in Step /\ job[w].seen \in Run
           /\ rows[job[w].acct] \in SUBSET Row /\ IsFiniteSet(rows[job[w].acct])
  BY DEF TypeInv, JobsTyped, RowsTyped, Job

LEMMA LaunchOkRows ==
    ASSUME TypeInv, NEW w \in Workers, LaunchOk(w)
    PROVE  RowsTyped'
<1> DEFINE a == job[w].acct
           r == job[w].seen
           s == job[w].step
           claim == {m \in rows[a] : s.action = "writ" /\ m.action = "claim" /\ m.status \in {"open", "failed"}}
           c == CHOOSE c \in claim : TRUE
           kept == WithoutFailed(a, r, s)
           st == IF s.auto /\ s.action = "sms" THEN "done" ELSE "open"
<1>0. a \in Accounts /\ s \in Step /\ r \in Run /\ rows[a] \in SUBSET Row /\ IsFiniteSet(rows[a])
  BY LaunchTyped DEF LaunchOk
<1>1. kept \in SUBSET Row /\ IsFiniteSet(kept)
  <2>1. kept \in SUBSET rows[a]
    BY DEF WithoutFailed
  <2> QED BY <1>0, <2>1, FS_Subset
<1>2. CASE claim # {}
  <2> DEFINE n == NewRow(a, r, s, c.status)
             m == [n EXCEPT !.name = c.name, !.aged = c.aged]
  <2>1. c \in claim
    BY <1>2
  <2>2. c \in Row /\ c.status \in Statuses /\ c.aged \in BOOLEAN /\ c.name \in Templates
    BY <1>0, <2>1 DEF Row, Statuses
  <2>3. rows' = [rows EXCEPT ![a] = (kept \ {c}) \cup {m}]
    BY <1>2 DEF LaunchOk
  <2> HIDE DEF c, kept, a, r, s
  <2>4. n \in Row
    BY <1>0, <2>2, NewRowTyped DEF TypeInv
  <2> HIDE DEF n
  <2>5. m \in Row
    BY <2>2, <2>4, RowFields
  <2> HIDE DEF m
  <2>6. IsFiniteSet((kept \ {c}) \cup {m})
    BY <1>1, FS_RemoveElement, FS_AddElement
  <2> QED BY <1>0, <1>1, <2>3, <2>5, <2>6, OneAccountsRows DEF TypeInv
<1>3. CASE claim = {}
  <2> DEFINE n == NewRow(a, r, s, st)
  <2>1. rows' = [rows EXCEPT ![a] = kept \cup {n}]
    BY <1>3 DEF LaunchOk
  <2>2. st \in Statuses
    BY DEF Statuses
  <2> HIDE DEF kept, a, r, s, st
  <2>3. n \in Row
    BY <1>0, <2>2, NewRowTyped DEF TypeInv
  <2> HIDE DEF n
  <2>4. IsFiniteSet(kept \cup {n})
    BY <1>1, FS_AddElement
  <2> QED BY <1>0, <1>1, <2>1, <2>3, <2>4, OneAccountsRows DEF TypeInv
<1> QED BY <1>2, <1>3

LEMMA LaunchRefusedRows ==
    ASSUME TypeInv, NEW w \in Workers, LaunchRefused(w)
    PROVE  RowsTyped'
<1> DEFINE a == job[w].acct
           r == job[w].seen
           s == job[w].step
           n == NewRow(a, r, s, "failed")
<1>0. a \in Accounts /\ s \in Step /\ r \in Run /\ rows[a] \in SUBSET Row /\ IsFiniteSet(rows[a])
  BY LaunchTyped DEF LaunchRefused
<1>1. UNCHANGED rows \/ rows' = [rows EXCEPT ![a] = rows[a] \cup {n}]
  BY DEF LaunchRefused
<1> HIDE DEF a, r, s
<1>2. n \in Row
  <2>1. "failed" \in Statuses
    BY DEF Statuses
  <2> QED BY <1>0, <2>1, NewRowTyped DEF TypeInv
<1> HIDE DEF n
<1>3. IsFiniteSet(rows[a] \cup {n}) /\ rows[a] \cup {n} \in SUBSET Row
  BY <1>0, <1>2, FS_AddElement
<1>4. CASE UNCHANGED rows
  BY <1>4 DEF TypeInv, RowsTyped
<1> QED BY <1>0, <1>1, <1>3, <1>4, OneAccountsRows DEF TypeInv

LEMMA ClosingRows ==
    ASSUME RowsTyped, NEW a \in Accounts, NEW st \in Statuses,
           UNCHANGED rows \/ rows' = [rows EXCEPT ![a] = ClosedBy(a, st)]
    PROVE  RowsTyped'
<1>1. CASE UNCHANGED rows
  BY <1>1 DEF RowsTyped
<1>2. CASE rows' = [rows EXCEPT ![a] = ClosedBy(a, st)]
  BY <1>2, ClosedTyped, OneAccountsRows
<1> QED BY <1>1, <1>2

LEMMA SkippedRows ==
    ASSUME RowsTyped, NEW w \in Workers, NEW a \in Accounts, SkipStep(w, a)
    PROVE  RowsTyped'
<1> DEFINE own   == Own(a, run[a])
           left  == {PlanOf(run[a])[i].order : i \in DOMAIN PlanOf(run[a])} \ DoneOrders(own, run[a])
           first == CHOOSE o \in left : \A q \in left : o <= q
<1>1. rows' = [rows EXCEPT ![a] =
               {IF m \in own /\ m.order = first /\ m.status \in {"open", "failed"}
                THEN [m EXCEPT !.status = "cancelled"] ELSE m : m \in rows[a]}]
  BY DEF SkipStep
<1> HIDE DEF own, first
<1> DEFINE f == [m \in rows[a] |-> IF m \in own /\ m.order = first /\ m.status \in {"open", "failed"}
                                   THEN [m EXCEPT !.status = "cancelled"] ELSE m]
<1>2. rows' = [rows EXCEPT ![a] = {f[m] : m \in rows[a]}]
  BY <1>1
<1>3. DOMAIN f = rows[a] /\ \A m \in rows[a] : f[m] \in Row
  <2>1. ASSUME NEW m \in rows[a] PROVE [m EXCEPT !.status = "cancelled"] \in Row /\ m \in Row
    <3>1. m \in Row
      BY DEF RowsTyped
    <3> QED BY <3>1 DEF Row
  <2> QED BY <2>1
<1> HIDE DEF f
<1> DEFINE R == {f[m] : m \in rows[a]}
<1>4. R \in SUBSET Row /\ IsFiniteSet(R)
  BY <1>3, MappedRows
<1>5. rows' = [rows EXCEPT ![a] = R]
  BY <1>2
<1> HIDE DEF R
<1> QED BY <1>4, <1>5, OneAccountsRows

LEMMA ChangedRows ==
    ASSUME RowsTyped, NEW a \in Accounts, NEW m \in rows[a], NEW st \in Statuses, NEW y \in Templates,
           Changed(a, m, st, y)
    PROVE  RowsTyped'
<1> DEFINE n == [m EXCEPT !.status = st, !.name = y, !.aged = FALSE]
<1>1. n \in Row
  BY RowFields DEF RowsTyped
<1>2. rows' = [rows EXCEPT ![a] = (rows[a] \ {m}) \cup {n}]
  BY DEF Changed
<1> HIDE DEF n
<1> QED BY <1>1, <1>2, OneRowReplaced

LEMMA CutOffRows ==
    ASSUME RowsTyped, NEW a \in Accounts, CutOff(a)
    PROVE  RowsTyped'
<1>1. PICK m \in rows[a] : rows' = [rows EXCEPT ![a] = (rows[a] \ {m}) \cup {[m EXCEPT !.cut = TRUE]}]
  BY DEF CutOff
<1>2. m \in Row
  BY DEF RowsTyped
<1>3. [m EXCEPT !.cut = TRUE] \in Row
  BY <1>2 DEF Row
<1> QED BY <1>1, <1>3, OneRowReplaced

LEMMA OpenCaseRows ==
    ASSUME RowsTyped, NEW w \in Workers, NEW a \in Accounts, OpenCase(w, a)
    PROVE  RowsTyped'
<1> DEFINE n == [scen |-> None, ver |-> 0, order |-> 0, action |-> "claim", copy |-> 0,
                 status |-> "open", name |-> "none", aged |-> FALSE, cut |-> FALSE]
<1>1. n \in Row
  BY ScenarioAssumption DEF Row, Templates
<1>2. rows' = [rows EXCEPT ![a] = rows[a]] \/ rows' = [rows EXCEPT ![a] = rows[a] \cup {n}]
  BY DEF OpenCase
<1> HIDE DEF n
<1>3. rows[a] \in SUBSET Row /\ IsFiniteSet(rows[a]) /\ IsFiniteSet(rows[a] \cup {n})
  BY FS_AddElement DEF RowsTyped
<1>4. rows[a] \cup {n} \in SUBSET Row
  BY <1>1, <1>3
<1> QED BY <1>2, <1>3, <1>4, OneAccountsRows

LEMMA DaysRows ==
    ASSUME RowsTyped, DayPasses
    PROVE  RowsTyped'
<1>1. rows' = [a \in Accounts |-> {IF m.status = "done" THEN [m EXCEPT !.aged = TRUE] ELSE m : m \in rows[a]}]
  BY DEF DayPasses
<1>2. ASSUME NEW a \in Accounts PROVE rows'[a] \in SUBSET Row /\ IsFiniteSet(rows'[a])
  <2> DEFINE f == [m \in rows[a] |-> IF m.status = "done" THEN [m EXCEPT !.aged = TRUE] ELSE m]
  <2>1. rows'[a] = {f[m] : m \in rows[a]}
    BY <1>1
  <2>2. DOMAIN f = rows[a] /\ \A m \in rows[a] : f[m] \in Row
    <3>1. ASSUME NEW m \in rows[a] PROVE [m EXCEPT !.aged = TRUE] \in Row /\ m \in Row
      <4>1. m \in Row
        BY DEF RowsTyped
      <4> QED BY <4>1 DEF Row
    <3> QED BY <3>1
  <2> HIDE DEF f
  <2> QED BY <2>1, <2>2, MappedRows
<1>3. rows' \in [Accounts -> SUBSET Row]
  BY <1>1, <1>2
<1> QED BY <1>2, <1>3 DEF RowsTyped

LEMMA NextKeepsRows ==
    ASSUME TypeInv, [Next]_vars
    PROVE  RowsTyped'
<1>0. RowsTyped /\ {"done", "cancelled", "open"} \subseteq Statuses /\ Outcomes \subseteq Statuses
  BY ScenarioAssumption DEF TypeInv, Statuses
<1>1. CASE UNCHANGED rows
  BY <1>0, <1>1 DEF RowsTyped
<1>2. ASSUME NEW w \in Workers, Step1(w)
      PROVE  RowsTyped'
  BY <1>1, <1>2, LaunchOkRows, LaunchRefusedRows DEF Step1, Enter, Look, SkipMessenger
<1>3. ASSUME NEW w \in Workers, NEW a \in Accounts, Import(w, a) \/ Start(w, a)
      PROVE  RowsTyped'
  BY <1>0, <1>1, <1>3, ClosingRows DEF Import, ImportPaid, Settle, ImportDebtor, Start
<1>4. ASSUME NEW w \in Workers, NEW a \in Accounts, NEW s \in Scenarios,
             Replace(w, a, s) \/ \E u, p \in BOOLEAN : Assign(w, a, s, u, p)
      PROVE  RowsTyped'
  <2>1. UNCHANGED rows \/ rows' = [rows EXCEPT ![a] = ClosedBy(a, "cancelled")]
    BY <1>4 DEF Replace, Assign
  <2> QED BY <1>0, <2>1, ClosingRows
<1>5. ASSUME NEW w \in Workers, NEW a \in Accounts, SkipStep(w, a) \/ OpenCase(w, a)
      PROVE  RowsTyped'
  BY <1>0, <1>5, SkippedRows, OpenCaseRows
<1>6. ASSUME NEW w \in Workers, NEW a \in Accounts, NEW m \in rows[a],
             \/ StopRow(w, a, m)
             \/ \E st \in Outcomes : FinishRow(w, a, m, st)
             \/ \E st \in {"open", "done"} : SyncClaim(w, a, m, st)
      PROVE  RowsTyped'
  <2>1. m.name \in Templates /\ "none" \in Templates
    <3>1. m \in Row
      BY <1>0 DEF RowsTyped
    <3> QED BY <3>1 DEF Row, Templates
  <2>2. PICK st \in Statuses, y \in Templates : Changed(a, m, st, y)
    BY <1>0, <1>6, <2>1 DEF StopRow, FinishRow, SyncClaim
  <2> QED BY <1>0, <2>2, ChangedRows
<1>7. ASSUME NEW w \in Workers, NEW s \in Scenarios,
             \/ \E p \in Plans : EditDraft(w, s, p)
             \/ \E t \in Scenarios : CopyScenario(w, s, t)
             \/ \E mv \in BOOLEAN : Publish(w, s, mv) \/ \E v \in 1..MaxVersion : RestoreScenario(w, s, v, mv)
      PROVE  UNCHANGED rows
  BY <1>7 DEF EditDraft, CopyScenario, Publish, RestoreScenario
<1>8. CASE SetMode \/ DayPasses \/ UNCHANGED vars
  BY <1>0, <1>1, <1>8, DaysRows DEF SetMode, vars
<1>9. ASSUME NEW a \in Accounts, Debt(a) \/ Block(a) \/ Deliver(a) \/ CutOff(a)
      PROVE  RowsTyped'
  BY <1>0, <1>1, <1>9, CutOffRows DEF Debt, Block, Deliver
<1> QED BY <1>1, <1>2, <1>3, <1>4, <1>5, <1>6, <1>7, <1>8, <1>9 DEF Next

-----------------------------------------------------------------------------
(* The engine's jobs                                                       *)

\* _advance_once chooses among the steps of the run's version.
LEMMA NextStepIsStep ==
    ASSUME ScenInv, NEW a, NEW r, Typed(r), Exists(r)
    PROVE  NextStep(a, r) \subseteq Step
<1> DEFINE plan == PlanOf(r)
<1>1. plan \in Seq(Step)
  BY PlanIsSteps
<1>2. NextStep(a, r) \subseteq {plan[i] : i \in DOMAIN plan}
  BY DEF NextStep
<1> HIDE DEF plan
<1>3. {plan[i] : i \in DOMAIN plan} \subseteq Step
  BY <1>1
<1> QED BY <1>2, <1>3

LEMMA OneJobChanges ==
    ASSUME JobsTyped, NEW w \in Workers, NEW j \in Job,
           j.at # "idle" => j.acct \in Accounts,
           j.at = "launch" => j.step \in Step /\ Exists(j.seen),
           job' = [job EXCEPT ![w] = j]
    PROVE  JobsTyped'
<1>1. job' \in [Workers -> Job]
  BY DEF JobsTyped
<1>2. \A v \in Workers : job'[v] = IF v = w THEN j ELSE job[v]
  BY DEF JobsTyped
<1> QED BY <1>1, <1>2 DEF JobsTyped, Exists

JobOf(at, a) == [Idle EXCEPT !.at = at, !.acct = a]

LEMMA SimpleJobs ==
    ASSUME NEW a \in Accounts, NEW at \in {"enter", "look"}
    PROVE  /\ Idle \in Job /\ Idle.at = "idle"
           /\ JobOf(at, a) \in Job /\ JobOf(at, a).at = at /\ JobOf(at, a).acct = a
<1>1. Idle \in Job /\ Idle.at = "idle"
  BY NoRunTyped DEF Idle, Job
<1>2. JobOf(at, a) \in Job /\ JobOf(at, a).at = at /\ JobOf(at, a).acct = a
  BY <1>1 DEF JobOf, Job
<1> QED BY <1>1, <1>2

LEMMA AdvanceKeepsJobs ==
    ASSUME JobsTyped, NEW w \in Workers, NEW a \in Accounts, Advance(w, a)
    PROVE  JobsTyped'
<1>1. job' = [job EXCEPT ![w] = Idle] \/ job' = [job EXCEPT ![w] = JobOf("enter", a)]
  BY DEF Advance, JobOf
<1>2. "enter" \in {"enter", "look"}
  OBVIOUS
<1>3. CASE job' = [job EXCEPT ![w] = Idle]
  BY <1>2, <1>3, SimpleJobs, OneJobChanges
<1>4. CASE job' = [job EXCEPT ![w] = JobOf("enter", a)]
  BY <1>2, <1>4, SimpleJobs, OneJobChanges
<1> QED BY <1>1, <1>3, <1>4

LEMMA AgainKeepsJobs ==
    ASSUME JobsTyped, NEW w \in Workers, job[w].acct \in Accounts, NEW goes, Again(w, goes)
    PROVE  JobsTyped'
<1> DEFINE a == job[w].acct
<1>1. job' = [job EXCEPT ![w] = Idle] \/ job' = [job EXCEPT ![w] = JobOf("look", a)]
  BY DEF Again, JobOf
<1>2. "look" \in {"enter", "look"}
  OBVIOUS
<1>3. CASE job' = [job EXCEPT ![w] = Idle]
  BY <1>2, <1>3, SimpleJobs, OneJobChanges
<1>4. CASE job' = [job EXCEPT ![w] = JobOf("look", a)]
  BY <1>2, <1>4, SimpleJobs, OneJobChanges
<1> QED BY <1>1, <1>3, <1>4

LEMMA EngineKeepsJobs ==
    ASSUME TypeInv, NEW w \in Workers, Step1(w)
    PROVE  JobsTyped'
<1>0. JobsTyped /\ job[w] \in Job
  BY DEF TypeInv, JobsTyped
<1>1. CASE Enter(w)
  <2> DEFINE a == job[w].acct
             j == [job[w] EXCEPT !.at = "look"]
  <2>1. a \in Accounts
    BY <1>0, <1>1 DEF Enter, JobsTyped
  <2>2. job' = [job EXCEPT ![w] = Idle] \/ job' = [job EXCEPT ![w] = j]
    BY <1>1 DEF Enter
  <2>3. j \in Job /\ j.at = "look" /\ j.acct = a
    BY <1>0 DEF Job
  <2>4. Idle \in Job /\ Idle.at = "idle"
    BY NoRunTyped DEF Idle, Job
  <2> HIDE DEF j
  <2> QED BY <1>0, <2>1, <2>2, <2>3, <2>4, OneJobChanges
<1>2. CASE Look(w)
  <2> DEFINE a == job[w].acct
             r == run[a]
             s == CHOOSE s \in NextStep(a, r) : TRUE
             j == [job[w] EXCEPT !.at = "launch", !.seen = r, !.step = s]
  <2>1. a \in Accounts
    BY <1>0, <1>2 DEF Look, JobsTyped
  <2>2. Typed(r)
    BY <2>1 DEF TypeInv, ScenRunInv, RunsTyped, Typed
  <2>3. Idle \in Job /\ Idle.at = "idle"
    BY NoRunTyped DEF Idle, Job
  <2>4. CASE job' = [job EXCEPT ![w] = Idle]
    BY <1>0, <2>3, <2>4, OneJobChanges
  <2>5. CASE job' # [job EXCEPT ![w] = Idle]
    <3>1. Exists(r) /\ NextStep(a, r) # {} /\ job' = [job EXCEPT ![w] = j]
      BY <1>2, <2>5 DEF Look
    <3>2. s \in Step
      BY <2>2, <3>1, NextStepIsStep DEF TypeInv, ScenRunInv
    <3>3. r \in Run
      BY <2>2 DEF Typed
    <3> HIDE DEF s, r
    <3>4. j \in Job /\ j.at = "launch" /\ j.acct = a /\ j.step = s /\ j.seen = r
      BY <1>0, <3>2, <3>3 DEF Job
    <3> HIDE DEF j
    <3> QED BY <1>0, <2>1, <3>1, <3>2, <3>4, OneJobChanges
  <2> QED BY <2>4, <2>5
<1>3. CASE SkipMessenger(w) \/ LaunchOk(w) \/ LaunchRefused(w)
  <2>1. job[w].acct \in Accounts
    BY <1>0, <1>3 DEF SkipMessenger, LaunchOk, LaunchRefused, JobsTyped
  <2>2. PICK goes : Again(w, goes)
    BY <1>3 DEF SkipMessenger, LaunchOk, LaunchRefused
  <2> QED BY <1>0, <2>1, <2>2, AgainKeepsJobs
<1> QED BY <1>1, <1>2, <1>3 DEF Step1

\* Requests advance their account or leave the jobs alone.
LEMMA RequestsAdvance ==
    ASSUME [Next]_vars
    PROVE  \/ \E w \in Workers : Step1(w)
           \/ \E w \in Workers : job[w].at = "idle" /\ \E a \in Accounts : Advance(w, a)
           \/ UNCHANGED job
<1>1. ASSUME NEW w \in Workers, NEW a \in Accounts, Import(w, a) \/ Start(w, a)
      PROVE  UNCHANGED job \/ (job[w].at = "idle" /\ Advance(w, a))
  BY <1>1 DEF Import, ImportPaid, ImportDebtor, Start, Free
<1>2. ASSUME NEW w \in Workers, NEW a \in Accounts, NEW s \in Scenarios,
             Replace(w, a, s) \/ \E u, p \in BOOLEAN : Assign(w, a, s, u, p)
      PROVE  UNCHANGED job \/ (job[w].at = "idle" /\ Advance(w, a))
  BY <1>2 DEF Replace, Assign, Free
<1>3. ASSUME NEW w \in Workers, NEW a \in Accounts, SkipStep(w, a) \/ OpenCase(w, a)
      PROVE  UNCHANGED job \/ (job[w].at = "idle" /\ Advance(w, a))
  BY <1>3 DEF SkipStep, OpenCase, Free
<1>4. ASSUME NEW w \in Workers, NEW a \in Accounts, NEW m \in rows[a],
             \/ StopRow(w, a, m)
             \/ \E st \in Outcomes : FinishRow(w, a, m, st)
             \/ \E st \in {"open", "done"} : SyncClaim(w, a, m, st)
      PROVE  UNCHANGED job \/ (job[w].at = "idle" /\ Advance(w, a))
  BY <1>4 DEF StopRow, FinishRow, SyncClaim, Free
<1>5. ASSUME NEW w \in Workers, NEW s \in Scenarios,
             \/ \E p \in Plans : EditDraft(w, s, p)
             \/ \E t \in Scenarios : CopyScenario(w, s, t)
             \/ \E mv \in BOOLEAN : Publish(w, s, mv) \/ \E v \in 1..MaxVersion : RestoreScenario(w, s, v, mv)
      PROVE  UNCHANGED job
  BY <1>5 DEF EditDraft, CopyScenario, Publish, RestoreScenario
<1>6. CASE SetMode \/ DayPasses \/ UNCHANGED vars
  BY <1>6 DEF SetMode, DayPasses, vars
<1>7. ASSUME NEW a \in Accounts, Debt(a) \/ Block(a) \/ Deliver(a) \/ CutOff(a)
      PROVE  UNCHANGED job
  BY <1>7 DEF Debt, Block, Deliver, CutOff
<1> QED BY <1>1, <1>2, <1>3, <1>4, <1>5, <1>6, <1>7 DEF Next

LEMMA NextKeepsJobs ==
    ASSUME TypeInv, [Next]_vars
    PROVE  JobsTyped'
<1>1. CASE UNCHANGED job
  BY <1>1 DEF TypeInv, JobsTyped, Exists
<1> QED BY <1>1, RequestsAdvance, EngineKeepsJobs, AdvanceKeepsJobs DEF TypeInv

-----------------------------------------------------------------------------
(* Types                                                                   *)

LEMMA NextKeepsRunsTyped ==
    ASSUME TypeInv, RevisionsKept, [Next]_vars
    PROVE  RunsTyped'
<1>0. ScenRunInv /\ RunsTyped /\ auto \in BOOLEAN /\ JobsTyped
  BY DEF TypeInv, ScenRunInv
<1>1. CASE UNCHANGED run
  BY <1>0, <1>1, NoTypedRunChanges
<1>2. ASSUME NEW w \in Workers, Step1(w)
      PROVE  RunsTyped'
  <2>1. job[w].at = "launch" => job[w].step \in Step /\ job[w].seen \in Run
    BY LaunchTyped
  <2> QED BY <1>0, <1>2, <2>1, EngineKeepsTyped
<1>3. ASSUME NEW w \in Workers, NEW a \in Accounts, Import(w, a) \/ Start(w, a)
      PROVE  RunsTyped'
  BY <1>0, <1>1, <1>3, EndKeepsTyped, BeginKeepsTyped DEF Import, ImportPaid, Settle
<1>4. ASSUME NEW w \in Workers, NEW a \in Accounts, NEW s \in Scenarios,
             Replace(w, a, s) \/ \E u, p \in BOOLEAN : Assign(w, a, s, u, p)
      PROVE  RunsTyped'
  BY <1>0, <1>4, ReplaceKeepsTyped, AssignKeepsTyped
<1>5. ASSUME NEW w \in Workers, NEW a \in Accounts, SkipStep(w, a) \/ OpenCase(w, a)
      PROVE  RunsTyped'
  BY <1>0, <1>1, <1>5, SkipKeepsTyped DEF OpenCase
<1>6. ASSUME NEW w \in Workers, NEW a \in Accounts, NEW m \in rows[a],
             \/ StopRow(w, a, m)
             \/ \E st \in Outcomes : FinishRow(w, a, m, st)
             \/ \E st \in {"open", "done"} : SyncClaim(w, a, m, st)
      PROVE  RunsTyped'
  BY <1>0, <1>1, <1>6, EndKeepsTyped DEF StopRow, FinishRow, SyncClaim
<1>7. ASSUME NEW w \in Workers, NEW s \in Scenarios,
             (\E p \in Plans : EditDraft(w, s, p)) \/ \E t \in Scenarios : CopyScenario(w, s, t)
      PROVE  UNCHANGED run
  BY <1>7 DEF EditDraft, CopyScenario
<1>8. ASSUME NEW w \in Workers, NEW s \in Scenarios, NEW mv \in BOOLEAN,
             Publish(w, s, mv) \/ \E v \in 1..MaxVersion : RestoreScenario(w, s, v, mv)
      PROVE  RunsTyped'
  <2>1. scen[s] \in Scenario
    BY <1>0 DEF ScenRunInv, ScenInv
  <2>2. PICK p \in Plans : PublishAs(s, p, mv)
    BY <1>8, <2>1 DEF Publish, RestoreScenario, Scenario
  <2> QED BY <1>0, <2>2, PublishKeepsTyped
<1>9. CASE SetMode \/ DayPasses \/ UNCHANGED vars
  BY <1>0, <1>1, <1>9, DaysKeepTyped DEF SetMode, vars
<1>10. ASSUME NEW a \in Accounts, Debt(a) \/ Block(a) \/ Deliver(a) \/ CutOff(a)
      PROVE  UNCHANGED run
  BY <1>10 DEF Debt, Block, Deliver, CutOff
<1> QED BY <1>1, <1>2, <1>3, <1>4, <1>5, <1>6, <1>7, <1>8, <1>9, <1>10 DEF Next

\* One field of one account
LEMMA AccountFields ==
    ASSUME acc \in [Accounts -> Account], NEW a \in Accounts
    PROVE  /\ [acc EXCEPT ![a].case = TRUE] \in [Accounts -> Account]
           /\ \A d \in {"none", "large"} : [acc EXCEPT ![a].debt = d] \in [Accounts -> Account]
           /\ [acc EXCEPT ![a].blocked = ~@] \in [Accounts -> Account]
           /\ [acc EXCEPT ![a].warn = "waiting"] \in [Accounts -> Account]
  BY DEF Account

LEMMA NextKeepsAccounts ==
    ASSUME TypeInv, [Next]_vars
    PROVE  acc' \in [Accounts -> Account]
<1>0. acc \in [Accounts -> Account]
  BY DEF TypeInv
<1>1. ASSUME NEW w \in Workers, Step1(w)
      PROVE  acc' \in [Accounts -> Account]
  <2>1. CASE LaunchOk(w)
    <3>1. job[w].acct \in Accounts
      BY <2>1, LaunchTyped DEF LaunchOk
    <3>2. acc' = acc \/ acc' = [acc EXCEPT ![job[w].acct].case = TRUE]
      BY <2>1 DEF LaunchOk
    <3>3. [acc EXCEPT ![job[w].acct].case = TRUE] \in [Accounts -> Account]
      BY <1>0, <3>1, AccountFields
    <3> QED BY <1>0, <3>2, <3>3
  <2> QED BY <1>0, <1>1, <2>1 DEF Step1, Enter, Look, SkipMessenger, LaunchRefused
<1>2. ASSUME NEW w \in Workers, NEW a \in Accounts,
             \/ Import(w, a) \/ Start(w, a) \/ SkipStep(w, a)
             \/ \E s \in Scenarios : Replace(w, a, s) \/ \E u, p \in BOOLEAN : Assign(w, a, s, u, p)
             \/ \E m \in rows[a] : \/ StopRow(w, a, m)
                                   \/ \E st \in Outcomes : FinishRow(w, a, m, st)
                                   \/ \E st \in {"open", "done"} : SyncClaim(w, a, m, st)
      PROVE  UNCHANGED acc
  BY <1>2 DEF Import, ImportPaid, ImportDebtor, Start, SkipStep, Replace, Assign, StopRow, FinishRow, SyncClaim
<1>3. ASSUME NEW w \in Workers, NEW a \in Accounts, OpenCase(w, a)
      PROVE  acc' \in [Accounts -> Account]
  BY <1>0, <1>3, AccountFields DEF OpenCase
<1>4. ASSUME NEW w \in Workers, NEW s \in Scenarios,
             \/ \E p \in Plans : EditDraft(w, s, p)
             \/ \E t \in Scenarios : CopyScenario(w, s, t)
             \/ \E mv \in BOOLEAN : Publish(w, s, mv) \/ \E v \in 1..MaxVersion : RestoreScenario(w, s, v, mv)
      PROVE  UNCHANGED acc
  BY <1>4 DEF EditDraft, CopyScenario, Publish, RestoreScenario
<1>5. CASE SetMode \/ UNCHANGED vars
  BY <1>0, <1>5 DEF SetMode, vars
<1>6. CASE DayPasses
  <2>1. acc' = [a \in Accounts |-> IF acc[a].warn = "waiting" THEN [acc[a] EXCEPT !.warn = "due"] ELSE acc[a]]
    BY <1>6 DEF DayPasses
  <2>2. \A a \in Accounts : acc[a] \in Account /\ [acc[a] EXCEPT !.warn = "due"] \in Account
    BY <1>0 DEF Account
  <2>3. \A a \in Accounts : acc'[a] \in Account
    BY <2>1, <2>2
  <2> QED BY <2>1, <2>3
<1>7. ASSUME NEW a \in Accounts, Debt(a) \/ Block(a) \/ Deliver(a) \/ CutOff(a)
      PROVE  acc' \in [Accounts -> Account]
  <2>1. CASE Debt(a)
    BY <1>0, <2>1, AccountFields DEF Debt
  <2>2. CASE Block(a) \/ Deliver(a)
    BY <1>0, <2>2, AccountFields DEF Block, Deliver
  <2>3. CASE CutOff(a)
    BY <1>0, <2>3 DEF CutOff
  <2> QED BY <1>7, <2>1, <2>2, <2>3
<1> QED BY <1>0, <1>1, <1>2, <1>3, <1>4, <1>5, <1>6, <1>7 DEF Next

LEMMA NextKeepsMode ==
    ASSUME TypeInv, [Next]_vars
    PROVE  auto' \in BOOLEAN
<1>1. CASE SetMode
  BY <1>1 DEF SetMode
<1>2. ASSUME NEW w \in Workers, NEW a \in Accounts,
             \/ Step1(w)
             \/ Import(w, a) \/ Start(w, a) \/ SkipStep(w, a) \/ OpenCase(w, a)
             \/ \E s \in Scenarios : Replace(w, a, s) \/ \E u, p \in BOOLEAN : Assign(w, a, s, u, p)
             \/ \E m \in rows[a] : \/ StopRow(w, a, m)
                                   \/ \E st \in Outcomes : FinishRow(w, a, m, st)
                                   \/ \E st \in {"open", "done"} : SyncClaim(w, a, m, st)
      PROVE  UNCHANGED auto
  BY <1>2 DEF Step1, Enter, Look, SkipMessenger, LaunchOk, LaunchRefused, Import, ImportPaid, ImportDebtor,
              Start, SkipStep, OpenCase, Replace, Assign, StopRow, FinishRow, SyncClaim
<1>3. ASSUME NEW w \in Workers, Step1(w)
      PROVE  UNCHANGED auto
  BY <1>3 DEF Step1, Enter, Look, SkipMessenger, LaunchOk, LaunchRefused
<1>4. ASSUME NEW w \in Workers, NEW s \in Scenarios,
             \/ \E p \in Plans : EditDraft(w, s, p)
             \/ \E t \in Scenarios : CopyScenario(w, s, t)
             \/ \E mv \in BOOLEAN : Publish(w, s, mv) \/ \E v \in 1..MaxVersion : RestoreScenario(w, s, v, mv)
      PROVE  UNCHANGED auto
  BY <1>4 DEF EditDraft, CopyScenario, Publish, RestoreScenario
<1>5. ASSUME DayPasses \/ UNCHANGED vars
      PROVE  UNCHANGED auto
  BY <1>5 DEF DayPasses, vars
<1>6. ASSUME NEW a \in Accounts, Debt(a) \/ Block(a) \/ Deliver(a) \/ CutOff(a)
      PROVE  UNCHANGED auto
  BY <1>6 DEF Debt, Block, Deliver, CutOff
<1>7. auto \in BOOLEAN
  BY DEF TypeInv
<1> QED BY <1>1, <1>2, <1>3, <1>4, <1>5, <1>6, <1>7 DEF Next

LEMMA InitTypeInv == Init => TypeInv
<1> SUFFICES ASSUME Init PROVE TypeInv
  OBVIOUS
<1>1. ScenInv /\ VersionsSound /\ RunInv
  BY InitScenInv, InitSound, InitRunInv
<1>2. RunsTyped
  BY NoRunTyped DEF Init, RunsTyped, OfVersion
<1>3. RowsTyped
  BY FS_EmptySet DEF Init, RowsTyped
<1>4. JobsTyped
  <2>1. Idle \in Job /\ Idle.at = "idle"
    BY NoRunTyped DEF Idle, Job
  <2> QED BY <2>1 DEF Init, JobsTyped
<1>5. acc \in [Accounts -> Account] /\ auto \in BOOLEAN
  <2>1. PICK d \in {"small", "large"} :
            acc = [a \in Accounts |-> [debt |-> d, blocked |-> FALSE, warn |-> "no", case |-> FALSE]]
    BY DEF Init
  <2>2. [debt |-> d, blocked |-> FALSE, warn |-> "no", case |-> FALSE] \in Account
    BY DEF Account
  <2> QED BY <2>1, <2>2 DEF Init
<1> QED BY <1>1, <1>2, <1>3, <1>4, <1>5 DEF TypeInv, ScenRunInv

LEMMA NextTypeInv ==
    ASSUME TypeInv, [Next]_vars
    PROVE  TypeInv'
<1>1. ScenInv' /\ RevisionsKept /\ VersionsSound' /\ RunInv'
  BY NextKeepsVersions, NextKeepsSound, NextKeepsRun DEF TypeInv, ScenRunInv
<1>2. RunsTyped'
  BY <1>1, NextKeepsRunsTyped
<1> QED BY <1>1, <1>2, NextKeepsRows, NextKeepsJobs, NextKeepsAccounts, NextKeepsMode DEF TypeInv, ScenRunInv

LEMMA TypeInvHolds == Spec => []TypeInv
<1>1. TypeInv /\ [Next]_vars => TypeInv'
  BY NextTypeInv
<1> QED BY InitTypeInv, <1>1, PTL DEF Spec

\* Every variable keeps its type; in particular the version of a run is one its scenario has,
\* a launched step is one of that version, and a new row is told apart from its step's others.
THEOREM ScenarioTypeCorrect == Spec => []TypeOK
<1>1. TypeInv => TypeOK
  <2> SUFFICES ASSUME TypeInv PROVE TypeOK
    OBVIOUS
  <2>1. hist \in [Accounts -> [Scenarios -> Nat]]
    BY DEF TypeInv, RunInv, Follows
  <2>2. \A a \in Accounts : rows[a] \subseteq Row
    BY DEF TypeInv, RowsTyped
  <2> QED BY <2>1, <2>2 DEF TypeInv, TypeOK, ScenRunInv, ScenInv, RunsTyped, JobsTyped
<1> QED BY TypeInvHolds, <1>1, PTL

-----------------------------------------------------------------------------
(* A run that ends leaves nothing of its version open                      *)

\* A run ends by a payment that an import brings, or with its last measure.
LEMMA WhatEndsARun ==
    ASSUME TypeInv, [Next]_vars, NEW b \in Accounts, run'[b].finished, ~run[b].finished
    PROVE  \E w \in Workers : \/ ImportPaid(w, b)
                              \/ \E m \in rows[b] : StopRow(w, b, m) /\ run' # run
<1>0. /\ run \in [Accounts -> Run]
      /\ \A s \in Scenarios : scen[s].status = "active" =>
            NewRun(s) \in Run /\ ~NewRun(s).finished
      /\ Default \in Scenarios /\ scen[Default].status = "active"
  BY NewRunTyped, DefaultIsScenario DEF TypeInv, ScenRunInv, RunsTyped, VersionsSound
<1>1. ASSUME NEW w \in Workers, Step1(w) PROVE FALSE
  BY <1>0, <1>1 DEF Step1, Enter, Look, SkipMessenger, LaunchOk, LaunchRefused, Run
<1>2. ASSUME NEW w \in Workers, NEW a \in Accounts, ImportDebtor(w, a) \/ Start(w, a) PROVE FALSE
  BY <1>0, <1>2 DEF ImportDebtor, Bind, Start, Run
<1>3. ASSUME NEW w \in Workers, NEW a \in Accounts, ImportPaid(w, a) PROVE a = b
  BY <1>0, <1>3 DEF ImportPaid, Settle
<1>4. ASSUME NEW w \in Workers, NEW a \in Accounts, NEW s \in Scenarios, Replace(w, a, s) PROVE FALSE
  <2> DEFINE n == NewRun(s)
  <2>1. n \in Run /\ ~n.finished
    BY <1>0, <1>4 DEF Replace
  <2>2. \/ run' = [run EXCEPT ![a] = [run[a] EXCEPT !.ver = Len(scen[s].revs), !.awaiting = ~auto]]
        \/ run' = [run EXCEPT ![a] = [n EXCEPT !.awaiting = ~auto, !.aged = run[a].aged]]
    BY <1>0, <1>4 DEF Replace
  <2> HIDE DEF n
  <2>3. run'[b].finished = run[b].finished \/ run'[b].finished = n.finished
    <3> DEFINE r == [run[a] EXCEPT !.ver = Len(scen[s].revs), !.awaiting = ~auto]
               q == [n EXCEPT !.awaiting = ~auto, !.aged = run[a].aged]
    <3>1. run[a] \in Run
      BY <1>0
    <3>2. r.finished = run[a].finished /\ q.finished = n.finished
      BY <2>1, <3>1 DEF Run
    <3>3. run' = [run EXCEPT ![a] = r] \/ run' = [run EXCEPT ![a] = q]
      BY <2>2
    <3> HIDE DEF r, q
    <3> QED BY <1>0, <3>2, <3>3
  <2> QED BY <2>1, <2>3
<1>5. ASSUME NEW w \in Workers, NEW a \in Accounts, NEW s \in Scenarios, NEW u \in BOOLEAN, NEW p \in BOOLEAN,
             Assign(w, a, s, u, p)
      PROVE  FALSE
  <2> DEFINE ends    == run[a].scen # s /\ ~run[a].finished
             ver     == IF u \/ run[a].scen # s THEN Len(scen[s].revs) ELSE run[a].ver
             waits   == IF p THEN run[a].awaiting /\ ~(ends /\ Exists(run[a])) ELSE ~auto
             skipped == IF ends THEN {} ELSE run[a].skipped
  <2>1. run' = [run EXCEPT ![a] = [run[a] EXCEPT !.scen = s, !.ver = ver, !.paused = p, !.awaiting = waits,
                                                 !.skipped = skipped]]
    BY <1>5 DEF Assign
  <2> HIDE DEF ends, ver, waits, skipped
  <2>2. \A r \in Run : [r EXCEPT !.scen = s, !.ver = ver, !.paused = p, !.awaiting = waits,
                                  !.skipped = skipped].finished = r.finished
    BY DEF Run
  <2> QED BY <1>0, <2>1, <2>2
<1>6. ASSUME NEW w \in Workers, NEW a \in Accounts, SkipStep(w, a) \/ OpenCase(w, a) PROVE FALSE
  <2>1. run' = run \/ \E k : run' = [run EXCEPT ![a].skipped = k]
    BY <1>6 DEF SkipStep, OpenCase
  <2> QED BY <1>0, <2>1 DEF Run
<1>7. ASSUME NEW w \in Workers, NEW a \in Accounts, NEW m \in rows[a], StopRow(w, a, m)
      PROVE  a = b /\ run' # run
  BY <1>0, <1>7 DEF StopRow
<1>8. ASSUME NEW w \in Workers, NEW a \in Accounts, NEW m \in rows[a],
             \/ \E st \in Outcomes : FinishRow(w, a, m, st)
             \/ \E st \in {"open", "done"} : SyncClaim(w, a, m, st)
      PROVE  FALSE
  BY <1>8 DEF FinishRow, SyncClaim
<1>9. ASSUME NEW w \in Workers, NEW s \in Scenarios,
             (\E p \in Plans : EditDraft(w, s, p)) \/ \E t \in Scenarios : CopyScenario(w, s, t)
      PROVE  FALSE
  BY <1>9 DEF EditDraft, CopyScenario
<1>10. ASSUME NEW w \in Workers, NEW s \in Scenarios, NEW mv \in BOOLEAN,
             Publish(w, s, mv) \/ \E v \in 1..MaxVersion : RestoreScenario(w, s, v, mv)
      PROVE  FALSE
  <2>1. run' = [a \in Accounts |-> IF mv /\ run[a].scen = s
                                   THEN [run[a] EXCEPT !.ver = Len(scen[s].revs) + 1] ELSE run[a]]
    BY <1>10 DEF Publish, RestoreScenario, PublishAs
  <2> QED BY <1>0, <2>1 DEF Run
<1>11. CASE SetMode \/ UNCHANGED vars
  BY <1>11 DEF SetMode, vars
<1>12. CASE DayPasses
  <2>1. run' = [a \in Accounts |-> IF Exists(run[a]) THEN [run[a] EXCEPT !.aged = TRUE] ELSE run[a]]
    BY <1>12 DEF DayPasses
  <2> QED BY <1>0, <2>1 DEF Run
<1>13. ASSUME NEW a \in Accounts, Debt(a) \/ Block(a) \/ Deliver(a) \/ CutOff(a) PROVE FALSE
  BY <1>13 DEF Debt, Block, Deliver, CutOff
<1> QED BY <1>1, <1>2, <1>3, <1>4, <1>5, <1>6, <1>7, <1>8, <1>9, <1>10, <1>11, <1>12, <1>13 DEF Next, Import

LEMMA EndLeavesNothingOpen ==
    ASSUME TypeInv, [Next]_vars, NEW b \in Accounts, run'[b].finished, ~run[b].finished,
           NEW m \in rows'[b], m.scen = run[b].scen, m.ver = run[b].ver
    PROVE  m.status \in {"done", "cancelled"} \/ m.cut
<1>0. RowsTyped /\ rows[b] \in SUBSET Row /\ "done" \in Statuses
  BY DEF TypeInv, RowsTyped, Statuses
<1>1. PICK w \in Workers : ImportPaid(w, b) \/ \E n \in rows[b] : StopRow(w, b, n) /\ run' # run
  BY WhatEndsARun
<1>2. CASE ImportPaid(w, b)
  <2>1. rows'[b] = {Closed(n, "done") : n \in rows[b]}
    BY <1>0, <1>2, ClosedTyped DEF ImportPaid, Settle, RowsTyped
  <2>2. PICK n \in rows[b] : m = Closed(n, "done")
    BY <2>1
  <2>3. n \in Row
    BY <1>0
  <2> QED BY <2>2, <2>3 DEF Closed, Row
<1>3. ASSUME NEW n \in rows[b], StopRow(w, b, n), run' # run
      PROVE  m.status \in {"done", "cancelled"}
  <2>1. {x \in Own(b, run[b]) \ {n} : x.status \in {"open", "failed"}} = {}
    BY <1>3 DEF StopRow
  <2>2. rows'[b] = (rows[b] \ {n}) \cup {[n EXCEPT !.status = "done", !.aged = FALSE]}
    BY <1>3 DEF StopRow, Changed, TypeInv, RowsTyped
  <2>3. CASE m = [n EXCEPT !.status = "done", !.aged = FALSE]
    <3>1. n \in Row
      BY <1>0
    <3> QED BY <2>3, <3>1 DEF Row
  <2>4. CASE m \in rows[b] \ {n}
    <3>1. m \in Own(b, run[b]) \ {n}
      BY <2>4 DEF Own
    <3>2. m.status \notin {"open", "failed"}
      BY <2>1, <3>1
    <3>3. m \in Row
      BY <1>0, <2>4
    <3> QED BY <3>2, <3>3 DEF Row
  <2> QED BY <2>2, <2>3, <2>4
<1> QED BY <1>1, <1>2, <1>3

\* A run that ends, by a payment or with its last measure, leaves no measure of its version
\* open, a service already cut off excepted: whatever number of workers there are.
THEOREM EndsClosed == Spec => RunEndsClosed
<1>1. TypeInv /\ [Next]_vars =>
        (\A a \in Accounts : run'[a].finished /\ ~run[a].finished =>
          \A m \in rows'[a] : m.scen = run[a].scen /\ m.ver = run[a].ver =>
              m.status \in {"done", "cancelled"} \/ m.cut)
  BY EndLeavesNothingOpen
<1> QED BY TypeInvHolds, <1>1, PTL DEF Spec, RunEndsClosed

-----------------------------------------------------------------------------
(* What a step does to the rows of an account: but for a launch and the    *)
(* opening of a case, every row goes on as a row of the same step.         *)

Follow(a, f) ==
    /\ DOMAIN f = rows[a]
    /\ rows'[a] = {f[m] : m \in rows[a]}
    /\ \A m \in rows[a] : SameRow(m, f[m])

OneByOne(a) == \E f : Follow(a, f)

\* Their statuses stay too.
Quiet(a) == \E f : Follow(a, f) /\ \A m \in rows[a] : f[m].status = m.status

LaunchOn(a) ==
    \E w \in Workers : job[w].at = "launch" /\ job[w].acct = a /\ (LaunchOk(w) \/ LaunchRefused(w))

LEMMA SameRowsQuiet ==
    ASSUME NEW a, rows'[a] = rows[a]
    PROVE  Quiet(a) /\ OneByOne(a)
<1> DEFINE f == [m \in rows[a] |-> m]
<1>1. Follow(a, f) /\ \A m \in rows[a] : f[m].status = m.status
  BY DEF Follow, SameRow, SameStep
<1> HIDE DEF f
<1> QED BY <1>1 DEF Quiet, OneByOne

LEMMA ReplacedRowFollows ==
    ASSUME NEW a, NEW m \in rows[a], NEW n, SameRow(m, n), rows'[a] = (rows[a] \ {m}) \cup {n}
    PROVE  OneByOne(a) /\ (n.status = m.status => Quiet(a))
<1> DEFINE f == [x \in rows[a] |-> IF x = m THEN n ELSE x]
<1>1. DOMAIN f = rows[a] /\ \A x \in rows[a] : f[x] = IF x = m THEN n ELSE x
  OBVIOUS
<1> HIDE DEF f
<1>2. {f[x] : x \in rows[a]} = (rows[a] \ {m}) \cup {n}
  BY <1>1
<1>3. Follow(a, f)
  BY <1>1, <1>2 DEF Follow, SameRow, SameStep
<1>4. n.status = m.status => \A x \in rows[a] : f[x].status = x.status
  BY <1>1
<1> QED BY <1>3, <1>4 DEF OneByOne, Quiet

LEMMA MappedRowsFollow ==
    ASSUME NEW a, NEW f, DOMAIN f = rows[a], rows'[a] = {f[m] : m \in rows[a]},
           \A m \in rows[a] : SameRow(m, f[m])
    PROVE  OneByOne(a)
  BY DEF Follow, OneByOne

LEMMA OtherAccountsQuiet ==
    ASSUME RowsTyped, NEW a \in Accounts, NEW b \in Accounts, NEW R, rows' = [rows EXCEPT ![a] = R], a # b
    PROVE  OneByOne(b) /\ Quiet(b)
<1>1. rows'[b] = rows[b]
  BY DEF RowsTyped
<1> QED BY <1>1, SameRowsQuiet

LEMMA ClosingFollows ==
    ASSUME RowsTyped, NEW a \in Accounts, NEW b \in Accounts, NEW st \in Statuses,
           UNCHANGED rows \/ rows' = [rows EXCEPT ![a] = ClosedBy(a, st)]
    PROVE  OneByOne(b)
<1>1. CASE UNCHANGED rows
  BY <1>1, SameRowsQuiet
<1>2. CASE rows' = [rows EXCEPT ![a] = ClosedBy(a, st)] /\ a # b
  BY <1>2, OtherAccountsQuiet
<1>3. CASE rows' = [rows EXCEPT ![a] = ClosedBy(a, st)] /\ a = b
  <2> DEFINE f == [m \in rows[b] |-> Closed(m, st)]
  <2>1. rows'[b] = {f[m] : m \in rows[b]}
    <3>1. rows'[b] = ClosedBy(b, st)
      BY <1>3 DEF RowsTyped
    <3>2. ClosedBy(b, st) = {Closed(m, st) : m \in rows[b]}
      BY ClosedTyped
    <3> QED BY <3>1, <3>2
  <2>2. \A m \in rows[b] : SameRow(m, f[m])
    <3>1. ASSUME NEW m \in rows[b] PROVE SameRow(m, Closed(m, st))
      <4>1. m \in Row
        BY DEF RowsTyped
      <4> QED BY <4>1 DEF Closed, SameRow, SameStep, Row
    <3> QED BY <3>1
  <2>3. DOMAIN f = rows[b]
    OBVIOUS
  <2> HIDE DEF f
  <2> QED BY <2>1, <2>2, <2>3, MappedRowsFollow
<1> QED BY <1>1, <1>2, <1>3

LEMMA SkippingFollows ==
    ASSUME RowsTyped, NEW w \in Workers, NEW a \in Accounts, NEW b \in Accounts, SkipStep(w, a)
    PROVE  OneByOne(b)
<1> DEFINE own   == Own(a, run[a])
           left  == {PlanOf(run[a])[i].order : i \in DOMAIN PlanOf(run[a])} \ DoneOrders(own, run[a])
           first == CHOOSE o \in left : \A q \in left : o <= q
           R     == {IF m \in own /\ m.order = first /\ m.status \in {"open", "failed"}
                     THEN [m EXCEPT !.status = "cancelled"] ELSE m : m \in rows[a]}
<1>1. rows' = [rows EXCEPT ![a] = R]
  BY DEF SkipStep
<1>2. CASE a # b
  <2> HIDE DEF R
  <2> QED BY <1>1, <1>2, OtherAccountsQuiet
<1>3. CASE a = b
  <2>0. rows'[b] = R
    <3> HIDE DEF R
    <3> QED BY <1>1, <1>3 DEF RowsTyped
  <2> HIDE DEF own, first
  <2> DEFINE f == [m \in rows[b] |-> IF m \in own /\ m.order = first /\ m.status \in {"open", "failed"}
                                     THEN [m EXCEPT !.status = "cancelled"] ELSE m]
  <2>1. rows'[b] = {f[m] : m \in rows[b]}
    BY <1>3, <2>0
  <2>2. \A m \in rows[b] : SameRow(m, f[m])
    <3>1. ASSUME NEW m \in rows[b]
          PROVE  SameRow(m, [m EXCEPT !.status = "cancelled"]) /\ SameRow(m, m)
      <4>1. m \in Row
        BY DEF RowsTyped
      <4> QED BY <4>1 DEF SameRow, SameStep, Row
    <3> QED BY <3>1
  <2>3. DOMAIN f = rows[b]
    OBVIOUS
  <2> HIDE DEF f
  <2> QED BY <2>1, <2>2, <2>3, MappedRowsFollow
<1> QED BY <1>2, <1>3

LEMMA ChangingFollows ==
    ASSUME RowsTyped, NEW a \in Accounts, NEW b \in Accounts, NEW m \in rows[a], NEW st \in Statuses,
           NEW y \in Templates, Changed(a, m, st, y)
    PROVE  OneByOne(b)
<1> DEFINE n == [m EXCEPT !.status = st, !.name = y, !.aged = FALSE]
<1>1. rows' = [rows EXCEPT ![a] = (rows[a] \ {m}) \cup {n}]
  BY DEF Changed
<1>2. SameRow(m, n)
  <2>1. m \in Row
    BY DEF RowsTyped
  <2> QED BY <2>1 DEF SameRow, SameStep, Row
<1> HIDE DEF n
<1>3. CASE a # b
  BY <1>1, <1>3, OtherAccountsQuiet
<1>4. CASE a = b
  <2>1. rows'[b] = (rows[b] \ {m}) \cup {n}
    BY <1>1, <1>4 DEF RowsTyped
  <2> QED BY <1>2, <1>4, <2>1, ReplacedRowFollows
<1> QED BY <1>3, <1>4

LEMMA CuttingQuiet ==
    ASSUME RowsTyped, NEW a \in Accounts, NEW b \in Accounts, CutOff(a)
    PROVE  Quiet(b)
<1>1. PICK m \in rows[a] : rows' = [rows EXCEPT ![a] = (rows[a] \ {m}) \cup {[m EXCEPT !.cut = TRUE]}]
  BY DEF CutOff
<1> DEFINE n == [m EXCEPT !.cut = TRUE]
<1>2. SameRow(m, n) /\ n.status = m.status
  <2>1. m \in Row
    BY DEF RowsTyped
  <2> QED BY <2>1 DEF SameRow, SameStep, Row
<1>3. rows' = [rows EXCEPT ![a] = (rows[a] \ {m}) \cup {n}]
  BY <1>1
<1> HIDE DEF n
<1>4. CASE a # b
  BY <1>3, <1>4, OtherAccountsQuiet
<1>5. CASE a = b
  <2>1. rows'[b] = (rows[b] \ {m}) \cup {n}
    BY <1>3, <1>5 DEF RowsTyped
  <2> QED BY <1>2, <1>5, <2>1, ReplacedRowFollows
<1> QED BY <1>4, <1>5

LEMMA DaysQuiet ==
    ASSUME RowsTyped, NEW b \in Accounts, DayPasses
    PROVE  Quiet(b)
<1> DEFINE f == [m \in rows[b] |-> IF m.status = "done" THEN [m EXCEPT !.aged = TRUE] ELSE m]
<1>1. rows'[b] = {f[m] : m \in rows[b]}
  BY DEF DayPasses
<1>2. \A m \in rows[b] : SameRow(m, f[m]) /\ f[m].status = m.status
  <2>1. ASSUME NEW m \in rows[b]
        PROVE  /\ SameRow(m, [m EXCEPT !.aged = TRUE]) /\ SameRow(m, m)
               /\ [m EXCEPT !.aged = TRUE].status = m.status
    <3>1. m \in Row
      BY DEF RowsTyped
    <3> QED BY <3>1 DEF SameRow, SameStep, Row
  <2> QED BY <2>1
<1>3. DOMAIN f = rows[b]
  OBVIOUS
<1> HIDE DEF f
<1> QED BY <1>1, <1>2, <1>3 DEF Quiet, Follow

LEMMA CaseOpens ==
    ASSUME RowsTyped, NEW w \in Workers, NEW a \in Accounts, NEW b \in Accounts, OpenCase(w, a)
    PROVE  OneByOne(b) \/ \E x : ~Exists(x) /\ rows'[b] = rows[b] \cup {x}
<1> DEFINE x == [scen |-> None, ver |-> 0, order |-> 0, action |-> "claim", copy |-> 0,
                 status |-> "open", name |-> "none", aged |-> FALSE, cut |-> FALSE]
<1>1. ~Exists(x)
  BY DEF Exists
<1>2. rows' = [rows EXCEPT ![a] = rows[a]] \/ rows' = [rows EXCEPT ![a] = rows[a] \cup {x}]
  BY DEF OpenCase
<1> HIDE DEF x
<1>3. CASE a # b
  BY <1>2, <1>3, OtherAccountsQuiet
<1>4. CASE a = b
  <2>1. rows'[b] = rows[b] \/ rows'[b] = rows[b] \cup {x}
    BY <1>2, <1>4 DEF RowsTyped
  <2> QED BY <1>1, <2>1, SameRowsQuiet
<1> QED BY <1>3, <1>4

LEMMA RowSteps ==
    ASSUME TypeInv, [Next]_vars, NEW b \in Accounts
    PROVE  \/ OneByOne(b)
           \/ \E x : ~Exists(x) /\ rows'[b] = rows[b] \cup {x}
           \/ LaunchOn(b)
<1>0. RowsTyped /\ {"done", "cancelled", "open"} \subseteq Statuses /\ Outcomes \subseteq Statuses
  BY ScenarioAssumption DEF TypeInv, Statuses
<1>1. CASE UNCHANGED rows
  BY <1>1, SameRowsQuiet
<1>2. ASSUME NEW w \in Workers, Step1(w)
      PROVE  OneByOne(b) \/ LaunchOn(b)
  <2>1. CASE LaunchOk(w) \/ LaunchRefused(w)
    <3>1. /\ job[w].at = "launch" /\ job[w].acct \in Accounts
          /\ UNCHANGED rows \/ \E R : rows' = [rows EXCEPT ![job[w].acct] = R]
      BY <2>1, LaunchTyped DEF LaunchOk, LaunchRefused
    <3>2. CASE job[w].acct = b
      BY <2>1, <3>1, <3>2 DEF LaunchOn
    <3>3. CASE job[w].acct # b
      BY <1>0, <3>1, <3>3, OtherAccountsQuiet, SameRowsQuiet
    <3> QED BY <3>2, <3>3
  <2>2. CASE ~(LaunchOk(w) \/ LaunchRefused(w))
    <3>1. UNCHANGED rows
      BY <1>2, <2>2 DEF Step1, Enter, Look, SkipMessenger
    <3> QED BY <3>1, SameRowsQuiet
  <2> QED BY <2>1, <2>2
<1>3. ASSUME NEW w \in Workers, NEW a \in Accounts, Import(w, a) \/ Start(w, a)
      PROVE  OneByOne(b)
  BY <1>0, <1>1, <1>3, ClosingFollows, SameRowsQuiet DEF Import, ImportPaid, Settle, ImportDebtor, Start
<1>4. ASSUME NEW w \in Workers, NEW a \in Accounts, NEW s \in Scenarios,
             Replace(w, a, s) \/ \E u, p \in BOOLEAN : Assign(w, a, s, u, p)
      PROVE  OneByOne(b)
  <2>1. UNCHANGED rows \/ rows' = [rows EXCEPT ![a] = ClosedBy(a, "cancelled")]
    BY <1>4 DEF Replace, Assign
  <2> QED BY <1>0, <2>1, ClosingFollows
<1>5. ASSUME NEW w \in Workers, NEW a \in Accounts, SkipStep(w, a)
      PROVE  OneByOne(b)
  BY <1>0, <1>5, SkippingFollows
<1>6. ASSUME NEW w \in Workers, NEW a \in Accounts, NEW m \in rows[a],
             \/ StopRow(w, a, m)
             \/ \E st \in Outcomes : FinishRow(w, a, m, st)
             \/ \E st \in {"open", "done"} : SyncClaim(w, a, m, st)
      PROVE  OneByOne(b)
  <2>1. m.name \in Templates /\ "none" \in Templates
    <3>1. m \in Row
      BY <1>0 DEF RowsTyped
    <3> QED BY <3>1 DEF Row, Templates
  <2>2. PICK st \in Statuses, y \in Templates : Changed(a, m, st, y)
    BY <1>0, <1>6, <2>1 DEF StopRow, FinishRow, SyncClaim
  <2> QED BY <1>0, <2>2, ChangingFollows
<1>7. ASSUME NEW w \in Workers, NEW s \in Scenarios,
             \/ \E p \in Plans : EditDraft(w, s, p)
             \/ \E t \in Scenarios : CopyScenario(w, s, t)
             \/ \E mv \in BOOLEAN : Publish(w, s, mv) \/ \E v \in 1..MaxVersion : RestoreScenario(w, s, v, mv)
      PROVE  UNCHANGED rows
  BY <1>7 DEF EditDraft, CopyScenario, Publish, RestoreScenario
<1>8. CASE SetMode \/ UNCHANGED vars
  BY <1>1, <1>8 DEF SetMode, vars
<1>9. ASSUME Quiet(b) PROVE OneByOne(b)
  BY <1>9 DEF Quiet, OneByOne
<1>10. CASE DayPasses
  BY <1>0, <1>9, <1>10, DaysQuiet
<1>11. ASSUME NEW a \in Accounts, Debt(a) \/ Block(a) \/ Deliver(a) \/ CutOff(a)
      PROVE  OneByOne(b)
  BY <1>0, <1>1, <1>9, <1>11, CuttingQuiet, SameRowsQuiet DEF Debt, Block, Deliver
<1>12. ASSUME NEW w \in Workers, NEW a \in Accounts, OpenCase(w, a)
       PROVE  OneByOne(b) \/ \E x : ~Exists(x) /\ rows'[b] = rows[b] \cup {x}
  BY <1>0, <1>12, CaseOpens
<1>13. CASE Next
  BY <1>1, <1>2, <1>3, <1>4, <1>5, <1>6, <1>7, <1>8, <1>10, <1>11, <1>12, <1>13 DEF Next
<1> QED BY <1>8, <1>13

-----------------------------------------------------------------------------
(* One worker: what an advance has read is still so when it writes         *)

OneWorker == \A v, w \in Workers : v = w

UniqueIn(R) == \A m, n \in R : Exists(m) /\ SameStep(m, n) => m = n

\* The run an advance goes on with may be advanced; a step about to be launched has no row of
\* its version yet, and nothing that is open stands before it.
MayGoOn(r) == ~(r.awaiting \/ r.finished \/ r.paused)

Clear(a, r, s) ==
    /\ \A m \in StartedOf(Own(a, r), s) : m.status = "failed"
    /\ \A m \in Own(a, r) : m.status = "open" => ~Blocks(PlanOf(r), m)

Ready(w) ==
    /\ job[w].at \in {"look", "launch"} => MayGoOn(run[job[w].acct])
    /\ job[w].at = "launch" =>
          /\ job[w].seen.scen = run[job[w].acct].scen /\ job[w].seen.ver = run[job[w].acct].ver
          /\ Clear(job[w].acct, run[job[w].acct], job[w].step)

OrderInv ==
    /\ TypeInv
    /\ \A a \in Accounts : UniqueIn(rows[a])
    /\ \A w \in Workers : Ready(w)

LEMMA FollowedUnique ==
    ASSUME NEW a, UniqueIn(rows[a]), OneByOne(a) \/ \E x : ~Exists(x) /\ rows'[a] = rows[a] \cup {x}
    PROVE  UniqueIn(rows'[a])
<1>1. ASSUME NEW f, Follow(a, f) PROVE UniqueIn(rows'[a])
  <2> SUFFICES ASSUME NEW m \in rows'[a], NEW n \in rows'[a], Exists(m), SameStep(m, n)
               PROVE  m = n
    BY DEF UniqueIn
  <2>1. PICK x \in rows[a], y \in rows[a] : m = f[x] /\ n = f[y]
    BY <1>1 DEF Follow
  <2>2. SameStep(x, m) /\ SameStep(y, n)
    BY <1>1, <2>1 DEF Follow, SameRow
  <2>3. Exists(x) /\ SameStep(x, y)
    BY <2>2 DEF SameStep, Exists
  <2> QED BY <2>1, <2>3 DEF UniqueIn
<1>2. ASSUME NEW x, ~Exists(x), rows'[a] = rows[a] \cup {x} PROVE UniqueIn(rows'[a])
  BY <1>2 DEF UniqueIn, SameStep, Exists
<1> QED BY <1>1, <1>2 DEF OneByOne

\* A launch adds one row, of the step that was looked for; what failed of the step goes.
Adds(w, n) ==
    /\ n.scen = job[w].seen.scen /\ n.ver = job[w].seen.ver
    /\ n.order = job[w].step.order /\ n.action = job[w].step.action
    /\ \A m \in rows'[job[w].acct] :
          m = n \/ (m \in rows[job[w].acct] /\ (SameStep(m, n) => m.status # "failed"))

LEMMA LaunchAddsOne ==
    ASSUME TypeInv, NEW w \in Workers, LaunchOk(w) \/ LaunchRefused(w)
    PROVE  rows'[job[w].acct] = rows[job[w].acct] \/ \E n : Adds(w, n)
<1> DEFINE a == job[w].acct
           r == job[w].seen
           s == job[w].step
           claim == {m \in rows[a] : s.action = "writ" /\ m.action = "claim" /\ m.status \in {"open", "failed"}}
           c == CHOOSE c \in claim : TRUE
           kept == WithoutFailed(a, r, s)
           st == IF s.auto /\ s.action = "sms" THEN "done" ELSE "open"
           Fits(n) == n.scen = r.scen /\ n.ver = r.ver /\ n.order = s.order /\ n.action = s.action
<1>0. a \in Accounts /\ s \in Step /\ r \in Run /\ rows[a] \in SUBSET Row /\ rows \in [Accounts -> SUBSET Row]
  BY LaunchTyped DEF LaunchOk, LaunchRefused, TypeInv, RowsTyped
<1>1. \A n : Fits(n) => \A m \in kept : m \in rows[a] /\ (SameStep(m, n) => m.status # "failed")
  BY DEF WithoutFailed, SameStep
<1>2. \A x \in Statuses : NewRow(a, r, s, x) \in Row /\ Fits(NewRow(a, r, s, x))
  <2> HIDE DEF a, r, s
  <2> QED BY <1>0, NewRowTyped DEF TypeInv
<1>3. st \in Statuses /\ "failed" \in Statuses
  BY DEF Statuses
<1>4. CASE LaunchRefused(w)
  <2> DEFINE n == NewRow(a, r, s, "failed")
             refused == \E m \in StartedOf(Own(a, r), s) : m.status = "failed"
  <2>1. CASE refused
    BY <1>4, <2>1 DEF LaunchRefused
  <2>2. CASE ~refused
    <3>1. rows' = [rows EXCEPT ![a] = rows[a] \cup {n}]
      BY <1>4, <2>2 DEF LaunchRefused
    <3>2. Fits(n)
      BY <1>2, <1>3
    <3>3. \A m \in rows[a] : SameStep(m, n) => m.status # "failed"
      BY <2>2, <3>2 DEF StartedOf, Own, SameStep
    <3> HIDE DEF n
    <3>4. rows'[a] = rows[a] \cup {n}
      BY <1>0, <3>1
    <3>5. Adds(w, n)
      BY <3>2, <3>3, <3>4 DEF Adds, SameStep
    <3> QED BY <3>5
  <2> QED BY <2>1, <2>2
<1>5. CASE LaunchOk(w) /\ claim = {}
  <2> DEFINE n == NewRow(a, r, s, st)
  <2>1. rows' = [rows EXCEPT ![a] = kept \cup {n}]
    BY <1>5 DEF LaunchOk
  <2>2. Fits(n)
    BY <1>2, <1>3
  <2> HIDE DEF n, kept
  <2>3. rows'[a] = kept \cup {n}
    BY <1>0, <2>1
  <2>4. Adds(w, n)
    BY <1>1, <2>2, <2>3 DEF Adds, SameStep
  <2> QED BY <2>4
<1>6. CASE LaunchOk(w) /\ claim # {}
  <2> DEFINE n == NewRow(a, r, s, c.status)
             m == [n EXCEPT !.name = c.name, !.aged = c.aged]
  <2>1. c.status \in Statuses
    <3>1. c \in claim
      BY <1>6
    <3> QED BY <1>0, <3>1 DEF Row, Statuses
  <2>2. rows' = [rows EXCEPT ![a] = (kept \ {c}) \cup {m}]
    BY <1>6 DEF LaunchOk
  <2>3. n \in Row /\ Fits(n)
    BY <1>2, <2>1
  <2> HIDE DEF n
  <2>4. Fits(m)
    BY <2>3 DEF Row
  <2> HIDE DEF m, kept, c
  <2>5. rows'[a] = (kept \ {c}) \cup {m}
    BY <1>0, <2>2
  <2>6. Adds(w, m)
    BY <1>1, <2>4, <2>5 DEF Adds, SameStep
  <2> QED BY <2>6
<1> QED BY <1>4, <1>5, <1>6

LEMMA LaunchedUnique ==
    ASSUME OrderInv, NEW w \in Workers, job[w].at = "launch", LaunchOk(w) \/ LaunchRefused(w)
    PROVE  UniqueIn(rows'[job[w].acct])
<1> DEFINE a == job[w].acct
           r == run[a]
           s == job[w].step
<1>1. TypeInv /\ Ready(w) /\ a \in Accounts
  BY LaunchTyped DEF OrderInv
<1>2. UniqueIn(rows[a])
  BY <1>1 DEF OrderInv
<1>3. CASE rows'[a] = rows[a]
  BY <1>2, <1>3
<1>4. ASSUME NEW n, Adds(w, n) PROVE UniqueIn(rows'[a])
  <2>1. n.scen = r.scen /\ n.ver = r.ver /\ n.order = s.order /\ n.action = s.action
    BY <1>1, <1>4 DEF Ready, Adds
  <2>2. \A m \in StartedOf(Own(a, r), s) : m.status = "failed"
    BY <1>1 DEF Ready, Clear
  <2>3. \A m \in rows[a] : SameStep(m, n) => m.status = "failed"
    <3> HIDE DEF r, s, a
    <3> QED BY <2>1, <2>2 DEF SameStep, StartedOf, Own
  <2>4. \A m \in rows'[a] : m = n \/ (m \in rows[a] /\ ~SameStep(m, n))
    BY <1>4, <2>3 DEF Adds, SameStep
  <2> HIDE DEF a
  <2> QED BY <1>2, <2>4 DEF UniqueIn, SameStep, Exists
<1> QED BY <1>1, <1>3, <1>4, LaunchAddsOne

LEMMA RowsStayUnique ==
    ASSUME OrderInv, [Next]_vars, NEW a \in Accounts
    PROVE  UniqueIn(rows'[a])
<1>1. TypeInv /\ UniqueIn(rows[a])
  BY DEF OrderInv
<1>2. CASE LaunchOn(a)
  BY <1>2, LaunchedUnique DEF LaunchOn
<1> QED BY <1>1, <1>2, RowSteps, FollowedUnique

\* What _advance_once finds stands clear.
LEMMA NextStepIsClear ==
    ASSUME NEW a, NEW r, NEW s \in NextStep(a, r)
    PROVE  Clear(a, r, s)
<1> DEFINE plan  == PlanOf(r)
           own   == Own(a, r)
           due   == {i \in DOMAIN plan : /\ plan[i].order \notin DoneOrders(own, r)
                                         /\ ~AlreadyStarted(own, plan[i])
                                         /\ Matches(a, plan[i])}
           first == {i \in due : \A j \in due : \/ plan[i].order < plan[j].order
                                                \/ plan[i].order = plan[j].order /\ i <= j}
<1>1. /\ ~\E m \in own : m.status = "open" /\ Blocks(plan, m)
      /\ s \in {plan[i] : i \in {i \in first : plan[i].after \/ WaitElapsed(a, r, plan[i])}}
  BY DEF NextStep
<1>2. PICK i \in due : s = plan[i]
  BY <1>1
<1>3. ~AlreadyStarted(own, s)
  BY <1>2
<1> QED BY <1>1, <1>3 DEF Clear, AlreadyStarted

LEMMA ClearStays ==
    ASSUME NEW a, NEW r, NEW s, NEW q, q.scen = r.scen, q.ver = r.ver,
           Clear(a, r, s), UNCHANGED scen, Quiet(a)
    PROVE  Clear(a, q, s)'
<1>1. PICK f : Follow(a, f) /\ \A m \in rows[a] : f[m].status = m.status
  BY DEF Quiet
<1>2. PlanOf(q)' = PlanOf(r)
  BY DEF PlanOf
<1>3. ASSUME NEW n \in rows'[a], n.scen = q.scen, n.ver = q.ver
      PROVE  \E m \in Own(a, r) : m.order = n.order /\ m.action = n.action /\ m.status = n.status
  <2>1. PICK m \in rows[a] : n = f[m]
    BY <1>1 DEF Follow
  <2>2. SameStep(m, n) /\ n.status = m.status
    BY <1>1, <2>1 DEF Follow, SameRow
  <2> QED BY <1>3, <2>2 DEF SameStep, Own
<1>4. \A n \in StartedOf(Own(a, q), s)' : n.status = "failed"
  <2> SUFFICES ASSUME NEW n \in StartedOf(Own(a, q), s)' PROVE n.status = "failed"
    OBVIOUS
  <2>1. n \in rows'[a] /\ n.scen = q.scen /\ n.ver = q.ver /\ n.order = s.order /\ n.action = s.action
    BY DEF StartedOf, Own
  <2>2. PICK m \in Own(a, r) : m.order = n.order /\ m.action = n.action /\ m.status = n.status
    BY <1>3, <2>1
  <2>3. m \in StartedOf(Own(a, r), s)
    BY <2>1, <2>2 DEF StartedOf
  <2> QED BY <2>2, <2>3 DEF Clear
<1>5. ASSUME NEW n \in Own(a, q)', n.status = "open"
      PROVE  ~Blocks(PlanOf(r), n)
  <2>1. n \in rows'[a] /\ n.scen = q.scen /\ n.ver = q.ver
    BY DEF Own
  <2>2. PICK m \in Own(a, r) : m.order = n.order /\ m.action = n.action /\ m.status = n.status
    BY <1>3, <2>1
  <2>3. ~Blocks(PlanOf(r), m)
    BY <1>5, <2>2 DEF Clear
  <2> QED BY <2>2, <2>3 DEF Blocks
<1> QED BY <1>2, <1>4, <1>5 DEF Clear

SameFlags(r, q) ==
    /\ q.scen = r.scen /\ q.ver = r.ver
    /\ q.awaiting = r.awaiting /\ q.finished = r.finished /\ q.paused = r.paused

\* What comes from outside: days, debts, deliveries, the supplier, the mode
Outside ==
    \/ SetMode \/ DayPasses \/ UNCHANGED vars
    \/ \E a \in Accounts : Debt(a) \/ Block(a) \/ Deliver(a) \/ CutOff(a)

LEMMA OutsideIsQuiet ==
    ASSUME TypeInv, Outside
    PROVE  UNCHANGED <<scen, job>> /\ \A b \in Accounts : Quiet(b) /\ SameFlags(run[b], run'[b])
<1>0. RowsTyped /\ run \in [Accounts -> Run]
  BY DEF TypeInv, ScenRunInv, RunsTyped
<1>1. ASSUME UNCHANGED <<scen, job, run, rows>>
      PROVE  UNCHANGED <<scen, job>> /\ \A b \in Accounts : Quiet(b) /\ SameFlags(run[b], run'[b])
  BY <1>1, SameRowsQuiet DEF SameFlags
<1>2. CASE DayPasses
  <2>1. run' = [b \in Accounts |-> IF Exists(run[b]) THEN [run[b] EXCEPT !.aged = TRUE] ELSE run[b]]
    BY <1>2 DEF DayPasses
  <2>2. \A b \in Accounts : SameFlags(run[b], run'[b])
    BY <1>0, <2>1 DEF SameFlags, Run
  <2>3. UNCHANGED <<scen, job>>
    BY <1>2 DEF DayPasses
  <2> QED BY <1>0, <1>2, <2>2, <2>3, DaysQuiet
<1>3. ASSUME NEW a \in Accounts, CutOff(a)
      PROVE  UNCHANGED <<scen, job>> /\ \A b \in Accounts : Quiet(b) /\ SameFlags(run[b], run'[b])
  <2>1. UNCHANGED <<scen, job, run>>
    BY <1>3 DEF CutOff
  <2> QED BY <1>0, <1>3, <2>1, CuttingQuiet DEF SameFlags
<1>4. ASSUME NEW a \in Accounts, Debt(a) \/ Block(a) \/ Deliver(a)
      PROVE  UNCHANGED <<scen, job, run, rows>>
  BY <1>4 DEF Debt, Block, Deliver
<1>5. ASSUME SetMode \/ UNCHANGED vars
      PROVE  UNCHANGED <<scen, job, run, rows>>
  BY <1>5 DEF SetMode, vars
<1> QED BY <1>1, <1>2, <1>3, <1>4, <1>5 DEF Outside

\* With one worker nothing is advanced while a request is made.
LEMMA OneAfterTheOther ==
    ASSUME OneWorker, [Next]_vars, NEW w \in Workers
    PROVE  \/ Step1(w)
           \/ job[w].at = "idle" /\ (UNCHANGED job \/ \E a \in Accounts : Advance(w, a))
           \/ Outside
<1> DEFINE Request == job[w].at = "idle" /\ (UNCHANGED job \/ \E a \in Accounts : Advance(w, a))
<1>1. ASSUME NEW v \in Workers, Step1(v) PROVE Step1(w)
  BY <1>1 DEF OneWorker
<1>2. ASSUME NEW v \in Workers PROVE v = w
  BY DEF OneWorker
<1>3. ASSUME NEW a \in Accounts, Import(w, a) \/ Start(w, a) PROVE Request
  BY <1>3 DEF Import, ImportPaid, ImportDebtor, Start, Free
<1>4. ASSUME NEW a \in Accounts, NEW s \in Scenarios,
             Replace(w, a, s) \/ \E u, p \in BOOLEAN : Assign(w, a, s, u, p)
      PROVE  Request
  BY <1>4 DEF Replace, Assign, Free
<1>5. ASSUME NEW a \in Accounts, SkipStep(w, a) \/ OpenCase(w, a) PROVE Request
  BY <1>5 DEF SkipStep, OpenCase, Free
<1>6. ASSUME NEW a \in Accounts, NEW m \in rows[a],
             \/ StopRow(w, a, m)
             \/ \E st \in Outcomes : FinishRow(w, a, m, st)
             \/ \E st \in {"open", "done"} : SyncClaim(w, a, m, st)
      PROVE  Request
  BY <1>6 DEF StopRow, FinishRow, SyncClaim, Free
<1>7. ASSUME NEW s \in Scenarios,
             \/ \E p \in Plans : EditDraft(w, s, p)
             \/ \E t \in Scenarios : CopyScenario(w, s, t)
             \/ \E mv \in BOOLEAN : Publish(w, s, mv) \/ \E v \in 1..MaxVersion : RestoreScenario(w, s, v, mv)
      PROVE  Request
  BY <1>7 DEF EditDraft, CopyScenario, Publish, RestoreScenario, Free
<1>8. CASE Next
  <2>1. ASSUME NEW v \in Workers,
          \/ Step1(v)
          \/ \E a \in Accounts :
                \/ Import(v, a) \/ Start(v, a) \/ SkipStep(v, a) \/ OpenCase(v, a)
                \/ \E s \in Scenarios : \/ Replace(v, a, s)
                                        \/ \E u, p \in BOOLEAN : Assign(v, a, s, u, p)
                \/ \E m \in rows[a] : \/ StopRow(v, a, m)
                                      \/ \E st \in Outcomes : FinishRow(v, a, m, st)
                                      \/ \E st \in {"open", "done"} : SyncClaim(v, a, m, st)
          \/ \E s \in Scenarios :
                \/ \E p \in Plans : EditDraft(v, s, p)
                \/ \E mv \in BOOLEAN : \/ Publish(v, s, mv)
                                       \/ \E n \in 1..MaxVersion : RestoreScenario(v, s, n, mv)
                \/ \E t \in Scenarios : CopyScenario(v, s, t)
        PROVE Step1(w) \/ Request
    <3>1. v = w
      BY <1>2
    <3> HIDE DEF Request
    <3> QED BY <1>3, <1>4, <1>5, <1>6, <1>7, <2>1, <3>1
  <2> HIDE DEF Request
  <2>2. Step1(w) \/ Request \/ Outside
    BY <1>8, <2>1 DEF Next, Outside
  <2> QED BY <2>2 DEF Request
<1> QED BY <1>8 DEF Outside

LEMMA EngineKeepsReady ==
    ASSUME OrderInv, NEW w \in Workers, Step1(w)
    PROVE  Ready(w)'
<1>0. /\ TypeInv /\ Ready(w) /\ job \in [Workers -> Job] /\ job[w] \in Job
      /\ run \in [Accounts -> Run]
      /\ job[w].at # "idle" => job[w].acct \in Accounts
  BY DEF OrderInv, TypeInv, JobsTyped, ScenRunInv, RunsTyped
<1>1. CASE job'[w] = Idle
  BY <1>1 DEF Ready, Idle
<1>2. job[w].acct \in Accounts
  <2>1. job[w].at \in {"enter", "look", "launch"}
    BY DEF Step1, Enter, Look, SkipMessenger, LaunchOk, LaunchRefused
  <2> QED BY <1>0, <2>1
<1>3. PICK a \in Accounts : a = job[w].acct
  BY <1>2
<1>4. CASE Enter(w) /\ job'[w] # Idle
  <2>1. MayGoOn(run[a]) /\ run' = run
    BY <1>0, <1>3, <1>4 DEF Enter, MayGoOn
  <2>2. job'[w].at = "look" /\ job'[w].acct = a
    BY <1>0, <1>3, <1>4 DEF Enter, Job
  <2> QED BY <2>1, <2>2 DEF Ready, MayGoOn
<1>5. CASE Look(w) /\ job'[w] # Idle
  <2>1. MayGoOn(run[a]) /\ UNCHANGED <<run, rows, scen>> /\ NextStep(a, run[a]) # {}
    BY <1>0, <1>3, <1>5 DEF Look, Ready
  <2>2. PICK r, s : r = run[a] /\ s = CHOOSE x \in NextStep(a, run[a]) : TRUE
    OBVIOUS
  <2>3. job' = [job EXCEPT ![w] = [job[w] EXCEPT !.at = "launch", !.seen = r, !.step = s]]
    BY <1>0, <1>3, <1>5, <2>2 DEF Look
  <2>4. job'[w].at = "launch" /\ job'[w].acct = a /\ job'[w].seen = r /\ job'[w].step = s
    BY <1>0, <1>3, <2>3 DEF Job
  <2>5. Clear(a, r, s)
    BY <2>1, <2>2, NextStepIsClear
  <2>6. Clear(a, r, s)'
    BY <2>1, <2>5, SameRowsQuiet, ClearStays
  <2>7. run'[a] = r
    BY <2>1, <2>2
  <2>8. MayGoOn(r)
    BY <2>1, <2>2
  <2> QED BY <2>4, <2>6, <2>7, <2>8 DEF Ready, MayGoOn
<1>6. CASE (SkipMessenger(w) \/ LaunchOk(w) \/ LaunchRefused(w)) /\ job'[w] # Idle
  <2>1. MayGoOn(run[a])
    BY <1>0, <1>3, <1>6 DEF SkipMessenger, LaunchOk, LaunchRefused, Ready
  <2>2. job'[w].at = "look" /\ job'[w].acct = a
    <3>1. PICK goes : Again(w, goes)
      BY <1>6 DEF SkipMessenger, LaunchOk, LaunchRefused
    <3>2. job'[w] = [Idle EXCEPT !.at = "look", !.acct = a]
      BY <1>0, <1>3, <1>6, <3>1 DEF Again
    <3> QED BY <3>2 DEF Idle
  <2>3. run' = run \/ \E k : run' = [run EXCEPT ![a].skipped = k]
    BY <1>3, <1>6 DEF SkipMessenger, LaunchOk, LaunchRefused
  <2>4. SameFlags(run[a], run'[a])
    <3>1. \A k : SameFlags(run[a], [run[a] EXCEPT !.skipped = k])
      BY <1>0 DEF SameFlags, Run
    <3>2. SameFlags(run[a], run[a])
      BY DEF SameFlags
    <3>3. run'[a] = run[a] \/ \E k : run'[a] = [run[a] EXCEPT !.skipped = k]
      BY <1>0, <2>3
    <3> QED BY <3>1, <3>2, <3>3
  <2>5. MayGoOn(run'[a])
    BY <2>1, <2>4 DEF MayGoOn, SameFlags
  <2> QED BY <2>2, <2>5 DEF Ready, MayGoOn
<1> QED BY <1>1, <1>4, <1>5, <1>6 DEF Step1

LEMMA NextKeepsReady ==
    ASSUME OneWorker, OrderInv, [Next]_vars, NEW w \in Workers
    PROVE  Ready(w)'
<1>0. TypeInv /\ Ready(w) /\ job \in [Workers -> Job] /\ (job[w].at # "idle" => job[w].acct \in Accounts)
  BY DEF OrderInv, TypeInv, JobsTyped
<1>1. CASE job[w].at = "idle" /\ (UNCHANGED job \/ \E a \in Accounts : Advance(w, a))
  <2>1. job'[w].at \in {"idle", "enter"}
    <3>1. CASE UNCHANGED job
      BY <1>1, <3>1
    <3>2. ASSUME NEW a \in Accounts, Advance(w, a) PROVE job'[w].at \in {"idle", "enter"}
      <4>1. job'[w] = Idle \/ job'[w] = [Idle EXCEPT !.at = "enter", !.acct = a]
        BY <1>0, <3>2 DEF Advance
      <4>2. Idle.at = "idle" /\ [Idle EXCEPT !.at = "enter", !.acct = a].at = "enter"
        BY DEF Idle
      <4> QED BY <4>1, <4>2
    <3> QED BY <1>1, <3>1, <3>2
  <2> QED BY <2>1 DEF Ready
<1>2. CASE Outside
  <2>1. CASE job[w].at \notin {"look", "launch"}
    BY <1>0, <1>2, <2>1, OutsideIsQuiet DEF Ready
  <2>2. CASE job[w].at \in {"look", "launch"}
    <3>1. PICK a \in Accounts : a = job[w].acct
      BY <1>0, <2>2
    <3>2. PICK s : s = job[w].step
      OBVIOUS
    <3>3. PICK r, q : r = run[a] /\ q = run'[a]
      OBVIOUS
    <3>4. UNCHANGED <<scen, job>> /\ Quiet(a) /\ SameFlags(r, q)
      BY <1>0, <1>2, <3>3, OutsideIsQuiet
    <3>5. MayGoOn(q)
      BY <1>0, <2>2, <3>1, <3>3, <3>4 DEF Ready, MayGoOn, SameFlags
    <3>6. job[w].at = "launch" => Clear(a, q, s)'
      BY <1>0, <3>1, <3>2, <3>3, <3>4, ClearStays DEF Ready, SameFlags
    <3> QED BY <1>0, <3>1, <3>2, <3>3, <3>4, <3>5, <3>6 DEF Ready, SameFlags, MayGoOn
  <2> QED BY <2>1, <2>2
<1> QED BY <1>1, <1>2, OneAfterTheOther, EngineKeepsReady

LEMMA OrderInvHolds ==
    ASSUME OneWorker
    PROVE  Spec => []OrderInv
<1>1. Init => OrderInv
  <2> SUFFICES ASSUME Init PROVE OrderInv
    OBVIOUS
  <2>1. \A a \in Accounts : UniqueIn(rows[a])
    BY DEF Init, UniqueIn
  <2>2. \A w \in Workers : Ready(w)
    BY DEF Init, Ready, Idle
  <2> QED BY <2>1, <2>2, InitTypeInv DEF OrderInv
<1>2. OrderInv /\ [Next]_vars => OrderInv'
  <2> SUFFICES ASSUME OrderInv, [Next]_vars PROVE OrderInv'
    OBVIOUS
  <2>1. TypeInv'
    BY NextTypeInv DEF OrderInv
  <2>2. \A a \in Accounts : UniqueIn(rows'[a])
    BY RowsStayUnique
  <2>3. \A w \in Workers : Ready(w)'
    BY NextKeepsReady
  <2> QED BY <2>1, <2>2, <2>3 DEF OrderInv
<1> QED BY <1>1, <1>2, PTL DEF Spec

\* With one worker a step of a version is launched once on an account, whatever is cancelled,
\* replaced or skipped between two advances: between its look and its launch nothing else
\* launches.  Two workers may do it twice.
THEOREM LaunchedOnce ==
    ASSUME OneWorker
    PROVE  Spec => []StepLaunchedOnce
<1>1. OrderInv => StepLaunchedOnce
  BY DEF OrderInv, UniqueIn, StepLaunchedOnce
<1> QED BY <1>1, OrderInvHolds, PTL

LEMMA LaunchInOrder ==
    ASSUME OrderInv, [Next]_vars, NEW a \in Accounts, Launched(a) # {}
    PROVE  MayGoOn(run[a]) /\ \A m \in Own(a, run[a]) : m.status = "open" => ~Blocks(PlanOf(run[a]), m)
<1>1. PICK m \in rows'[a] : Exists(m) /\ ~\E n \in rows[a] : SameRow(m, n)
  BY DEF Launched
<1>2. ASSUME NEW f, Follow(a, f) PROVE FALSE
  <2>1. PICK n \in rows[a] : m = f[n]
    BY <1>2 DEF Follow
  <2>2. SameRow(n, m)
    BY <1>2, <2>1 DEF Follow
  <2> QED BY <1>1, <2>2 DEF SameRow, SameStep
<1>3. ASSUME NEW x, ~Exists(x), rows'[a] = rows[a] \cup {x} PROVE FALSE
  BY <1>1, <1>3 DEF SameRow, SameStep, Exists
<1>4. LaunchOn(a)
  BY <1>2, <1>3, RowSteps DEF OrderInv, OneByOne
<1>5. PICK w \in Workers : job[w].at = "launch" /\ job[w].acct = a
  BY <1>4 DEF LaunchOn
<1>6. Ready(w)
  BY DEF OrderInv
<1> QED BY <1>5, <1>6 DEF Ready, Clear

\* With one worker a step begins only behind closed blocking steps of its version, and on a
\* run that is neither over, paused nor waiting for the button, although the loop of an
\* advance checks the run once and the steps each time.
THEOREM BeginsInOrder ==
    ASSUME OneWorker
    PROVE  Spec => StepsInOrder
<1>1. OrderInv /\ [Next]_vars =>
        (\A a \in Accounts : Launched(a) # {} =>
          /\ ~(run[a].finished \/ run[a].paused \/ run[a].awaiting)
          /\ \A m \in Own(a, run[a]) : m.status = "open" => ~Blocks(PlanOf(run[a]), m))
  BY LaunchInOrder DEF MayGoOn
<1> QED BY <1>1, OrderInvHolds, PTL DEF Spec, StepsInOrder

===============================================================================
