---------------------------- MODULE ClaimCaseProofs ---------------------------
(***************************************************************************)
(* Theorems about ClaimCase for every number of cases, every set of        *)
(* approvers, every presented period, both modes of the gateway and every  *)
(* selection of the operations.                                            *)
(***************************************************************************)
EXTENDS ClaimCase, TLAPS

-----------------------------------------------------------------------------
(* The inductive invariant *)

Decisions == {"out", "pending", "yes", "no"}
Account   == [col: Columns, measure: {"none", "assigned", "running", "done"}, handed: BOOLEAN]
Pris      == [debts: 0..2, proceeding: {"none", "open", "acting"}]

\* Of a case k and its votes v: who is asked is asked about a case with its acts, and an
\* approval stands for the votes.
RouteOK(k, v) ==
    /\ \A u \in Approvers : v[u] # "out" => k.acts = NeededActs /\ k.stage # "none"
    /\ k.wo = "approved" => /\ \A u \in Approvers : v[u] \in {"yes", "out"}
                            /\ \E u \in Approvers : v[u] = "yes"

\* The test of _overlaps, between two cases that exist
Apart(j, k) == j.from # 0 /\ k.from # 0 => ~(j.from <= k.to /\ k.from <= j.to)

Inv ==
    /\ TypeOK
    /\ \A c \in Cases : RouteOK(case[c], votes[c])
    /\ \A a, b \in Cases : a # b => Apart(case[a], case[b])

-----------------------------------------------------------------------------
(* The helpers *)

\* The columns, listed
LEMMA ColumnsListed ==
    {"new", "call", "notice", "disconnect", "recovered"} \subseteq Columns
  BY DEF Columns, Main

LEMMA StageHasColumn ==
    ASSUME NEW s \in Stages
    PROVE  Column(s) \in Columns /\ (Column(s) \in Gated => s = "notary")
<1>1. Column(s) \in Columns
  BY DEF Column, Columns, Main, Stages
<1>2. Column(s) \in Gated => s = "notary"
  BY DEF Column, Gated, Stages
<1> QED BY <1>1, <1>2

LEMMA StatusOfMeasure == \A s : MeasureStatus(s) \in {"none", "assigned", "running", "done"}
  BY DEF MeasureStatus

\* sync_claim_measure leaves the column.
LEMMA SyncedAccount ==
    ASSUME acc \in Account, NEW s, SyncMeasure(s)
    PROVE  acc' \in Account /\ acc'.col = acc.col
  BY StatusOfMeasure DEF SyncMeasure, Account

\* set_stage after a case has moved
LEMMA MovedAccount ==
    ASSUME acc \in Account, NEW c \in Cases, NEW k, NEW s \in Stages, MoveCase(c, k, s)
    PROVE  acc' \in Account /\ (acc'.col = acc.col \/ (s # k.stage /\ acc'.col = Column(s)))
  BY StatusOfMeasure, StageHasColumn DEF MoveCase, Account

\* One case changes, its period does not, and its votes stay in order.
LEMMA OneCaseChanges ==
    ASSUME Inv, NEW c \in Cases, NEW k \in Case,
           k.from = case[c].from, k.to = case[c].to,
           case' = [case EXCEPT ![c] = k],
           votes' \in [Cases -> [Approvers -> Decisions]],
           \A b \in Cases : b # c => votes'[b] = votes[b],
           RouteOK(k, votes'[c]),
           acc' \in Account, pris' \in [Cases -> Pris]
    PROVE  Inv'
<1>1. case' \in [Cases -> Case] /\ case \in [Cases -> Case]
  BY DEF Inv, TypeOK
<1>2. TypeOK'
  BY <1>1 DEF TypeOK, Account, Pris, Decisions
<1>3. case'[c] = k /\ \A b \in Cases : b # c => case'[b] = case[b]
  BY <1>1
<1>4. \A b \in Cases : RouteOK(case'[b], votes'[b])
  BY <1>3 DEF Inv
<1>5. \A b \in Cases : case'[b].from = case[b].from /\ case'[b].to = case[b].to
  BY <1>3
<1>6. \A a, b \in Cases : a # b => Apart(case'[a], case'[b])
  BY <1>5 DEF Inv, Apart
<1> QED BY <1>2, <1>4, <1>6 DEF Inv

\* A case that goes on without a vote: none of what a route asks for is taken back.
LEMMA RouteKept ==
    ASSUME NEW k, NEW j, NEW v, RouteOK(k, v),
           j.acts = k.acts \/ (k.acts # NeededActs), j.wo = k.wo,
           j.stage # "none" \/ j.stage = k.stage
    PROVE  RouteOK(j, v)
  BY DEF RouteOK

\* What a step has before it
LEMMA InvTypes ==
    ASSUME Inv
    PROVE  /\ case \in [Cases -> Case]
           /\ votes \in [Cases -> [Approvers -> Decisions]]
           /\ acc \in Account
           /\ pris \in [Cases -> Pris]
           /\ \A c \in Cases : case[c] \in Case /\ RouteOK(case[c], votes[c])
  BY DEF Inv, TypeOK, Account, Pris, Decisions

-----------------------------------------------------------------------------
(* Every step keeps the invariant *)

LEMMA InitInv == Init => Inv
<1> SUFFICES ASSUME Init PROVE Inv
  OBVIOUS
<1>1. NoCase \in Case
  BY ClaimAssumption DEF NoCase, Case, Numbers, NeededActs
<1>2. TypeOK
  BY <1>1, ColumnsListed DEF Init, TypeOK
<1>3. \A c \in Cases : RouteOK(case[c], votes[c])
  BY DEF Init, RouteOK, NoCase
<1>4. \A a, b \in Cases : a # b => Apart(case[a], case[b])
  BY DEF Init, Apart, NoCase
<1> QED BY <1>2, <1>3, <1>4 DEF Inv

\* The funnel moves on its own.
LEMMA FunnelKeepsInv ==
    ASSUME Inv,
           \/ HandWarning \/ SettlePaid
           \/ \E col \in Columns : DragCard(col)
           \/ \E col \in {"call", "notice", "disconnect", "prep"} : Promote(col)
    PROVE  Inv'
<1>1. "prep" \in Columns
  BY DEF Columns, Main
<1>2. acc' \in Account /\ UNCHANGED <<case, votes, pris>>
  BY <1>1, ColumnsListed, InvTypes DEF HandWarning, SettlePaid, DragCard, Promote, Account
<1>3. TypeOK'
  BY <1>2, InvTypes DEF TypeOK, Account, Pris, Decisions
<1> QED BY <1>2, <1>3 DEF Inv

LEMMA OpenCaseKeepsInv ==
    ASSUME Inv, OpenCase
    PROVE  Inv'
<1>0. 1 \in Cases
  BY ClaimAssumption, OpenCase DEF OpenCase, Cases
<1>1. CASE Open(1)
  <2>1. UNCHANGED <<case, votes, pris>> /\ acc' \in Account
    BY <1>1, InvTypes, SyncedAccount DEF OpenCase
  <2> QED BY <2>1, InvTypes DEF Inv, TypeOK, Account, Pris, Decisions
<1>2. CASE ~Open(1)
  <2> DEFINE k == [case[1] EXCEPT !.stage = "prep"]
  <2>1. case' = [case EXCEPT ![1] = k] /\ UNCHANGED <<votes, pris>> /\ acc' \in Account
    BY <1>2, InvTypes, SyncedAccount DEF OpenCase
  <2>2. case[1] \in Case
    BY <1>0, InvTypes
  <2>3. /\ k \in Case /\ k.stage = "prep" /\ k.acts = case[1].acts /\ k.wo = case[1].wo
        /\ k.from = case[1].from /\ k.to = case[1].to
    BY <2>2 DEF Case, Stages
  <2> HIDE DEF k
  <2>4. RouteOK(k, votes[1])
    BY <1>0, <2>3, InvTypes, RouteKept
  <2> QED BY <1>0, <2>1, <2>3, <2>4, InvTypes, OneCaseChanges
<1> QED BY <1>1, <1>2

LEMMA CreateWritKeepsInv ==
    ASSUME Inv, NEW c \in Cases, NEW f \in Dates, NEW t \in Dates, NEW w \in BOOLEAN,
           CreateWrit(c, f, t, w)
    PROVE  Inv'
<1> DEFINE k == [NoCase EXCEPT !.stage = "prep", !.from = f, !.to = t, !.warned = w]
<1>1. case' = [case EXCEPT ![c] = k] /\ UNCHANGED <<votes, pris>> /\ acc' \in Account
  BY InvTypes, SyncedAccount DEF CreateWrit
<1>2. k \in Case /\ k.from = f /\ k.to = t /\ k.wo = "none" /\ k.stage = "prep"
  <2>1. f \in 0..MaxDate /\ t \in 0..MaxDate
    BY ClaimAssumption DEF Dates
  <2>2. NoCase \in Case /\ NoCase.wo = "none"
    BY ClaimAssumption DEF NoCase, Case, Numbers, NeededActs
  <2> QED BY <2>1, <2>2 DEF Case, Stages
<1>3. \A u \in Approvers : votes[c][u] = "out"
  BY InvTypes DEF CreateWrit, Free, Open, RouteOK
<1>4. \A b \in Cases : case[b].from # 0 => ~(f <= case[b].to /\ case[b].from <= t)
  BY DEF CreateWrit, Overlaps
<1> HIDE DEF k
<1>5. case' \in [Cases -> Case] /\ case'[c] = k /\ \A b \in Cases : b # c => case'[b] = case[b]
  BY <1>1, <1>2, InvTypes
<1>6. TypeOK'
  BY <1>1, <1>5, InvTypes DEF TypeOK, Account, Pris, Decisions
<1>7. \A b \in Cases : RouteOK(case'[b], votes'[b])
  BY <1>1, <1>2, <1>3, <1>5, InvTypes DEF RouteOK
<1>8. ASSUME NEW a \in Cases, NEW b \in Cases, a # b
      PROVE  Apart(case'[a], case'[b])
  <2>1. CASE a = c
    BY <1>2, <1>4, <1>5, <1>8, <2>1 DEF Apart
  <2>2. CASE b = c
    BY <1>2, <1>4, <1>5, <1>8, <2>2 DEF Apart
  <2>3. CASE a # c /\ b # c
    BY <1>5, <1>8, <2>3 DEF Apart, Inv
  <2> QED BY <2>1, <2>2, <2>3
<1> QED BY <1>6, <1>7, <1>8 DEF Inv

\* Fields of the card, acts and receipts
LEMMA CardKeepsInv ==
    ASSUME Inv, NEW c \in Cases,
           \/ \E w \in BOOLEAN : UpdateCase(c, w)
           \/ AddAct(c) \/ ApplyReceipt(c)
           \/ \E n \in Numbers : RecordOpi(c, n)
           \/ \E ok \in BOOLEAN : Submit(c, ok) \/ Repay(c, ok)
           \/ RefreshEmpty(c)
    PROVE  Inv'
<1>0. case[c] \in Case /\ RouteOK(case[c], votes[c]) /\ acc \in Account /\ pris \in [Cases -> Pris]
  BY InvTypes
<1>1. PICK k : case' = [case EXCEPT ![c] = k]
               /\ k \in Case
               /\ k.stage = case[c].stage /\ k.wo = case[c].wo
               /\ k.from = case[c].from /\ k.to = case[c].to
               /\ (k.acts = case[c].acts \/ case[c].acts # NeededActs)
  <2>1. ASSUME NEW w \in BOOLEAN, UpdateCase(c, w)
        PROVE  \E k : case' = [case EXCEPT ![c] = k] /\ k \in Case /\ k.stage = case[c].stage /\ k.wo = case[c].wo
                      /\ k.from = case[c].from /\ k.to = case[c].to /\ k.acts = case[c].acts
    <3> WITNESS [case[c] EXCEPT !.warned = w]
    <3> QED BY <1>0, <2>1 DEF UpdateCase, Case
  <2>2. CASE AddAct(c)
    <3>1. [case[c] EXCEPT !.acts = @ + 1] \in Case
      BY <1>0, <2>2 DEF AddAct, Case, NeededActs
    <3>2. case' = [case EXCEPT ![c] = [case[c] EXCEPT !.acts = @ + 1]] /\ case[c].acts # NeededActs
      BY <1>0, <2>2 DEF AddAct, Case, NeededActs
    <3>3. LET k == [case[c] EXCEPT !.acts = @ + 1] IN
          k.stage = case[c].stage /\ k.wo = case[c].wo /\ k.from = case[c].from /\ k.to = case[c].to
      BY <1>0 DEF Case
    <3> QED BY <3>1, <3>2, <3>3
  <2>3. CASE ApplyReceipt(c)
    <3> WITNESS [case[c] EXCEPT !.receipt = TRUE]
    <3> QED BY <1>0, <2>3 DEF ApplyReceipt, Case
  <2>4. ASSUME NEW n \in Numbers, RecordOpi(c, n)
        PROVE  \E k : case' = [case EXCEPT ![c] = k] /\ k \in Case /\ k.stage = case[c].stage /\ k.wo = case[c].wo
                      /\ k.from = case[c].from /\ k.to = case[c].to /\ k.acts = case[c].acts
    <3> WITNESS [case[c] EXCEPT !.opi = n, !.mode = "manual"]
    <3> QED BY <1>0, <2>4 DEF RecordOpi, Case
  <2>5. CASE RefreshEmpty(c)
    <3> WITNESS [case[c] EXCEPT !.mode = IF Live THEN "pris" ELSE IF @ = "none" THEN "stub" ELSE @]
    <3> QED BY <1>0, <2>5 DEF RefreshEmpty, Case
  <2>6. ASSUME NEW ok \in BOOLEAN, Repay(c, ok)
        PROVE  \E k : case' = [case EXCEPT ![c] = k] /\ k \in Case /\ k.stage = case[c].stage /\ k.wo = case[c].wo
                      /\ k.from = case[c].from /\ k.to = case[c].to /\ k.acts = case[c].acts
    <3> WITNESS [case[c] EXCEPT !.accepted = ok, !.mode = IF ~Live /\ @ = "none" THEN "stub" ELSE @]
    <3> QED BY <1>0, <2>6 DEF Repay, Case
  <2>7. ASSUME NEW ok \in BOOLEAN, Submit(c, ok)
        PROVE  \E k : case' = [case EXCEPT ![c] = k] /\ k \in Case /\ k.stage = case[c].stage /\ k.wo = case[c].wo
                      /\ k.from = case[c].from /\ k.to = case[c].to /\ k.acts = case[c].acts
    <3> WITNESS [case[c] EXCEPT !.mode = IF Live THEN "pris" ELSE "stub", !.cl = TRUE, !.accepted = ok]
    <3> QED BY <1>0, <2>7 DEF Submit, Case
  <2> QED BY <2>1, <2>2, <2>3, <2>4, <2>5, <2>6, <2>7
<1>2. acc' \in Account
  BY <1>0, SyncedAccount DEF UpdateCase, AddAct, ApplyReceipt, RecordOpi, RefreshEmpty, Repay, Submit
<1>3. pris' \in [Cases -> Pris]
  <2>1. pris[c] \in Pris
    BY <1>0
  <2>2. Received(c) \in [Cases -> Pris]
    BY <1>0, <2>1 DEF Received, Pris
  <2> QED BY <1>0, <2>2 DEF UpdateCase, AddAct, ApplyReceipt, RecordOpi, RefreshEmpty, Repay, Submit
<1>4. votes' = votes
  BY DEF UpdateCase, AddAct, ApplyReceipt, RecordOpi, RefreshEmpty, Repay, Submit
<1>5. RouteOK(k, votes[c])
  BY <1>0, <1>1, RouteKept
<1> QED BY <1>1, <1>2, <1>3, <1>4, <1>5, InvTypes, OneCaseChanges

\* The stage moves, no vote is given.
LEMMA MovesKeepInv ==
    ASSUME Inv, NEW c \in Cases, NEW j \in Case, NEW s \in Stages,
           j.wo = case[c].wo, j.acts = case[c].acts, j.from = case[c].from, j.to = case[c].to,
           MoveCase(c, j, s), UNCHANGED <<votes, pris>>
    PROVE  Inv'
<1> DEFINE k == [j EXCEPT !.stage = s]
<1>1. case' = [case EXCEPT ![c] = k] /\ acc' \in Account
  BY InvTypes, MovedAccount DEF MoveCase
<1>2. k \in Case /\ k.stage = s /\ k.wo = j.wo /\ k.acts = j.acts /\ k.from = j.from /\ k.to = j.to
  BY DEF Case
<1>3. s # "none"
  BY DEF Stages
<1> HIDE DEF k
<1>4. RouteOK(k, votes[c])
  BY <1>2, <1>3, InvTypes, RouteKept
<1> QED BY <1>1, <1>2, <1>4, InvTypes, OneCaseChanges

\* refresh_pris keeps the fields a route asks about, and its stage is one.
LEMMA FoundCase ==
    ASSUME Inv, NEW c \in Cases, NEW f \in {"open", "acting"}, RefreshFound(c, f), Open(c)
    PROVE  LET j == [case[c] EXCEPT !.opi = IF @ = "none" THEN "own" ELSE @, !.mode = "pris"] IN
           /\ j \in Case /\ j.stage = case[c].stage
           /\ j.wo = case[c].wo /\ j.acts = case[c].acts /\ j.from = case[c].from /\ j.to = case[c].to
           /\ StageAfter(c, f) \in Stages
           /\ StageAfter(c, f) = case[c].stage \/ StageAfter(c, f) \in {"opi", "opi_measures"}
<1>1. case[c] \in Case
  BY InvTypes
<1>2. StageAfter(c, f) \in Stages /\ (StageAfter(c, f) = case[c].stage \/ StageAfter(c, f) \in {"opi", "opi_measures"})
  BY <1>1 DEF StageAfter, Case, Stages, Open
<1> QED BY <1>1, <1>2 DEF Case, Numbers

LEMMA StagesKeepInv ==
    ASSUME Inv, NEW c \in Cases,
           \/ \E s \in Stages : MoveByHand(c, s)
           \/ NotaryResult(c)
           \/ Open(c) /\ \E f \in {"open", "acting"} : RefreshFound(c, f)
    PROVE  Inv'
<1>0. case[c] \in Case
  BY InvTypes
<1>1. ASSUME NEW s \in Stages, MoveByHand(c, s)
      PROVE  Inv'
  BY <1>0, <1>1, MovesKeepInv DEF MoveByHand
<1>2. CASE NotaryResult(c)
  <2>1. "writ_done" \in Stages /\ "lawsuit" \in Stages
    BY DEF Stages
  <2> QED BY <1>0, <1>2, <2>1, MovesKeepInv DEF NotaryResult
<1>3. ASSUME NEW f \in {"open", "acting"}, RefreshFound(c, f), Open(c)
      PROVE  Inv'
  <2>1. MoveCase(c, [case[c] EXCEPT !.opi = IF @ = "none" THEN "own" ELSE @, !.mode = "pris"], StageAfter(c, f)) /\ UNCHANGED <<votes, pris>>
    BY <1>3 DEF RefreshFound
  <2> QED BY <1>3, <2>1, FoundCase, MovesKeepInv
<1> QED BY <1>1, <1>2, <1>3

\* The votes
LEMMA StartKeepsInv ==
    ASSUME Inv, NEW c \in Cases, NEW R \in SUBSET Approvers, StartWriteoff(c, R)
    PROVE  Inv'
<1>0. case[c] \in Case
  BY InvTypes
<1> DEFINE k == [case[c] EXCEPT !.wo = "pending"]
<1>1. case' = [case EXCEPT ![c] = k] /\ UNCHANGED <<acc, pris>>
  BY DEF StartWriteoff
<1>2. k \in Case /\ k.wo = "pending" /\ k.stage = case[c].stage /\ k.acts = case[c].acts
      /\ k.from = case[c].from /\ k.to = case[c].to
  BY <1>0 DEF Case
<1>3. case[c].acts = NeededActs /\ case[c].stage # "none"
  BY <1>0 DEF StartWriteoff, Case, NeededActs
<1> HIDE DEF k
<1>4. votes' = [votes EXCEPT ![c] = [u \in Approvers |-> IF u \in R THEN "pending" ELSE "out"]]
  BY DEF StartWriteoff
<1>5. votes' \in [Cases -> [Approvers -> Decisions]] /\ \A b \in Cases : b # c => votes'[b] = votes[b]
  BY <1>4, InvTypes DEF Decisions
<1>6. RouteOK(k, votes'[c])
  BY <1>2, <1>3 DEF RouteOK
<1> QED BY <1>1, <1>2, <1>5, <1>6, InvTypes, OneCaseChanges

\* A vote: afterwards it is the only one of the case that may differ.
LEMMA VoteGiven ==
    ASSUME Inv, NEW c \in Cases, NEW u \in Approvers, NEW d \in {"yes", "no"}, Decide(c, u, d)
    PROVE  /\ votes' \in [Cases -> [Approvers -> Decisions]]
           /\ \A b \in Cases : b # c => votes'[b] = votes[b]
           /\ votes'[c][u] = d
           /\ \A w \in Approvers : w # u => votes'[c][w] = votes[c][w]
           /\ case[c].acts = NeededActs /\ case[c].stage # "none"
<1>1. votes \in [Cases -> [Approvers -> Decisions]] /\ RouteOK(case[c], votes[c])
  BY InvTypes
<1>2. votes[c] \in [Approvers -> Decisions]
  BY <1>1
<1>3. votes' = [votes EXCEPT ![c] = [votes[c] EXCEPT ![u] = d]] /\ votes[c][u] # "out"
  BY DEF Decide
<1>4. [votes[c] EXCEPT ![u] = d] \in [Approvers -> Decisions]
  BY <1>2 DEF Decisions
<1> QED BY <1>1, <1>2, <1>3, <1>4 DEF RouteOK

LEMMA DecideKeepsInv ==
    ASSUME Inv, NEW c \in Cases, NEW u \in Approvers, NEW d \in {"yes", "no"}, Decide(c, u, d)
    PROVE  Inv'
<1>0. case[c] \in Case /\ RouteOK(case[c], votes[c]) /\ acc \in Account /\ pris' = pris
  BY InvTypes DEF Decide
<1>1. CASE d = "no"
  <2> DEFINE k == [case[c] EXCEPT !.wo = "rejected"]
  <2>1. case' = [case EXCEPT ![c] = k] /\ acc' = acc
    BY <1>1 DEF Decide
  <2>2. k \in Case /\ k.wo = "rejected" /\ k.stage = case[c].stage /\ k.acts = case[c].acts
        /\ k.from = case[c].from /\ k.to = case[c].to
    BY <1>0 DEF Case
  <2> HIDE DEF k
  <2>3. RouteOK(k, votes'[c])
    BY <2>2, VoteGiven DEF RouteOK
  <2> QED BY <1>0, <2>1, <2>2, <2>3, VoteGiven, InvTypes, OneCaseChanges
<1>2. CASE d = "yes" /\ ~AllAgreed(c)
  <2>1. case' = case /\ acc' = acc
    BY <1>2 DEF Decide
  <2>2. case[c].wo # "approved"
    BY <1>0, <1>2, VoteGiven DEF RouteOK, AllAgreed
  <2>3. RouteOK(case[c], votes'[c])
    BY <2>2, VoteGiven DEF RouteOK
  <2>4. case' = [case EXCEPT ![c] = case[c]]
    BY <2>1, InvTypes
  <2>5. acc' \in Account /\ pris' \in [Cases -> Pris]
    BY <1>0, <2>1, InvTypes
  <2>6. votes' \in [Cases -> [Approvers -> Decisions]] /\ \A b \in Cases : b # c => votes'[b] = votes[b]
    BY VoteGiven
  <2> QED BY <1>0, <2>3, <2>4, <2>5, <2>6, OneCaseChanges
<1>3. CASE d = "yes" /\ AllAgreed(c)
  <2> DEFINE j == [case[c] EXCEPT !.wo = "approved"]
             k == [j EXCEPT !.stage = "writeoff"]
  <2>1. MoveCase(c, j, "writeoff")
    BY <1>3 DEF Decide
  <2>2. "writeoff" \in Stages
    BY DEF Stages
  <2>3. /\ k \in Case /\ k.wo = "approved" /\ k.stage = "writeoff" /\ k.acts = case[c].acts
        /\ k.from = case[c].from /\ k.to = case[c].to
    BY <1>0 DEF Case, Stages
  <2>4. case' = [case EXCEPT ![c] = k]
    BY <2>1 DEF MoveCase
  <2>5. acc' \in Account
    <3> HIDE DEF j
    <3> QED BY <1>0, <2>1, <2>2, MovedAccount
  <2> HIDE DEF k
  <2>6. RouteOK(k, votes'[c])
    BY <1>3, <2>3, VoteGiven DEF RouteOK, AllAgreed
  <2> QED BY <1>0, <2>3, <2>4, <2>5, <2>6, VoteGiven, InvTypes, OneCaseChanges
<1> QED BY <1>1, <1>2, <1>3

\* PRIS and the ministry
LEMMA OutsideKeepsInv ==
    ASSUME Inv, NEW c \in Cases, SubmitLost(c) \/ ProceedingGoesOn(c)
    PROVE  Inv'
<1>1. pris[c] \in Pris
  BY InvTypes
<1>2. pris' \in [Cases -> Pris] /\ UNCHANGED <<case, votes, acc>>
  BY <1>1, InvTypes DEF SubmitLost, ProceedingGoesOn, Received, Pris
<1> QED BY <1>2, InvTypes DEF Inv, TypeOK, Account, Pris, Decisions

LEMMA NextKeepsInv == Inv /\ [Next]_vars => Inv'
<1> SUFFICES ASSUME Inv, [Next]_vars PROVE Inv'
  OBVIOUS
<1>1. CASE UNCHANGED vars
  BY <1>1 DEF vars, Inv, TypeOK
<1>2. ASSUME NEW c \in Cases, OfCase(c)
      PROVE  Inv'
  <2>1. ASSUME Refresh(c) \/ RefreshOpen(c)
        PROVE  Inv'
    <3>1. Open(c) /\ RefreshPris(c)
      BY <2>1 DEF Refresh, RefreshOpen, Open, SendStages
    <3>2. RefreshBlocked(c) => Inv'
      BY <1>1 DEF RefreshBlocked
    <3> QED BY <3>1, <3>2, CardKeepsInv, StagesKeepInv DEF RefreshPris
  <2> QED BY <1>2, <2>1, CreateWritKeepsInv, CardKeepsInv, StagesKeepInv, StartKeepsInv,
             DecideKeepsInv, OutsideKeepsInv DEF OfCase
<1>3. CASE Next
  BY <1>2, <1>3, FunnelKeepsInv, OpenCaseKeepsInv DEF Next
<1> QED BY <1>1, <1>3

THEOREM InvHolds == Spec => []Inv
<1> QED BY InitInv, NextKeepsInv, PTL DEF Spec

-----------------------------------------------------------------------------
(* What the reader wants *)

\* Whatever the operations and their order, the variables keep their types.
THEOREM Types == Spec => []TypeOK
<1>1. Inv => TypeOK
  BY DEF Inv
<1> QED BY InvHolds, <1>1, PTL

\* create_writ: the periods of the writs of one account have no date in common.
THEOREM WritsDoNotOverlap == Spec => []PeriodsDisjoint
<1>1. ASSUME Inv PROVE PeriodsDisjoint
  <2> SUFFICES ASSUME NEW a \in Cases, NEW b \in Cases, a # b, case[a].from # 0, case[b].from # 0,
                      NEW x \in case[a].from..case[a].to \cap case[b].from..case[b].to
               PROVE  FALSE
    BY DEF PeriodsDisjoint
  <2>1. case[a] \in Case /\ case[b] \in Case
    BY <1>1, InvTypes
  <2>2. /\ case[a].from \in Nat /\ case[a].to \in Nat
        /\ case[b].from \in Nat /\ case[b].to \in Nat
    BY <2>1, ClaimAssumption DEF Case
  <2>3. ~(case[a].from <= case[b].to /\ case[b].from <= case[a].to)
    BY <1>1 DEF Inv, Apart
  <2>4. x \in Nat /\ case[a].from <= x /\ x <= case[a].to /\ case[b].from <= x /\ x <= case[b].to
    BY <2>2
  <2> QED BY <2>2, <2>3, <2>4
<1> QED BY InvHolds, <1>1, PTL

\* decide_writeoff: an approval that stands was given by everybody who was asked.
THEOREM ApprovalIsAgreed == Spec => []ApprovedByAll
<1>1. ASSUME Inv PROVE ApprovedByAll
  <2> SUFFICES ASSUME NEW c \in Cases, case[c].wo = "approved"
               PROVE  /\ \A u \in Approvers : votes[c][u] \in {"yes", "out"}
                      /\ \E u \in Approvers : votes[c][u] = "yes"
                      /\ case[c].acts >= NeededActs
    BY DEF ApprovedByAll
  <2>1. RouteOK(case[c], votes[c])
    BY <1>1, InvTypes
  <2>2. case[c].acts = NeededActs
    BY <2>1 DEF RouteOK
  <2> QED BY <2>1, <2>2 DEF RouteOK, NeededActs
<1> QED BY InvHolds, <1>1, PTL

\* move_case, decide_writeoff: no case is written off, by hand or by the last vote, without
\* the three acts and the agreement of all who were asked.
THEOREM WriteOffIsAgreed == Spec => WrittenOffAgreed
<1> DEFINE Agreed == \A c \in Cases : case'[c].stage = "writeoff" /\ case[c].stage # "writeoff" =>
               /\ case[c].acts >= NeededActs
               /\ \A u \in Approvers : votes'[c][u] \in {"yes", "out"}
               /\ \E u \in Approvers : votes'[c][u] = "yes"
<1>1. ASSUME Inv, Next, NEW c \in Cases, case'[c].stage = "writeoff", case[c].stage # "writeoff"
      PROVE  /\ case[c].acts >= NeededActs
             /\ \A u \in Approvers : votes'[c][u] \in {"yes", "out"}
             /\ \E u \in Approvers : votes'[c][u] = "yes"
  <2>0. case \in [Cases -> Case] /\ case[c] \in Case /\ RouteOK(case[c], votes[c])
    BY <1>1, InvTypes
  <2>1. case' # case
    BY <1>1
  <2>2. ~OpenCase
    <3>1. OpenCase => case'[c].stage \in {"prep", case[c].stage}
      BY <2>0 DEF OpenCase, Case
    <3> QED BY <1>1, <3>1
  <2>3. PICK b \in Cases : OfCase(b)
    BY <1>1, <2>1, <2>2 DEF Next, HandWarning, SettlePaid, DragCard, Promote
  <2>4. case[b] \in Case
    BY <2>0
  <2>5. ASSUME \E k : case' = [case EXCEPT ![b] = k] /\ k.stage # "writeoff"
        PROVE  FALSE
    BY <1>1, <2>0, <2>5
  <2>6. ASSUME \/ \E f, t \in Dates, w \in BOOLEAN : CreateWrit(b, f, t, w)
               \/ NotaryResult(b)
        PROVE  FALSE
    <3>1. ASSUME NEW f \in Dates, NEW t \in Dates, NEW w \in BOOLEAN, CreateWrit(b, f, t, w)
          PROVE  FALSE
      <4> DEFINE k == [NoCase EXCEPT !.stage = "prep", !.from = f, !.to = t, !.warned = w]
      <4>1. case' = [case EXCEPT ![b] = k] /\ k.stage = "prep"
        BY <3>1 DEF CreateWrit, NoCase
      <4> QED BY <2>5, <4>1
    <3>2. ASSUME NEW st \in {"writ_done", "lawsuit"}, MoveCase(b, case[b], st)
          PROVE  FALSE
      <4>1. case' = [case EXCEPT ![b] = [case[b] EXCEPT !.stage = st]]
        BY <3>2 DEF MoveCase
      <4>2. [case[b] EXCEPT !.stage = st].stage = st
        BY <2>4 DEF Case
      <4> QED BY <2>5, <4>1, <4>2
    <3> QED BY <2>6, <3>1, <3>2 DEF NotaryResult
  <2>7. ASSUME \E k : case' = [case EXCEPT ![b] = k] /\ k.stage = case[b].stage
        PROVE  FALSE
    BY <1>1, <2>0, <2>7
  <2>8. ASSUME \/ \E w \in BOOLEAN : UpdateCase(b, w)
               \/ AddAct(b) \/ ApplyReceipt(b)
               \/ \E n \in Numbers : RecordOpi(b, n)
               \/ \E R \in SUBSET Approvers : StartWriteoff(b, R)
        PROVE  FALSE
    <3>1. ASSUME NEW w \in BOOLEAN, UpdateCase(b, w) PROVE FALSE
      <4>1. case' = [case EXCEPT ![b] = [case[b] EXCEPT !.warned = w]]
        BY <2>0, <3>1 DEF UpdateCase
      <4>2. [case[b] EXCEPT !.warned = w].stage = case[b].stage
        BY <2>4 DEF Case
      <4> QED BY <2>7, <4>1, <4>2
    <3>2. ASSUME AddAct(b) PROVE FALSE
      <4>1. case' = [case EXCEPT ![b] = [case[b] EXCEPT !.acts = @ + 1]]
        BY <2>0, <3>2 DEF AddAct
      <4>2. [case[b] EXCEPT !.acts = @ + 1].stage = case[b].stage
        BY <2>4 DEF Case
      <4> QED BY <2>7, <4>1, <4>2
    <3>3. ASSUME ApplyReceipt(b) PROVE FALSE
      <4>1. case' = [case EXCEPT ![b] = [case[b] EXCEPT !.receipt = TRUE]]
        BY <2>0, <3>3 DEF ApplyReceipt
      <4>2. [case[b] EXCEPT !.receipt = TRUE].stage = case[b].stage
        BY <2>4 DEF Case
      <4> QED BY <2>7, <4>1, <4>2
    <3>4. ASSUME NEW n \in Numbers, RecordOpi(b, n) PROVE FALSE
      <4>1. case' = [case EXCEPT ![b] = [case[b] EXCEPT !.opi = n, !.mode = "manual"]]
        BY <2>0, <3>4 DEF RecordOpi
      <4>2. [case[b] EXCEPT !.opi = n, !.mode = "manual"].stage = case[b].stage
        BY <2>4 DEF Case
      <4> QED BY <2>7, <4>1, <4>2
    <3>5. ASSUME NEW R \in SUBSET Approvers, StartWriteoff(b, R) PROVE FALSE
      <4>1. case' = [case EXCEPT ![b] = [case[b] EXCEPT !.wo = "pending"]]
        BY <2>0, <3>5 DEF StartWriteoff
      <4>2. [case[b] EXCEPT !.wo = "pending"].stage = case[b].stage
        BY <2>4 DEF Case
      <4> QED BY <2>7, <4>1, <4>2
    <3> QED BY <2>8, <3>1, <3>2, <3>3, <3>4, <3>5
  <2>9. ASSUME \/ \E ok \in BOOLEAN : Submit(b, ok) \/ Repay(b, ok)
               \/ SubmitLost(b) \/ RefreshEmpty(b) \/ ProceedingGoesOn(b)
        PROVE  FALSE
    <3>1. ~SubmitLost(b) /\ ~ProceedingGoesOn(b)
      BY <2>1 DEF SubmitLost, ProceedingGoesOn
    <3>2. \A ok \in BOOLEAN : ~Submit(b, ok)
      BY <2>0, <2>4, <2>7 DEF Submit, Case
    <3>3. ~RefreshEmpty(b)
      BY <2>0, <2>4, <2>7 DEF RefreshEmpty, Case
    <3>4. \A ok \in BOOLEAN : ~Repay(b, ok)
      BY <2>0, <2>4, <2>7 DEF Repay, Case
    <3> QED BY <2>9, <3>1, <3>2, <3>3, <3>4
  <2>10. ASSUME NEW f \in {"open", "acting"}, RefreshFound(b, f), Open(b)
         PROVE  FALSE
    <3> DEFINE j == [case[b] EXCEPT !.opi = IF @ = "none" THEN "own" ELSE @, !.mode = "pris"]
    <3>1. case' = [case EXCEPT ![b] = [j EXCEPT !.stage = StageAfter(b, f)]]
      BY <2>10 DEF RefreshFound, MoveCase
    <3>2. j \in Case /\ (StageAfter(b, f) = case[b].stage \/ StageAfter(b, f) \in {"opi", "opi_measures"})
      BY <1>1, <2>10, FoundCase
    <3>3. [j EXCEPT !.stage = StageAfter(b, f)].stage = StageAfter(b, f)
      BY <3>2 DEF Case
    <3> HIDE DEF j
    <3> QED BY <1>1, <2>0, <3>1, <3>2, <3>3
  <2>11. ASSUME Refresh(b) \/ RefreshOpen(b)
         PROVE  FALSE
    <3>1. Open(b) /\ RefreshPris(b)
      BY <2>11 DEF Refresh, RefreshOpen, Open, SendStages
    <3>2. ~RefreshBlocked(b)
      BY <2>1 DEF RefreshBlocked, vars
    <3> QED BY <2>9, <2>10, <3>1, <3>2 DEF RefreshPris
  <2>12. ASSUME NEW s \in Stages, MoveByHand(b, s)
         PROVE  /\ b = c /\ case[c].wo = "approved"
                /\ votes' = votes
    <3>1. case' = [case EXCEPT ![b] = [case[b] EXCEPT !.stage = s]] /\ Guard(case[b], s) /\ votes' = votes
      BY <2>12 DEF MoveByHand, MoveCase
    <3>2. b = c
      BY <1>1, <2>0, <3>1
    <3>3. s = "writeoff"
      BY <1>1, <2>0, <3>1, <3>2 DEF Case
    <3> QED BY <3>1, <3>2, <3>3 DEF Guard
  <2>13. CASE \E s \in Stages : MoveByHand(b, s)
    BY <2>0, <2>12, <2>13 DEF RouteOK, NeededActs
  <2>14. ASSUME NEW u \in Approvers, NEW d \in {"yes", "no"}, Decide(b, u, d)
         PROVE  /\ case[c].acts >= NeededActs
                /\ \A w \in Approvers : votes'[c][w] \in {"yes", "out"}
                /\ \E w \in Approvers : votes'[c][w] = "yes"
    <3>1. b = c
      BY <1>1, <2>0, <2>14 DEF Decide, MoveCase
    <3>2. d # "no"
      BY <1>1, <2>0, <2>14, <3>1 DEF Decide, Case
    <3>3. AllAgreed(c)
      BY <2>1, <2>14, <3>1, <3>2 DEF Decide
    <3>4. case[c].acts = NeededActs /\ votes'[c][u] = "yes"
      BY <1>1, <2>14, <3>1, <3>2, VoteGiven
    <3> QED BY <3>3, <3>4 DEF AllAgreed, NeededActs
  <2> QED BY <2>3, <2>6, <2>8, <2>9, <2>11, <2>13, <2>14 DEF OfCase
<1>2. Inv /\ [Next]_vars => [Agreed]_vars
  BY <1>1
<1> HIDE DEF Agreed
<1>3. Spec => [][Agreed]_vars
  BY InvHolds, <1>2, PTL DEF Spec
<1> QED BY <1>3 DEF WrittenOffAgreed, Agreed

\* assert_transition, _guard: no card enters the columns of the disconnection and of the
\* notary before a warning was handed.
THEOREM GateIsKept == Spec => GatedAfterWarning
<1> DEFINE Kept == acc'.col # acc.col /\ acc'.col \in Gated => Handed
<1>1. ASSUME Inv, Next, acc'.col # acc.col, acc'.col \in Gated
      PROVE  Handed
  <2>0. acc \in Account /\ case \in [Cases -> Case]
    BY <1>1, InvTypes
  <2>1. ASSUME NEW col, col \in Columns, DragCard(col) \/ Promote(col)
        PROVE  Handed
    BY <1>1, <2>0, <2>1 DEF DragCard, Promote, MayEnter, Account
  <2>2. ~HandWarning /\ ~SettlePaid
    BY <1>1, <2>0 DEF HandWarning, SettlePaid, Account, Gated
  <2>3. ~OpenCase
    BY <1>1, <2>0, SyncedAccount DEF OpenCase
  <2>4. ASSUME NEW c \in Cases, OfCase(c)
        PROVE  Handed
    <3>0. case[c] \in Case
      BY <2>0
    <3>1. ASSUME NEW k, NEW s \in Stages, MoveCase(c, k, s)
          PROVE  s = "notary" /\ k.stage # "notary"
      BY <1>1, <2>0, <3>1, MovedAccount, StageHasColumn
    <3>2. ASSUME NEW s \in Stages, MoveByHand(c, s)
          PROVE  Handed
      BY <3>1, <3>2 DEF MoveByHand, Guard, Handed
    <3>3. ~NotaryResult(c)
      <4>1. "writ_done" \in Stages /\ "lawsuit" \in Stages
        BY DEF Stages
      <4> QED BY <3>1, <4>1 DEF NotaryResult
    <3>4. ASSUME NEW f \in {"open", "acting"}, RefreshFound(c, f), Open(c)
          PROVE  FALSE
      <4> DEFINE j == [case[c] EXCEPT !.opi = IF @ = "none" THEN "own" ELSE @, !.mode = "pris"]
      <4>1. MoveCase(c, j, StageAfter(c, f))
        BY <3>4 DEF RefreshFound
      <4>2. /\ j.stage = case[c].stage /\ StageAfter(c, f) \in Stages
            /\ StageAfter(c, f) = case[c].stage \/ StageAfter(c, f) \in {"opi", "opi_measures"}
        BY <1>1, <3>4, FoundCase
      <4> HIDE DEF j
      <4> QED BY <3>1, <4>1, <4>2
    <3>5. ~(Refresh(c) \/ RefreshOpen(c))
      <4>1. Refresh(c) \/ RefreshOpen(c) => Open(c) /\ RefreshPris(c)
        BY DEF Refresh, RefreshOpen, Open, SendStages
      <4> QED BY <1>1, <3>4, <4>1 DEF RefreshPris, RefreshEmpty, RefreshBlocked, vars
    <3>6. ASSUME NEW u \in Approvers, NEW d \in {"yes", "no"}, Decide(c, u, d)
          PROVE  FALSE
      <4>1. "writeoff" \in Stages
        BY DEF Stages
      <4> QED BY <1>1, <3>1, <3>6, <4>1 DEF Decide
    <3>7. ASSUME acc' = acc \/ \E s : SyncMeasure(s)
          PROVE  FALSE
      BY <1>1, <2>0, <3>7, SyncedAccount
    <3> QED
      BY <2>4, <3>2, <3>3, <3>5, <3>6, <3>7
      DEF OfCase, CreateWrit, UpdateCase, AddAct, ApplyReceipt, RecordOpi, StartWriteoff, Submit,
          SubmitLost, Repay, ProceedingGoesOn
  <2>5. {"call", "notice", "disconnect", "prep"} \subseteq Columns
    BY ColumnsListed DEF Columns, Main
  <2> QED BY <1>1, <2>1, <2>2, <2>3, <2>4, <2>5 DEF Next
<1>2. Inv /\ [Next]_vars => [Kept]_vars
  BY <1>1
<1> HIDE DEF Kept
<1>3. Spec => [][Kept]_vars
  BY InvHolds, <1>2, PTL DEF Spec
<1> QED BY <1>3 DEF GatedAfterWarning, Kept

===============================================================================
