-------------------------- MODULE MeasurePartyProofs --------------------------
(***************************************************************************)
(* Theorems about MeasureParty for every set of measures, accounts and     *)
(* workers, every debtor of several accounts, and every selection of the   *)
(* requests and events.                                                    *)
(***************************************************************************)
EXTENDS MeasureParty, TLAPS

\* rollup() always has a verdict, and it is a status of a row.
LEMMA VerdictIsStatus == \A S : Verdict(S) \in ItemStatus
  BY DEF Verdict, ItemStatus, OpenItem

\* A party is found cancelled when all its rows are.
LEMMA VerdictCancelled == \A S : Verdict(S) = "cancelled" => S = {"cancelled"}
  BY DEF Verdict, OpenItem

-----------------------------------------------------------------------------
(* The inductive invariant *)

\* Only a disconnect is ever suspended, and what is not launched yet is blank.
Sound(m, p, r) ==
    /\ p.suspended => Kind[m] = "disconnect"
    /\ \A a \in Accounts : r[a].suspended => Kind[m] = "disconnect"
    /\ p.status = "none" => /\ ~p.suspended
                            /\ \A a \in Accounts : r[a].status = "none" /\ ~r[a].suspended

PartyInv == \A m \in Measures : Sound(m, party[m], row[m])

\* A request in progress has loaded a launched party, and its row where it needs one.
JobOK(j) ==
    /\ j \in Job
    /\ j.op # "idle" => /\ j.measure \in Measures
                        /\ j.seen \in Party
                        /\ j.seen.suspended => Kind[j.measure] = "disconnect"
    /\ j.op \in {"record", "stop"} => /\ j.account \in Accounts
                                      /\ j.item \in Row
                                      /\ j.item.suspended => Kind[j.measure] = "disconnect"

Launched(P, j) == j.op # "idle" => P[j.measure].status # "none"

JobInv == \A w \in Workers : JobOK(job[w]) /\ Launched(party, job[w])

Inv == TypeOK /\ PartyInv /\ JobInv

-----------------------------------------------------------------------------
(* What a recount may do to the parties before payments are looked at: a   *)
(* party that is open is paused or assigned, every other one is left.      *)

Gentle(P, Q) ==
    /\ Q \in [Measures -> Party]
    /\ \A m \in Measures :
          /\ Q[m].suspended = P[m].suspended
          /\ Q[m].approval = P[m].approval
          /\ Q[m].forced = P[m].forced
          /\ \/ Q[m].status = P[m].status
             \/ P[m].status \in OpenParty /\ Q[m].status \in {"assigned", "paused"}

LEMMA GentleIsTransitive ==
    ASSUME NEW P, NEW Q, NEW R, Gentle(P, Q), Gentle(Q, R)
    PROVE  Gentle(P, R)
  BY DEF Gentle, OpenParty

LEMMA GentleIsReflexive ==
    ASSUME NEW P \in [Measures -> Party]
    PROVE  Gentle(P, P)
  BY DEF Gentle

\* A change of the status leaves the rest of the party.
Moved(p, st) == [p EXCEPT !.status = st]

LEMMA MovedParty ==
    ASSUME NEW p \in Party, NEW st \in PartyStatus
    PROVE  /\ Moved(p, st) \in Party
           /\ Moved(p, st).suspended = p.suspended
           /\ Moved(p, st).approval = p.approval
           /\ Moved(p, st).forced = p.forced
           /\ Moved(p, st).status = st
  BY DEF Moved, Party

\* release_measure of a paused party, _pause_for_death of an open one.
LEMMA ReleasedParty ==
    ASSUME NEW p \in Party
    PROVE  /\ Released(p) \in Party
           /\ Released(p).suspended = p.suspended
           /\ Released(p).approval = p.approval
           /\ Released(p).forced = p.forced
           /\ Released(p).status = "assigned"
  BY DEF Released, Party, PartyStatus, ItemStatus

Dead(p) == [p EXCEPT !.status = "paused", !.stopped = TRUE, !.reason = "death"]

LEMMA DeadParty ==
    ASSUME NEW p \in Party
    PROVE  /\ Dead(p) \in Party
           /\ Dead(p).suspended = p.suspended
           /\ Dead(p).approval = p.approval
           /\ Dead(p).forced = p.forced
           /\ Dead(p).status = "paused"
  BY DEF Dead, Party, PartyStatus, ItemStatus

\* A party by party replacement is gentle when each party of it is.
LEMMA PartyByParty ==
    ASSUME NEW P \in [Measures -> Party], NEW Q, Q = [m \in Measures |-> Q[m]],
           \A m \in Measures :
              \/ Q[m] = P[m]
              \/ P[m].status \in Active /\ (Q[m] = Moved(P[m], "paused") \/ Q[m] = Dead(P[m]))
              \/ P[m].status = "paused" /\ (Q[m] = Moved(P[m], "assigned") \/ Q[m] = Released(P[m]))
    PROVE  Gentle(P, Q)
  <1>1. \A m \in Measures : P[m] \in Party
    OBVIOUS
  <1>2. \A m \in Measures :
           /\ Q[m] \in Party
           /\ Q[m].suspended = P[m].suspended
           /\ Q[m].approval = P[m].approval
           /\ Q[m].forced = P[m].forced
           /\ \/ Q[m].status = P[m].status
              \/ P[m].status \in OpenParty /\ Q[m].status \in {"assigned", "paused"}
    <2> TAKE m \in Measures
    <2>1. "paused" \in PartyStatus /\ "assigned" \in PartyStatus
      BY DEF PartyStatus, ItemStatus
    <2>2. CASE Q[m] = P[m]
      BY <1>1, <2>2
    <2>3. CASE P[m].status \in Active /\ (Q[m] = Moved(P[m], "paused") \/ Q[m] = Dead(P[m]))
      BY <1>1, <2>1, <2>3, MovedParty, DeadParty DEF Active, OpenParty
    <2>4. CASE P[m].status = "paused" /\ (Q[m] = Moved(P[m], "assigned") \/ Q[m] = Released(P[m]))
      BY <1>1, <2>1, <2>4, MovedParty, ReleasedParty DEF OpenParty
    <2> QED
      BY <2>2, <2>3, <2>4
  <1>3. Q \in [Measures -> Party]
    BY <1>2
  <1> QED
    BY <1>2, <1>3 DEF Gentle

LEMMA PauseIsGentle ==
    ASSUME NEW P \in [Measures -> Party], NEW S
    PROVE  Gentle(P, PauseAuto(P, S))
  <1>1. \A m \in Measures : \/ PauseAuto(P, S)[m] = P[m]
                            \/ P[m].status \in Active /\ PauseAuto(P, S)[m] = Moved(P[m], "paused")
    BY DEF PauseAuto, Moved
  <1>2. PauseAuto(P, S) = [m \in Measures |-> PauseAuto(P, S)[m]]
    BY DEF PauseAuto
  <1> QED
    BY <1>1, <1>2, PartyByParty

LEMMA ResumeIsGentle ==
    ASSUME NEW P \in [Measures -> Party], NEW S
    PROVE  Gentle(P, ResumeAuto(P, S))
  <1>1. \A m \in Measures : \/ ResumeAuto(P, S)[m] = P[m]
                            \/ P[m].status = "paused" /\ ResumeAuto(P, S)[m] = Moved(P[m], "assigned")
    BY DEF ResumeAuto, Moved
  <1>2. ResumeAuto(P, S) = [m \in Measures |-> ResumeAuto(P, S)[m]]
    BY DEF ResumeAuto
  <1> QED
    BY <1>1, <1>2, PartyByParty

LEMMA DeathIsGentle ==
    ASSUME NEW P \in [Measures -> Party], NEW A, NEW a
    PROVE  Gentle(P, SyncDeathPause(P, A, a))
  <1>1. \A m \in Measures : \/ SyncDeathPause(P, A, a)[m] = P[m]
                            \/ P[m].status \in Active /\ SyncDeathPause(P, A, a)[m] = Dead(P[m])
                            \/ P[m].status = "paused" /\ SyncDeathPause(P, A, a)[m] = Released(P[m])
    BY DEF SyncDeathPause, Dead
  <1>2. SyncDeathPause(P, A, a) = [m \in Measures |-> SyncDeathPause(P, A, a)[m]]
    BY DEF SyncDeathPause
  <1> QED
    BY <1>1, <1>2, PartyByParty

LEMMA ExpiryIsGentle ==
    ASSUME NEW P \in [Measures -> Party], NEW a
    PROVE  Gentle(P, ReleaseExpired(P, a))
  <1>1. \A m \in Measures : \/ ReleaseExpired(P, a)[m] = P[m]
                            \/ P[m].status = "paused" /\ ReleaseExpired(P, a)[m] = Released(P[m])
    BY DEF ReleaseExpired
  <1>2. ReleaseExpired(P, a) = [m \in Measures |-> ReleaseExpired(P, a)[m]]
    BY DEF ReleaseExpired
  <1> QED
    BY <1>1, <1>2, PartyByParty

\* A gentle recount keeps parties and rows sound, and forgets no launched party.
LEMMA GentleIsSound ==
    ASSUME NEW P, NEW Q, Gentle(P, Q), NEW m \in Measures, NEW r, Sound(m, P[m], r)
    PROVE  /\ Sound(m, Q[m], r)
           /\ P[m].status # "none" => Q[m].status # "none"
           /\ P[m].status \notin Closed => Q[m].status \notin Closed
           /\ P[m].status # "cancelled" => Q[m].status # "cancelled"
  BY DEF Gentle, Sound, OpenParty, Closed

\* rollup() writes the status of its party, or nothing.
LEMMA RollupWrites ==
    ASSUME NEW P \in [Measures -> Party], NEW m \in Measures, NEW seen, NEW respect, NEW S
    PROVE  /\ Rollup(P, m, seen, respect, S) \in [Measures -> Party]
           /\ \A k \in Measures : k # m => Rollup(P, m, seen, respect, S)[k] = P[k]
           /\ \/ Rollup(P, m, seen, respect, S)[m] = P[m]
              \/ Rollup(P, m, seen, respect, S)[m] = Moved(P[m], Verdict(S))
  <1> DEFINE R == Rollup(P, m, seen, respect, S)
             x == Moved(P[m], Verdict(S))
  <1>1. x \in Party /\ Verdict(S) \in ItemStatus
    BY VerdictIsStatus, MovedParty DEF PartyStatus
  <1>2. R = P \/ R = [P EXCEPT ![m] = x]
    BY DEF Rollup, Moved
  <1> HIDE DEF x, R
  <1>3. R \in [Measures -> Party] /\ \A k \in Measures : k # m => R[k] = P[k]
    BY <1>1, <1>2
  <1>4. R[m] = P[m] \/ R[m] = x
    BY <1>1, <1>2
  <1>5. R[m] = P[m] \/ R[m] = Moved(P[m], Verdict(S))
    BY <1>4 DEF x
  <1> QED
    BY <1>3, <1>5 DEF R

-----------------------------------------------------------------------------
(* The account changes: what one recount of an account does to the rest *)

\* What a step that no request about a party makes leaves to a suspended one.
Spared(m, p, q, r, t) ==
    /\ q.suspended = p.suspended
    /\ q.approval = p.approval
    /\ q.forced = p.forced
    /\ p.status # "none" => q.status # "none"
    /\ p.suspended /\ p.status \notin Closed => q.status \notin Closed
    /\ p.suspended /\ p.status # "cancelled" => q.status # "cancelled"
    /\ \A a \in Accounts : r[a].suspended => t[a].status = r[a].status
    /\ \A a \in Accounts : /\ t[a].suspended = r[a].suspended
                           /\ t[a].resumed = r[a].resumed
                           /\ r[a].status = "none" => t[a].status = "none"
                           /\ t[a].status = r[a].status \/ t[a].status = "cancelled"
                           /\ \/ t[a].served = r[a].served
                              \/ r[a].served = "waiting" /\ t[a].served = "due"

LEMMA GentleSpares ==
    ASSUME PartyInv, NEW Q, Gentle(party, Q), NEW m \in Measures
    PROVE  Spared(m, party[m], Q[m], row[m], row[m])
  BY GentleIsSound DEF PartyInv, Spared, Gentle

\* Rows are closed for accounts whose service is not cut off.
LEMMA RowsClosed ==
    ASSUME TypeOK, PartyInv, NEW P, Gentle(party, P), NEW A, NEW a \in Accounts
    PROVE  /\ CloseRows(P, A, a) \in [Measures -> [Accounts -> Row]]
           /\ \A m \in Measures, b \in Accounts :
                 /\ CloseRows(P, A, a)[m][b].suspended = row[m][b].suspended
                 /\ CloseRows(P, A, a)[m][b].resumed = row[m][b].resumed
                 /\ row[m][b].suspended => CloseRows(P, A, a)[m][b].status = row[m][b].status
                 /\ row[m][b].status = "none" => CloseRows(P, A, a)[m][b].status = "none"
                 /\ CloseRows(P, A, a)[m][b].status \in {row[m][b].status, "cancelled"}
                 /\ CloseRows(P, A, a)[m][b].served = row[m][b].served
  <1> DEFINE R == CloseRows(P, A, a)
             x(m) == ClosedRow(row[m][a], A[a].debt)
  <1>1. \A m \in Measures : /\ row[m] \in [Accounts -> Row]
                            /\ row[m][a] \in Row
    BY DEF TypeOK
  <1>2. \A m \in Measures : /\ x(m) \in Row
                            /\ x(m).suspended = row[m][a].suspended
                            /\ x(m).resumed = row[m][a].resumed
                            /\ row[m][a].status = "none" => x(m).status = "none"
                            /\ x(m).status \in {row[m][a].status, "cancelled"}
                            /\ x(m).served = row[m][a].served
    BY <1>1 DEF ClosedRow, Row, ItemStatus, OpenItem
  <1>3. \A m \in Measures : \/ R[m] = row[m]
                            \/ R[m] = [row[m] EXCEPT ![a] = x(m)] /\ Closes(P, A, m, a)
    BY DEF CloseRows
  <1>4. R = [m \in Measures |-> R[m]]
    BY DEF CloseRows
  <1>5. \A m \in Measures : Closes(P, A, m, a) => ~row[m][a].suspended
    <2> TAKE m \in Measures
    <2> HAVE Closes(P, A, m, a)
    <2>1. row[m][a].suspended => Kind[m] = "disconnect"
      BY DEF PartyInv, Sound
    <2> QED
      BY <2>1 DEF Closes, CutOff
  <1> HIDE DEF R, x
  <1>6. \A m \in Measures : R[m] \in [Accounts -> Row]
    <2> SUFFICES ASSUME NEW m \in Measures PROVE R[m] \in [Accounts -> Row]
      OBVIOUS
    <2>1. row[m] \in [Accounts -> Row] /\ x(m) \in Row
      BY <1>1, <1>2
    <2>2. R[m] = row[m] \/ R[m] = [row[m] EXCEPT ![a] = x(m)]
      BY <1>3
    <2> QED BY <2>1, <2>2
  <1>7. R \in [Measures -> [Accounts -> Row]]
    BY <1>4, <1>6
  <1>8. \A m \in Measures, b \in Accounts :
           \/ R[m][b] = row[m][b]
           \/ b = a /\ R[m][b] = x(m) /\ ~row[m][b].suspended
    BY <1>1, <1>3, <1>5
  <1>9. \A m \in Measures, b \in Accounts :
           /\ R[m][b].suspended = row[m][b].suspended
           /\ R[m][b].resumed = row[m][b].resumed
           /\ row[m][b].suspended => R[m][b].status = row[m][b].status
           /\ row[m][b].status = "none" => R[m][b].status = "none"
           /\ R[m][b].status \in {row[m][b].status, "cancelled"}
           /\ R[m][b].served = row[m][b].served
    BY <1>2, <1>8
  <1> QED
    BY <1>7, <1>9 DEF R

\* settle_if_paid closes a party.
Settled(p) == [p EXCEPT !.status = "done", !.stopped = TRUE]

LEMMA SettledParty ==
    ASSUME NEW p \in Party
    PROVE  /\ Settled(p) \in Party
           /\ Settled(p).suspended = p.suspended
           /\ Settled(p).approval = p.approval
           /\ Settled(p).forced = p.forced
           /\ Settled(p).status = "done"
  BY DEF Settled, Party, PartyStatus, ItemStatus

\* Parties are closed, or counted anew, when the service is not cut off.
LEMMA PartiesClosed ==
    ASSUME TypeOK, PartyInv, NEW P, Gentle(party, P), NEW A, NEW a \in Accounts
    PROVE  /\ CloseParties(P, A, a) \in [Measures -> Party]
           /\ \A m \in Measures :
                 \/ CloseParties(P, A, a)[m] = P[m]
                 \/ /\ ~P[m].suspended
                    /\ CloseParties(P, A, a)[m].suspended = P[m].suspended
                    /\ CloseParties(P, A, a)[m].approval = P[m].approval
                    /\ CloseParties(P, A, a)[m].forced = P[m].forced
                    /\ CloseParties(P, A, a)[m].status \in ItemStatus
  <1> DEFINE Q == CloseParties(P, A, a)
             S(m) == {CloseRows(P, A, a)[m][b].status : b \in Members(m)}
             x(m) == Settled(P[m])
             y(m) == Rollup(P, m, P[m].status, FALSE, S(m))[m]
  <1>0. P \in [Measures -> Party]
    BY DEF Gentle
  <1>1. \A m \in Measures : /\ x(m) \in Party
                            /\ x(m).suspended = P[m].suspended
                            /\ x(m).approval = P[m].approval
                            /\ x(m).forced = P[m].forced
                            /\ x(m).status \in ItemStatus
    BY <1>0, SettledParty DEF ItemStatus
  <1>2. \A m \in Measures : /\ y(m) \in Party
                            /\ \/ y(m) = P[m]
                               \/ \E st \in ItemStatus : y(m) = Moved(P[m], st)
    <2> TAKE m \in Measures
    <2> DEFINE T == S(m)
               s == P[m].status
               no == FALSE
               R == Rollup(P, m, s, no, T)
    <2> HIDE DEF T, s, no
    <2>1. /\ R \in [Measures -> Party]
          /\ R[m] = P[m] \/ \E st \in ItemStatus : R[m] = Moved(P[m], st)
      BY <1>0, RollupWrites, VerdictIsStatus
    <2>2. y(m) = R[m]
      BY DEF T, s, no
    <2> HIDE DEF R, y
    <2> QED
      BY <2>1, <2>2
  <1>3. \A m \in Measures : \/ Q[m] = P[m]
                            \/ Closes(P, A, m, a) /\ (Q[m] = x(m) \/ Q[m] = y(m))
    BY DEF CloseParties, Settled
  <1>4. Q = [m \in Measures |-> Q[m]]
    BY DEF CloseParties
  <1>5. \A m \in Measures : Closes(P, A, m, a) => ~P[m].suspended
    <2> TAKE m \in Measures
    <2> HAVE Closes(P, A, m, a)
    <2>1. P[m].suspended => Kind[m] = "disconnect"
      BY DEF PartyInv, Sound, Gentle
    <2> QED
      BY <2>1 DEF Closes, CutOff
  <1> HIDE DEF Q, x, y
  <1>6. \A m \in Measures : \/ Q[m] = P[m]
                            \/ /\ ~P[m].suspended
                               /\ Q[m].suspended = P[m].suspended
                               /\ Q[m].approval = P[m].approval
                               /\ Q[m].forced = P[m].forced
                               /\ Q[m].status \in ItemStatus
    <2> TAKE m \in Measures
    <2>1. \A st \in ItemStatus : /\ Moved(P[m], st).suspended = P[m].suspended
                                 /\ Moved(P[m], st).approval = P[m].approval
                                 /\ Moved(P[m], st).forced = P[m].forced
                                 /\ Moved(P[m], st).status = st
      BY <1>0, MovedParty DEF PartyStatus
    <2> QED
      BY <1>1, <1>2, <1>3, <1>5, <2>1
  <1>7. \A m \in Measures : Q[m] \in Party
    BY <1>0, <1>1, <1>2, <1>3
  <1> QED
    BY <1>4, <1>6, <1>7 DEF Q

\* The accounts of a recount stay accounts.
LEMMA NoCaseType ==
    ASSUME NEW A \in [Accounts -> Account], NEW S
    PROVE  NoCase(A, S) \in [Accounts -> Account]
  BY DEF NoCase, Account

LEMMA SyncDeceasedType ==
    ASSUME NEW A \in [Accounts -> Account], NEW a \in Accounts
    PROVE  SyncDeceased(A, a) \in [Accounts -> Account]
  <1> DEFINE d == Dies(A, a) \/ (A[a].deceased /\ ~Newcomer(A, a))
             x == [A[a] EXCEPT !.deceased = d]
  <1>1. d \in BOOLEAN
    BY DEF Dies, Newcomer
  <1>2. SyncDeceased(A, a) = [A EXCEPT ![a] = x]
    BY DEF SyncDeceased
  <1> HIDE DEF d
  <1>3. x \in Account
    BY <1>1 DEF Account
  <1> HIDE DEF x
  <1> QED
    BY <1>2, <1>3

\* refresh_account spares what is suspended.
LEMMA RefreshStep ==
    ASSUME TypeOK, PartyInv, NEW A \in [Accounts -> Account], NEW a \in Accounts, RefreshFrom(A, a)
    PROVE  /\ party' \in [Measures -> Party]
           /\ row' \in [Measures -> [Accounts -> Row]]
           /\ acc' \in [Accounts -> Account]
           /\ \A m \in Measures : Spared(m, party[m], party'[m], row[m], row'[m])
  <1> DEFINE A1 == ExpireCase(A, a)
             P1 == ExpirePause(party, A, a)
             A2 == SyncDeceased(A1, a)
             P2 == SyncDeathPause(P1, A1, a)
             P3 == ReleaseExpired(P2, a)
             A4 == IF PayerChanged(A2, a) THEN NoCase(A2, Heirs(A2, a)) ELSE A2
             P4 == IF PayerChanged(A2, a) THEN ResumeAuto(P3, Heirs(A2, a)) ELSE P3
  <1>1. /\ acc' = A4
        /\ row' = CloseRows(P4, A4, a)
        /\ party' = CloseParties(P4, A4, a)
    BY DEF RefreshFrom
  <1>2. A1 \in [Accounts -> Account]
    BY NoCaseType DEF ExpireCase
  <1>3. A2 \in [Accounts -> Account]
    <2> HIDE DEF A1
    <2> QED BY <1>2, SyncDeceasedType
  <1>4. A4 \in [Accounts -> Account]
    <2> HIDE DEF A2
    <2> QED BY <1>3, NoCaseType
  <1>5. Gentle(party, P1)
    BY GentleIsReflexive, ResumeIsGentle DEF ExpirePause, TypeOK
  <1>6. Gentle(party, P2)
    <2> HIDE DEF P1, A1
    <2>1. Gentle(P1, P2)
      BY <1>5, DeathIsGentle DEF Gentle
    <2> HIDE DEF P2
    <2> QED BY <1>5, <2>1, GentleIsTransitive
  <1>7. Gentle(party, P3)
    <2> HIDE DEF P2
    <2>1. Gentle(P2, P3)
      BY <1>6, ExpiryIsGentle DEF Gentle
    <2> HIDE DEF P3
    <2> QED BY <1>6, <2>1, GentleIsTransitive
  <1>8. Gentle(party, P4)
    <2> HIDE DEF P3, A2
    <2> DEFINE H == Heirs(A2, a)
               R == ResumeAuto(P3, H)
    <2>1. Gentle(P3, R)
      <3> HIDE DEF H
      <3> QED BY <1>7, ResumeIsGentle DEF Gentle
    <2>2. Gentle(party, R)
      <3> HIDE DEF R
      <3> QED BY <1>7, <2>1, GentleIsTransitive
    <2> QED BY <1>7, <2>2
  <1> HIDE DEF P4, A4
  <1>9. \A m \in Measures : Spared(m, party[m], party'[m], row[m], row'[m])
    <2> TAKE m \in Measures
    <2>1. Spared(m, party[m], P4[m], row[m], row[m])
      BY <1>8, GentleSpares
    <2>2. \A b \in Accounts : /\ row'[m][b].suspended = row[m][b].suspended
                              /\ row'[m][b].resumed = row[m][b].resumed
                              /\ row[m][b].suspended => row'[m][b].status = row[m][b].status
                              /\ row[m][b].status = "none" => row'[m][b].status = "none"
                              /\ row'[m][b].status \in {row[m][b].status, "cancelled"}
                              /\ row'[m][b].served = row[m][b].served
      BY <1>1, <1>8, RowsClosed
    <2>3. \/ party'[m] = P4[m]
          \/ /\ ~P4[m].suspended
             /\ party'[m].suspended = P4[m].suspended
             /\ party'[m].approval = P4[m].approval
             /\ party'[m].forced = P4[m].forced
             /\ party'[m].status \in ItemStatus
      BY <1>1, <1>8, PartiesClosed
    <2> QED
      BY <2>1, <2>2, <2>3 DEF Spared, ItemStatus
  <1> QED
    BY <1>1, <1>4, <1>8, <1>9, RowsClosed, PartiesClosed

\* A step that no request makes keeps the invariant when it spares every party.
LEMMA SparingKeepsInv ==
    ASSUME Inv, TypeOK', job' = job,
           \A m \in Measures : Spared(m, party[m], party'[m], row[m], row'[m])
    PROVE  Inv'
  <1>1. PartyInv'
    <2> SUFFICES ASSUME NEW m \in Measures
                 PROVE  Sound(m, party'[m], row'[m])
      BY DEF PartyInv
    <2>1. Spared(m, party[m], party'[m], row[m], row'[m]) /\ Sound(m, party[m], row[m])
      BY DEF Inv, PartyInv
    <2> QED
      BY <2>1 DEF Sound, Spared
  <1>2. JobInv'
    BY DEF Inv, JobInv, JobOK, Launched, Spared
  <1> QED
    BY <1>1, <1>2 DEF Inv

-----------------------------------------------------------------------------
(* The steps no request about a party makes *)

Quiet == /\ job' = job
         /\ \A m \in Measures : Spared(m, party[m], party'[m], row[m], row'[m])

LEMMA SameIsQuiet ==
    ASSUME job' = job, party' = party, row' = row
    PROVE  Quiet
  BY DEF Quiet, Spared

LEMMA RecountStep ==
    ASSUME Inv, NEW w \in Workers, NEW a \in Accounts,
           OpenCase(w, a) \/ CloseCase(w, a) \/ Refresh(w, a) \/ ImportHeir(w, a)
    PROVE  TypeOK' /\ Quiet
  <1> USE DEF Inv
  <1>1. CASE OpenCase(w, a)
    <2> DEFINE S == Peers(a)
    <2>1. acc' \in [Accounts -> Account]
      BY <1>1 DEF OpenCase, TypeOK, Account
    <2>2. Gentle(party, party')
      <3>1. party' = PauseAuto(party, S) \/ party' = party
        BY <1>1 DEF OpenCase
      <3> HIDE DEF S
      <3> QED BY <3>1, PauseIsGentle, GentleIsReflexive DEF TypeOK
    <2> QED BY <1>1, <2>1, <2>2, GentleSpares DEF OpenCase, Quiet, TypeOK, Gentle
  <1>2. CASE CloseCase(w, a)
    <2> DEFINE S == Peers(a)
    <2>1. acc' \in [Accounts -> Account]
      BY <1>2, NoCaseType DEF CloseCase, TypeOK
    <2>2. Gentle(party, party')
      <3>1. party' = ResumeAuto(party, S)
        BY <1>2 DEF CloseCase
      <3> HIDE DEF S
      <3> QED BY <3>1, ResumeIsGentle DEF TypeOK
    <2> QED BY <1>2, <2>1, <2>2, GentleSpares DEF CloseCase, Quiet, TypeOK, Gentle
  <1>3. CASE Refresh(w, a)
    BY <1>3, RefreshStep DEF Refresh, Quiet, TypeOK
  <1>4. CASE ImportHeir(w, a)
    <2> DEFINE A == [acc EXCEPT ![a] = [acc[a] EXCEPT !.case = "import"]]
    <2>1. A \in [Accounts -> Account]
      BY DEF TypeOK, Account
    <2>2. RefreshFrom(A, a) /\ job' = job
      BY <1>4 DEF ImportHeir
    <2> HIDE DEF A
    <2> QED BY <2>1, <2>2, RefreshStep DEF Quiet, TypeOK
  <1> QED
    BY <1>1, <1>2, <1>3, <1>4

LEMMA WorldStep ==
    ASSUME Inv, World
    PROVE  TypeOK' /\ Quiet
  <1> USE DEF Inv
  <1>1. ASSUME NEW a \in Accounts, PayerDies(a) \/ NewPayer(a) \/ DebtMoves(a) \/ CaseRunsOut(a)
        PROVE  TypeOK' /\ Quiet
    <2>1. acc' \in [Accounts -> Account]
      <3>1. CASE PayerDies(a)
        BY <3>1 DEF PayerDies, TypeOK, Account
      <3>2. CASE NewPayer(a)
        BY <3>2 DEF NewPayer, TypeOK, Account
      <3>3. CASE DebtMoves(a)
        <4>1. PICK d \in {"due", "part", "clear"} : acc' = [acc EXCEPT ![a] = [acc[a] EXCEPT !.debt = d]]
          BY <3>3 DEF DebtMoves
        <4> QED BY <4>1 DEF TypeOK, Account
      <3>4. CASE CaseRunsOut(a)
        <4> DEFINE S == {b \in Accounts : b \in Peers(a) /\ acc[b].case = "open"}
        <4>1. acc' = [b \in Accounts |-> IF b \in S THEN [acc[b] EXCEPT !.case = "over"] ELSE acc[b]]
          BY <3>4 DEF CaseRunsOut
        <4>2. \A b \in Accounts : acc[b] \in Account /\ [acc[b] EXCEPT !.case = "over"] \in Account
          BY DEF TypeOK, Account
        <4> HIDE DEF S
        <4> QED BY <4>1, <4>2
      <3> QED BY <1>1, <3>1, <3>2, <3>3, <3>4
    <2>2. party' = party /\ row' = row /\ job' = job
      BY <1>1 DEF PayerDies, NewPayer, DebtMoves, CaseRunsOut, Outside
    <2> QED BY <2>1, <2>2, SameIsQuiet DEF TypeOK
  <1>2. ASSUME NEW m \in Measures, HoldRunsOut(m)
        PROVE  TypeOK' /\ Quiet
    <2> DEFINE x == [party[m] EXCEPT !.until = "past"]
    <2>1. x \in Party /\ x.status = party[m].status /\ x.suspended = party[m].suspended
                      /\ x.approval = party[m].approval /\ x.forced = party[m].forced
      BY DEF TypeOK, Party
    <2>2. party' = [party EXCEPT ![m] = x] /\ row' = row /\ job' = job /\ acc' = acc
      BY <1>2 DEF HoldRunsOut, Outside
    <2> HIDE DEF x
    <2>3. party' \in [Measures -> Party]
      BY <2>1, <2>2 DEF TypeOK
    <2>4. \A k \in Measures : /\ party'[k].status = party[k].status
                              /\ party'[k].suspended = party[k].suspended
                              /\ party'[k].approval = party[k].approval
                              /\ party'[k].forced = party[k].forced
      BY <2>1, <2>2 DEF TypeOK
    <2> QED BY <2>2, <2>3, <2>4 DEF TypeOK, Quiet, Spared
  <1>3. ASSUME NEW m \in Measures, NEW a \in Accounts, TermRunsOut(m, a)
        PROVE  TypeOK' /\ Quiet
    <2> DEFINE x == [row[m][a] EXCEPT !.served = "due"]
               y == [row[m] EXCEPT ![a] = x]
    <2>0. row[m] \in [Accounts -> Row]
      BY DEF TypeOK
    <2>1. x \in Row /\ x.status = row[m][a].status /\ x.suspended = row[m][a].suspended
                    /\ x.resumed = row[m][a].resumed /\ x.served = "due"
      BY <2>0 DEF Row
    <2>2. /\ row' = [row EXCEPT ![m] = y] /\ party' = party /\ job' = job /\ acc' = acc
          /\ row[m][a].served = "waiting"
      BY <1>3 DEF TermRunsOut
    <2> HIDE DEF x
    <2>3. /\ y \in [Accounts -> Row]
          /\ \A b \in Accounts : /\ y[b].status = row[m][b].status
                                 /\ y[b].suspended = row[m][b].suspended
                                 /\ y[b].resumed = row[m][b].resumed
                                 /\ \/ y[b].served = row[m][b].served
                                    \/ row[m][b].served = "waiting" /\ y[b].served = "due"
      BY <2>0, <2>1, <2>2
    <2> HIDE DEF y
    <2>4. /\ row' \in [Measures -> [Accounts -> Row]]
          /\ \A k \in Measures, b \in Accounts : /\ row'[k][b].status = row[k][b].status
                                                 /\ row'[k][b].suspended = row[k][b].suspended
                                                 /\ row'[k][b].resumed = row[k][b].resumed
                                                 /\ \/ row'[k][b].served = row[k][b].served
                                                    \/ row[k][b].served = "waiting" /\ row'[k][b].served = "due"
      BY <2>2, <2>3 DEF TypeOK
    <2> QED BY <2>2, <2>4 DEF TypeOK, Quiet, Spared
  <1> QED
    BY <1>1, <1>2, <1>3 DEF World

\* A party that is just launched has nothing suspended.
Fresh(m, p, r) ==
    /\ party[m].status = "none"
    /\ p.approval # "" => m \in NeedsApproval
    /\ \A a \in Accounts : /\ ~r[a].suspended
                           /\ r[a].served = "no"
                           /\ Kind[m] = "disconnect" /\ r[a].status # "none" => p.forced \/ WarningDue(a)

\* What PaymentLeavesSuspended asks of a step.
Leaves == \A m \in Measures :
    /\ party[m].suspended /\ party[m].status \notin Closed => party'[m].status \notin Closed
    /\ \A a \in Accounts : row[m][a].suspended => row'[m][a].status = row[m][a].status

LEMMA LaunchStep ==
    ASSUME Inv, NEW w \in Workers, NEW m \in Measures, NEW forced \in BOOLEAN, Launch(w, m, forced)
    PROVE  /\ Inv' /\ Leaves /\ job' = job
           /\ job[w].op = "idle"
           /\ \A k \in Measures : party'[k].suspended => /\ party[k].suspended
                                                        /\ party'[k].approval = party[k].approval
           /\ \A k \in Measures : \/ Spared(k, party[k], party'[k], row[k], row'[k])
                                  \/ Fresh(k, party'[k], row'[k])
  <1> DEFINE Over   == {a \in Candidates[m] : acc[a].case = "over"}
             Freed  == UNION {Peers(a) : a \in Over}
             A      == NoCase(acc, Freed)
             P      == IF Over = {} THEN party ELSE ResumeAuto(party, Freed)
             chosen == {a \in Candidates[m] : Admits(m, a, A, forced)}
             x == [NoParty EXCEPT !.status = "assigned", !.forced = forced,
                                  !.approval = IF m \in NeedsApproval THEN "pending" ELSE ""]
             y == [a \in Accounts |-> IF a \in chosen THEN [NoRow EXCEPT !.status = "assigned"] ELSE NoRow]
  <1>1. /\ job' = job
        /\ job[w].op = "idle"
        /\ party[m].status = "none"
        /\ acc' = A
        /\ \/ party' = P /\ row' = row
           \/ party' = [P EXCEPT ![m] = x] /\ row' = [row EXCEPT ![m] = y]
    BY DEF Launch
  <1>2. acc' \in [Accounts -> Account]
    <2> HIDE DEF Freed
    <2> QED BY <1>1, NoCaseType DEF Inv, TypeOK
  <1>3. Gentle(party, P)
    <2> HIDE DEF Freed, Over
    <2> QED BY GentleIsReflexive, ResumeIsGentle DEF Inv, TypeOK
  <1>4. /\ x \in Party /\ x.status = "assigned" /\ x.suspended = FALSE
        /\ x.approval # "" => m \in NeedsApproval
        /\ x.forced = forced
    BY DEF NoParty, Party, PartyStatus, ItemStatus
  <1>5. /\ y \in [Accounts -> Row]
        /\ \A a \in Accounts : /\ ~y[a].suspended /\ y[a].served = "no"
                               /\ y[a].status # "none" => a \in chosen
    <2> HIDE DEF chosen
    <2> QED BY DEF NoRow, Row, ItemStatus
  <1>c. \A a \in chosen : Kind[m] = "disconnect" => forced \/ WarningDue(a)
    BY DEF Admits
  <1> HIDE DEF P, x, y, chosen
  <1>6. \A k \in Measures : Spared(k, party[k], P[k], row[k], row[k])
    BY <1>3, GentleSpares DEF Inv
  <1>7. CASE party' = P /\ row' = row
    <2>1. TypeOK' /\ Quiet
      BY <1>1, <1>2, <1>3, <1>6, <1>7 DEF Inv, TypeOK, Gentle, Quiet
    <2> QED BY <1>1, <2>1, SparingKeepsInv DEF Quiet, Leaves, Spared, Fresh
  <1>8. CASE party' = [P EXCEPT ![m] = x] /\ row' = [row EXCEPT ![m] = y]
    <2>1. /\ party' \in [Measures -> Party]
          /\ party'[m] = x
          /\ \A k \in Measures : k # m => party'[k] = P[k]
      BY <1>3, <1>4, <1>8 DEF Gentle
    <2>2. /\ row' \in [Measures -> [Accounts -> Row]]
          /\ row'[m] = y
          /\ \A k \in Measures : k # m => row'[k] = row[k]
      BY <1>5, <1>8 DEF Inv, TypeOK
    <2>3. TypeOK'
      BY <1>1, <1>2, <2>1, <2>2 DEF Inv, TypeOK
    <2>4. Sound(m, party[m], row[m])
      BY DEF Inv, PartyInv
    <2>5. PartyInv'
      <3> SUFFICES ASSUME NEW k \in Measures
                   PROVE  Sound(k, party'[k], row'[k])
        BY DEF PartyInv
      <3>1. CASE k = m
        BY <1>4, <1>5, <2>1, <2>2, <3>1 DEF Sound
      <3>2. CASE k # m
        BY <1>3, <2>1, <2>2, <3>2, GentleIsSound DEF Inv, PartyInv
      <3> QED BY <3>1, <3>2
    <2>6. JobInv'
      <3>1. \A k \in Measures : party[k].status # "none" => party'[k].status # "none"
        BY <1>4, <1>6, <2>1 DEF Spared
      <3> QED BY <1>1, <3>1 DEF Inv, JobInv, JobOK, Launched
    <2>7. Leaves
      BY <1>1, <1>6, <2>1, <2>2, <2>4 DEF Leaves, Spared, Sound
    <2>8. \A k \in Measures : party'[k].suspended => /\ party[k].suspended
                                                     /\ party'[k].approval = party[k].approval
      <3>1. ~party'[m].suspended
        BY <1>4, <2>1
      <3>2. \A k \in Measures : k # m => /\ party'[k].suspended = party[k].suspended
                                        /\ party'[k].approval = party[k].approval
        BY <1>3, <2>1 DEF Gentle
      <3> QED BY <3>1, <3>2
    <2>9. \A k \in Measures : \/ Spared(k, party[k], party'[k], row[k], row'[k])
                              \/ Fresh(k, party'[k], row'[k])
      <3>1. Fresh(m, x, y)
        BY <1>1, <1>4, <1>5, <1>c DEF Fresh
      <3>2. ASSUME NEW k \in Measures, k # m
            PROVE  Spared(k, party[k], party'[k], row[k], row'[k])
        <4>1. party'[k] = P[k] /\ row'[k] = row[k]
          BY <2>1, <2>2, <3>2
        <4> QED BY <1>6, <4>1
      <3>3. Fresh(m, party'[m], row'[m])
        BY <2>1, <2>2, <3>1
      <3> QED BY <3>2, <3>3
    <2> QED BY <1>1, <2>3, <2>5, <2>6, <2>7, <2>8, <2>9 DEF Inv
  <1> QED
    BY <1>1, <1>7, <1>8

-----------------------------------------------------------------------------
(* Requests about one party *)

\* Whoever changes what is suspended or approved acts by what was loaded.
Careful(j, p, x) ==
    \/ x.suspended = p.suspended /\ x.approval = p.approval
    \/ x.suspended = p.suspended /\ j.seen.approval = "pending"
    \/ x.approval = j.seen.approval /\ Approved(j.measure, j.seen)

\* A suspended row belongs to a suspended party, and what is still cut off is not cancelled.
Kept(m, p, r) ==
    /\ p.approval # "" => m \in NeedsApproval
    /\ \A a \in Accounts :
          /\ r[a].suspended => p.suspended /\ r[a].status # "none"
          /\ r[a].suspended /\ ~r[a].resumed => r[a].status # "cancelled" /\ p.status # "cancelled"

\* What a request has loaded is still so.
Current(j, p, r) ==
    /\ j.seen.status = p.status
    /\ j.seen.suspended = p.suspended
    /\ j.seen.approval = p.approval
    /\ j.seen.forced = p.forced
    /\ j.op \in {"record", "stop"} =>
          /\ r[j.account].status # "none"
          /\ j.item.suspended = r[j.account].suspended
          /\ j.item.resumed = r[j.account].resumed
          /\ \/ j.item.served = r[j.account].served
             \/ j.item.served = "waiting" /\ r[j.account].served = "due"

\* A request that decides by what is so, of a board that does not move cards to "cancelled".
Informed(j, p, r) ==
    /\ Current(j, p, r)
    /\ j.measure \in NeedsApproval /\ p.suspended => p.approval = "approved"
    /\ "cancelled" \notin MoveTo

\* A delivered warning is not open again.
Delivery(m, r) == Kind[m] = "warning" =>
    \A a \in Accounts : r[a].served # "no" => r[a].status \notin OpenItem \cup {"none"}

\* No account joins a launched party, no term that is over starts anew.
Steady(m, p, q, r, t) ==
    /\ q.forced = p.forced
    /\ \A a \in Accounts : /\ r[a].status = "none" /\ ~r[a].suspended => t[a].status = "none" /\ ~t[a].suspended
                           /\ Kind[m] = "warning" /\ r[a].served = "due" => t[a].served = "due"
    /\ Delivery(m, t)

\* A request that decides by what is so, of a board that does not open cards again.
Settling(j, p, r) == Current(j, p, r) /\ MoveTo \cap OpenItem = {} /\ Delivery(j.measure, r)

\* The party and the rows a request leaves behind.
Outcome(w, x, y) ==
    LET m == job[w].measure IN
    /\ x \in Party
    /\ y \in [Accounts -> Row]
    /\ x.status # "none"
    /\ x.suspended => Kind[m] = "disconnect"
    /\ \A a \in Accounts : y[a].suspended => Kind[m] = "disconnect"
    /\ Careful(job[w], party[m], x)
    /\ Informed(job[w], party[m], row[m]) /\ Kept(m, party[m], row[m]) => Kept(m, x, y)
    /\ Settling(job[w], party[m], row[m]) => Steady(m, party[m], x, row[m], y)
    /\ party' = [party EXCEPT ![m] = x]
    /\ row' = [row EXCEPT ![m] = y]

Served(w) ==
    /\ job[w].op # "idle"
    /\ job' = [job EXCEPT ![w] = Idle]
    /\ acc' = acc
    /\ (party' = party /\ row' = row) \/ \E x, y : Outcome(w, x, y)

\* What a request in progress may rely on.
LEMMA RequestKnows ==
    ASSUME Inv, NEW w \in Workers, job[w].op # "idle"
    PROVE  LET m == job[w].measure
               s == job[w].seen
           IN /\ m \in Measures
              /\ s \in Party
              /\ s.suspended => Kind[m] = "disconnect"
              /\ party[m] \in Party
              /\ row[m] \in [Accounts -> Row]
              /\ party[m].status # "none"
              /\ party[m].suspended => Kind[m] = "disconnect"
              /\ \A a \in Accounts : row[m][a].suspended => Kind[m] = "disconnect"
  <1>1. JobOK(job[w]) /\ Launched(party, job[w])
    BY DEF Inv, JobInv
  <1>2. job[w].measure \in Measures
    BY <1>1 DEF JobOK
  <1>3. Sound(job[w].measure, party[job[w].measure], row[job[w].measure])
    BY <1>2 DEF Inv, PartyInv
  <1> QED
    BY <1>1, <1>2, <1>3 DEF JobOK, Launched, Sound, Inv, TypeOK

\* Rows that are all marked, or all but some, stay rows and stay suspended.
Marked(m, y, st) == \A a \in Accounts :
    /\ y[a].suspended = row[m][a].suspended
    /\ y[a].resumed = row[m][a].resumed
    /\ y[a].served = row[m][a].served
    /\ y[a].status = row[m][a].status \/ (row[m][a].status # "none" /\ y[a].status = st)

LEMMA MarkedRows ==
    ASSUME Inv, NEW m \in Measures, NEW S, "none" \notin S, NEW st \in ItemStatus
    PROVE  \E y \in [Accounts -> Row] :
              /\ MarkRows(m, S, st) = [row EXCEPT ![m] = y]
              /\ Marked(m, y, st)
  <1> DEFINE y == [a \in Accounts |-> IF row[m][a].status \in S
                                      THEN [row[m][a] EXCEPT !.status = st]
                                      ELSE row[m][a]]
  <1>1. row[m] \in [Accounts -> Row]
    BY DEF Inv, TypeOK
  <1>2. \A a \in Accounts : /\ [row[m][a] EXCEPT !.status = st] \in Row
                            /\ [row[m][a] EXCEPT !.status = st].suspended = row[m][a].suspended
                            /\ [row[m][a] EXCEPT !.status = st].resumed = row[m][a].resumed
                            /\ [row[m][a] EXCEPT !.status = st].served = row[m][a].served
                            /\ [row[m][a] EXCEPT !.status = st].status = st
    BY <1>1 DEF Row
  <1>3. y \in [Accounts -> Row] /\ Marked(m, y, st)
    BY <1>1, <1>2 DEF Marked
  <1>4. MarkRows(m, S, st) = [row EXCEPT ![m] = y]
    BY DEF MarkRows
  <1> HIDE DEF y
  <1> QED
    BY <1>3, <1>4

LEMMA DecisionStep ==
    ASSUME Inv, NEW w \in Workers,
           \/ Accept(w) \/ Approve(w) \/ Reject(w) \/ Cancel(w)
           \/ \E to \in MoveTo : Move(w, to)
    PROVE  Served(w)
  <1> DEFINE m == job[w].measure
             s == job[w].seen
             p == party[m]
  <1>0. /\ job[w].op # "idle"
        /\ job' = [job EXCEPT ![w] = Idle]
        /\ acc' = acc
    BY DEF Accept, Approve, Reject, Cancel, Move, Loaded
  <1>k. /\ m \in Measures /\ s \in Party /\ p \in Party
        /\ row[m] \in [Accounts -> Row]
        /\ p.status # "none"
        /\ p.suspended => Kind[m] = "disconnect"
        /\ \A a \in Accounts : row[m][a].suspended => Kind[m] = "disconnect"
    BY <1>0, RequestKnows
  <1>r. row = [row EXCEPT ![m] = row[m]]
    BY <1>k DEF Inv, TypeOK
  <1> DEFINE I == Informed(job[w], p, row[m]) /\ Kept(m, p, row[m])
  <1>i. I => /\ s.suspended = p.suspended
             /\ s.approval = p.approval
             /\ s.approval = "pending" => ~p.suspended /\ m \in NeedsApproval
    BY DEF Informed, Current, Kept
  <1>u. ASSUME NEW x, NEW y, NEW st, Marked(m, y, st),
               ~p.suspended \/ \A a \in Accounts : ~row[m][a].suspended,
               x.approval # "" => x.approval = p.approval \/ m \in NeedsApproval
        PROVE  I => Kept(m, x, y)
    BY <1>u DEF Marked, Kept
  <1> DEFINE J == Settling(job[w], p, row[m])
  <1>v. ASSUME NEW x, NEW y, NEW st, Marked(m, y, st), x.forced = p.forced,
               Kind[m] = "warning" /\ MoveTo \cap OpenItem = {} => st \notin OpenItem \cup {"none"}
        PROVE  J => Steady(m, p, x, row[m], y)
    <2> SUFFICES ASSUME J PROVE Steady(m, p, x, row[m], y)
      OBVIOUS
    <2>1. Delivery(m, row[m]) /\ MoveTo \cap OpenItem = {}
      BY DEF Settling
    <2>2. Delivery(m, y)
      BY <1>v, <2>1 DEF Marked, Delivery
    <2> QED BY <1>v, <2>2 DEF Marked, Steady
  <1>1. CASE Accept(w)
    <2> DEFINE x == Moved(p, "running")
    <2>1. party' = [party EXCEPT ![m] = x]
      BY <1>1 DEF Accept, Moved
    <2>2. /\ x \in Party /\ x.status = "running" /\ x.suspended = p.suspended /\ x.approval = p.approval
          /\ x.forced = p.forced
      BY <1>k, MovedParty DEF PartyStatus, ItemStatus
    <2> DEFINE S  == {"assigned"}
               st == "running"
    <2>3. row' = MarkRows(m, S, st) /\ st \in ItemStatus /\ "none" \notin S
      BY <1>1 DEF Accept, ItemStatus
    <2> HIDE DEF S, st
    <2>4. PICK y \in [Accounts -> Row] : row' = [row EXCEPT ![m] = y] /\ Marked(m, y, st)
      <3> HIDE DEF m
      <3>1. \E y \in [Accounts -> Row] : MarkRows(m, S, st) = [row EXCEPT ![m] = y] /\ Marked(m, y, st)
        BY <1>k, <2>3, MarkedRows
      <3> QED BY <2>3, <3>1
    <2> HIDE DEF x
    <2>5. I => Kept(m, x, y)
      <3>1. ~s.suspended
        BY <1>1 DEF Accept
      <3> HIDE DEF I
      <3> QED BY <1>i, <1>u, <2>2, <2>4, <3>1
    <2>6. J => Steady(m, p, x, row[m], y)
      <3>1. Kind[m] = "disconnect"
        BY <1>1 DEF Accept
      <3> HIDE DEF J
      <3> QED BY <1>v, <2>2, <2>4, <3>1
    <2>7. Outcome(w, x, y)
      BY <1>k, <2>1, <2>2, <2>4, <2>5, <2>6 DEF Outcome, Careful, Marked
    <2> QED BY <1>0, <2>7 DEF Served
  <1>2. CASE Approve(w)
    <2> DEFINE x == [p EXCEPT !.approval = "approved"]
    <2>1. party' = [party EXCEPT ![m] = x] /\ row' = row /\ s.approval = "pending"
      BY <1>2 DEF Approve
    <2>2. x \in Party /\ x.status = p.status /\ x.suspended = p.suspended /\ x.forced = p.forced
      BY <1>k DEF Party
    <2> HIDE DEF x
    <2>3. I => Kept(m, x, row[m])
      BY <1>i, <2>1, <2>2 DEF Kept
    <2>4. J => Steady(m, p, x, row[m], row[m])
      BY <2>2 DEF Settling, Steady
    <2>5. Outcome(w, x, row[m])
      BY <1>k, <1>r, <2>1, <2>2, <2>3, <2>4 DEF Outcome, Careful
    <2> QED BY <1>0, <2>5 DEF Served
  <1>3. CASE Reject(w)
    <2> DEFINE x == [p EXCEPT !.approval = "rejected", !.status = "cancelled"]
    <2>1. party' = [party EXCEPT ![m] = x] /\ s.approval = "pending"
      BY <1>3 DEF Reject
    <2>2. x \in Party /\ x.status = "cancelled" /\ x.suspended = p.suspended /\ x.forced = p.forced
      BY <1>k DEF Party, PartyStatus, ItemStatus
    <2> DEFINE S  == ItemStatus \ {"done"}
               st == "cancelled"
    <2>3. row' = MarkRows(m, S, st) /\ st \in ItemStatus /\ "none" \notin S
      BY <1>3 DEF Reject, ItemStatus
    <2> HIDE DEF S, st
    <2>4. PICK y \in [Accounts -> Row] : row' = [row EXCEPT ![m] = y] /\ Marked(m, y, st)
      <3> HIDE DEF m
      <3>1. \E y \in [Accounts -> Row] : MarkRows(m, S, st) = [row EXCEPT ![m] = y] /\ Marked(m, y, st)
        BY <1>k, <2>3, MarkedRows
      <3> QED BY <2>3, <3>1
    <2> HIDE DEF x
    <2>5. I => Kept(m, x, y)
      <3>1. I => m \in NeedsApproval /\ ~p.suspended
        BY <1>i, <2>1
      <3> HIDE DEF I
      <3> QED BY <1>u, <2>4, <3>1
    <2>6. J => Steady(m, p, x, row[m], y)
      <3>1. st \notin OpenItem \cup {"none"}
        BY DEF st, OpenItem
      <3> HIDE DEF J
      <3> QED BY <1>v, <2>2, <2>4, <3>1
    <2>7. Outcome(w, x, y)
      BY <1>k, <2>1, <2>2, <2>4, <2>5, <2>6 DEF Outcome, Careful, Marked
    <2> QED BY <1>0, <2>7 DEF Served
  <1>4. CASE Cancel(w)
    <2> DEFINE x == Moved(p, "cancelled")
    <2>1. party' = [party EXCEPT ![m] = x]
      BY <1>4 DEF Cancel, Moved
    <2>2. /\ x \in Party /\ x.status = "cancelled" /\ x.suspended = p.suspended /\ x.approval = p.approval
          /\ x.forced = p.forced
      BY <1>k, MovedParty DEF PartyStatus, ItemStatus
    <2> DEFINE S  == OpenItem \cup {"failed"}
               st == "cancelled"
    <2>3. row' = MarkRows(m, S, st) /\ st \in ItemStatus /\ "none" \notin S
      BY <1>4 DEF Cancel, ItemStatus, OpenItem
    <2> HIDE DEF S, st
    <2>4. PICK y \in [Accounts -> Row] : row' = [row EXCEPT ![m] = y] /\ Marked(m, y, st)
      <3> HIDE DEF m
      <3>1. \E y \in [Accounts -> Row] : MarkRows(m, S, st) = [row EXCEPT ![m] = y] /\ Marked(m, y, st)
        BY <1>k, <2>3, MarkedRows
      <3> QED BY <2>3, <3>1
    <2> HIDE DEF x
    <2>5. I => Kept(m, x, y)
      <3>1. \A a \in Accounts : ~row[m][a].suspended
        BY <1>4 DEF Cancel
      <3> HIDE DEF I
      <3> QED BY <1>u, <2>2, <2>4, <3>1
    <2>6. J => Steady(m, p, x, row[m], y)
      <3>1. st \notin OpenItem \cup {"none"}
        BY DEF st, OpenItem
      <3> HIDE DEF J
      <3> QED BY <1>v, <2>2, <2>4, <3>1
    <2>7. Outcome(w, x, y)
      BY <1>k, <2>1, <2>2, <2>4, <2>5, <2>6 DEF Outcome, Careful, Marked
    <2> QED BY <1>0, <2>7 DEF Served
  <1>5. ASSUME NEW to \in MoveTo, Move(w, to)
        PROVE  Served(w)
    <2> DEFINE x == Moved(p, to)
    <2>1. party' = [party EXCEPT ![m] = x]
      BY <1>5 DEF Move, Moved
    <2>2. /\ x \in Party /\ x.status = to /\ to # "none" /\ x.suspended = p.suspended /\ x.approval = p.approval
          /\ x.forced = p.forced
      BY <1>k, MovedParty, PartyAssumption DEF PartyAssumption, PartyStatus, ItemStatus
    <2>3. row' = row \/ (to \in ItemStatus /\ row' = MarkRows(m, ItemStatus, to))
      BY <1>5 DEF Move
    <2>4. PICK y \in [Accounts -> Row] : row' = [row EXCEPT ![m] = y] /\ Marked(m, y, to)
      <3> HIDE DEF m
      <3>1. CASE row' = row
        BY <1>k, <1>r, <3>1 DEF Marked
      <3>2. CASE to \in ItemStatus /\ row' = MarkRows(m, ItemStatus, to)
        <4>1. "none" \notin ItemStatus
          BY DEF ItemStatus
        <4> QED BY <1>k, <3>2, <4>1, MarkedRows
      <3> QED BY <2>3, <3>1, <3>2
    <2> HIDE DEF x
    <2>5. I => Kept(m, x, y)
      BY <2>2, <2>4 DEF Informed, Kept, Marked
    <2>6. J => Steady(m, p, x, row[m], y)
      <3> HIDE DEF J
      <3> QED BY <1>5, <1>v, <2>2, <2>4
    <2>7. Outcome(w, x, y)
      BY <1>k, <2>1, <2>2, <2>4, <2>5, <2>6 DEF Outcome, Careful, Marked
    <2> QED BY <1>0, <2>7 DEF Served
  <1> QED
    BY <1>1, <1>2, <1>3, <1>4, <1>5

\* apply_confirmation: the party is saved as loaded, the approval with it.
LEMMA ConfirmationStep ==
    ASSUME Inv, NEW w \in Workers, Suspend(w) \/ Resume(w)
    PROVE  Served(w)
  <1> DEFINE m == job[w].measure
             s == job[w].seen
  <1>0. /\ job[w].op # "idle"
        /\ job' = [job EXCEPT ![w] = Idle]
        /\ acc' = acc
    BY DEF Suspend, Resume, Loaded
  <1>k. /\ m \in Measures /\ s \in Party
        /\ row[m] \in [Accounts -> Row]
    BY <1>0, RequestKnows
  <1> DEFINE I == Informed(job[w], party[m], row[m]) /\ Kept(m, party[m], row[m])
  <1>i. I => s.suspended = party[m].suspended /\ s.approval = party[m].approval
    BY DEF Informed, Current
  <1> DEFINE J == Settling(job[w], party[m], row[m])
  <1>j. J => s.forced = party[m].forced
    BY DEF Settling, Current
  <1>1. CASE Suspend(w)
    <2> DEFINE x == [s EXCEPT !.suspended = TRUE, !.status = "running"]
               z(a) == [row[m][a] EXCEPT !.status = "running", !.suspended = TRUE]
               y == [a \in Accounts |-> IF row[m][a].status \in {"none", "cancelled"} THEN row[m][a] ELSE z(a)]
    <2>1. /\ party' = [party EXCEPT ![m] = x]
          /\ row' = [row EXCEPT ![m] = y]
          /\ Kind[m] = "disconnect"
          /\ Approved(m, s) /\ s.status # "cancelled"
      BY <1>1 DEF Suspend
    <2>2. x \in Party /\ x.status = "running" /\ x.approval = s.approval /\ x.suspended /\ x.forced = s.forced
      BY <1>k DEF Party, PartyStatus, ItemStatus
    <2>3. /\ y \in [Accounts -> Row]
          /\ \A a \in Accounts : \/ y[a] = row[m][a] /\ row[m][a].status \in {"none", "cancelled"}
                                 \/ row[m][a].status # "none" /\ y[a].status = "running"
      <3>1. \A a \in Accounts : row[m][a] \in Row /\ z(a) \in Row
        BY <1>k DEF Row, ItemStatus
      <3>2. \A a \in Accounts : z(a).status = "running"
        BY <1>k DEF Row
      <3> HIDE DEF z
      <3>3. y \in [Accounts -> Row]
        BY <3>1
      <3>4. \A a \in Accounts : \/ y[a] = row[m][a] /\ row[m][a].status \in {"none", "cancelled"}
                                \/ row[m][a].status # "none" /\ y[a] = z(a)
        OBVIOUS
      <3> HIDE DEF y
      <3> QED BY <3>2, <3>3, <3>4
    <2> HIDE DEF x, y
    <2>4. I => Kept(m, x, y)
      BY <1>i, <2>2, <2>3 DEF Kept
    <2>5. J => Steady(m, party[m], x, row[m], y)
      BY <1>j, <2>1, <2>2, <2>3 DEF Steady, Delivery
    <2>6. Outcome(w, x, y)
      BY <1>k, <2>1, <2>2, <2>3, <2>4, <2>5 DEF Outcome, Careful
    <2> QED BY <1>0, <2>6 DEF Served
  <1>2. CASE Resume(w)
    <2> DEFINE x == [s EXCEPT !.resumed = TRUE, !.status = "done"]
               z(a) == [row[m][a] EXCEPT !.status = "done", !.resumed = TRUE]
               y == [a \in Accounts |-> IF row[m][a].status \in {"none", "cancelled"} THEN row[m][a] ELSE z(a)]
    <2>1. /\ party' = [party EXCEPT ![m] = x]
          /\ row' = [row EXCEPT ![m] = y]
          /\ Kind[m] = "disconnect"
          /\ Approved(m, s) /\ s.status # "cancelled"
      BY <1>2 DEF Resume
    <2>2. /\ x \in Party /\ x.status = "done" /\ x.approval = s.approval /\ x.suspended = s.suspended
          /\ x.forced = s.forced
      BY <1>k DEF Party, PartyStatus, ItemStatus
    <2>3. /\ y \in [Accounts -> Row]
          /\ \A a \in Accounts : \/ y[a] = row[m][a] /\ row[m][a].status \in {"none", "cancelled"}
                                 \/ row[m][a].status # "none" /\ y[a].status = "done" /\ y[a].suspended = row[m][a].suspended
      <3>1. \A a \in Accounts : row[m][a] \in Row /\ z(a) \in Row
        BY <1>k DEF Row, ItemStatus
      <3>2. \A a \in Accounts : z(a).status = "done" /\ z(a).suspended = row[m][a].suspended
        BY <1>k DEF Row
      <3> HIDE DEF z
      <3>3. y \in [Accounts -> Row]
        BY <3>1
      <3>4. \A a \in Accounts : \/ y[a] = row[m][a] /\ row[m][a].status \in {"none", "cancelled"}
                                \/ row[m][a].status # "none" /\ y[a] = z(a)
        OBVIOUS
      <3> HIDE DEF y
      <3> QED BY <3>2, <3>3, <3>4
    <2> HIDE DEF x, y
    <2>4. I => Kept(m, x, y)
      BY <1>i, <2>2, <2>3 DEF Kept
    <2>5. J => Steady(m, party[m], x, row[m], y)
      BY <1>j, <2>1, <2>2, <2>3 DEF Steady, Delivery
    <2>6. Outcome(w, x, y)
      BY <1>k, <2>1, <2>2, <2>3, <2>4, <2>5 DEF Outcome, Careful
    <2> QED BY <1>0, <2>6 DEF Served
  <1> QED
    BY <1>1, <1>2

\* rollup() of a launched party leaves what is suspended and approved.
LEMMA RollupOutcome ==
    ASSUME Inv, NEW m \in Measures, party[m].status # "none", NEW seen, NEW respect, NEW S
    PROVE  \E x \in Party : /\ Rollup(party, m, seen, respect, S) = [party EXCEPT ![m] = x]
                            /\ x.status # "none"
                            /\ x.suspended = party[m].suspended
                            /\ x.approval = party[m].approval /\ x.forced = party[m].forced
                            /\ x.status = party[m].status \/ x.status = Verdict(S)
  <1> DEFINE R  == Rollup(party, m, seen, respect, S)
             st == Verdict(S)
  <1>1. party \in [Measures -> Party] /\ st \in PartyStatus /\ st # "none"
    BY VerdictIsStatus DEF Inv, TypeOK, PartyStatus, ItemStatus
  <1>2. /\ R \in [Measures -> Party]
        /\ \A k \in Measures : k # m => R[k] = party[k]
        /\ R[m] = party[m] \/ R[m] = Moved(party[m], st)
    BY <1>1, RollupWrites
  <1> HIDE DEF R, st
  <1>3. R = [party EXCEPT ![m] = R[m]]
    BY <1>1, <1>2
  <1>4. /\ R[m] \in Party
        /\ R[m].status # "none"
        /\ R[m].suspended = party[m].suspended
        /\ R[m].approval = party[m].approval /\ R[m].forced = party[m].forced
        /\ R[m].status = party[m].status \/ R[m].status = st
    BY <1>1, <1>2, MovedParty
  <1>5. \E x \in Party : /\ R = [party EXCEPT ![m] = x]
                         /\ x.status # "none"
                         /\ x.suspended = party[m].suspended
                         /\ x.approval = party[m].approval /\ x.forced = party[m].forced
                         /\ x.status = party[m].status \/ x.status = st
    BY <1>3, <1>4
  <1> QED
    BY <1>5 DEF R, st

\* deliver_warnings of a row.
Delivered(r) == [r EXCEPT !.status = "done", !.served = "waiting"]

LEMMA DeliveredRow ==
    ASSUME NEW r \in Row
    PROVE  /\ Delivered(r) \in Row
           /\ Delivered(r).suspended = r.suspended
           /\ Delivered(r).status = "done"
  BY DEF Delivered, Row, ItemStatus

LEMMA SavedRow ==
    ASSUME NEW i \in Row, NEW r \in Row
    PROVE  /\ Saved(i, r) \in Row
           /\ Saved(i, r).suspended = i.suspended
           /\ Saved(i, r).resumed = i.resumed
           /\ i.served = r.served \/ (i.served = "waiting" /\ r.served = "due") => Saved(i, r).served = r.served
  BY DEF Saved, Row

LEMMA ResultStep ==
    ASSUME Inv, NEW w \in Workers,
           \/ \E st \in {"done", "failed", "cancelled", "running"} : Record(w, st)
           \/ \E D \in SUBSET Accounts : Deliver(w, D)
           \/ Stop(w)
    PROVE  Served(w)
  <1> DEFINE m == job[w].measure
             a == job[w].account
             i == job[w].item
             s == job[w].seen
  <1>0. /\ job[w].op # "idle"
        /\ job' = [job EXCEPT ![w] = Idle]
        /\ acc' = acc
    BY DEF Record, Deliver, Stop, Loaded
  <1>k. /\ m \in Measures /\ party[m] \in Party
        /\ row[m] \in [Accounts -> Row]
        /\ party[m].status # "none"
        /\ party[m].suspended => Kind[m] = "disconnect"
        /\ \A b \in Accounts : row[m][b].suspended => Kind[m] = "disconnect"
    BY <1>0, RequestKnows
  <1> DEFINE J == Settling(job[w], party[m], row[m])
  <1> DEFINE I == Informed(job[w], party[m], row[m]) /\ Kept(m, party[m], row[m])
  <1>j. job[w].op \in {"record", "stop"} => /\ a \in Accounts
                                            /\ i \in Row
                                            /\ i.suspended => Kind[m] = "disconnect"
    BY DEF Inv, JobInv, JobOK
  <1>1. ASSUME NEW st \in {"done", "failed", "cancelled", "running"}, Record(w, st)
        PROVE  Served(w)
    <2> DEFINE v == Saved(i, row[m][a])
               z == [v EXCEPT !.status = st]
               y == [row[m] EXCEPT ![a] = z]
               S == {row'[m][b].status : b \in Members(m)}
               seen == s.status
               yes == TRUE
    <2>1. /\ row' = [row EXCEPT ![m] = y]
          /\ party' = Rollup(party, m, seen, yes, S)
      BY <1>1 DEF Record
    <2>2. a \in Accounts /\ i \in Row /\ (i.suspended => Kind[m] = "disconnect")
      BY <1>1, <1>j DEF Record, Loaded
    <2>3. /\ z \in Row /\ z.suspended = i.suspended /\ z.resumed = i.resumed /\ z.status = st
          /\ J => z.served = row[m][a].served /\ row[m][a].status # "none" /\ z.suspended = row[m][a].suspended
      <3>1. v \in Row /\ v.suspended = i.suspended /\ v.resumed = i.resumed
        BY <1>k, <2>2, SavedRow
      <3>2. J => /\ v.served = row[m][a].served
                 /\ row[m][a].status # "none"
                 /\ i.suspended = row[m][a].suspended
        BY <1>1, <1>k, <2>2, SavedRow DEF Settling, Current, Record, Loaded
      <3> HIDE DEF v, J
      <3> QED BY <3>1, <3>2 DEF Row, ItemStatus, z
    <2> HIDE DEF z, S, seen, yes
    <2>4. /\ y \in [Accounts -> Row]
          /\ \A b \in Accounts : y[b] = IF b = a THEN z ELSE row[m][b]
          /\ \A b \in Accounts : y[b].suspended => Kind[m] = "disconnect"
      BY <1>k, <2>2, <2>3
    <2>5. PICK x \in Party : /\ party' = [party EXCEPT ![m] = x]
                             /\ x.status # "none"
                             /\ x.suspended = party[m].suspended
                             /\ x.approval = party[m].approval /\ x.forced = party[m].forced
                             /\ x.status = party[m].status \/ x.status = Verdict(S)
      <3> HIDE DEF m
      <3> QED BY <1>k, <2>1, RollupOutcome
    <2>6. \A b \in Accounts : row[m][b].status # "none" => y[b].status \in S
      <3>1. row'[m] = y
        BY <1>k, <2>1 DEF Inv, TypeOK
      <3> HIDE DEF m, y
      <3> QED BY <3>1 DEF S, Members
    <2> HIDE DEF y
    <2>7. ASSUME I PROVE \A b \in Accounts : /\ y[b].suspended = row[m][b].suspended
                                             /\ y[b].resumed = row[m][b].resumed
                                             /\ y[b].status # "none" \/ ~y[b].suspended
      <3>1. job[w].op = "record"
        BY <1>1 DEF Record, Loaded
      <3>2. /\ row[m][a].status # "none"
            /\ i.suspended = row[m][a].suspended /\ i.resumed = row[m][a].resumed
        BY <2>7, <3>1 DEF Informed, Current
      <3>3. \A b \in Accounts : row[m][b].suspended => row[m][b].status # "none"
        BY <2>7 DEF Kept
      <3> QED BY <2>3, <2>4, <3>2, <3>3
    <2>8. ASSUME I, NEW b \in Accounts, y[b].suspended, ~y[b].resumed
          PROVE  y[b].status # "cancelled"
      <3>1. CASE b = a
        <4>1. st = "cancelled" => ~i.suspended
          BY <1>1, <2>2 DEF Record
        <4> QED BY <2>3, <2>4, <2>8, <3>1, <4>1
      <3>2. CASE b # a
        BY <2>4, <2>8, <3>2 DEF Kept
      <3> QED BY <3>1, <3>2
    <2>9. I => Kept(m, x, y)
      <3> SUFFICES ASSUME I PROVE Kept(m, x, y)
        OBVIOUS
      <3>1. ASSUME NEW b \in Accounts, y[b].suspended, ~y[b].resumed
            PROVE  x.status # "cancelled"
        <4>1. y[b].status # "cancelled"
          BY <2>8, <3>1
        <4>2. row[m][b].suspended /\ ~row[m][b].resumed
          BY <2>7, <3>1
        <4>3. party[m].status # "cancelled" /\ row[m][b].status # "none"
          BY <4>2 DEF Kept
        <4>4. Verdict(S) # "cancelled"
          BY <2>6, <4>1, <4>3, VerdictCancelled
        <4> QED BY <2>5, <4>3, <4>4
      <3> QED BY <2>5, <2>7, <2>8, <3>1 DEF Kept
    <2>10. J => Steady(m, party[m], x, row[m], y)
      <3> SUFFICES ASSUME J PROVE Steady(m, party[m], x, row[m], y)
        OBVIOUS
      <3>1. Delivery(m, row[m])
        BY DEF Settling
      <3>2. Kind[m] = "warning" => st \notin OpenItem \cup {"none"}
        BY <1>1 DEF Record, OpenItem
      <3>3. Delivery(m, y)
        BY <2>3, <2>4, <3>1, <3>2 DEF Delivery
      <3> QED BY <2>3, <2>4, <2>5, <3>3 DEF Steady
    <2>11. Outcome(w, x, y)
      BY <1>k, <2>1, <2>4, <2>5, <2>9, <2>10 DEF Outcome, Careful
    <2> QED BY <1>0, <2>11 DEF Served
  <1>2. ASSUME NEW D \in SUBSET Accounts, Deliver(w, D)
        PROVE  Served(w)
    <2> DEFINE z(b) == Delivered(row[m][b])
               y == [b \in Accounts |-> IF b \in D /\ row[m][b].status \in OpenItem THEN z(b) ELSE row[m][b]]
               S == {row'[m][b].status : b \in Members(m)}
               seen == s.status
               yes == TRUE
    <2>1. /\ row' = [row EXCEPT ![m] = y]
          /\ party' = Rollup(party, m, seen, yes, S)
      BY <1>2 DEF Deliver, Delivered
    <2>2. \A b \in Accounts : /\ row[m][b] \in Row
                              /\ z(b) \in Row
                              /\ z(b).suspended = row[m][b].suspended
                              /\ z(b).status = "done"
      BY <1>k, DeliveredRow
    <2> HIDE DEF z, S, seen, yes
    <2>3. /\ y \in [Accounts -> Row]
          /\ \A b \in Accounts : y[b].suspended => Kind[m] = "disconnect"
          /\ \A b \in Accounts : \/ y[b] = row[m][b]
                                 \/ /\ row[m][b].status \in OpenItem
                                    /\ y[b].status = "done"
                                    /\ y[b].suspended = row[m][b].suspended
      BY <1>k, <2>2
    <2>w. Kind[m] = "warning"
      BY <1>2 DEF Deliver
    <2>4. PICK x \in Party : /\ party' = [party EXCEPT ![m] = x]
                             /\ x.status # "none"
                             /\ x.suspended = party[m].suspended
                             /\ x.approval = party[m].approval /\ x.forced = party[m].forced
      <3> HIDE DEF m
      <3> QED BY <1>k, <2>1, RollupOutcome
    <2> HIDE DEF y
    <2>5. I => Kept(m, x, y)
      BY <2>3, <2>4, <2>w DEF Kept
    <2>6. J => Steady(m, party[m], x, row[m], y)
      <3> SUFFICES ASSUME J PROVE Steady(m, party[m], x, row[m], y)
        OBVIOUS
      <3>1. Delivery(m, row[m])
        BY DEF Settling
      <3>2. Delivery(m, y)
        BY <2>3, <3>1 DEF Delivery, OpenItem
      <3>3. \A b \in Accounts : row[m][b].served = "due" => y[b].served = "due"
        BY <2>3, <2>w, <3>1 DEF Delivery
      <3>4. \A b \in Accounts : row[m][b].status = "none" => y[b] = row[m][b]
        BY <2>3 DEF OpenItem
      <3> QED BY <2>4, <3>2, <3>3, <3>4 DEF Steady
    <2>7. Outcome(w, x, y)
      BY <1>k, <2>1, <2>3, <2>4, <2>5, <2>6 DEF Outcome, Careful
    <2> QED BY <1>0, <2>7 DEF Served
  <1>3. CASE Stop(w)
    <2> DEFINE z == IF row[m][a].status \in Closed THEN row[m][a] ELSE [row[m][a] EXCEPT !.status = "done"]
               y == [row[m] EXCEPT ![a] = z]
               S == {y[b].status : b \in Members(m)}
               seen == s.status
               no == FALSE
               x0 == Settled(party[m])
    <2>1. /\ row' = [row EXCEPT ![m] = y]
          /\ \/ party' = [party EXCEPT ![m] = x0]
             \/ party' = Rollup(party, m, seen, no, S)
      BY <1>3 DEF Stop, Settled
    <2>2. a \in Accounts
      BY <1>3, <1>j DEF Stop, Loaded
    <2>3. /\ z \in Row /\ z.suspended = row[m][a].suspended /\ z.resumed = row[m][a].resumed
          /\ z.status = row[m][a].status \/ z.status = "done"
          /\ z.served = row[m][a].served
      <3>1. row[m][a] \in Row
        BY <1>k, <2>2
      <3>2. \A r \in Row : LET q == [r EXCEPT !.status = "done"] IN
               /\ q \in Row /\ q.suspended = r.suspended /\ q.resumed = r.resumed
               /\ q.status = "done" /\ q.served = r.served
        BY DEF Row, ItemStatus
      <3> QED BY <3>1, <3>2
    <2>4. /\ x0 \in Party
          /\ x0.status = "done"
          /\ x0.suspended = party[m].suspended
          /\ x0.approval = party[m].approval
          /\ x0.forced = party[m].forced
      BY <1>k, SettledParty
    <2> HIDE DEF z, S, seen, no, x0
    <2>5. /\ y \in [Accounts -> Row]
          /\ \A b \in Accounts : y[b] = IF b = a THEN z ELSE row[m][b]
          /\ \A b \in Accounts : y[b].suspended => Kind[m] = "disconnect"
      BY <1>k, <2>2, <2>3
    <2> HIDE DEF y
    <2>s. \A b \in Accounts : row[m][b].status # "none" => y[b].status \in S
      <3> HIDE DEF m
      <3> QED BY DEF S, Members
    <2>6. PICK x \in Party : /\ party' = [party EXCEPT ![m] = x]
                             /\ x.status # "none"
                             /\ x.suspended = party[m].suspended
                             /\ x.approval = party[m].approval /\ x.forced = party[m].forced
                             /\ \/ x.status = party[m].status
                                \/ x.status = "done"
                                \/ x.status = Verdict(S)
      <3> HIDE DEF m
      <3>1. CASE party' = [party EXCEPT ![m] = x0]
        BY <2>4, <3>1
      <3>2. CASE party' = Rollup(party, m, seen, no, S)
        BY <1>k, <3>2, RollupOutcome
      <3> QED BY <2>1, <3>1, <3>2
    <2>7. \A b \in Accounts : /\ y[b].suspended = row[m][b].suspended
                              /\ y[b].resumed = row[m][b].resumed
                              /\ y[b].status = row[m][b].status \/ y[b].status = "done"
      BY <2>3, <2>5
    <2>8. I => Kept(m, x, y)
      BY <2>6, <2>7, <2>s, VerdictCancelled DEF Kept
    <2>9. J => Steady(m, party[m], x, row[m], y)
      <3> SUFFICES ASSUME J PROVE Steady(m, party[m], x, row[m], y)
        OBVIOUS
      <3>1. Delivery(m, row[m]) /\ row[m][a].status # "none"
        BY <1>3 DEF Settling, Current, Stop, Loaded
      <3>2. Delivery(m, y)
        BY <2>3, <2>5, <3>1 DEF Delivery, OpenItem
      <3> QED BY <2>3, <2>5, <2>6, <3>1, <3>2 DEF Steady
    <2>10. Outcome(w, x, y)
      BY <1>k, <2>1, <2>5, <2>6, <2>8, <2>9 DEF Outcome, Careful
    <2> QED BY <1>0, <2>10 DEF Served
  <1> QED
    BY <1>1, <1>2, <1>3

LEMMA HoldStep ==
    ASSUME Inv, NEW w \in Workers,
           \/ \E until \in {"none", "ahead"} : Hold(w, until)
           \/ Release(w)
    PROVE  Served(w)
  <1> DEFINE m == job[w].measure
             p == party[m]
  <1>0. /\ job[w].op # "idle"
        /\ job' = [job EXCEPT ![w] = Idle]
        /\ acc' = acc
    BY DEF Hold, Release, Loaded
  <1>k. /\ m \in Measures /\ p \in Party
        /\ row[m] \in [Accounts -> Row]
        /\ p.suspended => Kind[m] = "disconnect"
        /\ \A a \in Accounts : row[m][a].suspended => Kind[m] = "disconnect"
    BY <1>0, RequestKnows
  <1> DEFINE I == Informed(job[w], p, row[m]) /\ Kept(m, p, row[m])
  <1>r. row = [row EXCEPT ![m] = row[m]]
    BY <1>k DEF Inv, TypeOK
  <1>1. ASSUME NEW until \in {"none", "ahead"}, Hold(w, until)
        PROVE  Served(w)
    <2> DEFINE x == [p EXCEPT !.status = "paused", !.stopped = TRUE, !.until = until, !.reason = "user"]
    <2>1. party' = [party EXCEPT ![m] = x] /\ row' = row
      BY <1>1 DEF Hold
    <2>2. /\ x \in Party /\ x.status = "paused" /\ x.suspended = p.suspended /\ x.approval = p.approval
          /\ x.forced = p.forced
      BY <1>k DEF Party, PartyStatus
    <2> HIDE DEF x
    <2>3. I => Kept(m, x, row[m])
      BY <2>2 DEF Kept
    <2>4. Settling(job[w], p, row[m]) => Steady(m, p, x, row[m], row[m])
      BY <2>2 DEF Settling, Steady
    <2>5. Outcome(w, x, row[m])
      BY <1>k, <1>r, <2>1, <2>2, <2>3, <2>4 DEF Outcome, Careful
    <2> QED BY <1>0, <2>5 DEF Served
  <1>2. CASE Release(w)
    <2> DEFINE x == Released(p)
    <2>1. party' = [party EXCEPT ![m] = x] /\ row' = row
      BY <1>2 DEF Release
    <2>2. /\ x \in Party /\ x.status = "assigned" /\ x.suspended = p.suspended /\ x.approval = p.approval
          /\ x.forced = p.forced
      BY <1>k, ReleasedParty
    <2> HIDE DEF x
    <2>3. I => Kept(m, x, row[m])
      BY <2>2 DEF Kept
    <2>4. Settling(job[w], p, row[m]) => Steady(m, p, x, row[m], row[m])
      BY <2>2 DEF Settling, Steady
    <2>5. Outcome(w, x, row[m])
      BY <1>k, <1>r, <2>1, <2>2, <2>3, <2>4 DEF Outcome, Careful
    <2> QED BY <1>0, <2>5 DEF Served
  <1> QED
    BY <1>1, <1>2

\* What a served request leaves behind keeps the invariant.
LEMMA ServedKeepsInv ==
    ASSUME Inv, NEW w \in Workers, Served(w)
    PROVE  Inv'
  <1> DEFINE m == job[w].measure
  <1>k. m \in Measures /\ party[m].status # "none"
    BY RequestKnows DEF Served
  <1>0. Idle \in Job /\ JobOK(Idle) /\ Idle.op = "idle"
    BY DEF Idle, Job, JobOK
  <1>1. /\ job' \in [Workers -> Job]
        /\ \A v \in Workers : job'[v] = Idle \/ job'[v] = job[v]
    BY <1>0 DEF Served, Inv, TypeOK
  <1>2. CASE party' = party /\ row' = row
    <2>1. \A v \in Workers : JobOK(job'[v]) /\ Launched(party', job'[v])
      <3> TAKE v \in Workers
      <3>1. JobOK(job[v]) /\ Launched(party, job[v])
        BY DEF Inv, JobInv
      <3> QED BY <1>0, <1>1, <1>2, <3>1 DEF Launched
    <2> QED
      <3>1. TypeOK' /\ PartyInv'
        BY <1>1, <1>2 DEF Inv, TypeOK, PartyInv, Served
      <3>2. JobInv'
        BY <2>1 DEF JobInv
      <3> QED BY <3>1, <3>2 DEF Inv
  <1>3. ASSUME NEW x, NEW y, Outcome(w, x, y)
        PROVE  Inv'
    <2>1. /\ x \in Party /\ y \in [Accounts -> Row]
          /\ x.status # "none"
          /\ party' = [party EXCEPT ![m] = x]
          /\ row' = [row EXCEPT ![m] = y]
          /\ Sound(m, x, y)
      BY <1>3 DEF Outcome, Sound
    <2>2. /\ party' \in [Measures -> Party] /\ party'[m] = x
          /\ row' \in [Measures -> [Accounts -> Row]] /\ row'[m] = y
          /\ \A k \in Measures : k # m => party'[k] = party[k] /\ row'[k] = row[k]
      BY <1>k, <2>1 DEF Inv, TypeOK
    <2> HIDE DEF m
    <2>3. TypeOK'
      BY <1>1, <2>2 DEF Inv, TypeOK, Served
    <2>4. PartyInv'
      <3> SUFFICES ASSUME NEW k \in Measures
                   PROVE  Sound(k, party'[k], row'[k])
        BY DEF PartyInv
      <3> QED BY <2>1, <2>2 DEF Inv, PartyInv
    <2>5. \A k \in Measures : party[k].status # "none" => party'[k].status # "none"
      BY <2>1, <2>2
    <2>6. JobInv'
      <3> SUFFICES ASSUME NEW v \in Workers
                   PROVE  JobOK(job'[v]) /\ Launched(party', job'[v])
        BY DEF JobInv
      <3>1. CASE job'[v] = Idle
        BY <1>0, <3>1 DEF Launched
      <3>2. CASE job'[v] = job[v]
        <4>1. JobOK(job[v]) /\ Launched(party, job[v])
          BY DEF Inv, JobInv
        <4> QED BY <2>5, <3>2, <4>1 DEF JobOK, Launched
      <3> QED BY <1>1, <3>1, <3>2
    <2> QED BY <2>3, <2>4, <2>6 DEF Inv
  <1> QED
    BY <1>2, <1>3 DEF Served

LEMMA LoadStep ==
    ASSUME Inv, NEW w \in Workers, NEW op \in PartyOps, NEW m \in Measures, NEW a \in Accounts \cup {None},
           Load(w, op, m, a)
    PROVE  /\ Inv'
           /\ party' = party /\ row' = row
           /\ \E x \in Job : /\ job' = [job EXCEPT ![w] = x]
                             /\ x.op # "idle"
                             /\ x.measure = m
                             /\ x.seen = party[m]
                             /\ x.op \in {"record", "stop"} => /\ x.item = row[m][x.account]
                                                               /\ row[m][x.account].status # "none"
  <1> DEFINE i == IF a = None THEN None ELSE row[m][a]
             x == [op |-> op, measure |-> m, account |-> a, seen |-> party[m], item |-> i]
  <1>1. /\ job' = [job EXCEPT ![w] = x]
        /\ party' = party /\ row' = row /\ acc' = acc
        /\ party[m].status # "none"
        /\ IF op \in {"record", "stop"} THEN a \in Members(m) ELSE a = None
    BY DEF Load
  <1>2. party[m] \in Party /\ row[m] \in [Accounts -> Row] /\ Sound(m, party[m], row[m])
    BY DEF Inv, TypeOK, PartyInv
  <1>3. op \in {"record", "stop"} => /\ a \in Accounts
                                     /\ i = row[m][a]
    BY <1>1, PartyAssumption DEF Members, PartyAssumption
  <1>4. i \in Row \cup {None}
    BY <1>1, <1>2, <1>3
  <1>5. op # "idle"
    BY DEF PartyOps
  <1> HIDE DEF i
  <1>6. x \in Job
    BY <1>2, <1>4 DEF Job
  <1>7. JobOK(x) /\ Launched(party, x)
    BY <1>1, <1>2, <1>3, <1>6 DEF JobOK, Launched, Sound
  <1>8. /\ x.op # "idle" /\ x.measure = m /\ x.seen = party[m]
        /\ x.op \in {"record", "stop"} => /\ x.item = row[m][x.account]
                                          /\ row[m][x.account].status # "none"
    BY <1>1, <1>3, <1>5 DEF Members
  <1> HIDE DEF x
  <1>9. /\ job' \in [Workers -> Job]
        /\ \A v \in Workers : job'[v] = x \/ job'[v] = job[v]
    BY <1>1, <1>6 DEF Inv, TypeOK
  <1>10. TypeOK' /\ PartyInv'
    BY <1>1, <1>9 DEF Inv, TypeOK, PartyInv
  <1>11. JobInv'
    BY <1>1, <1>7, <1>9 DEF Inv, JobInv
  <1> QED
    BY <1>1, <1>6, <1>8, <1>10, <1>11 DEF Inv

-----------------------------------------------------------------------------
(* The theorems *)

\* Every step is a recount or an event, a launch, a load, or a served request.
LEMMA StepForms ==
    ASSUME Inv, Next
    PROVE  \/ TypeOK' /\ Quiet
           \/ \E w \in Workers, m \in Measures, forced \in BOOLEAN : Launch(w, m, forced)
           \/ \E w \in Workers, op \in PartyOps, m \in Measures, a \in Accounts \cup {None} : Load(w, op, m, a)
           \/ \E w \in Workers : Served(w)
  <1>1. ASSUME NEW w \in Workers, Refuse(w)
        PROVE  Served(w)
    BY <1>1 DEF Refuse, Served
  <1>2. CASE World
    BY <1>2, WorldStep
  <1>3. ASSUME NEW w \in Workers, Request(w)
        PROVE  \/ TypeOK' /\ Quiet
               \/ \E m \in Measures, forced \in BOOLEAN : Launch(w, m, forced)
               \/ \E op \in PartyOps, m \in Measures, a \in Accounts \cup {None} : Load(w, op, m, a)
               \/ Served(w)
    BY <1>1, <1>3, RecountStep, DecisionStep, ConfirmationStep, ResultStep, HoldStep DEF Request
  <1> QED
    BY <1>2, <1>3 DEF Next

LEMMA InitInv == Init => Inv
  <1> SUFFICES ASSUME Init PROVE Inv
    OBVIOUS
  <1>1. NoParty \in Party /\ NoParty.status = "none" /\ ~NoParty.suspended
    BY DEF NoParty, Party
  <1>2. NoRow \in Row /\ NoRow.status = "none" /\ ~NoRow.suspended
    BY DEF NoRow, Row
  <1>3. Idle \in Job /\ Idle.op = "idle"
    BY DEF Idle, Job
  <1>4. acc \in [Accounts -> Account]
    BY DEF Init, Account
  <1>5. TypeOK
    BY <1>1, <1>2, <1>3, <1>4 DEF Init, TypeOK
  <1>6. PartyInv
    BY <1>1, <1>2 DEF Init, PartyInv, Sound
  <1>7. JobInv
    BY <1>3 DEF Init, JobInv, JobOK, Launched
  <1> QED
    BY <1>5, <1>6, <1>7 DEF Inv

LEMMA StepInv == Inv /\ [Next]_vars => Inv'
  <1> SUFFICES ASSUME Inv, [Next]_vars PROVE Inv'
    OBVIOUS
  <1>1. CASE Next
    BY <1>1, StepForms, SparingKeepsInv, LaunchStep, LoadStep, ServedKeepsInv DEF Quiet
  <1>2. CASE UNCHANGED vars
    BY <1>2 DEF vars, Inv, TypeOK, PartyInv, JobInv
  <1> QED
    BY <1>1, <1>2

(***************************************************************************)
(* The records keep their types whatever the requests, recounts and events *)
(* do to each other: a request never follows a party that is not there.    *)
(***************************************************************************)
THEOREM PartyTypeCorrect == Spec => []TypeOK
  <1>1. Inv => TypeOK
    BY DEF Inv
  <1> QED
    BY <1>1, InitInv, StepInv, PTL DEF Spec

(***************************************************************************)
(* No payment, recount, case, death, hold or launch closes a party that is *)
(* cut off or a row of it, for any number of workers, measures and         *)
(* accounts, whatever requests are in progress.                            *)
(***************************************************************************)
THEOREM PaymentSpares == Spec => PaymentLeavesSuspended
  <1> DEFINE A == \A m \in Measures :
                     job' = job => /\ party[m].suspended /\ party[m].status \notin Closed
                                         => party'[m].status \notin Closed
                                   /\ \A a \in Accounts :
                                         row[m][a].suspended => row'[m][a].status = row[m][a].status
  <1>1. Inv /\ [Next]_vars => [A]_vars
    <2> SUFFICES ASSUME Inv, Next, job' = job PROVE A
      BY DEF Inv
    <2>1. CASE TypeOK' /\ Quiet
      BY <2>1 DEF Quiet, Spared
    <2>2. ASSUME NEW w \in Workers, NEW m \in Measures, NEW forced \in BOOLEAN, Launch(w, m, forced)
          PROVE  A
      BY <2>2, LaunchStep DEF Leaves
    <2>3. ASSUME NEW w \in Workers, NEW op \in PartyOps, NEW m \in Measures, NEW a \in Accounts \cup {None},
                 Load(w, op, m, a)
          PROVE  FALSE
      <3>1. job[w].op = "idle"
        BY <2>3 DEF Load
      <3>2. PICK x \in Job : job' = [job EXCEPT ![w] = x] /\ x.op # "idle"
        BY <2>3, LoadStep
      <3> QED BY <3>1, <3>2 DEF Inv, TypeOK
    <2>4. ASSUME NEW w \in Workers, Served(w)
          PROVE  FALSE
      BY <2>4 DEF Served, Idle, Inv, TypeOK
    <2> QED
      BY <2>1, <2>2, <2>3, <2>4, StepForms
  <1> QED
    BY <1>1, InitInv, StepInv, PTL DEF Spec, PaymentLeavesSuspended

-----------------------------------------------------------------------------
(* Approvals, when requests do not overlap *)

OneAtATime == \A v, w \in Workers : v = w

\* A request that nobody overtakes decides by what is so.
SeenInv == \A w \in Workers :
    job[w].op # "idle" => Current(job[w], party[job[w].measure], row[job[w].measure])

\* What happens outside changes nothing a request decides by.
Waits(r, t) ==
    /\ t.status = r.status
    /\ t.suspended = r.suspended
    /\ t.resumed = r.resumed
    /\ \/ t.served = r.served
       \/ r.served = "waiting" /\ t.served = "due"

LEMMA WorldLeaves ==
    ASSUME Inv, World
    PROVE  /\ job' = job
           /\ \A k \in Measures : /\ party'[k].status = party[k].status
                                  /\ party'[k].suspended = party[k].suspended
                                  /\ party'[k].approval = party[k].approval
                                  /\ party'[k].forced = party[k].forced
           /\ \A k \in Measures, b \in Accounts : Waits(row[k][b], row'[k][b])
  <1> USE DEF Inv, TypeOK
  <1>1. ASSUME NEW a \in Accounts, PayerDies(a) \/ NewPayer(a) \/ DebtMoves(a) \/ CaseRunsOut(a)
        PROVE  party' = party /\ row' = row /\ job' = job
    BY <1>1 DEF PayerDies, NewPayer, DebtMoves, CaseRunsOut, Outside
  <1>2. ASSUME NEW m \in Measures, HoldRunsOut(m)
        PROVE  /\ job' = job /\ row' = row
               /\ \A k \in Measures : /\ party'[k].status = party[k].status
                                      /\ party'[k].suspended = party[k].suspended
                                      /\ party'[k].approval = party[k].approval
                                      /\ party'[k].forced = party[k].forced
    <2> DEFINE x == [party[m] EXCEPT !.until = "past"]
    <2>1. /\ x.status = party[m].status /\ x.suspended = party[m].suspended
          /\ x.approval = party[m].approval /\ x.forced = party[m].forced
      BY DEF Party
    <2>2. party' = [party EXCEPT ![m] = x] /\ row' = row /\ job' = job
      BY <1>2 DEF HoldRunsOut, Outside
    <2> HIDE DEF x
    <2> QED BY <2>1, <2>2
  <1>3. ASSUME NEW m \in Measures, NEW a \in Accounts, TermRunsOut(m, a)
        PROVE  /\ job' = job /\ party' = party
               /\ \A k \in Measures, b \in Accounts : Waits(row[k][b], row'[k][b])
    <2> DEFINE x == [row[m][a] EXCEPT !.served = "due"]
               y == [row[m] EXCEPT ![a] = x]
    <2>1. row' = [row EXCEPT ![m] = y] /\ party' = party /\ job' = job /\ row[m][a].served = "waiting"
      BY <1>3 DEF TermRunsOut
    <2>2. Waits(row[m][a], x)
      BY <2>1 DEF Row, Waits
    <2> HIDE DEF x
    <2>3. \A b \in Accounts : Waits(row[m][b], y[b])
      BY <2>2 DEF Waits
    <2> HIDE DEF y
    <2> QED BY <2>1, <2>3 DEF Waits
  <1> QED
    BY <1>1, <1>2, <1>3 DEF World, Waits

LEMMA InitSeen == Init => SeenInv
  BY DEF Init, SeenInv, Idle

LEMMA SeenStep ==
    ASSUME OneAtATime, Inv, SeenInv, [Next]_vars
    PROVE  SeenInv'
  <1>0. \A v \in Workers : job[v].op # "idle" =>
           /\ job[v].measure \in Measures
           /\ job[v].op \in {"record", "stop"} => job[v].account \in Accounts
    BY DEF Inv, JobInv, JobOK
  <1>1. CASE World
    <2> SUFFICES ASSUME NEW w \in Workers, job'[w].op # "idle"
                 PROVE  Current(job[w], party[job[w].measure], row[job[w].measure])'
      BY DEF SeenInv
    <2>1. job' = job
      BY <1>1, WorldLeaves
    <2>2. PICK m \in Measures : m = job[w].measure
      BY <1>0, <2>1
    <2>3. Current(job[w], party[m], row[m])
      BY <2>1, <2>2 DEF SeenInv
    <2>4. Current(job[w], party'[m], row'[m])
      <3>1. /\ party'[m].status = party[m].status
            /\ party'[m].suspended = party[m].suspended
            /\ party'[m].approval = party[m].approval
            /\ party'[m].forced = party[m].forced
        BY <1>1, WorldLeaves
      <3>2. ASSUME job[w].op \in {"record", "stop"}
            PROVE  Waits(row[m][job[w].account], row'[m][job[w].account])
        BY <1>0, <1>1, <2>1, <3>2, WorldLeaves
      <3> QED BY <2>3, <3>1, <3>2 DEF Current, Waits
    <2> QED BY <2>1, <2>2, <2>4
  <1>2. ASSUME NEW w \in Workers, job'[w].op = "idle"
        PROVE  SeenInv'
    BY <1>2 DEF OneAtATime, SeenInv
  <1>3. ASSUME NEW w \in Workers, Served(w)
        PROVE  SeenInv'
    BY <1>2, <1>3 DEF Served, Inv, TypeOK, Idle
  <1>4. ASSUME NEW w \in Workers, NEW op \in PartyOps, NEW m \in Measures, NEW a \in Accounts \cup {None},
               Load(w, op, m, a)
        PROVE  SeenInv'
    <2>1. PICK x \in Job : /\ job' = [job EXCEPT ![w] = x]
                           /\ x.measure = m
                           /\ x.seen = party[m]
                           /\ x.op \in {"record", "stop"} => /\ x.item = row[m][x.account]
                                                             /\ row[m][x.account].status # "none"
      BY <1>4, LoadStep
    <2>2. party' = party /\ row' = row
      BY <1>4, LoadStep
    <2>3. \A v \in Workers : job'[v] = x
      BY <2>1 DEF OneAtATime, Inv, TypeOK
    <2> QED BY <2>1, <2>2, <2>3 DEF SeenInv, Current
  <1>5. ASSUME NEW w \in Workers, Request(w)
        PROVE  SeenInv'
    <2>1. ASSUME NEW m \in Measures, NEW forced \in BOOLEAN, Launch(w, m, forced)
          PROVE  SeenInv'
      BY <1>2, <2>1, LaunchStep
    <2>2. ASSUME NEW a \in Accounts, OpenCase(w, a) \/ CloseCase(w, a) \/ Refresh(w, a) \/ ImportHeir(w, a)
          PROVE  SeenInv'
      BY <1>2, <2>2 DEF OpenCase, CloseCase, Refresh, ImportHeir
    <2>3. CASE Refuse(w)
      BY <1>3, <2>3 DEF Refuse, Served
    <2> QED
      BY <1>3, <1>4, <1>5, <2>1, <2>2, <2>3, DecisionStep, ConfirmationStep, ResultStep, HoldStep DEF Request
  <1>6. CASE UNCHANGED vars
    BY <1>6 DEF vars, SeenInv
  <1> QED
    BY <1>1, <1>5, <1>6 DEF Next

LEMMA ApprovalStep ==
    ASSUME OneAtATime, Inv, SeenInv, SuspendedWithApproval, [Next]_vars
    PROVE  SuspendedWithApproval'
  <1> USE PartyAssumption DEF PartyAssumption
  <1>0. NeedsApproval \subseteq Measures
    OBVIOUS
  <1>1. CASE TypeOK' /\ Quiet
    BY <1>0, <1>1 DEF Quiet, Spared, SuspendedWithApproval
  <1>2. ASSUME NEW w \in Workers, NEW m \in Measures, NEW forced \in BOOLEAN, Launch(w, m, forced)
        PROVE  SuspendedWithApproval'
    <2>1. \A k \in Measures : party'[k].suspended => /\ party[k].suspended
                                                    /\ party'[k].approval = party[k].approval
      BY <1>2, LaunchStep
    <2> QED BY <1>0, <2>1 DEF SuspendedWithApproval
  <1>3. ASSUME NEW w \in Workers, NEW op \in PartyOps, NEW m \in Measures, NEW a \in Accounts \cup {None},
               Load(w, op, m, a)
        PROVE  SuspendedWithApproval'
    BY <1>3, LoadStep DEF SuspendedWithApproval
  <1>4. ASSUME NEW w \in Workers, Served(w)
        PROVE  SuspendedWithApproval'
    <2> DEFINE m == job[w].measure
               s == job[w].seen
    <2>1. /\ m \in Measures
          /\ s.suspended = party[m].suspended
          /\ s.approval = party[m].approval
      BY <1>4, RequestKnows DEF Served, SeenInv, Current
    <2>2. ASSUME NEW x, NEW y, Outcome(w, x, y)
          PROVE  SuspendedWithApproval'
      <3>1. /\ party' = [party EXCEPT ![m] = x]
            /\ Careful(job[w], party[m], x)
        BY <2>2 DEF Outcome
      <3>2. m \in NeedsApproval /\ x.suspended => x.approval = "approved"
        BY <2>1, <3>1 DEF Careful, Approved, SuspendedWithApproval
      <3>3. \A k \in Measures : party'[k] = IF k = m THEN x ELSE party[k]
        BY <2>1, <3>1 DEF Inv, TypeOK
      <3> HIDE DEF m
      <3> QED BY <1>0, <3>2, <3>3 DEF SuspendedWithApproval
    <2>3. CASE party' = party
      BY <2>3 DEF SuspendedWithApproval
    <2> QED BY <1>4, <2>2, <2>3 DEF Served
  <1>5. CASE UNCHANGED vars
    BY <1>5 DEF vars, SuspendedWithApproval
  <1> QED
    BY <1>1, <1>2, <1>3, <1>4, <1>5, StepForms

LEMMA InitApproval == Init => SuspendedWithApproval
  <1>1. \A m \in NeedsApproval : m \in Measures
    BY PartyAssumption DEF PartyAssumption
  <1>2. ASSUME Init PROVE \A m \in Measures : ~party[m].suspended
    BY <1>2 DEF Init, NoParty
  <1> QED
    BY <1>1, <1>2 DEF SuspendedWithApproval

(***************************************************************************)
(* When requests follow one another no disconnect the administrator has to *)
(* approve is carried out without the approval, and no approval that was   *)
(* acted on is taken back: for any measures and accounts, with the kanban, *)
(* holds, cases, deaths and payments in between.                           *)
(***************************************************************************)
THEOREM ApprovedFirst ==
    ASSUME OneAtATime
    PROVE  Spec => []SuspendedWithApproval
  <1> DEFINE I == Inv /\ SeenInv /\ SuspendedWithApproval
  <1>1. Init => I
    BY InitInv, InitSeen, InitApproval
  <1>2. I /\ [Next]_vars => I'
    BY StepInv, SeenStep, ApprovalStep
  <1> QED
    BY <1>1, <1>2, PTL DEF Spec

-----------------------------------------------------------------------------
(* What is cut off stays on the list *)

KeptInv == \A m \in Measures : Kept(m, party[m], row[m])

LEMMA KeptStep ==
    ASSUME "cancelled" \notin MoveTo, Inv, SeenInv, SuspendedWithApproval, KeptInv, [Next]_vars
    PROVE  KeptInv'
  <1>1. ASSUME NEW m \in Measures, Spared(m, party[m], party'[m], row[m], row'[m])
        PROVE  Kept(m, party'[m], row'[m])
    <2>1. Kept(m, party[m], row[m])
      BY DEF KeptInv
    <2>2. /\ party[m].suspended => party'[m].suspended
          /\ party'[m].approval = party[m].approval
          /\ party[m].suspended /\ party[m].status # "cancelled" => party'[m].status # "cancelled"
          /\ \A a \in Accounts : /\ row'[m][a].suspended => row[m][a].suspended
                                 /\ row[m][a].resumed => row'[m][a].resumed
                                 /\ row[m][a].suspended => row'[m][a].status = row[m][a].status
      BY <1>1 DEF Spared
    <2>3. party'[m].approval # "" => m \in NeedsApproval
      BY <2>1, <2>2 DEF Kept
    <2>4. ASSUME NEW a \in Accounts, row'[m][a].suspended
          PROVE  /\ party'[m].suspended
                 /\ row'[m][a].status # "none"
                 /\ ~row'[m][a].resumed => row'[m][a].status # "cancelled" /\ party'[m].status # "cancelled"
      <3>1. row[m][a].suspended
        BY <2>2, <2>4
      <3>2. /\ party[m].suspended
            /\ row[m][a].status # "none"
            /\ ~row[m][a].resumed => row[m][a].status # "cancelled" /\ party[m].status # "cancelled"
        BY <2>1, <3>1 DEF Kept
      <3> QED BY <2>2, <3>1, <3>2
    <2> QED BY <2>3, <2>4 DEF Kept
  <1>2. ASSUME NEW m \in Measures, Fresh(m, party'[m], row'[m])
        PROVE  Kept(m, party'[m], row'[m])
    BY <1>2 DEF Fresh, Kept
  <1>3. CASE TypeOK' /\ Quiet
    BY <1>1, <1>3 DEF Quiet, KeptInv
  <1>4. ASSUME NEW w \in Workers, NEW m \in Measures, NEW forced \in BOOLEAN, Launch(w, m, forced)
        PROVE  KeptInv'
    BY <1>1, <1>2, <1>4, LaunchStep DEF KeptInv
  <1>5. CASE party' = party /\ row' = row
    BY <1>5 DEF KeptInv
  <1>6. ASSUME NEW w \in Workers, Served(w)
        PROVE  KeptInv'
    <2>1. PICK m \in Measures : m = job[w].measure
      BY <1>6, RequestKnows DEF Served
    <2>2. Informed(job[w], party[m], row[m])
      BY <1>6, <2>1 DEF Served, SeenInv, SuspendedWithApproval, Informed
    <2>3. ASSUME NEW x, NEW y, Outcome(w, x, y)
          PROVE  KeptInv'
      <3>1. /\ party' = [party EXCEPT ![m] = x]
            /\ row' = [row EXCEPT ![m] = y]
            /\ Kept(m, x, y)
        BY <2>1, <2>2, <2>3 DEF Outcome, KeptInv
      <3>2. /\ party'[m] = x /\ row'[m] = y
            /\ \A k \in Measures : k # m => party'[k] = party[k] /\ row'[k] = row[k]
        BY <3>1 DEF Inv, TypeOK
      <3>3. ASSUME NEW k \in Measures PROVE Kept(k, party'[k], row'[k])
        BY <3>1, <3>2 DEF KeptInv
      <3> QED BY <3>3 DEF KeptInv
    <2> QED BY <1>5, <1>6, <2>3 DEF Served
  <1>7. ASSUME NEW w \in Workers, NEW op \in PartyOps, NEW m \in Measures, NEW a \in Accounts \cup {None},
               Load(w, op, m, a)
        PROVE  KeptInv'
    BY <1>5, <1>7, LoadStep
  <1>8. CASE UNCHANGED vars
    BY <1>5, <1>8 DEF vars
  <1> QED
    BY <1>3, <1>4, <1>6, <1>7, <1>8, StepForms

(***************************************************************************)
(* When requests follow one another and the board has no card moved to     *)
(* "cancelled", a disconnect the supplier has carried out is not cancelled *)
(* until it is switched on again, neither its rows nor the party: no       *)
(* rejection, result, payment, recount or later decision does it.          *)
(***************************************************************************)
THEOREM CutOffStays ==
    ASSUME OneAtATime, "cancelled" \notin MoveTo
    PROVE  Spec => []SuspendedIsNotCancelled
  <1> DEFINE I == Inv /\ SeenInv /\ SuspendedWithApproval /\ KeptInv
  <1>1. Init => I
    <2>1. ASSUME Init PROVE KeptInv
      <3>1. ASSUME NEW m \in Measures
            PROVE  party[m].approval = "" /\ \A a \in Accounts : ~row[m][a].suspended
        BY <2>1 DEF Init, NoParty, NoRow
      <3> QED BY <3>1 DEF KeptInv, Kept
    <2> QED BY <2>1, InitInv, InitSeen, InitApproval
  <1>2. I /\ [Next]_vars => I'
    BY StepInv, SeenStep, ApprovalStep, KeptStep
  <1>3. I => SuspendedIsNotCancelled
    BY DEF KeptInv, Kept, SuspendedIsNotCancelled
  <1> QED
    BY <1>1, <1>2, <1>3, PTL DEF Spec

-----------------------------------------------------------------------------
(* The warning comes first *)

DeliveryInv == \A m \in Measures : Delivery(m, row[m])

\* Every account of a disconnect has its warning, from the launch on.
BackedInv == \A m \in Measures, a \in Accounts :
    /\ Kind[m] = "disconnect" /\ ~party[m].forced
    /\ row[m][a].status # "none" \/ row[m][a].suspended
    => \E v \in Measures : Kind[v] = "warning" /\ row[v][a].served = "due"

LEMMA SparedIsSteady ==
    ASSUME NEW m, NEW p, NEW q, NEW r, NEW t, Spared(m, p, q, r, t), Delivery(m, r)
    PROVE  Steady(m, p, q, r, t)
  <1>1. \A a \in Accounts : /\ r[a].status = "none" /\ ~r[a].suspended => t[a].status = "none" /\ ~t[a].suspended
                            /\ r[a].served = "due" => t[a].served = "due"
    BY DEF Spared
  <1>2. Delivery(m, t)
    BY DEF Spared, Delivery, OpenItem
  <1>3. q.forced = p.forced
    BY DEF Spared
  <1> QED
    BY <1>1, <1>2, <1>3 DEF Steady

\* A step that is steady, and a launch, leave every account of a disconnect with its warning.
LEMMA SteadyStep ==
    ASSUME Inv, DeliveryInv, BackedInv,
           \A k \in Measures : \/ Steady(k, party[k], party'[k], row[k], row'[k])
                               \/ Fresh(k, party'[k], row'[k])
    PROVE  DeliveryInv' /\ BackedInv'
  <1>1. ASSUME NEW k \in Measures PROVE Delivery(k, row'[k])
    BY DEF Steady, Fresh, Delivery
  <1>2. ASSUME NEW v \in Measures, NEW a \in Accounts, Kind[v] = "warning", row[v][a].served = "due"
        PROVE  row'[v][a].served = "due"
    <2>1. CASE Steady(v, party[v], party'[v], row[v], row'[v])
      BY <1>2, <2>1 DEF Steady
    <2>2. ASSUME Fresh(v, party'[v], row'[v]) PROVE FALSE
      <3>1. row[v][a].status = "none"
        BY <2>2 DEF Fresh, Inv, PartyInv, Sound
      <3>2. row[v][a].status # "none"
        BY <1>2 DEF DeliveryInv, Delivery
      <3> QED BY <3>1, <3>2
    <2> QED BY <2>1, <2>2
  <1>3. ASSUME NEW m \in Measures, NEW a \in Accounts, Kind[m] = "disconnect", ~party'[m].forced,
               row'[m][a].status # "none" \/ row'[m][a].suspended
        PROVE  \E v \in Measures : Kind[v] = "warning" /\ row'[v][a].served = "due"
    <2>1. PICK v \in Measures : Kind[v] = "warning" /\ row[v][a].served = "due"
      <3>1. CASE Steady(m, party[m], party'[m], row[m], row'[m])
        <4>1. party'[m].forced = party[m].forced
          BY <3>1 DEF Steady
        <4>2. row[m][a].status # "none" \/ row[m][a].suspended
          BY <1>3, <3>1 DEF Steady
        <4> QED BY <1>3, <4>1, <4>2 DEF BackedInv
      <3>2. CASE Fresh(m, party'[m], row'[m])
        <4>1. WarningDue(a)
          BY <1>3, <3>2 DEF Fresh
        <4> QED BY <4>1 DEF WarningDue
      <3> QED BY <3>1, <3>2
    <2> QED BY <1>2, <2>1
  <1> QED
    BY <1>1, <1>3 DEF DeliveryInv, BackedInv

LEMMA WarnedStep ==
    ASSUME MoveTo \cap OpenItem = {}, Inv, SeenInv, DeliveryInv, BackedInv, [Next]_vars
    PROVE  DeliveryInv' /\ BackedInv'
  <1>1. CASE TypeOK' /\ Quiet
    BY <1>1, SparedIsSteady, SteadyStep DEF Quiet, DeliveryInv
  <1>2. ASSUME NEW w \in Workers, NEW m \in Measures, NEW forced \in BOOLEAN, Launch(w, m, forced)
        PROVE  DeliveryInv' /\ BackedInv'
    <2>1. \A k \in Measures : \/ Spared(k, party[k], party'[k], row[k], row'[k])
                              \/ Fresh(k, party'[k], row'[k])
      BY <1>2, LaunchStep
    <2>2. \A k \in Measures : \/ Steady(k, party[k], party'[k], row[k], row'[k])
                              \/ Fresh(k, party'[k], row'[k])
      BY <2>1, SparedIsSteady DEF DeliveryInv
    <2> QED BY <2>2, SteadyStep
  <1>3. CASE party' = party /\ row' = row
    BY <1>3 DEF DeliveryInv, BackedInv
  <1>4. ASSUME NEW w \in Workers, Served(w)
        PROVE  DeliveryInv' /\ BackedInv'
    <2>1. PICK m \in Measures : m = job[w].measure
      BY <1>4, RequestKnows DEF Served
    <2>2. Settling(job[w], party[m], row[m])
      BY <1>4, <2>1 DEF Served, SeenInv, DeliveryInv, Settling
    <2>3. ASSUME NEW x, NEW y, Outcome(w, x, y)
          PROVE  DeliveryInv' /\ BackedInv'
      <3>1. /\ party' = [party EXCEPT ![m] = x]
            /\ row' = [row EXCEPT ![m] = y]
            /\ Steady(m, party[m], x, row[m], y)
        BY <2>1, <2>2, <2>3 DEF Outcome
      <3>2. /\ party'[m] = x /\ row'[m] = y
            /\ \A k \in Measures : k # m => party'[k] = party[k] /\ row'[k] = row[k]
        BY <3>1 DEF Inv, TypeOK
      <3>3. ASSUME NEW k \in Measures PROVE Steady(k, party[k], party'[k], row[k], row'[k])
        <4>1. Steady(k, party[k], party[k], row[k], row[k])
          BY DEF Steady, DeliveryInv
        <4> QED BY <3>1, <3>2, <4>1
      <3> QED BY <3>3, SteadyStep
    <2> QED BY <1>3, <1>4, <2>3 DEF Served
  <1>5. ASSUME NEW w \in Workers, NEW op \in PartyOps, NEW m \in Measures, NEW a \in Accounts \cup {None},
               Load(w, op, m, a)
        PROVE  DeliveryInv' /\ BackedInv'
    BY <1>3, <1>5, LoadStep
  <1>6. CASE UNCHANGED vars
    BY <1>3, <1>6 DEF vars
  <1> QED
    BY <1>1, <1>2, <1>4, <1>5, <1>6, StepForms

(***************************************************************************)
(* When requests follow one another and the board opens no card again,     *)
(* every account that is cut off without a written reason has a warning    *)
(* whose term of payment is over: for any measures, payers and warnings    *)
(* launched, delivered, recorded, cancelled and stopped in any order.      *)
(***************************************************************************)
THEOREM WarningFirst ==
    ASSUME OneAtATime, MoveTo \cap OpenItem = {}
    PROVE  Spec => []WarnedBeforeSuspended
  <1> DEFINE I == Inv /\ SeenInv /\ DeliveryInv /\ BackedInv
  <1>1. Init => I
    <2>1. ASSUME Init PROVE DeliveryInv /\ BackedInv
      <3>1. \A m \in Measures, a \in Accounts : row[m][a] = NoRow
        BY <2>1 DEF Init
      <3> QED BY <3>1 DEF DeliveryInv, BackedInv, Delivery, NoRow
    <2> QED BY <2>1, InitInv, InitSeen
  <1>2. I /\ [Next]_vars => I'
    BY StepInv, SeenStep, WarnedStep
  <1>3. I => WarnedBeforeSuspended
    BY DEF Inv, PartyInv, Sound, BackedInv, WarnedBeforeSuspended
  <1> QED
    BY <1>1, <1>2, <1>3, PTL DEF Spec

-----------------------------------------------------------------------------
(* What is held stays held *)

\* Parties of one account, or nothing is ever paid.
NobodyElsePays ==
    "debt" \notin Ops \/ \A m \in Measures : \A a, b \in Candidates[m] : a = b

\* The accounts of a party were asked for, and so was the account a request names.
AskedFor == /\ \A m \in Measures, a \in Accounts : row[m][a].status # "none" => a \in Candidates[m]
            /\ \A w \in Workers : job[w].op \in {"record", "stop"} =>
                                    job[w].account \in Candidates[job[w].measure]

\* Without the card no case is opened that could run out or end with a new payer.
ImportedOnly(A) == \A b \in Accounts : A[b].case \in {"no", "import"}

CardInv == /\ ImportedOnly(acc)
           /\ "debt" \notin Ops => \A b \in Accounts : acc[b].debt = "due"

\* A recount ends cases and moves the mark of the dead payer, nothing else of the accounts.
Milder(A, B) ==
    /\ B \in [Accounts -> Account]
    /\ \A b \in Accounts : /\ B[b].case \in {"no", A[b].case}
                           /\ B[b].debt = A[b].debt
                           /\ B[b].payer = A[b].payer

LEMMA NoCaseIsMild ==
    ASSUME NEW A \in [Accounts -> Account], NEW S
    PROVE  Milder(A, NoCase(A, S))
  <1>1. \A b \in Accounts : /\ NoCase(A, S)[b].case \in {"no", A[b].case}
                            /\ NoCase(A, S)[b].debt = A[b].debt
                            /\ NoCase(A, S)[b].payer = A[b].payer
    BY DEF NoCase, Account
  <1> QED BY <1>1, NoCaseType DEF Milder

LEMMA SyncIsMild ==
    ASSUME NEW A \in [Accounts -> Account], NEW a \in Accounts
    PROVE  Milder(A, SyncDeceased(A, a))
  <1> DEFINE d == Dies(A, a) \/ (A[a].deceased /\ ~Newcomer(A, a))
             x == [A[a] EXCEPT !.deceased = d]
  <1>1. SyncDeceased(A, a) = [A EXCEPT ![a] = x]
    BY DEF SyncDeceased
  <1>2. x.case = A[a].case /\ x.debt = A[a].debt /\ x.payer = A[a].payer
    BY DEF Account
  <1> HIDE DEF x
  <1>3. \A b \in Accounts : /\ SyncDeceased(A, a)[b].case = A[b].case
                            /\ SyncDeceased(A, a)[b].debt = A[b].debt
                            /\ SyncDeceased(A, a)[b].payer = A[b].payer
    BY <1>1, <1>2
  <1> QED BY <1>3, SyncDeceasedType DEF Milder

\* What refresh_account does where the card opens no case: it looks at the payer's death, at
\* the date of a hold and at the payment.
LEMMA RefreshWithoutCard ==
    ASSUME NEW A \in [Accounts -> Account], ImportedOnly(A), NEW a \in Accounts, RefreshFrom(A, a)
    PROVE  LET B == SyncDeceased(A, a)
               P == ReleaseExpired(SyncDeathPause(party, A, a), a)
           IN /\ acc' = B
              /\ party' = CloseParties(P, B, a)
              /\ Milder(A, B)
  <1> DEFINE A1 == ExpireCase(A, a)
             P1 == ExpirePause(party, A, a)
             A2 == SyncDeceased(A1, a)
             P2 == SyncDeathPause(P1, A1, a)
             P3 == ReleaseExpired(P2, a)
             A4 == IF PayerChanged(A2, a) THEN NoCase(A2, Heirs(A2, a)) ELSE A2
             P4 == IF PayerChanged(A2, a) THEN ResumeAuto(P3, Heirs(A2, a)) ELSE P3
  <1>1. acc' = A4 /\ party' = CloseParties(P4, A4, a)
    BY DEF RefreshFrom
  <1>2. A1 = A /\ P1 = party
    BY DEF ExpireCase, ExpirePause, CaseExpired, ImportedOnly
  <1>3. Milder(A, SyncDeceased(A, a))
    BY SyncIsMild
  <1>4. ~PayerChanged(SyncDeceased(A, a), a)
    BY <1>3 DEF PayerChanged, Milder, ImportedOnly
  <1> HIDE DEF A1, P1
  <1>5. A4 = SyncDeceased(A, a) /\ P4 = ReleaseExpired(SyncDeathPause(party, A, a), a)
    BY <1>2, <1>4
  <1> HIDE DEF A4, P4
  <1> QED BY <1>1, <1>3, <1>5

\* What HoldsLast asks of a party that a step without a request frees.
Excused(m) ==
    CASE party[m].reason = "death" -> \E a \in Members(m) : acc[a].payer = "replaced"
      [] party[m].reason = "user"  -> party[m].until = "past"
      [] OTHER                     -> TRUE

\* Who is freed before payments are looked at has a new payer or a hold that ran out.
LEMMA FreedByReason ==
    ASSUME NEW A, NEW a \in Accounts, NEW m \in Measures,
           \A b \in Accounts : A[b].payer = acc[b].payer,
           party[m].status = "paused",
           ReleaseExpired(SyncDeathPause(party, A, a), a)[m].status # "paused"
    PROVE  Excused(m)
  <1> DEFINE P2 == SyncDeathPause(party, A, a)
             P3 == ReleaseExpired(P2, a)
  <1>1. \/ P2[m] = party[m]
        \/ a \in Members(m) /\ Newcomer(A, a) /\ party[m].reason = "death"
    BY DEF SyncDeathPause, Active
  <1>2. \/ P3[m] = P2[m]
        \/ P2[m].until = "past" /\ P2[m].reason # "death"
    BY DEF ReleaseExpired
  <1>3. CASE a \in Members(m) /\ Newcomer(A, a) /\ party[m].reason = "death"
    BY <1>3 DEF Newcomer, Excused
  <1>4. CASE P2[m] = party[m]
    <2>1. P3[m].status # "paused"
      OBVIOUS
    <2> HIDE DEF P2, P3
    <2>2. party[m].until = "past" /\ party[m].reason # "death"
      BY <1>2, <1>4, <2>1
    <2> QED BY <2>2 DEF Excused
  <1> QED
    BY <1>1, <1>3, <1>4

\* A payment assigns no party of one account: its only row is closed.
LEMMA PaidIsNotFreed ==
    ASSUME TypeOK, NEW P \in [Measures -> Party], NEW B, NEW a \in Accounts, NEW m \in Measures,
           P[m].status = "paused", CloseParties(P, B, a)[m].status \in Active,
           \/ \A b \in Accounts : B[b].debt = "due"
           \/ \A b, c \in Members(m) : b = c
    PROVE  FALSE
  <1> DEFINE Q == CloseParties(P, B, a)
             S == {CloseRows(P, B, a)[m][b].status : b \in Members(m)}
             st == ClosedRow(row[m][a], B[a].debt).status
             s == P[m].status
             no == FALSE
             R == Rollup(P, m, s, no, S)
  <1>1. Q[m] = IF ~Closes(P, B, m, a) THEN P[m]
               ELSE IF B[a].debt = "clear" /\ S \cap (OpenItem \cup {"failed"}) = {}
               THEN [P[m] EXCEPT !.status = "done", !.stopped = TRUE]
               ELSE R[m]
    BY DEF CloseParties
  <1>2. P[m] \in Party /\ Q[m].status \in Active /\ s = "paused"
    OBVIOUS
  <1>3. [P[m] EXCEPT !.status = "done", !.stopped = TRUE].status \notin Active /\ s \notin Active
    BY <1>2 DEF Party, Active
  <1>4. Closes(P, B, m, a) /\ Q[m] = R[m]
    <2> HIDE DEF Q, R, S
    <2> QED BY <1>1, <1>2, <1>3
  <1>5. a \in Members(m) /\ B[a].debt \in {"clear", "part"}
    BY <1>4 DEF Closes
  <1>6. Members(m) = {a}
    BY <1>5
  <1>7. row[m][a] \in Row /\ row[m] \in [Accounts -> Row] /\ row[m][a].status # "none"
    BY <1>5 DEF TypeOK, Members
  <1>8. CloseRows(P, B, a)[m][a] = ClosedRow(row[m][a], B[a].debt)
    BY <1>4, <1>7 DEF CloseRows
  <1>9. S = {st}
    BY <1>6, <1>8
  <1>10. st \notin OpenItem
    BY <1>7 DEF ClosedRow, Row, OpenItem
  <1> HIDE DEF st
  <1>11. Verdict({st}) \notin Active
    BY <1>10 DEF Verdict, OpenItem, Active
  <1> HIDE DEF S
  <1>12. R[m] = P[m] \/ R[m] = Moved(P[m], Verdict(S))
    <2> HIDE DEF s, no
    <2> QED BY RollupWrites
  <1>13. Moved(P[m], Verdict(S)).status = Verdict(S)
    BY <1>2, VerdictIsStatus, MovedParty DEF PartyStatus
  <1> HIDE DEF Q, R, s
  <1>14. P[m].status \notin Active
    BY DEF Active
  <1> QED
    BY <1>2, <1>4, <1>9, <1>11, <1>12, <1>13, <1>14

LEMMA RefreshHolds ==
    ASSUME Inv, NEW A \in [Accounts -> Account], ImportedOnly(A), NEW a \in Accounts, RefreshFrom(A, a),
           \A b \in Accounts : A[b].payer = acc[b].payer,
           NEW m \in Measures, party[m].status = "paused", party'[m].status \in Active,
           \/ \A b \in Accounts : A[b].debt = "due"
           \/ \A b, c \in Members(m) : b = c
    PROVE  Excused(m)
  <1> DEFINE B == SyncDeceased(A, a)
             P2 == SyncDeathPause(party, A, a)
             P == ReleaseExpired(P2, a)
  <1>1. party' = CloseParties(P, B, a) /\ Milder(A, B)
    BY RefreshWithoutCard
  <1>2. P \in [Measures -> Party]
    <2>1. P2 \in [Measures -> Party]
      BY DeathIsGentle DEF Gentle, Inv, TypeOK
    <2> HIDE DEF P2
    <2> QED BY <2>1, ExpiryIsGentle DEF Gentle
  <1>3. \/ \A b \in Accounts : B[b].debt = "due"
        \/ \A b, c \in Members(m) : b = c
    BY <1>1 DEF Milder
  <1>4. P[m].status # "paused"
    <2> HIDE DEF P, B
    <2> QED BY <1>1, <1>2, <1>3, PaidIsNotFreed DEF Inv
  <1> QED
    BY <1>4, FreedByReason

\* Where neither the card nor the board changes an account the cases and debts stay as said.
LEMMA CardStep ==
    ASSUME "patch" \notin Ops, Inv, CardInv, [Next]_vars
    PROVE  CardInv'
  <1>0. acc \in [Accounts -> Account]
    BY DEF Inv, TypeOK
  <1>m. ASSUME NEW A, Milder(A, acc'), ImportedOnly(A),
               "debt" \notin Ops => \A b \in Accounts : A[b].debt = "due"
        PROVE  CardInv'
    BY <1>m DEF Milder, CardInv, ImportedOnly
  <1>1. CASE acc' = acc
    BY <1>1 DEF CardInv, ImportedOnly
  <1>2. ASSUME NEW w \in Workers, NEW m \in Measures, NEW forced \in BOOLEAN, Launch(w, m, forced)
        PROVE  CardInv'
    <2>1. PICK S : acc' = NoCase(acc, S)
      BY <1>2 DEF Launch
    <2> QED BY <1>0, <1>m, <2>1, NoCaseIsMild DEF CardInv
  <1>3. ASSUME NEW w \in Workers, NEW a \in Accounts, Refresh(w, a)
        PROVE  CardInv'
    <2>1. RefreshFrom(acc, a)
      BY <1>3 DEF Refresh
    <2>2. Milder(acc, acc')
      BY <1>0, <2>1, RefreshWithoutCard DEF CardInv
    <2> QED BY <1>m, <2>2 DEF CardInv
  <1>4. ASSUME NEW w \in Workers, NEW a \in Accounts, ImportHeir(w, a)
        PROVE  CardInv'
    <2> DEFINE A == [acc EXCEPT ![a] = [acc[a] EXCEPT !.case = "import"]]
    <2>1. RefreshFrom(A, a)
      BY <1>4 DEF ImportHeir
    <2>2. /\ A \in [Accounts -> Account]
          /\ \A b \in Accounts : A[b].case \in {"import", acc[b].case} /\ A[b].debt = acc[b].debt
      BY <1>0 DEF Account
    <2> HIDE DEF A
    <2>3. ImportedOnly(A)
      BY <2>2 DEF CardInv, ImportedOnly
    <2>4. Milder(A, acc')
      BY <2>1, <2>2, <2>3, RefreshWithoutCard
    <2> QED BY <1>m, <2>2, <2>3, <2>4 DEF CardInv
  <1>5. ASSUME World
        PROVE  CardInv'
    <2>1. ASSUME NEW a \in Accounts, PayerDies(a) \/ NewPayer(a)
          PROVE  CardInv'
      <3>1. \A b \in Accounts : acc'[b].case = acc[b].case /\ acc'[b].debt = acc[b].debt
        BY <1>0, <2>1 DEF PayerDies, NewPayer, Account
      <3> QED BY <3>1 DEF CardInv, ImportedOnly
    <2>2. ASSUME NEW a \in Accounts, DebtMoves(a)
          PROVE  CardInv'
      <3>1. PICK d \in {"due", "part", "clear"} : acc' = [acc EXCEPT ![a].debt = d]
        BY <2>2 DEF DebtMoves
      <3>2. "debt" \in Ops /\ \A b \in Accounts : acc'[b].case = acc[b].case
        BY <1>0, <2>2, <3>1 DEF DebtMoves, Account
      <3> QED BY <3>2 DEF CardInv, ImportedOnly
    <2>3. ASSUME NEW a \in Accounts, CaseRunsOut(a)
          PROVE  CardInv'
      BY <2>3 DEF CaseRunsOut, CardInv, ImportedOnly
    <2>4. ASSUME NEW m \in Measures, HoldRunsOut(m) \/ \E a \in Accounts : TermRunsOut(m, a)
          PROVE  acc' = acc
      BY <2>4 DEF HoldRunsOut, TermRunsOut
    <2> QED BY <1>1, <1>5, <2>1, <2>2, <2>3, <2>4 DEF World
  <1>6. ASSUME NEW w \in Workers, Request(w)
        PROVE  CardInv'
    <2>1. ASSUME NEW op \in PartyOps, NEW m \in Measures, NEW a \in Accounts \cup {None}, Load(w, op, m, a)
          PROVE  acc' = acc
      BY <2>1 DEF Load
    <2>2. ASSUME Served(w)
          PROVE  acc' = acc
      BY <2>2 DEF Served
    <2>3. Refuse(w) => Served(w)
      BY DEF Refuse, Served
    <2>4. ASSUME NEW a \in Accounts, OpenCase(w, a) \/ CloseCase(w, a)
          PROVE  FALSE
      BY <2>4 DEF OpenCase, CloseCase
    <2> QED
      BY <1>1, <1>2, <1>3, <1>4, <1>6, <2>1, <2>2, <2>3, <2>4,
         DecisionStep, ConfirmationStep, ResultStep, HoldStep DEF Request
  <1>7. CASE UNCHANGED vars
    BY <1>1, <1>7 DEF vars
  <1> QED
    BY <1>5, <1>6, <1>7 DEF Next

\* A request about a party writes rows the party has, or the one it names.
LEMMA NobodyJoins ==
    ASSUME Inv, NEW w \in Workers,
           \/ Accept(w) \/ Approve(w) \/ Reject(w) \/ Cancel(w)
           \/ \E to \in MoveTo : Move(w, to)
           \/ Suspend(w) \/ Resume(w)
           \/ \E st \in {"done", "failed", "cancelled", "running"} : Record(w, st)
           \/ \E D \in SUBSET Accounts : Deliver(w, D)
           \/ Stop(w)
           \/ \E until \in {"none", "ahead"} : Hold(w, until)
           \/ Release(w)
    PROVE  /\ job' = [job EXCEPT ![w] = Idle]
           /\ \A k \in Measures, b \in Accounts :
                 row[k][b].status = "none" =>
                    \/ row'[k][b].status = "none"
                    \/ /\ job[w].op \in {"record", "stop"}
                       /\ k = job[w].measure /\ b = job[w].account
  <1> DEFINE m == job[w].measure
             a == job[w].account
             Goal == \A k \in Measures, b \in Accounts :
                        row[k][b].status = "none" =>
                           \/ row'[k][b].status = "none"
                           \/ job[w].op \in {"record", "stop"} /\ k = m /\ b = a
  <1>1. job[w].op # "idle" /\ job' = [job EXCEPT ![w] = Idle]
    BY DEF Accept, Approve, Reject, Cancel, Move, Suspend, Resume, Record, Deliver, Stop, Hold, Release, Loaded
  <1>2. m \in Measures /\ row \in [Measures -> [Accounts -> Row]] /\ row[m] \in [Accounts -> Row]
    BY <1>1, RequestKnows DEF Inv, TypeOK
  <1>3. ASSUME NEW S, "none" \notin S, NEW st, row' = MarkRows(m, S, st)
        PROVE  Goal
    BY <1>2, <1>3 DEF MarkRows
  <1>4. ASSUME NEW y, row' = [row EXCEPT ![m] = y],
               \A b \in Accounts : row[m][b].status = "none" =>
                  y[b] = row[m][b] \/ (job[w].op \in {"record", "stop"} /\ b = a)
        PROVE  Goal
    BY <1>2, <1>4
  <1>5. ASSUME row' = row
        PROVE  Goal
    BY <1>5
  <1>6. Accept(w) \/ Reject(w) \/ Cancel(w) => Goal
    <2>1. "none" \notin {"assigned"} /\ "none" \notin ItemStatus \ {"done"} /\ "none" \notin OpenItem \cup {"failed"}
      BY DEF ItemStatus, OpenItem
    <2>2. Accept(w) => row' = MarkRows(m, {"assigned"}, "running")
      BY DEF Accept
    <2>3. Reject(w) => row' = MarkRows(m, ItemStatus \ {"done"}, "cancelled")
      BY DEF Reject
    <2>4. Cancel(w) => row' = MarkRows(m, OpenItem \cup {"failed"}, "cancelled")
      BY DEF Cancel
    <2> HIDE DEF Goal, m
    <2> QED BY <1>3, <2>1, <2>2, <2>3, <2>4
  <1>7. ASSUME NEW to \in MoveTo, Move(w, to)
        PROVE  Goal
    <2>1. "none" \notin ItemStatus
      BY DEF ItemStatus
    <2>2. row' = MarkRows(m, ItemStatus, to) \/ row' = row
      BY <1>7 DEF Move
    <2> HIDE DEF Goal, m
    <2> QED BY <1>3, <1>5, <2>1, <2>2
  <1>8. ASSUME Suspend(w)
        PROVE  Goal
    <2> DEFINE y == [b \in Accounts |->
                        IF row[m][b].status \in {"none", "cancelled"} THEN row[m][b]
                        ELSE [row[m][b] EXCEPT !.status = "running", !.suspended = TRUE]]
    <2>1. row' = [row EXCEPT ![m] = y]
      BY <1>8 DEF Suspend
    <2>2. \A b \in Accounts : row[m][b].status = "none" => y[b] = row[m][b]
      OBVIOUS
    <2> HIDE DEF y, Goal, m
    <2> QED BY <1>4, <2>1, <2>2
  <1>9. ASSUME Resume(w)
        PROVE  Goal
    <2> DEFINE y == [b \in Accounts |->
                        IF row[m][b].status \in {"none", "cancelled"} THEN row[m][b]
                        ELSE [row[m][b] EXCEPT !.status = "done", !.resumed = TRUE]]
    <2>1. row' = [row EXCEPT ![m] = y]
      BY <1>9 DEF Resume
    <2>2. \A b \in Accounts : row[m][b].status = "none" => y[b] = row[m][b]
      OBVIOUS
    <2> HIDE DEF y, Goal, m
    <2> QED BY <1>4, <2>1, <2>2
  <1>10. ASSUME NEW st \in {"done", "failed", "cancelled", "running"}, Record(w, st)
         PROVE  Goal
    <2>1. PICK x : row' = [row EXCEPT ![m] = [row[m] EXCEPT ![a] = x]] /\ job[w].op = "record"
      BY <1>10 DEF Record, Loaded
    <2> QED BY <1>2, <2>1
  <1>11. ASSUME NEW D \in SUBSET Accounts, Deliver(w, D)
         PROVE  Goal
    <2> DEFINE y == [b \in Accounts |->
                        IF b \in D /\ row[m][b].status \in OpenItem
                        THEN [row[m][b] EXCEPT !.status = "done", !.served = "waiting"]
                        ELSE row[m][b]]
    <2>1. row' = [row EXCEPT ![m] = y]
      BY <1>11 DEF Deliver
    <2>2. \A b \in Accounts : row[m][b].status = "none" => y[b] = row[m][b]
      BY DEF OpenItem
    <2> HIDE DEF y, Goal, m
    <2> QED BY <1>4, <2>1, <2>2
  <1>12. ASSUME Stop(w)
         PROVE  Goal
    <2>1. PICK x : row' = [row EXCEPT ![m] = [row[m] EXCEPT ![a] = x]] /\ job[w].op = "stop"
      BY <1>12 DEF Stop, Loaded
    <2> QED BY <1>2, <2>1
  <1>13. Approve(w) \/ Release(w) \/ (\E until \in {"none", "ahead"} : Hold(w, until)) => row' = row
    BY DEF Approve, Release, Hold
  <1> QED
    BY <1>1, <1>5, <1>6, <1>7, <1>8, <1>9, <1>10, <1>11, <1>12, <1>13

LEMMA AskedStep ==
    ASSUME Inv, AskedFor, [Next]_vars
    PROVE  AskedFor'
  <1>0. /\ job \in [Workers -> Job]
        /\ \A w \in Workers : job[w].op \in {"record", "stop"} =>
              job[w].measure \in Measures /\ job[w].account \in Accounts
    BY DEF Inv, TypeOK, JobInv, JobOK
  <1>i. Idle.op = "idle"
    BY DEF Idle
  <1>1. ASSUME \A k \in Measures, b \in Accounts :
                  row'[k][b].status # "none" => b \in Candidates[k],
               \A v \in Workers : job'[v] = job[v] \/ job'[v] = Idle
        PROVE  AskedFor'
    BY <1>i, <1>1 DEF AskedFor
  <1>2. ASSUME NEW w \in Workers,
               \/ Accept(w) \/ Approve(w) \/ Reject(w) \/ Cancel(w)
               \/ \E to \in MoveTo : Move(w, to)
               \/ Suspend(w) \/ Resume(w)
               \/ \E st \in {"done", "failed", "cancelled", "running"} : Record(w, st)
               \/ \E D \in SUBSET Accounts : Deliver(w, D)
               \/ Stop(w)
               \/ \E until \in {"none", "ahead"} : Hold(w, until)
               \/ Release(w)
        PROVE  AskedFor'
    <2>1. /\ job' = [job EXCEPT ![w] = Idle]
          /\ \A k \in Measures, b \in Accounts :
                row[k][b].status = "none" =>
                   \/ row'[k][b].status = "none"
                   \/ /\ job[w].op \in {"record", "stop"}
                      /\ k = job[w].measure /\ b = job[w].account
      BY <1>2, NobodyJoins
    <2>2. \A k \in Measures, b \in Accounts : row'[k][b].status # "none" => b \in Candidates[k]
      BY <2>1 DEF AskedFor
    <2>3. \A v \in Workers : job'[v] = job[v] \/ job'[v] = Idle
      BY <1>0, <2>1
    <2> QED BY <1>1, <2>2, <2>3
  <1>3. ASSUME NEW w \in Workers, NEW m \in Measures, NEW forced \in BOOLEAN, Launch(w, m, forced)
        PROVE  AskedFor'
    <2>1. PICK chosen \in SUBSET Candidates[m] :
             \/ row' = row
             \/ row' = [row EXCEPT ![m] = [a \in Accounts |->
                           IF a \in chosen THEN [NoRow EXCEPT !.status = "assigned"] ELSE NoRow]]
      <3> DEFINE Over   == {a \in Candidates[m] : acc[a].case = "over"}
                 Freed  == UNION {Peers(a) : a \in Over}
                 A      == NoCase(acc, Freed)
                 chosen == {a \in Candidates[m] : Admits(m, a, A, forced)}
      <3>1. \/ row' = row
            \/ row' = [row EXCEPT ![m] = [a \in Accounts |->
                          IF a \in chosen THEN [NoRow EXCEPT !.status = "assigned"] ELSE NoRow]]
        BY <1>3 DEF Launch
      <3>2. chosen \in SUBSET Candidates[m]
        OBVIOUS
      <3> HIDE DEF chosen
      <3> QED BY <3>1, <3>2
    <2>2. \A k \in Measures, b \in Accounts : row'[k][b].status # "none" => b \in Candidates[k]
      BY <2>1 DEF AskedFor, Inv, TypeOK, NoRow
    <2>3. job' = job
      BY <1>3 DEF Launch
    <2> QED BY <1>1, <2>2, <2>3
  <1>4. ASSUME NEW w \in Workers, NEW op \in PartyOps, NEW m \in Measures, NEW a \in Accounts \cup {None},
               Load(w, op, m, a)
        PROVE  AskedFor'
    <2>1. PICK i : job' = [job EXCEPT ![w] = [op |-> op, measure |-> m, account |-> a, seen |-> party[m], item |-> i]]
      BY <1>4 DEF Load
    <2>2. row' = row /\ (op \in {"record", "stop"} => a \in Members(m))
      BY <1>4 DEF Load
    <2>3. ASSUME NEW v \in Workers, job'[v].op \in {"record", "stop"}
          PROVE  job'[v].account \in Candidates[job'[v].measure]
      <3>1. CASE v = w
        BY <1>0, <2>1, <2>2, <2>3, <3>1 DEF AskedFor, Members
      <3>2. CASE v # w
        BY <1>0, <2>1, <2>3, <3>2 DEF AskedFor
      <3> QED BY <3>1, <3>2
    <2> QED BY <2>2, <2>3 DEF AskedFor
  <1>5. CASE Quiet
    <2>1. \A k \in Measures, b \in Accounts : row[k][b].status = "none" => row'[k][b].status = "none"
      BY <1>5 DEF Quiet, Spared
    <2> QED BY <1>1, <1>5, <2>1 DEF AskedFor, Quiet
  <1>6. ASSUME NEW w \in Workers, Refuse(w)
        PROVE  AskedFor'
    BY <1>0, <1>1, <1>6 DEF Refuse, AskedFor
  <1>7. ASSUME NEW w \in Workers, Request(w)
        PROVE  AskedFor'
    BY <1>2, <1>3, <1>4, <1>5, <1>6, <1>7, RecountStep DEF Request
  <1>8. CASE World
    BY <1>5, <1>8, WorldStep
  <1>9. CASE UNCHANGED vars
    BY <1>9 DEF vars, AskedFor
  <1> QED
    BY <1>7, <1>8, <1>9 DEF Next

LEMMA HoldsStep ==
    ASSUME "patch" \notin Ops, NobodyElsePays, Inv, CardInv, AskedFor, Next, job' = job,
           NEW m \in Measures, party[m].status = "paused", party'[m].status \in Active
    PROVE  Excused(m)
  <1>0. \/ \A b \in Accounts : acc[b].debt = "due"
        \/ \A b, c \in Members(m) : b = c
    BY DEF NobodyElsePays, CardInv, AskedFor, Members
  <1>p. "paused" \notin Active
    BY DEF Active
  <1>t. acc \in [Accounts -> Account] /\ party \in [Measures -> Party] /\ job \in [Workers -> Job]
    BY DEF Inv, TypeOK
  <1>1. ASSUME World
        PROVE  FALSE
    BY <1>p, <1>1, WorldLeaves
  <1>2. ASSUME NEW w \in Workers, Served(w)
        PROVE  FALSE
    BY <1>t, <1>2 DEF Served, Idle
  <1>3. ASSUME NEW w \in Workers, NEW op \in PartyOps, NEW k \in Measures, NEW a \in Accounts \cup {None},
               Load(w, op, k, a)
        PROVE  FALSE
    BY <1>p, <1>3 DEF Load
  <1>4. ASSUME NEW w \in Workers, NEW k \in Measures, NEW forced \in BOOLEAN, Launch(w, k, forced)
        PROVE  FALSE
    <2>1. {a \in Candidates[k] : acc[a].case = "over"} = {}
      BY PartyAssumption DEF PartyAssumption, CardInv, ImportedOnly
    <2>2. \/ party' = party
          \/ \E x : party' = [party EXCEPT ![k] = x]
      BY <1>4, <2>1 DEF Launch
    <2>3. party[k].status = "none"
      BY <1>4 DEF Launch
    <2> QED BY <1>p, <1>t, <2>2, <2>3
  <1>5. ASSUME NEW w \in Workers, NEW a \in Accounts, Refresh(w, a)
        PROVE  Excused(m)
    <2>1. RefreshFrom(acc, a) /\ ImportedOnly(acc)
      BY <1>5 DEF Refresh, CardInv
    <2> QED BY <1>0, <1>t, <2>1, RefreshHolds
  <1>6. ASSUME NEW w \in Workers, NEW a \in Accounts, ImportHeir(w, a)
        PROVE  Excused(m)
    <2> DEFINE A == [acc EXCEPT ![a] = [acc[a] EXCEPT !.case = "import"]]
    <2>1. RefreshFrom(A, a)
      BY <1>6 DEF ImportHeir
    <2>2. /\ A \in [Accounts -> Account]
          /\ \A b \in Accounts : /\ A[b].case \in {"import", acc[b].case}
                                 /\ A[b].debt = acc[b].debt /\ A[b].payer = acc[b].payer
      BY <1>t DEF Account
    <2> HIDE DEF A
    <2>3. ImportedOnly(A)
      BY <2>2 DEF CardInv, ImportedOnly
    <2>4. \/ \A b \in Accounts : A[b].debt = "due"
          \/ \A b, c \in Members(m) : b = c
      BY <1>0, <2>2
    <2> QED BY <2>1, <2>2, <2>3, <2>4, RefreshHolds
  <1>7. ASSUME NEW w \in Workers, NEW a \in Accounts, OpenCase(w, a) \/ CloseCase(w, a)
        PROVE  FALSE
    BY <1>7 DEF OpenCase, CloseCase
  <1>8. ASSUME NEW w \in Workers, Refuse(w)
        PROVE  Served(w)
    BY <1>8 DEF Refuse, Served
  <1>9. ASSUME NEW w \in Workers, Request(w)
        PROVE  Excused(m)
    BY <1>2, <1>3, <1>4, <1>5, <1>6, <1>7, <1>8, <1>9,
       DecisionStep, ConfirmationStep, ResultStep, HoldStep DEF Request
  <1> QED
    BY <1>1, <1>9 DEF Next

(***************************************************************************)
(* Where no case is opened or closed on the card, and a party has one      *)
(* account (as every party of a scenario) or no payment comes, what the    *)
(* payer's death holds is freed for a new payer only, and what a           *)
(* specialist holds when its date is over only, except by a request about  *)
(* the party: for any number of workers and of parties of the account.     *)
(***************************************************************************)
THEOREM HeldStaysHeld ==
    ASSUME "patch" \notin Ops, NobodyElsePays
    PROVE  Spec => HoldsLast
  <1> DEFINE I == Inv /\ CardInv /\ AskedFor
             A == \A m \in Measures :
                     /\ party[m].status = "paused"
                     /\ party'[m].status \in Active
                     /\ job' = job
                     => CASE party[m].reason = "death" -> \E a \in Members(m) : acc[a].payer = "replaced"
                          [] party[m].reason = "user"  -> party[m].until = "past"
                          [] OTHER                     -> TRUE
  <1>1. Init => I
    <2>1. ASSUME Init PROVE CardInv /\ AskedFor
      <3>1. /\ \A a \in Accounts : acc[a].case = "no" /\ acc[a].debt = "due"
            /\ \A k \in Measures, a \in Accounts : row[k][a].status = "none"
            /\ \A w \in Workers : job[w].op = "idle"
        BY <2>1 DEF Init, NoRow, Idle
      <3> QED BY <3>1 DEF CardInv, ImportedOnly, AskedFor
    <2> QED BY <2>1, InitInv
  <1>2. I /\ [Next]_vars => I'
    BY StepInv, CardStep, AskedStep
  <1>3. I /\ [Next]_vars => [A]_vars
    BY HoldsStep DEF Excused
  <1> QED
    BY <1>1, <1>2, <1>3, PTL DEF Spec, HoldsLast

-----------------------------------------------------------------------------
(* The pause of an inheritance case *)

\* Every party is of accounts of one debtor, as those a scenario launches are.
OneDebtor == \A m \in Measures : \A a, b \in Candidates[m] : Debtor[a] = Debtor[b]

\* Nothing assigns a party that a case has paused but the end of the case: neither a person, nor
\* the date of a hold, nor a payment; and cases are opened on the card.
OnlyCasesResume ==
    /\ Ops \cap {"release", "stop", "holdover", "debt", "heir"} = {}
    /\ MoveTo \cap Active = {}

Calls(m) == Kind[m] \in {"warning", "auto"}

\* The accounts of a debtor have one case.
OneCase(A) ==
    /\ \A a \in Accounts : A[a].case \in {"no", "open", "over"} /\ A[a].debt = "due"
    /\ \A a, b \in Accounts : Debtor[a] = Debtor[b] => A[a].case = A[b].case

\* A party that is closed or failed has no open rows, which a recount would open it for.
Resting(p, r) ==
    /\ p.until # "past"
    /\ p.status \notin OpenParty => \A a \in Accounts : r[a].status \notin OpenItem

PausedFor(p, r, A) ==
    \A a \in Accounts : r[a].status # "none" /\ A[a].case # "no" => p.status \notin Active

CaseInv ==
    /\ OneCase(acc)
    /\ \A m \in Measures : Calls(m) => Resting(party[m], row[m]) /\ PausedFor(party[m], row[m], acc)
    /\ \A w \in Workers : job[w].op \in Ops \cup {"idle"}

\* All accounts of each of its debtors.
Debtors(S) == \A a \in S : \A b \in Accounts : Debtor[a] = Debtor[b] => b \in S

LEMMA PeersAreDebtors ==
    ASSUME NEW a \in Accounts
    PROVE  Debtors(Peers(a)) /\ a \in Peers(a) /\ Peers(a) \subseteq Accounts
  BY DEF Debtors, Peers

LEMMA VerdictOpens == \A S : Verdict(S) \in OpenItem <=> S \cap OpenItem # {}
  BY DEF Verdict, OpenItem

\* Cases end for all accounts of a debtor.
LEMMA NoCaseIsOne ==
    ASSUME NEW A \in [Accounts -> Account], OneCase(A), NEW S, Debtors(S)
    PROVE  OneCase(NoCase(A, S))
  <1>1. \A a \in Accounts : /\ NoCase(A, S)[a].case = IF a \in S THEN "no" ELSE A[a].case
                            /\ NoCase(A, S)[a].debt = A[a].debt
    BY DEF NoCase, Account
  <1>2. \A a, b \in Accounts : Debtor[a] = Debtor[b] => (a \in S <=> b \in S)
    BY DEF Debtors
  <1> QED BY <1>1, <1>2 DEF OneCase

\* The accounts of a party have one debtor.
LEMMA OneDebtorParty ==
    ASSUME OneDebtor, AskedFor, NEW m \in Measures, NEW a \in Members(m), NEW b \in Members(m)
    PROVE  Debtor[a] = Debtor[b]
  BY DEF OneDebtor, AskedFor, Members

\* Who is resumed with the end of a case has no case any more.
LEMMA ResumeKeeps ==
    ASSUME OneDebtor, AskedFor, NEW A \in [Accounts -> Account], NEW P \in [Measures -> Party],
           NEW S, Debtors(S), NEW m \in Measures,
           Resting(P[m], row[m]), PausedFor(P[m], row[m], A)
    PROVE  /\ Resting(ResumeAuto(P, S)[m], row[m])
           /\ PausedFor(ResumeAuto(P, S)[m], row[m], NoCase(A, S))
  <1> DEFINE Q == ResumeAuto(P, S)
             N == NoCase(A, S)
  <1>1. \A a \in Accounts : N[a].case = IF a \in S THEN "no" ELSE A[a].case
    BY DEF NoCase, Account
  <1>2. P[m] \in Party
    OBVIOUS
  <1>3. CASE Automatic(m, S) /\ P[m].status = "paused"
    <2>1. Q[m] = Moved(P[m], "assigned")
      BY <1>3 DEF ResumeAuto, Moved
    <2>2. Q[m].status = "assigned" /\ Q[m].until = P[m].until
      BY <1>2, <2>1 DEF Moved, Party
    <2>3. PICK b \in Members(m) : b \in S
      BY <1>3 DEF Automatic
    <2>4. ASSUME NEW a \in Members(m) PROVE a \in S /\ a \in Accounts
      <3>1. Debtor[a] = Debtor[b]
        BY OneDebtorParty
      <3>2. a \in Accounts
        BY DEF Members
      <3> QED BY <2>3, <3>1, <3>2 DEF Debtors
    <2>5. \A a \in Accounts : row[m][a].status # "none" => N[a].case = "no"
      BY <1>1, <2>4 DEF Members
    <2> HIDE DEF Q, N
    <2>6. Resting(Q[m], row[m])
      BY <2>2 DEF Resting, OpenParty
    <2>7. PausedFor(Q[m], row[m], N)
      BY <2>5 DEF PausedFor
    <2> QED BY <2>6, <2>7 DEF Q, N
  <1>4. CASE ~(Automatic(m, S) /\ P[m].status = "paused")
    <2>1. Q[m] = P[m]
      BY <1>4 DEF ResumeAuto
    <2> HIDE DEF Q, N
    <2>2. Resting(Q[m], row[m])
      BY <2>1
    <2>3. PausedFor(Q[m], row[m], N)
      BY <1>1, <2>1 DEF PausedFor
    <2> QED BY <2>2, <2>3 DEF Q, N
  <1> QED BY <1>3, <1>4

\* refresh_account: what death and a newcomer do to a party agrees with the case, which a newcomer
\* ends.
LEMMA RefreshKeeps ==
    ASSUME OneDebtor, AskedFor, Inv, CaseInv, NEW a \in Accounts, RefreshFrom(acc, a)
    PROVE  /\ OneCase(acc') /\ row' = row
           /\ \A m \in Measures : Calls(m) => Resting(party'[m], row[m]) /\ PausedFor(party'[m], row[m], acc')
  <1> DEFINE A1 == ExpireCase(acc, a)
             P1 == ExpirePause(party, acc, a)
             A2 == SyncDeceased(A1, a)
             P2 == SyncDeathPause(P1, A1, a)
             P3 == ReleaseExpired(P2, a)
             A4 == IF PayerChanged(A2, a) THEN NoCase(A2, Heirs(A2, a)) ELSE A2
             P4 == IF PayerChanged(A2, a) THEN ResumeAuto(P3, Heirs(A2, a)) ELSE P3
  <1>1. acc' = A4 /\ row' = CloseRows(P4, A4, a) /\ party' = CloseParties(P4, A4, a)
    BY DEF RefreshFrom
  <1>2. acc \in [Accounts -> Account] /\ party \in [Measures -> Party] /\ OneCase(acc)
        /\ row = [m \in Measures |-> row[m]]
    BY DEF Inv, TypeOK, CaseInv
  <1>3. A1 \in [Accounts -> Account] /\ P1 \in [Measures -> Party]
    BY <1>2, NoCaseType, ResumeIsGentle DEF ExpireCase, ExpirePause, Gentle
  <1>4. /\ OneCase(A1) /\ A1[a].case # "over"
        /\ \A m \in Measures : Calls(m) => Resting(P1[m], row[m]) /\ PausedFor(P1[m], row[m], A1)
    <2>1. CASE CaseExpired(acc, a)
      <3>1. A1 = NoCase(acc, Peers(a)) /\ P1 = ResumeAuto(party, Peers(a))
        BY <2>1 DEF ExpireCase, ExpirePause
      <3>2. NoCase(acc, Peers(a))[a].case = "no"
        BY <1>2, PeersAreDebtors DEF NoCase, Account
      <3> HIDE DEF A1, P1
      <3> QED BY <1>2, <3>1, <3>2, PeersAreDebtors, NoCaseIsOne, ResumeKeeps DEF CaseInv
    <2>2. CASE ~CaseExpired(acc, a)
      <3>1. A1 = acc /\ P1 = party
        BY <2>2 DEF ExpireCase, ExpirePause
      <3> HIDE DEF A1, P1
      <3> QED BY <2>2, <3>1 DEF CaseExpired, CaseInv
    <2> QED BY <2>1, <2>2
  <1> HIDE DEF A1, P1
  <1>5. /\ A2 \in [Accounts -> Account]
        /\ \A b \in Accounts : A2[b].case = A1[b].case /\ A2[b].debt = A1[b].debt /\ A2[b].payer = A1[b].payer
    <2> DEFINE d == Dies(A1, a) \/ (A1[a].deceased /\ ~Newcomer(A1, a))
               x == [A1[a] EXCEPT !.deceased = d]
    <2>1. A2 = [A1 EXCEPT ![a] = x]
      BY DEF SyncDeceased
    <2>2. x.case = A1[a].case /\ x.debt = A1[a].debt /\ x.payer = A1[a].payer
      BY <1>3 DEF Account
    <2> HIDE DEF x
    <2> QED BY <1>3, <2>1, <2>2, SyncDeceasedType
  <1>6. OneCase(A2)
    BY <1>4, <1>5 DEF OneCase
  <1>7. P2 \in [Measures -> Party] /\ P3 \in [Measures -> Party]
    <2>1. P2 \in [Measures -> Party]
      BY <1>3, DeathIsGentle DEF Gentle
    <2> HIDE DEF P2
    <2> QED BY <2>1, ExpiryIsGentle DEF Gentle
  <1>8. \A m \in Measures : Calls(m) =>
           /\ Resting(P3[m], row[m])
           /\ P3[m].status = P1[m].status \/ P3[m].status = "paused"
                 \/ (a \in Members(m) /\ Newcomer(A1, a))
    <2>1. ASSUME NEW m \in Measures, Calls(m)
          PROVE  /\ Resting(P3[m], row[m])
                 /\ P3[m].status = P1[m].status \/ P3[m].status = "paused"
                       \/ (a \in Members(m) /\ Newcomer(A1, a))
      <3>1. P1[m] \in Party /\ Resting(P1[m], row[m])
        BY <1>3, <1>4, <2>1
      <3>2. \/ P2[m] = P1[m]
            \/ (P2[m] = Released(P1[m]) /\ a \in Members(m) /\ Newcomer(A1, a))
            \/ P2[m] = Dead(P1[m])
        BY DEF SyncDeathPause, Dead
      <3>3. /\ Released(P1[m]).status = "assigned" /\ Released(P1[m]).until = "none"
            /\ Dead(P1[m]).status = "paused" /\ Dead(P1[m]).until = P1[m].until
        BY <3>1 DEF Released, Dead, Party
      <3> HIDE DEF P2
      <3>4. Resting(P2[m], row[m])
        BY <3>1, <3>2, <3>3 DEF Resting, OpenParty
      <3>5. P3[m] = P2[m]
        BY <3>4 DEF ReleaseExpired, Resting
      <3> HIDE DEF P3
      <3> QED BY <3>2, <3>3, <3>4, <3>5
    <2> QED BY <2>1
  <1> HIDE DEF A2, P2, P3
  <1>9. PayerChanged(A2, a) => Heirs(A2, a) = Peers(a)
    BY <1>6 DEF PayerChanged, Heirs, Peers, OneCase
  <1>10. A4 \in [Accounts -> Account] /\ OneCase(A4)
    BY <1>5, <1>6, <1>9, PeersAreDebtors, NoCaseIsOne, NoCaseType
  <1>11. P4 \in [Measures -> Party]
    BY <1>7, ResumeIsGentle DEF Gentle
  <1>12. ASSUME NEW m \in Measures, Calls(m)
         PROVE  Resting(P4[m], row[m]) /\ PausedFor(P4[m], row[m], A4)
    <2>1. Resting(P3[m], row[m]) /\ PausedFor(P1[m], row[m], A1)
      BY <1>4, <1>8, <1>12
    <2>2. CASE PausedFor(P3[m], row[m], A2)
      BY <1>5, <1>7, <1>9, <2>1, <2>2, PeersAreDebtors, ResumeKeeps
    <2>3. CASE ~PausedFor(P3[m], row[m], A2)
      <3>1. a \in Members(m) /\ Newcomer(A1, a)
        BY <1>5, <1>8, <1>12, <2>1, <2>3 DEF PausedFor, Active
      <3>2. \A b \in Members(m) : b \in Peers(a)
        BY <3>1, OneDebtorParty DEF Members, Peers
      <3>3. PICK b \in Accounts : row[m][b].status # "none" /\ A2[b].case # "no"
        BY <2>3 DEF PausedFor
      <3>4. A2[a].case # "no"
        BY <1>6, <3>2, <3>3 DEF Members, Peers, OneCase
      <3>5. PayerChanged(A2, a)
        BY <1>4, <1>5, <1>6, <3>1, <3>4 DEF PayerChanged, Newcomer, OneCase
      <3>6. A4 = NoCase(A2, Peers(a)) /\ P4 = ResumeAuto(P3, Peers(a))
        BY <1>9, <3>5
      <3>7. \A c \in Accounts : row[m][c].status # "none" => A4[c].case = "no"
        BY <1>5, <3>2, <3>6 DEF NoCase, Account, Members
      <3>8. P4[m] = P3[m] \/ (P4[m] = Moved(P3[m], "assigned") /\ P3[m].status = "paused")
        BY <3>6 DEF ResumeAuto, Moved
      <3>9. Moved(P3[m], "assigned").status = "assigned" /\ Moved(P3[m], "assigned").until = P3[m].until
        BY <1>7 DEF Moved, Party
      <3> HIDE DEF P4, A4
      <3> QED BY <2>1, <3>7, <3>8, <3>9 DEF Resting, PausedFor, OpenParty
    <2> QED BY <2>2, <2>3
  <1> HIDE DEF A4, P4
  <1>13. \A m \in Measures : ~Closes(P4, A4, m, a)
    BY <1>10 DEF Closes, OneCase
  <1>14. row' = row /\ \A m \in Measures : party'[m] = P4[m]
    BY <1>1, <1>2, <1>13 DEF CloseRows, CloseParties
  <1> QED BY <1>1, <1>10, <1>12, <1>14

\* rollup() of a party whose rows are written keeps both; in a case no row may be opened.
LEMMA RollupKeeps ==
    ASSUME Inv, CaseInv, NEW m \in Measures, Calls(m), NEW y,
           \A b \in Accounts : y[b].status # "none" <=> b \in Members(m),
           \A b, c \in Members(m) : acc[c].case # "no" /\ y[b].status \in OpenItem => row[m][b].status \in OpenItem
    PROVE  LET S == {y[b].status : b \in Members(m)}
               P == Rollup(party, m, party[m].status, TRUE, S)
           IN Resting(P[m], y) /\ PausedFor(P[m], y, acc)
  <1> DEFINE S == {y[b].status : b \in Members(m)}
             P == Rollup(party, m, party[m].status, TRUE, S)
             p == party[m]
             v == Verdict(S)
  <1>1. party \in [Measures -> Party] /\ p \in Party /\ Resting(p, row[m]) /\ PausedFor(p, row[m], acc)
    BY DEF Inv, TypeOK, CaseInv
  <1>2. \A b \in Accounts : y[b].status \in OpenItem => b \in Members(m) /\ y[b].status \in S
    BY DEF OpenItem
  <1>3. v \in OpenItem <=> S \cap OpenItem # {}
    BY VerdictOpens
  <1>4. \/ P[m] = p /\ p.status = "paused"
        \/ P[m] = p /\ S = {}
        \/ p.status # "paused" /\ P[m].until = p.until /\ P[m].status = v
    <2>1. \/ P = party /\ (p.status = "paused" \/ S = {} \/ p.status = v)
          \/ p.status # "paused" /\ P = [party EXCEPT ![m] = Moved(p, v)]
      BY DEF Rollup, Moved
    <2>2. Moved(p, v).until = p.until /\ Moved(p, v).status = v
      BY <1>1 DEF Moved, Party
    <2> HIDE DEF P, S, v, p
    <2>3. party \in [Measures -> Party] /\ p = party[m]
      BY <1>1 DEF p
    <2> QED BY <2>1, <2>2, <2>3
  <1>5. \A b \in Members(m) : y[b].status \in S
    OBVIOUS
  <1>6. S # {} => \E b \in Members(m) : TRUE
    OBVIOUS
  <1>7. ASSUME NEW s \in S, s \in OpenItem
        PROVE  \E b \in Members(m) : y[b].status = s
    BY <1>7
  <1> HIDE DEF P, S, v, p
  <1>8. Resting(P[m], y)
    <2>1. CASE P[m] = p /\ p.status = "paused"
      BY <1>1, <2>1 DEF Resting, OpenParty
    <2>2. CASE S = {}
      BY <1>1, <1>2, <1>4, <2>2, VerdictOpens DEF Resting
    <2>3. CASE P[m].until = p.until /\ P[m].status = v
      BY <1>1, <1>2, <1>3, <2>3 DEF Resting, OpenItem, OpenParty
    <2> QED BY <1>4, <2>1, <2>2, <2>3
  <1>9. PausedFor(P[m], y, acc)
    <2> SUFFICES ASSUME NEW c \in Accounts, y[c].status # "none", acc[c].case # "no"
                 PROVE  P[m].status \notin Active
      BY DEF PausedFor
    <2>1. c \in Members(m) /\ row[m][c].status # "none"
      BY DEF Members
    <2>2. p.status \notin Active
      BY <1>1, <2>1 DEF PausedFor
    <2>3. ASSUME v \in Active, p.status # "paused"
          PROVE  FALSE
      <3>1. PICK b \in Members(m) : y[b].status \in OpenItem
        BY <1>3, <1>7, <2>3 DEF Active, OpenItem
      <3>2. row[m][b].status \in OpenItem /\ b \in Accounts
        BY <2>1, <3>1 DEF Members
      <3> QED BY <1>1, <2>2, <2>3, <3>2 DEF Resting, Active, OpenParty
    <2> QED BY <1>4, <2>2, <2>3 DEF Active
  <1> QED BY <1>8, <1>9 DEF P, S, p

\* A request about a party that decides by what is so, and that is in use, keeps the pause.
LEMMA RequestKeeps ==
    ASSUME OneDebtor, OnlyCasesResume, Inv, SeenInv, AskedFor, CaseInv, NEW w \in Workers,
           \/ Accept(w) \/ Approve(w) \/ Reject(w) \/ Cancel(w)
           \/ \E to \in MoveTo : Move(w, to)
           \/ Suspend(w) \/ Resume(w)
           \/ \E st \in {"done", "failed", "cancelled", "running"} : Record(w, st)
           \/ \E D \in SUBSET Accounts : Deliver(w, D)
           \/ Stop(w)
           \/ \E until \in {"none", "ahead"} : Hold(w, until)
           \/ Release(w)
    PROVE  CaseInv'
  <1> DEFINE m == job[w].measure
             a == job[w].account
             p == party[m]
             r == row[m]
  <1>1. job[w].op # "idle" /\ job' = [job EXCEPT ![w] = Idle] /\ acc' = acc
    BY DEF Accept, Approve, Reject, Cancel, Move, Suspend, Resume, Record, Deliver, Stop, Hold, Release, Loaded
  <1>2. /\ m \in Measures /\ p \in Party /\ r \in [Accounts -> Row]
        /\ party \in [Measures -> Party] /\ row \in [Measures -> [Accounts -> Row]]
        /\ job \in [Workers -> Job]
        /\ Current(job[w], p, r) /\ p.status # "none"
    BY <1>1, RequestKnows DEF Inv, TypeOK, SeenInv
  <1>3. ASSUME NEW x, NEW y, party' = [party EXCEPT ![m] = x], row' = [row EXCEPT ![m] = y],
               Calls(m) => Resting(x, y) /\ PausedFor(x, y, acc)
        PROVE  CaseInv'
    <2>1. \A k \in Measures : \/ k = m /\ party'[k] = x /\ row'[k] = y
                              \/ party'[k] = party[k] /\ row'[k] = row[k]
      BY <1>2, <1>3
    <2>2. \A k \in Measures : Calls(k) => Resting(party'[k], row'[k]) /\ PausedFor(party'[k], row'[k], acc')
      BY <1>1, <1>3, <2>1 DEF CaseInv
    <2>3. \A v \in Workers : job'[v].op \in Ops \cup {"idle"}
      BY <1>1, <1>2 DEF CaseInv, Idle
    <2>4. OneCase(acc')
      BY <1>1 DEF CaseInv
    <2> QED BY <2>2, <2>3, <2>4 DEF CaseInv
  <1>4. Calls(m) => Resting(p, r) /\ PausedFor(p, r, acc)
    BY <1>2 DEF CaseInv
  <1>5. party = [party EXCEPT ![m] = p] /\ row = [row EXCEPT ![m] = r]
    BY <1>2
  <1>6. ASSUME Accept(w) \/ Suspend(w) \/ Resume(w) \/ Cancel(w)
        PROVE  CaseInv'
    <2>1. Kind[m] = "disconnect"
      BY <1>6 DEF Accept, Suspend, Resume, Cancel
    <2>2. ~Calls(m)
      BY <2>1 DEF Calls
    <2>3. PICK x, y : party' = [party EXCEPT ![m] = x] /\ row' = [row EXCEPT ![m] = y]
      BY <1>6 DEF Accept, Suspend, Resume, Cancel, MarkRows
    <2> QED BY <1>3, <2>2, <2>3
  <1>7. ASSUME Approve(w)
        PROVE  CaseInv'
    <2> DEFINE x == [p EXCEPT !.approval = "approved"]
    <2>1. party' = [party EXCEPT ![m] = x] /\ row' = row
      BY <1>7 DEF Approve
    <2>2. x.status = p.status /\ x.until = p.until
      BY <1>2 DEF Party
    <2> HIDE DEF x, p, r, m
    <2>3. Calls(m) => Resting(x, r) /\ PausedFor(x, r, acc)
      BY <1>4, <2>2 DEF Resting, PausedFor
    <2> QED BY <1>3, <1>5, <2>1, <2>3
  <1>8. ASSUME Reject(w)
        PROVE  CaseInv'
    <2> DEFINE x == [p EXCEPT !.approval = "rejected", !.status = "cancelled"]
               y == [b \in Accounts |-> IF r[b].status \in ItemStatus \ {"done"}
                                        THEN [r[b] EXCEPT !.status = "cancelled"] ELSE r[b]]
    <2>1. party' = [party EXCEPT ![m] = x] /\ row' = [row EXCEPT ![m] = y]
      BY <1>8 DEF Reject, MarkRows
    <2>2. x.status = "cancelled" /\ x.until = p.until
      BY <1>2 DEF Party
    <2>3. \A b \in Accounts : y[b].status \notin OpenItem
      BY <1>2 DEF Row, OpenItem, ItemStatus
    <2> HIDE DEF x, y, p, r, m
    <2>4. Calls(m) => Resting(x, y) /\ PausedFor(x, y, acc)
      BY <1>4, <2>2, <2>3 DEF Resting, PausedFor, Active
    <2> QED BY <1>3, <2>1, <2>4
  <1>9. ASSUME NEW to \in MoveTo, Move(w, to)
        PROVE  CaseInv'
    <2> DEFINE x == [p EXCEPT !.status = to]
               y == [b \in Accounts |-> IF r[b].status \in ItemStatus
                                        THEN [r[b] EXCEPT !.status = to] ELSE r[b]]
    <2>1. /\ party' = [party EXCEPT ![m] = x]
          /\ \/ to \in ItemStatus /\ row' = [row EXCEPT ![m] = y]
             \/ to \notin ItemStatus /\ row' = row
      BY <1>9 DEF Move, MarkRows
    <2>2. x.status = to /\ x.until = p.until
      BY <1>2 DEF Party
    <2>3. \A b \in Accounts : y[b].status \in {"none", to}
      BY <1>2 DEF Row
    <2>4. to \notin Active /\ to \in PartyStatus
      BY PartyAssumption DEF OnlyCasesResume, PartyAssumption
    <2> HIDE DEF x, y, p, r, m
    <2>5. ASSUME Calls(m), NEW z, z = y \/ (z = r /\ to \notin ItemStatus)
          PROVE  Resting(x, z) /\ PausedFor(x, z, acc)
      <3>1. Resting(x, z)
        BY <1>4, <2>2, <2>3, <2>4, <2>5 DEF Resting, PartyStatus, Active, OpenItem, OpenParty
      <3>2. PausedFor(x, z, acc)
        BY <2>2, <2>4 DEF PausedFor
      <3> QED BY <3>1, <3>2
    <2> QED BY <1>3, <1>5, <2>1, <2>5
  <1>10. ASSUME NEW st \in {"done", "failed", "cancelled", "running"}, Record(w, st)
         PROVE  CaseInv'
    <2> DEFINE y == [r EXCEPT ![a] = [Saved(job[w].item, r[a]) EXCEPT !.status = st]]
               S == {y[b].status : b \in Members(m)}
               R == Rollup(party, m, p.status, TRUE, S)
    <2>1. /\ job[w].op = "record" /\ row' = [row EXCEPT ![m] = y]
          /\ acc[a].case # "no" /\ Kind[m] \in AutoKinds => st = "cancelled"
          /\ party' = Rollup(party, m, job[w].seen.status, TRUE, {row'[m][b].status : b \in Members(m)})
      BY <1>10 DEF Record, Loaded
    <2>2. row'[m] = y
      BY <1>2, <2>1
    <2>3. party' = R
      <3>1. job[w].seen.status = p.status
        BY <1>2 DEF Current
      <3> HIDE DEF y
      <3>2. {row'[m][b].status : b \in Members(m)} = S
        BY <2>2
      <3> QED BY <2>1, <3>1, <3>2
    <2>4. a \in Members(m) /\ a \in Accounts /\ job[w].item \in Row
      <3>1. JobOK(job[w])
        BY DEF Inv, JobInv
      <3> QED BY <1>2, <2>1, <3>1 DEF Current, JobOK, Members
    <2>5. y[a].status = st /\ \A b \in Accounts : b # a => y[b] = r[b]
      BY <1>2, <2>4 DEF Saved, Row
    <2>6. R = [party EXCEPT ![m] = R[m]]
      <3> DEFINE yes == TRUE
      <3>0. R = Rollup(party, m, p.status, yes, S)
        OBVIOUS
      <3> HIDE DEF S, R, m, yes
      <3>1. R \in [Measures -> Party] /\ \A k \in Measures : k # m => R[k] = party[k]
        BY <1>2, <3>0, RollupWrites
      <3> QED BY <1>2, <3>1
    <2> HIDE DEF R, S, y
    <2>7. ASSUME Calls(m)
          PROVE  Resting(R[m], y) /\ PausedFor(R[m], y, acc)
      <3>1. \A b \in Accounts : y[b].status # "none" <=> b \in Members(m)
        BY <2>4, <2>5 DEF Members
      <3>2. ASSUME NEW b \in Members(m), NEW c \in Members(m), acc[c].case # "no", y[b].status \in OpenItem
            PROVE  row[m][b].status \in OpenItem
        <4>1. acc[a].case # "no"
          <5>1. Debtor[a] = Debtor[c] /\ c \in Accounts
            BY <1>2, <2>4, OneDebtorParty DEF Members
          <5> QED BY <2>4, <3>2, <5>1 DEF CaseInv, OneCase
        <4>2. st = "cancelled"
          BY <2>1, <2>7, <4>1 DEF Calls, AutoKinds
        <4>3. b # a /\ b \in Accounts
          BY <2>5, <3>2, <4>2 DEF OpenItem, Members
        <4> QED BY <2>5, <3>2, <4>3
      <3> HIDE DEF m
      <3> QED BY <1>2, <2>7, <3>1, <3>2, RollupKeeps DEF R, S
    <2> HIDE DEF p, r, m
    <2> QED BY <1>3, <2>1, <2>3, <2>6, <2>7
  <1>11. ASSUME NEW D \in SUBSET Accounts, Deliver(w, D)
         PROVE  CaseInv'
    <2> DEFINE y == [b \in Accounts |-> IF b \in D /\ r[b].status \in OpenItem
                                        THEN [r[b] EXCEPT !.status = "done", !.served = "waiting"]
                                        ELSE r[b]]
               S == {y[b].status : b \in Members(m)}
               R == Rollup(party, m, p.status, TRUE, S)
    <2>1. /\ row' = [row EXCEPT ![m] = y]
          /\ party' = Rollup(party, m, job[w].seen.status, TRUE, {row'[m][b].status : b \in Members(m)})
      BY <1>11 DEF Deliver
    <2>2. row'[m] = y
      BY <1>2, <2>1
    <2>3. party' = R
      <3>1. job[w].seen.status = p.status
        BY <1>2 DEF Current
      <3> HIDE DEF y
      <3>2. {row'[m][b].status : b \in Members(m)} = S
        BY <2>2
      <3> QED BY <2>1, <3>1, <3>2
    <2>4. \A b \in Accounts : y[b] = r[b] \/ (y[b].status = "done" /\ r[b].status \in OpenItem)
      BY <1>2 DEF Row
    <2>5. R = [party EXCEPT ![m] = R[m]]
      <3> DEFINE yes == TRUE
      <3>0. R = Rollup(party, m, p.status, yes, S)
        OBVIOUS
      <3> HIDE DEF S, R, m, yes
      <3>1. R \in [Measures -> Party] /\ \A k \in Measures : k # m => R[k] = party[k]
        BY <1>2, <3>0, RollupWrites
      <3> QED BY <1>2, <3>1
    <2> HIDE DEF R, S, y
    <2>6. ASSUME Calls(m)
          PROVE  Resting(R[m], y) /\ PausedFor(R[m], y, acc)
      <3>1. \A b \in Accounts : y[b].status # "none" <=> b \in Members(m)
        BY <2>4 DEF Members, OpenItem
      <3>2. \A b \in Members(m) : y[b].status \in OpenItem => row[m][b].status \in OpenItem
        BY <2>4 DEF Members, OpenItem
      <3> HIDE DEF m
      <3> QED BY <1>2, <2>6, <3>1, <3>2, RollupKeeps DEF R, S
    <2> HIDE DEF p, r, m
    <2> QED BY <1>3, <2>1, <2>3, <2>5, <2>6
  <1>12. ASSUME NEW until \in {"none", "ahead"}, Hold(w, until)
         PROVE  CaseInv'
    <2> DEFINE x == [p EXCEPT !.status = "paused", !.stopped = TRUE, !.until = until, !.reason = "user"]
    <2>1. party' = [party EXCEPT ![m] = x] /\ row' = row
      BY <1>12 DEF Hold
    <2>2. x.status = "paused" /\ x.until = until
      BY <1>2 DEF Party
    <2> HIDE DEF x, p, r, m
    <2>3. Resting(x, r) /\ PausedFor(x, r, acc)
      BY <2>2 DEF Resting, PausedFor, Active, OpenParty
    <2> QED BY <1>3, <1>5, <2>1, <2>3
  <1>13. ASSUME Release(w) \/ Stop(w)
         PROVE  FALSE
    <2>1. job[w].op \in {"release", "stop"}
      BY <1>13 DEF Release, Stop, Loaded
    <2> QED BY <1>1, <2>1 DEF OnlyCasesResume, CaseInv
  <1> QED
    BY <1>6, <1>7, <1>8, <1>9, <1>10, <1>11, <1>12, <1>13

\* A launch starts no warning and no call in a case, and ends those that are over.
LEMMA LaunchKeeps ==
    ASSUME OneDebtor, AskedFor, Inv, CaseInv,
           NEW w \in Workers, NEW m \in Measures, NEW forced \in BOOLEAN, Launch(w, m, forced)
    PROVE  CaseInv'
  <1> DEFINE Over   == {a \in Candidates[m] : acc[a].case = "over"}
             Freed  == UNION {Peers(a) : a \in Over}
             A      == NoCase(acc, Freed)
             P      == IF Over = {} THEN party ELSE ResumeAuto(party, Freed)
             chosen == {a \in Candidates[m] : Admits(m, a, A, forced)}
             x == [NoParty EXCEPT !.status = "assigned", !.forced = forced,
                                  !.approval = IF m \in NeedsApproval THEN "pending" ELSE ""]
             y == [a \in Accounts |-> IF a \in chosen THEN [NoRow EXCEPT !.status = "assigned"] ELSE NoRow]
  <1>1. /\ acc' = A /\ job' = job
        /\ \/ party' = P /\ row' = row
           \/ party' = [P EXCEPT ![m] = x] /\ row' = [row EXCEPT ![m] = y]
    BY DEF Launch
  <1>2. /\ acc \in [Accounts -> Account] /\ party \in [Measures -> Party]
        /\ row \in [Measures -> [Accounts -> Row]] /\ OneCase(acc)
    BY DEF Inv, TypeOK, CaseInv
  <1>3. x.status = "assigned" /\ x.until = "none"
    BY DEF NoParty
  <1>4. \A a \in Accounts : Calls(m) /\ y[a].status # "none" => A[a].case = "no"
    <2>1. \A a \in chosen : Calls(m) => A[a].case = "no"
      BY DEF Admits, Calls
    <2> HIDE DEF chosen
    <2> QED BY <2>1 DEF NoRow
  <1>5. Debtors(Freed)
    BY PeersAreDebtors DEF Debtors, Peers
  <1> HIDE DEF x, y, chosen, Freed
  <1>6. OneCase(A)
    BY <1>2, <1>5, NoCaseIsOne
  <1>7. \A k \in Measures : Calls(k) => Resting(P[k], row[k]) /\ PausedFor(P[k], row[k], A)
    <2>1. CASE Over = {}
      <3>1. Freed = {}
        BY <2>1 DEF Freed
      <3>2. A = acc
        BY <1>2, <3>1 DEF NoCase
      <3>3. P = party
        BY <2>1
      <3> HIDE DEF A, P
      <3> QED BY <3>2, <3>3 DEF CaseInv
    <2>2. CASE Over # {}
      <3>1. P = ResumeAuto(party, Freed)
        BY <2>2
      <3> HIDE DEF P, Over
      <3>2. ASSUME NEW k \in Measures, Calls(k)
            PROVE  Resting(P[k], row[k]) /\ PausedFor(P[k], row[k], A)
        <4>1. Resting(party[k], row[k]) /\ PausedFor(party[k], row[k], acc)
          BY <3>2 DEF CaseInv
        <4> QED BY <1>2, <1>5, <3>1, <4>1, ResumeKeeps
      <3> QED BY <3>2
    <2> QED BY <2>1, <2>2
  <1>8. P \in [Measures -> Party]
    BY <1>2, ResumeIsGentle DEF Gentle
  <1> HIDE DEF A, P
  <1>9. Calls(m) => Resting(x, y) /\ PausedFor(x, y, A)
    BY <1>3, <1>4 DEF Resting, PausedFor, OpenParty
  <1>10. \A k \in Measures : Calls(k) => Resting(party'[k], row'[k]) /\ PausedFor(party'[k], row'[k], acc')
    <2>1. CASE party' = P /\ row' = row
      BY <1>1, <1>7, <2>1
    <2>2. CASE party' = [P EXCEPT ![m] = x] /\ row' = [row EXCEPT ![m] = y]
      <3>1. \A k \in Measures : \/ k = m /\ party'[k] = x /\ row'[k] = y
                                \/ party'[k] = P[k] /\ row'[k] = row[k]
        BY <1>2, <1>8, <2>2
      <3> QED BY <1>1, <1>7, <1>9, <3>1
    <2> QED BY <1>1, <2>1, <2>2
  <1>11. OneCase(acc')
    BY <1>1, <1>6
  <1> QED BY <1>1, <1>10, <1>11 DEF CaseInv

\* sync_inheritance: the card opens a case and pauses, closes it and resumes.
LEMMA CardKeeps ==
    ASSUME OneDebtor, AskedFor, Inv, CaseInv, NEW w \in Workers, NEW a \in Accounts,
           OpenCase(w, a) \/ CloseCase(w, a)
    PROVE  CaseInv'
  <1>1. /\ acc \in [Accounts -> Account] /\ party \in [Measures -> Party] /\ OneCase(acc)
        /\ \A k \in Measures : Calls(k) => Resting(party[k], row[k]) /\ PausedFor(party[k], row[k], acc)
        /\ \A v \in Workers : job[v].op \in Ops \cup {"idle"}
    BY DEF Inv, TypeOK, CaseInv
  <1>2. row' = row /\ job' = job
    BY DEF OpenCase, CloseCase
  <1>3. CASE CloseCase(w, a)
    <2>1. acc' = NoCase(acc, Peers(a)) /\ party' = ResumeAuto(party, Peers(a))
      BY <1>3 DEF CloseCase
    <2>2. OneCase(acc')
      BY <1>1, <2>1, PeersAreDebtors, NoCaseIsOne
    <2>3. ASSUME NEW k \in Measures, Calls(k)
          PROVE  Resting(party'[k], row[k]) /\ PausedFor(party'[k], row[k], acc')
      <3>1. Resting(party[k], row[k]) /\ PausedFor(party[k], row[k], acc)
        BY <1>1, <2>3
      <3> QED BY <1>1, <2>1, <3>1, PeersAreDebtors, ResumeKeeps
    <2> QED BY <1>1, <1>2, <2>2, <2>3 DEF CaseInv
  <1>4. CASE OpenCase(w, a)
    <2>1. /\ acc' = [b \in Accounts |-> IF b \in Peers(a) THEN [acc[b] EXCEPT !.case = "open"] ELSE acc[b]]
          /\ party' = IF acc[a].case = "no" THEN PauseAuto(party, Peers(a)) ELSE party
      BY <1>4 DEF OpenCase
    <2>2. \A b \in Accounts : /\ acc'[b].case = IF b \in Peers(a) THEN "open" ELSE acc[b].case
                              /\ acc'[b].debt = acc[b].debt
      BY <1>1, <2>1 DEF Account
    <2>3. \A b, c \in Accounts : Debtor[b] = Debtor[c] => (b \in Peers(a) <=> c \in Peers(a))
      BY DEF Peers
    <2>4. OneCase(acc')
      BY <1>1, <2>2, <2>3 DEF OneCase
    <2>5. ASSUME NEW k \in Measures, Calls(k)
          PROVE  Resting(party'[k], row[k]) /\ PausedFor(party'[k], row[k], acc')
      <3>1. Resting(party[k], row[k]) /\ PausedFor(party[k], row[k], acc) /\ party[k] \in Party
        BY <1>1, <2>5
      <3>2. CASE acc[a].case = "no"
        <4>1. party'[k] = IF Automatic(k, Peers(a)) /\ party[k].status \in Active
                          THEN Moved(party[k], "paused") ELSE party[k]
          BY <2>1, <3>2 DEF PauseAuto, Moved
        <4>2. Moved(party[k], "paused").status = "paused" /\ Moved(party[k], "paused").until = party[k].until
          BY <3>1 DEF Moved, Party
        <4>3. Resting(party'[k], row[k])
          BY <3>1, <4>1, <4>2 DEF Resting, OpenParty
        <4>4. ASSUME NEW b \in Accounts, row[k][b].status # "none", acc'[b].case # "no", party'[k].status \in Active
              PROVE  FALSE
          <5>1. party'[k] = party[k] /\ ~Automatic(k, Peers(a))
            BY <4>1, <4>2, <4>4 DEF Active
          <5>2. b \notin Peers(a)
            BY <2>5, <4>4, <5>1 DEF Automatic, Members, Calls, AutoKinds
          <5> QED BY <2>2, <3>1, <4>4, <5>1, <5>2 DEF PausedFor
        <4> QED BY <4>3, <4>4 DEF PausedFor
      <3>3. CASE acc[a].case # "no"
        <4>1. \A b \in Peers(a) : b \in Accounts /\ acc[b].case # "no"
          BY <1>1, <3>3 DEF Peers, OneCase
        <4>2. party'[k] = party[k]
          BY <2>1, <3>3
        <4> QED BY <2>2, <3>1, <4>1, <4>2 DEF PausedFor
      <3> QED BY <3>2, <3>3
    <2> QED BY <1>1, <1>2, <2>4, <2>5 DEF CaseInv
  <1> QED BY <1>3, <1>4

\* Days pass, a payer dies, a newcomer is registered: no party and no status of a row changes.
LEMMA WorldKeeps ==
    ASSUME OnlyCasesResume, Inv, CaseInv, World
    PROVE  CaseInv'
  <1>1. acc \in [Accounts -> Account] /\ OneCase(acc)
    BY DEF Inv, TypeOK, CaseInv
  <1>2. job' = job /\ \A k \in Measures, b \in Accounts : row'[k][b].status = row[k][b].status
    BY WorldLeaves DEF Waits
  <1>3. party' = party
    BY DEF World, PayerDies, NewPayer, DebtMoves, CaseRunsOut, HoldRunsOut, TermRunsOut, OnlyCasesResume
  <1>4. /\ \A b \in Accounts : acc'[b].case = "no" <=> acc[b].case = "no"
        /\ OneCase(acc')
    <2>1. ASSUME NEW a \in Accounts, PayerDies(a) \/ NewPayer(a)
          PROVE  \A b \in Accounts : acc'[b].case = acc[b].case /\ acc'[b].debt = acc[b].debt
      <3>1. PICK st : acc' = [acc EXCEPT ![a].payer = st]
        BY <2>1 DEF PayerDies, NewPayer
      <3> QED BY <1>1, <3>1 DEF Account
    <2>2. ASSUME NEW a \in Accounts, CaseRunsOut(a)
          PROVE  \A b \in Accounts : /\ acc'[b].case = IF b \in Peers(a) /\ acc[b].case = "open"
                                                       THEN "over" ELSE acc[b].case
                                     /\ acc'[b].debt = acc[b].debt
      BY <1>1, <2>2 DEF CaseRunsOut, Account
    <2>3. ASSUME NEW a \in Accounts, DebtMoves(a)
          PROVE  FALSE
      BY <2>3 DEF DebtMoves, OnlyCasesResume
    <2>4. ASSUME NEW m \in Measures, HoldRunsOut(m) \/ \E a \in Accounts : TermRunsOut(m, a)
          PROVE  acc' = acc
      BY <2>4 DEF HoldRunsOut, TermRunsOut
    <2>5. \A a, b, c \in Accounts : Debtor[b] = Debtor[c] => (b \in Peers(a) <=> c \in Peers(a))
      BY DEF Peers
    <2>6. CASE \E a \in Accounts : PayerDies(a) \/ NewPayer(a)
      BY <1>1, <2>1, <2>6 DEF OneCase
    <2>7. CASE \E a \in Accounts : CaseRunsOut(a)
      <3>1. PICK a \in Accounts : CaseRunsOut(a)
        BY <2>7
      <3> QED BY <1>1, <2>2, <2>5, <3>1 DEF OneCase
    <2> QED BY <1>1, <2>3, <2>4, <2>6, <2>7 DEF World
  <1>5. ASSUME NEW k \in Measures, Calls(k)
        PROVE  Resting(party'[k], row'[k]) /\ PausedFor(party'[k], row'[k], acc')
    <2>1. Resting(party[k], row[k]) /\ PausedFor(party[k], row[k], acc)
      BY <1>5 DEF CaseInv
    <2> QED BY <1>2, <1>3, <1>4, <2>1 DEF Resting, PausedFor
  <1> QED BY <1>2, <1>4, <1>5 DEF CaseInv

LEMMA CaseStep ==
    ASSUME OneDebtor, OnlyCasesResume, Inv, SeenInv, AskedFor, CaseInv, [Next]_vars
    PROVE  CaseInv'
  <1>1. ASSUME NEW w \in Workers, Request(w)
        PROVE  CaseInv'
    <2>1. ASSUME NEW op \in PartyOps, NEW m \in Measures, NEW a \in Accounts \cup {None}, Load(w, op, m, a)
          PROVE  CaseInv'
      <3>1. PICK i : job' = [job EXCEPT ![w] = [op |-> op, measure |-> m, account |-> a, seen |-> party[m], item |-> i]]
        BY <2>1 DEF Load
      <3>2. party' = party /\ row' = row /\ acc' = acc /\ op \in Ops
        BY <2>1 DEF Load
      <3>3. \A v \in Workers : job'[v].op \in Ops \cup {"idle"}
        BY <3>1, <3>2 DEF CaseInv, Inv, TypeOK
      <3> QED BY <3>2, <3>3 DEF CaseInv
    <2>2. ASSUME Refuse(w)
          PROVE  CaseInv'
      <3>1. \A v \in Workers : job'[v].op \in Ops \cup {"idle"}
        BY <2>2 DEF Refuse, CaseInv, Inv, TypeOK, Idle
      <3> QED BY <2>2, <3>1 DEF Refuse, CaseInv
    <2>3. ASSUME NEW a \in Accounts, Refresh(w, a)
          PROVE  CaseInv'
      <3>1. RefreshFrom(acc, a) /\ job' = job
        BY <2>3 DEF Refresh
      <3> QED BY <3>1, RefreshKeeps DEF CaseInv
    <2>4. ASSUME NEW a \in Accounts, ImportHeir(w, a)
          PROVE  FALSE
      BY <2>4 DEF ImportHeir, OnlyCasesResume
    <2> QED
      BY <1>1, <2>1, <2>2, <2>3, <2>4, RequestKeeps, LaunchKeeps, CardKeeps DEF Request
  <1>2. CASE UNCHANGED vars
    BY <1>2 DEF vars, CaseInv
  <1> QED
    BY <1>1, <1>2, WorldKeeps DEF Next

(***************************************************************************)
(* An inheritance case keeps the warnings and calls of the debtor paused,  *)
(* for any number of debtors, of their accounts and of parties, whatever   *)
(* cases are opened, closed and run out, whoever dies or is registered,    *)
(* whatever is recounted, launched, delivered, recorded, held, moved away  *)
(* and cancelled: when requests follow one another, a party has accounts   *)
(* of one debtor, and nothing in use assigns a paused party but the end of *)
(* the case.                                                               *)
(***************************************************************************)
THEOREM CasePauses ==
    ASSUME OneAtATime, OneDebtor, OnlyCasesResume
    PROVE  Spec => []CaseKeepsPaused
  <1> DEFINE I == Inv /\ SeenInv /\ AskedFor /\ CaseInv
  <1>1. Init => I
    <2>1. ASSUME Init PROVE AskedFor /\ CaseInv
      <3>1. /\ \A a \in Accounts : acc[a].case = "no" /\ acc[a].debt = "due"
            /\ \A k \in Measures : party[k].until = "none"
            /\ \A k \in Measures, a \in Accounts : row[k][a].status = "none"
            /\ \A w \in Workers : job[w].op = "idle"
        BY <2>1 DEF Init, NoParty, NoRow, Idle
      <3> QED BY <3>1 DEF AskedFor, CaseInv, OneCase, Resting, PausedFor, OpenItem
    <2> QED BY <2>1, InitInv, InitSeen
  <1>2. I /\ [Next]_vars => I'
    BY StepInv, SeenStep, AskedStep, CaseStep
  <1>3. I => CaseKeepsPaused
    BY DEF CaseInv, PausedFor, Calls, Members, CaseKeepsPaused
  <1> QED
    BY <1>1, <1>2, <1>3, PTL DEF Spec

===============================================================================
