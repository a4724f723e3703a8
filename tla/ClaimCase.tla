------------------------------- MODULE ClaimCase ------------------------------
(***************************************************************************)
(* The cases of one account in the collection of its debt:                 *)
(* debts/services/claims.py (stages, acts, the route of a write-off),      *)
(* writ_draft.py (a case for a period of the debt), pris_submit.py (the    *)
(* enforcement system PRIS), claim_measures.py and funnel.py (the measure  *)
(* and the column of the account, which follow the case).                  *)
(*                                                                         *)
(* A request is one step, save the answer of PRIS that is lost on the way. *)
(* What the package of a case must have before the notary gets it is in    *)
(* WritPackage; here the delivery of the warning stands for it.            *)
(***************************************************************************)
EXTENDS FiniteSets, Naturals

CONSTANTS
    NCases,     \* bound: cases an account gets
    Approvers,  \* active users of the organization who may be asked
    Presented,  \* the dates of the account's presented debt periods, within Dates
    MaxDate,    \* bound: dates a period may start or end at
    Targets,    \* bound: the stages and columns a user moves a case or a card to
    Live,       \* GW_PRIS_MODE is http or channel, not stub
    Ops         \* the operations in use

Operations ==
    {"open", "writ", "edit", "move", "notary", "act", "opi", "receipt", "writeoff", "submit",
     "refresh", "repay", "lost", "drag", "promote", "hand", "paid"}

Stages == {"prep", "notary", "writ_done", "refused", "lawsuit", "court", "opi", "opi_measures",
           "recovered", "impossible", "writeoff"}

\* MAIN: the columns in the order of their rank
Main == <<"new", "call", "notice", "disconnect", "prep", "notary", "writ_done", "refused", "lawsuit",
          "judgment", "opi", "opi_measures", "recovered", "impossible", "writeoff">>

Columns == {Main[i] : i \in DOMAIN Main}

Rank(column) == CHOOSE i \in DOMAIN Main : Main[i] = column

ASSUME ClaimAssumption ==
    /\ NCases \in Nat /\ MaxDate \in Nat
    /\ Presented \subseteq 1..MaxDate
    /\ Targets \subseteq Stages \cup Columns
    /\ Live \in BOOLEAN
    /\ Ops \subseteq Operations

VARIABLES
    case,   \* ClaimCase and the number of its acts
    votes,  \* ClaimApproval: the decision of each approver, "out" if not asked
    acc,    \* Account.funnel_stage, the collection measure, a warning handed by other means
    pris    \* what PRIS has of a case: debts received, its proceeding

vars == <<case, votes, acc, pris>>

Cases == 1..NCases
Dates == 1..MaxDate

NeededActs == 3

\* from = 0: a case that was opened without a period.  mode: opi_mode; cl: pris_cl_num is
\* written; accepted: pris_process_status is of an accepted debt; opi: no proceeding's number,
\* the one PRIS has for the debt, or another, which only a user can write.
Numbers == {"none", "own", "other"}

Case == [stage: Stages \cup {"none"}, from: 0..MaxDate, to: 0..MaxDate, warned: BOOLEAN,
         acts: 0..NeededActs, receipt: BOOLEAN, wo: {"none", "pending", "approved", "rejected"},
         opi: Numbers, mode: {"none", "manual", "stub", "pris"}, cl: BOOLEAN, accepted: BOOLEAN]

NoCase == [stage |-> "none", from |-> 0, to |-> 0, warned |-> FALSE, acts |-> 0, receipt |-> FALSE,
           wo |-> "none", opi |-> "none", mode |-> "none", cl |-> FALSE, accepted |-> FALSE]

TypeOK ==
    /\ case \in [Cases -> Case]
    /\ votes \in [Cases -> [Approvers -> {"out", "pending", "yes", "no"}]]
    /\ acc \in [col: Columns, measure: {"none", "assigned", "running", "done"}, handed: BOOLEAN]
    /\ pris \in [Cases -> [debts: 0..2, proceeding: {"none", "open", "acting"}]]

Init ==
    /\ case  = [c \in Cases |-> NoCase]
    /\ votes = [c \in Cases |-> [u \in Approvers |-> "out"]]
    /\ acc   = [col |-> "new", measure |-> "none", handed |-> FALSE]
    /\ pris  = [c \in Cases |-> [debts |-> 0, proceeding |-> "none"]]

Open(c) == case[c].stage # "none"

-----------------------------------------------------------------------------
(* The measure and the column *)

\* STAGE_STATUS
MeasureStatus(stage) ==
    CASE stage = "prep" -> "assigned"
      [] stage \in {"recovered", "writeoff"} -> "done"
      [] OTHER -> "running"

\* Mutant: the column is given the claim's own code of the stage.
ColumnAsStage(stage) == stage

\* CLAIM_STAGE
Column(stage) == IF stage = "court" THEN "judgment" ELSE stage

\* sync_claim_measure
SyncMeasure(stage) == acc' = [acc EXCEPT !.measure = MeasureStatus(stage)]

Gated == {"disconnect", "notary"}

\* warning_handed
Handed == acc.handed \/ \E c \in Cases : case[c].warned

\* Mutant: the gate is asked of the disconnection only.
GateOfDisconnection(column) == column = "disconnect" => Handed

\* assert_transition
MayEnter(column) == column \in Gated => Handed

\* set_stage with check, when a card is dragged to another column
DragCard(column) ==
    /\ "drag" \in Ops /\ column \in Targets \ {acc.col} /\ MayEnter(column)
    /\ acc' = [acc EXCEPT !.col = column]
    /\ UNCHANGED <<case, votes, pris>>

\* promote: a measure that starts pulls the card forward, never back.
Promote(column) ==
    /\ "promote" \in Ops /\ column # acc.col
    /\ Rank(column) >= Rank(acc.col) /\ MayEnter(column)
    /\ acc' = [acc EXCEPT !.col = column]
    /\ UNCHANGED <<case, votes, pris>>

\* A measure's row or an activity gets the date the warning was handed on.
HandWarning ==
    /\ "hand" \in Ops /\ ~acc.handed
    /\ acc' = [acc EXCEPT !.handed = TRUE]
    /\ UNCHANGED <<case, votes, pris>>

\* settle_paid
SettlePaid ==
    /\ "paid" \in Ops /\ acc.col \notin {"new", "recovered", "impossible", "writeoff"}
    /\ acc' = [acc EXCEPT !.col = "recovered"]
    /\ UNCHANGED <<case, votes, pris>>

-----------------------------------------------------------------------------
(* A case begins *)

Free(c) == ~Open(c) /\ \A b \in 1..(c - 1) : Open(b)

\* open_case, for an account with no case; with one only its measure is brought up to date.
OpenCase ==
    /\ "open" \in Ops /\ Cases # {}
    /\ IF Open(1) THEN SyncMeasure(case[1].stage) /\ UNCHANGED case
       ELSE /\ case' = [case EXCEPT ![1].stage = "prep"]
            /\ SyncMeasure("prep")
    /\ UNCHANGED <<votes, pris>>

\* Mutant: periods that meet at one date are let through.
OverlapsInside(from, to, c) == case[c].from # 0 /\ from < case[c].to /\ case[c].from < to

\* _overlaps, with the period of a writ
Overlaps(from, to, c) == case[c].from # 0 /\ from <= case[c].to /\ case[c].from <= to

\* create_writ: two presented periods or more and the date of the warning, or of the act that
\* it could not be delivered.
CreateWrit(c, from, to, warned) ==
    /\ "writ" \in Ops /\ Free(c)
    /\ from <= to /\ Cardinality(Presented \cap from..to) >= 2
    /\ \A b \in Cases : ~Overlaps(from, to, b)
    /\ case' = [case EXCEPT ![c] = [NoCase EXCEPT !.stage = "prep", !.from = from, !.to = to, !.warned = warned]]
    /\ SyncMeasure("prep")
    /\ UNCHANGED <<votes, pris>>

\* update_case: the delivery date among the fields of the card
UpdateCase(c, warned) ==
    /\ "edit" \in Ops /\ Open(c)
    /\ case' = [case EXCEPT ![c].warned = warned]
    /\ SyncMeasure(case[c].stage)
    /\ UNCHANGED <<votes, pris>>

-----------------------------------------------------------------------------
(* Its stages *)

\* Mutant: a write-off asks for the acts alone.
GuardWithoutApproval(k, stage) ==
    /\ stage = "notary" => k.warned
    /\ stage = "impossible" => k.acts >= 1
    /\ stage = "writeoff" => k.acts >= NeededActs
    /\ stage = "recovered" => k.receipt

\* _guard.  A reason, where one is asked for, can always be given.
Guard(k, stage) ==
    /\ stage = "notary" => k.warned
    /\ stage = "impossible" => k.acts >= 1
    /\ stage = "writeoff" => k.acts >= NeededActs /\ k.wo = "approved"
    /\ stage = "recovered" => k.receipt

\* move_case, for a case that is k and passes the guard
MoveCase(c, k, stage) ==
    /\ case' = [case EXCEPT ![c] = [k EXCEPT !.stage = stage]]
    /\ acc' = IF stage = k.stage THEN acc
              ELSE [acc EXCEPT !.col = Column(stage), !.measure = MeasureStatus(stage)]

\* The handler "move": any stage, past the next one too.
MoveByHand(c, stage) ==
    /\ "move" \in Ops /\ Open(c) /\ stage \in Targets \ {case[c].stage}
    /\ Guard(case[c], stage)
    /\ MoveCase(c, case[c], stage)
    /\ UNCHANGED <<votes, pris>>

\* notary_result: a refusal goes on to the preparation of a lawsuit.
NotaryResult(c) ==
    /\ "notary" \in Ops /\ case[c].stage = "notary"
    /\ MoveCase(c, case[c], "writ_done") \/ MoveCase(c, case[c], "lawsuit")
    /\ UNCHANGED <<votes, pris>>

\* add_act; acts past the three that count are left out.
AddAct(c) ==
    /\ "act" \in Ops /\ Open(c) /\ case[c].acts < NeededActs
    /\ case' = [case EXCEPT ![c].acts = @ + 1]
    /\ UNCHANGED <<votes, acc, pris>>

\* record_opi: the number may be empty, or a wrong one; the right one is known once it exists.
RecordOpi(c, number) ==
    /\ "opi" \in Ops /\ Open(c)
    /\ number = "own" => pris[c].proceeding # "none"
    /\ case' = [case EXCEPT ![c].opi = number, ![c].mode = "manual"]
    /\ UNCHANGED <<votes, acc, pris>>

\* apply_ais_receipt
ApplyReceipt(c) ==
    /\ "receipt" \in Ops /\ Open(c)
    /\ case' = [case EXCEPT ![c].receipt = TRUE]
    /\ UNCHANGED <<votes, acc, pris>>

-----------------------------------------------------------------------------
(* The route of a write-off *)

\* start_writeoff: the votes of an earlier route are deleted.
StartWriteoff(c, route) ==
    /\ "writeoff" \in Ops /\ case[c].stage = "impossible" /\ case[c].acts >= NeededActs
    /\ route # {}
    /\ votes' = [votes EXCEPT ![c] = [u \in Approvers |-> IF u \in route THEN "pending" ELSE "out"]]
    /\ case'  = [case EXCEPT ![c].wo = "pending"]
    /\ UNCHANGED <<acc, pris>>

\* Mutant: the route is at its end when nobody has refused.
NobodyRefused(c) == \A u \in Approvers : votes'[c][u] # "no"

AllAgreed(c) == \A u \in Approvers : votes'[c][u] \in {"yes", "out"}

\* decide_writeoff: a vote may be given again and at any stage; the last one that was missing
\* moves the case from wherever it stands.
Decide(c, u, decision) ==
    /\ "writeoff" \in Ops /\ votes[c][u] # "out"
    /\ votes' = [votes EXCEPT ![c][u] = decision]
    /\ IF decision = "no" THEN case' = [case EXCEPT ![c].wo = "rejected"] /\ UNCHANGED acc
       ELSE IF ~AllAgreed(c) THEN UNCHANGED <<case, acc>>
       ELSE MoveCase(c, [case[c] EXCEPT !.wo = "approved"], "writeoff")
    /\ UNCHANGED pris

-----------------------------------------------------------------------------
(* PRIS *)

SendStages == {"writ_done", "court", "opi"}

Received(c) == [pris EXCEPT ![c].debts = IF @ < 2 THEN @ + 1 ELSE @]

\* submit_pris: in stub mode the package is checked and goes nowhere, and counts as accepted.
Submit(c, accepted) ==
    /\ "submit" \in Ops /\ case[c].stage \in SendStages
    /\ ~(case[c].mode = "pris" /\ case[c].accepted)
    /\ Live \/ accepted
    /\ case' = [case EXCEPT ![c].mode = IF Live THEN "pris" ELSE "stub", ![c].cl = TRUE, ![c].accepted = accepted]
    /\ pris' = IF Live /\ accepted THEN Received(c) ELSE pris
    /\ UNCHANGED <<votes, acc>>

\* PRIS has taken the package and the gateway's answer does not arrive.
SubmitLost(c) ==
    /\ "lost" \in Ops /\ Live /\ case[c].stage \in SendStages
    /\ ~(case[c].mode = "pris" /\ case[c].accepted)
    /\ pris' = Received(c)
    /\ UNCHANGED <<case, votes, acc>>

\* Mutant: only a writ, not a court's decision, is moved on.
MovedOnFromWrit == {"writ_done"}

MovedOn == {"writ_done", "court"}

\* The stage after an answer with a proceeding, and with actions when it is "acting"
StageAfter(c, found) ==
    IF found = "acting" /\ case[c].stage \in MovedOn \cup {"opi"} THEN "opi_measures"
    ELSE IF case[c].stage \in MovedOn THEN "opi"
    ELSE case[c].stage

\* refresh_pris asks by the number of the case, whoever wrote it, and by that of the debt only
\* when there is none.
AsksOwn(c) == case[c].opi = "own" \/ (case[c].opi = "none" /\ case[c].cl)

\* refresh_pris with an answer that knows a proceeding
RefreshFound(c, found) ==
    /\ Live
    /\ (AsksOwn(c) /\ found = pris[c].proceeding) \/ case[c].opi = "other"
    /\ MoveCase(c, [case[c] EXCEPT !.opi = IF @ = "none" THEN "own" ELSE @, !.mode = "pris"], StageAfter(c, found))
    /\ UNCHANGED <<votes, pris>>

\* PRIS knows no proceeding of what it is asked about.
NotFound(c) == (AsksOwn(c) /\ pris[c].proceeding = "none") \/ case[c].opi = "other"

\* refresh_pris with an answer that has no number yet, or from the stub
RefreshEmpty(c) ==
    /\ NotFound(c)
    /\ case' = [case EXCEPT ![c].mode = IF Live THEN "pris" ELSE IF @ = "none" THEN "stub" ELSE @]
    /\ UNCHANGED <<votes, acc, pris>>

\* PRIS answers with nothing: ClaimBlocked, and the case is as it was.
RefreshBlocked(c) == Live /\ NotFound(c) /\ UNCHANGED vars

RefreshPris(c) ==
    \/ \E found \in {"open", "acting"} : RefreshFound(c, found)
    \/ RefreshEmpty(c) \/ RefreshBlocked(c)

\* The button, at any stage
Refresh(c) == "refresh" \in Ops /\ Open(c) /\ RefreshPris(c)

\* refresh_open_proceedings, run by "manage.py refresh_pris", comes to the case.
RefreshOpen(c) ==
    /\ "refresh" \in Ops /\ case[c].stage \in SendStages \cup {"opi_measures"}
    /\ RefreshPris(c)

\* repay_pris: the acceptance is that of the repayment from now on.
Repay(c, accepted) ==
    /\ "repay" \in Ops /\ case[c].cl
    /\ Live \/ accepted
    /\ case' = [case EXCEPT ![c].accepted = accepted,
                            ![c].mode = IF ~Live /\ @ = "none" THEN "stub" ELSE @]
    /\ UNCHANGED <<votes, acc, pris>>

\* The ministry opens a proceeding on a debt it has, and takes measures.
ProceedingGoesOn(c) ==
    /\ Live /\ pris[c].debts > 0 /\ pris[c].proceeding # "acting"
    /\ pris' = [pris EXCEPT ![c].proceeding = IF @ = "none" THEN "open" ELSE "acting"]
    /\ UNCHANGED <<case, votes, acc>>

-----------------------------------------------------------------------------

OfCase(c) ==
    \/ \E f, t \in Dates, w \in BOOLEAN : CreateWrit(c, f, t, w)
    \/ \E w \in BOOLEAN : UpdateCase(c, w)
    \/ \E s \in Stages : MoveByHand(c, s)
    \/ NotaryResult(c) \/ AddAct(c) \/ ApplyReceipt(c)
    \/ \E n \in Numbers : RecordOpi(c, n)
    \/ \E R \in SUBSET Approvers : StartWriteoff(c, R)
    \/ \E u \in Approvers, d \in {"yes", "no"} : Decide(c, u, d)
    \/ \E ok \in BOOLEAN : Submit(c, ok) \/ Repay(c, ok)
    \/ SubmitLost(c) \/ Refresh(c) \/ RefreshOpen(c) \/ ProceedingGoesOn(c)

Next ==
    \/ OpenCase \/ HandWarning \/ SettlePaid
    \/ \E col \in Columns : DragCard(col)
    \/ \E col \in {"call", "notice", "disconnect", "prep"} : Promote(col)
    \/ \E c \in Cases : OfCase(c)

Spec == Init /\ [][Next]_vars

\* The command is run again and again, and PRIS is not out of reach for ever.
Fairness == \A c \in Cases : WF_vars(RefreshOpen(c))

FairSpec == Spec /\ Fairness

-----------------------------------------------------------------------------
(* Properties *)

\* "Вторая надпись за тот же период не создаётся" (writ_draft.py:4): no date is in the periods
\* of two cases, in whatever order the writs were made.
PeriodsDisjoint ==
    \A a, b \in Cases : a # b /\ case[a].from # 0 /\ case[b].from # 0 =>
        case[a].from..case[a].to \cap case[b].from..case[b].to = {}

\* The card enters the columns of the disconnection and of the notary only after a warning was
\* handed, along either way: the funnel's own gate or a case that moves past it.
GatedAfterWarning == [][acc'.col # acc.col /\ acc'.col \in Gated => Handed]_vars

\* An approval stands for the votes: whoever was asked has agreed, and has not changed it since.
ApprovedByAll ==
    \A c \in Cases : case[c].wo = "approved" =>
        /\ \A u \in Approvers : votes[c][u] \in {"yes", "out"}
        /\ \E u \in Approvers : votes[c][u] = "yes"
        /\ case[c].acts >= NeededActs

\* "списание — три акта и согласие всех выбранных согласующих" (README.md:218): a case is
\* written off, by hand or by the last vote, when all who were asked agree and the acts are there.
WrittenOffAgreed ==
    [][\A c \in Cases : case'[c].stage = "writeoff" /\ case[c].stage # "writeoff" =>
          /\ case[c].acts >= NeededActs
          /\ \A u \in Approvers : votes'[c][u] \in {"yes", "out"}
          /\ \E u \in Approvers : votes'[c][u] = "yes"]_vars

\* "переводит дело в «Направлено в ОПИ», когда пришёл номер производства" (README.md:220): a
\* case that can be asked about, by its own number or that of its debt, does not stay at the
\* writ or at the decision once there is a proceeding; only a user can keep it there, who
\* writes another number or takes the number out.
ProceedingMovesCase ==
    \A c \in Cases :
        case[c].stage \in {"writ_done", "court"} /\ AsksOwn(c) /\ pris[c].proceeding # "none"
            ~> case[c].stage \notin {"writ_done", "court"} \/ ~AsksOwn(c)

\* "Задолженность уже принята" (pris_submit.py:81): PRIS gets the debt of a case once.
SubmittedOnce == \A c \in Cases : pris[c].debts <= 1

===============================================================================
