----------------------------- MODULE DebtFigures -----------------------------
(***************************************************************************)
(* What is counted from the balances that the files of AIS bring: the      *)
(* import of a file of services (imports/services.py), and for the         *)
(* accounts in it the group of the debt with its months (grouping.py), the *)
(* history of the balances (portfolio.py) and the shares of the suppliers  *)
(* (shares.py); the scale of the groups (scale.py, DebtGroupScaleViewSet)  *)
(* and the group that a user has corrected by hand (serializers.py).       *)
(*                                                                         *)
(* An import is many transactions: the batches of rows, then the accounts, *)
(* which are loaded by the chunk and counted one after the other.  What    *)
(* the same recount does to pauses and measures is in MeasureParty, to     *)
(* runs in ScenarioRun.  A balance and a debt_period are never missing     *)
(* here, the penalty goes with the balance, and the operational date stays.*)
(* A group without a row in the scale is one that is not active.           *)
(***************************************************************************)
EXTENDS Integers, FiniteSets, Sequences, FiniteSetsExt

CONSTANTS
    Accounts, Services, Providers,
    AccountOf,  \* account of a service
    ProviderOf, \* provider_id of a service
    Imports,    \* the web workers and the commands that may import
    Batch,      \* WRITE_BATCH
    MaxBalance, \* bound on the balances
    MaxMonths,  \* bound on debt_period
    Files,      \* bound: the files that are imported, sequences of rows
    FirstScale, \* the scale at the start
    Scales,     \* bound: the tables an administrator puts, sequences of bands
    Corrected,  \* bound: the groups a user writes by hand
    MaxJobs,    \* bound on the imports
    MaxEdits,   \* bound on the requests
    Overlap     \* TRUE: requests and imports while an import counts accounts

Groups == 1 .. 6

NoGroup == -1
Absent  == -1

\* A band of the scale with no upper end.
Open == -1

Band == [from: 0 .. MaxMonths, to: 0 .. MaxMonths \cup {Open}, active: BOOLEAN]

\* A row of a table that is put; two rows may name one group.
Put == [group: Groups, band: Band]

\* A row of a file; one that is not ok names an account there is not, and is rejected.
Row == [ok: BOOLEAN, s: Services, bal: 0 .. MaxBalance, months: 0 .. MaxMonths]

FiguresAssumption ==
    /\ AccountOf \in [Services -> Accounts] /\ ProviderOf \in [Services -> Providers]
    /\ IsFiniteSet(Services)
    /\ Batch \in Nat \ {0} /\ MaxBalance \in Nat /\ MaxMonths \in Nat
    /\ Files \subseteq Seq(Row)
    /\ FirstScale \in [Groups -> Band] /\ \E g \in Groups : FirstScale[g].active
    /\ Scales \subseteq Seq(Put)
    /\ Corrected \subseteq 0 .. 6
    /\ MaxJobs \in Nat /\ MaxEdits \in Nat
    /\ Overlap \in BOOLEAN
ASSUME FiguresAssumption

VARIABLES
    scale,      \* DebtGroupScale rows
    svc,        \* AccountService: the columns of AIS
    sgroup,     \* AccountService: debt_group, debt_group_manual, debt_group_basis
    agroup,     \* Account: the same
    window,     \* ServiceDebtPeriod of a service, by the age of the month
    past,       \* BalanceHistory, 0 where there is no row
    share,      \* DebtShare of an account by provider
    job,        \* imports at work
    jobs, edits \* how many there have been

vars == <<scale, svc, sgroup, agroup, window, past, share, job, jobs, edits>>

-----------------------------------------------------------------------------

Ages == 0 .. MaxMonths

Group == [calc: Groups \cup {NoGroup}, manual: 0 .. 6 \cup {NoGroup}, basis: Groups \cup {NoGroup}]
NoGroups == [calc |-> NoGroup, manual |-> NoGroup, basis |-> NoGroup]

Service == [known: BOOLEAN, bal: 0 .. MaxBalance, months: 0 .. MaxMonths]
NewService == [known |-> FALSE, bal |-> 0, months |-> 0]

\* What the recount holds of the rows: loaded at once for all the accounts of a chunk.
Loaded == [agroup: [Accounts -> Group], sgroup: [Services -> Group], svc: [Services -> Service],
           scale: [Groups -> Band]]

NotLoaded == [agroup |-> [a \in Accounts |-> NoGroups], sgroup |-> [s \in Services |-> NoGroups],
              svc |-> [s \in Services |-> NewService], scale |-> FirstScale]

\* todo: touched accounts no chunk has had; chunk: accounts of the chunk not yet counted.
Job == [at: {"idle", "reading", "counting"}, file: Files \cup {<< >>}, pos: Nat,
        todo: SUBSET Accounts, chunk: SUBSET Accounts, loaded: Loaded,
        status: {"none", "done", "failed"}]

NoJob == [at |-> "idle", file |-> << >>, pos |-> 0, todo |-> {}, chunk |-> {},
          loaded |-> NotLoaded, status |-> "none"]

TypeOK ==
    /\ scale \in [Groups -> Band]
    /\ svc \in [Services -> Service]
    /\ sgroup \in [Services -> Group]
    /\ agroup \in [Accounts -> Group]
    /\ window \in [Services -> [Ages -> 0 .. MaxBalance \cup {Absent}]]
    /\ past \in [Services -> [Ages -> 0 .. MaxBalance]]
    /\ share \in [Accounts -> [Providers -> Nat \cup {Absent}]]
    /\ job \in [Imports -> Job]
    /\ jobs \in 0 .. MaxJobs /\ edits \in 0 .. MaxEdits

Init ==
    /\ scale  = FirstScale
    /\ svc    = [s \in Services |-> NewService]
    /\ sgroup = [s \in Services |-> NoGroups]
    /\ agroup = [a \in Accounts |-> NoGroups]
    /\ window = [s \in Services |-> [g \in Ages |-> Absent]]
    /\ past   = [s \in Services |-> [g \in Ages |-> 0]]
    /\ share  = [a \in Accounts |-> [p \in Providers |-> Absent]]
    /\ job    = [j \in Imports |-> NoJob]
    /\ jobs   = 0
    /\ edits  = 0

-----------------------------------------------------------------------------
(* The scale *)

Active(T) == {g \in DOMAIN T : T[g].active}

\* scale_problem finds nothing: from 0 on each band begins where the one before it ends, and
\* the last has no end.
Whole(T) ==
    LET B == Active(T)
    IN /\ \E g \in B : T[g].from = 0
       /\ \A g, h \in B : T[g].from = T[h].from => g = h
       /\ \A g \in B :
             IF T[g].to = Open THEN \A h \in B : T[h].from =< T[g].from
             ELSE /\ T[g].from < T[g].to
                  /\ \E h \in B : T[h].from = T[g].to
                  /\ \A h \in B : T[h].from =< T[g].from \/ T[h].from >= T[g].to

Contains(b, months) == months >= b.from /\ (b.to = Open \/ months < b.to)

\* The first active band that contains the months; the last one when none does.
GroupFor(T, months) ==
    LET fit == {g \in Active(T) : Contains(T[g], months)}
    IN IF fit # {} THEN CHOOSE g \in fit : \A h \in fit : g =< h
       ELSE CHOOSE g \in Active(T) : \A h \in Active(T) : h =< g

-----------------------------------------------------------------------------
(* The recount of an account: recalculate, _history_balances, sync_debt_shares. *)

\* build_periods: one month of the window for each month of the debt, all of the balance in the
\* earliest.
Periods(v) ==
    [g \in Ages |-> IF v.bal = 0 \/ g >= v.months THEN Absent
                   ELSE IF g = v.months - 1 THEN v.bal ELSE 0]

\* Mutant: 0 for no group.
ServiceGroupZero(T, v) == IF v.bal > 0 THEN GroupFor(T, v.months) ELSE 0

ServiceGroup(T, v) == IF v.bal > 0 THEN GroupFor(T, v.months) ELSE NoGroup

\* Mutant: the correction goes when the calculated group is another than the corrected one.
WithGroupAgainst(g, calc) ==
    IF g.manual # NoGroup /\ g.manual # calc THEN [NoGroups EXCEPT !.calc = calc] ELSE [g EXCEPT !.calc = calc]

\* release_manual: a correction stands as long as the group it was made of.
WithGroup(g, calc) ==
    IF g.manual # NoGroup /\ g.basis # calc THEN [NoGroups EXCEPT !.calc = calc] ELSE [g EXCEPT !.calc = calc]

\* Only the fields that are other than those loaded are saved into a row r.
Saved(r, was, now) ==
    [calc   |-> IF now.calc = was.calc THEN r.calc ELSE now.calc,
     manual |-> IF now.manual = was.manual THEN r.manual ELSE now.manual,
     basis  |-> IF now.manual = was.manual THEN r.basis ELSE now.basis]

ServicesOf(a) == {s \in Services : AccountOf[s] = a}
Known(a)      == {s \in ServicesOf(a) : svc[s].known}

Total(S) == MapThenSumSet(LAMBDA s : svc[s].bal, S)

Shares(a) ==
    [p \in Providers |->
        LET S == {s \in Known(a) : ProviderOf[s] = p}
        IN IF S = {} THEN Absent ELSE Total(S)]

\* The groups and the months by what was loaded, the history and the shares by what there is.
Recount(a, was) ==
    LET mine == {s \in ServicesOf(a) : was.svc[s].known}
        calc(s) == ServiceGroup(was.scale, was.svc[s])
        groups == {calc(s) : s \in mine}
    IN /\ window' = [s \in Services |-> IF s \in mine THEN Periods(was.svc[s]) ELSE window[s]]
       /\ sgroup' = [s \in Services |->
                       IF s \in mine THEN Saved(sgroup[s], was.sgroup[s], WithGroup(was.sgroup[s], calc(s)))
                       ELSE sgroup[s]]
       /\ agroup' = [agroup EXCEPT ![a] = WithGroup(was.agroup[a], Max(groups \cup {NoGroup}))]
       /\ past' = [s \in Services |->
                     IF s \in Known(a)
                     THEN [g \in Ages |-> IF window'[s][g] = Absent THEN 0 ELSE window'[s][g]]
                     ELSE past[s]]
       /\ share' = [share EXCEPT ![a] = Shares(a)]

\* select with prefetch_related, and the scale
Load == [agroup |-> agroup, sgroup |-> sgroup, svc |-> svc, scale |-> scale]

-----------------------------------------------------------------------------
(* The import of a file *)

figures == <<scale, sgroup, agroup, window, past, share>>

Counting == \E j \in Imports : job[j].at = "counting"

Start(j, file) ==
    /\ job[j].at = "idle" /\ jobs < MaxJobs
    /\ Overlap \/ \A k \in Imports : job[k].at = "idle"
    /\ jobs' = jobs + 1
    /\ job' = [job EXCEPT ![j] = [NoJob EXCEPT !.at = "reading", !.file = file]]
    /\ UNCHANGED <<svc, edits, figures>>

\* The rows of the next batch, and of a service that comes twice the last.
Part(j) ==
    {n \in DOMAIN job[j].file :
        /\ n > job[j].pos /\ n =< job[j].pos + Batch /\ job[j].file[n].ok}

LastOf(j, s) == LET N == {n \in Part(j) : job[j].file[n].s = s}
                IN job[j].file[CHOOSE n \in N : \A m \in N : m =< n]

\* Mutant: rows that are as they were are not counted again.
TouchedChanged(j) ==
    {AccountOf[s] : s \in {s \in Services : svc'[s] # svc[s]}}

Touched(j) == {AccountOf[job[j].file[n].s] : n \in Part(j)}

\* _flush: one transaction.
Flush(j) ==
    /\ job[j].at = "reading" /\ job[j].pos < Len(job[j].file)
    /\ svc' = [s \in Services |->
                 IF \E n \in Part(j) : job[j].file[n].s = s
                 THEN [known |-> TRUE, bal |-> LastOf(j, s).bal, months |-> LastOf(j, s).months]
                 ELSE svc[s]]
    /\ job' = [job EXCEPT ![j].pos = @ + Batch, ![j].todo = @ \cup Touched(j)]
    /\ UNCHANGED <<jobs, edits, figures>>

\* _after_import: the accounts of a chunk are loaded, with the scale of the moment.
LoadChunk(j, A) ==
    /\ job[j].at # "idle" /\ job[j].pos >= Len(job[j].file)
    /\ job[j].chunk = {}
    /\ A \subseteq job[j].todo /\ A # {}
    /\ Cardinality(A) = Min({Batch, Cardinality(job[j].todo)})
    /\ job' = [job EXCEPT ![j].at = "counting", ![j].todo = @ \ A, ![j].chunk = A,
                          ![j].loaded = Load]
    /\ UNCHANGED <<svc, jobs, edits, figures>>

\* refresh_account of the next account of the chunk; the query has no order.
RefreshLoaded(j, a) ==
    /\ a \in job[j].chunk
    /\ Recount(a, job[j].loaded)
    /\ job' = [job EXCEPT ![j].chunk = @ \ {a}]
    /\ UNCHANGED <<scale, svc, jobs, edits>>

Finish(j) ==
    /\ job[j].at # "idle" /\ job[j].pos >= Len(job[j].file)
    /\ job[j].todo = {} /\ job[j].chunk = {}
    /\ job' = [job EXCEPT ![j] = [NoJob EXCEPT !.status = "done"]]
    /\ UNCHANGED <<svc, jobs, edits, figures>>

\* An error, or the end of the process, anywhere: what is written stays written.
Fail(j) ==
    /\ job[j].at # "idle"
    /\ job' = [job EXCEPT ![j] = [NoJob EXCEPT !.status = "failed"]]
    /\ UNCHANGED <<svc, jobs, edits, figures>>

-----------------------------------------------------------------------------
(* Requests *)

Edit == /\ edits < MaxEdits
        /\ Overlap \/ ~Counting
        /\ edits' = edits + 1
        /\ UNCHANGED <<svc, job, jobs>>

Correction(g, manual) ==
    [g EXCEPT !.manual = manual, !.basis = IF manual = NoGroup THEN NoGroup ELSE g.calc]

\* PATCH of an account, and of a service; NoGroup takes the correction back.
CorrectAccount(a, manual) ==
    /\ Edit
    /\ manual # agroup[a].manual
    /\ agroup' = [agroup EXCEPT ![a] = Correction(@, manual)]
    /\ UNCHANGED <<scale, sgroup, window, past, share>>

CorrectService(s, manual) ==
    /\ Edit
    /\ svc[s].known /\ manual # sgroup[s].manual
    /\ sgroup' = [sgroup EXCEPT ![s] = Correction(@, manual)]
    /\ UNCHANGED <<scale, agroup, window, past, share>>

\* The button of an account.
RefreshAccount(a) ==
    /\ Overlap \/ ~Counting
    /\ Recount(a, Load)
    /\ UNCHANGED <<scale, svc, job, jobs, edits>>

Bands(table) == [n \in DOMAIN table |-> [table[n].band EXCEPT !.active = TRUE]]

\* PUT of a table that is whole as a list: its rows are written one after the other, each over
\* what its group had, and a failure keeps those before it.  Groups it does not name stay.
ReplaceScale(table, written) ==
    LET rows(g) == {n \in 1 .. written : table[n].group = g}
    IN /\ Edit
       /\ Whole(Bands(table))
       /\ scale' = [g \in Groups |-> IF rows(g) = {} THEN scale[g] ELSE Bands(table)[Max(rows(g))]]
       /\ UNCHANGED <<sgroup, agroup, window, past, share>>

\* PATCH of a band, and DELETE, which leaves it inactive: what is active then must be whole.
EditBand(g, b) ==
    /\ Edit
    /\ scale[g].active /\ b # scale[g]
    /\ b.active \/ b = [scale[g] EXCEPT !.active = FALSE]
    /\ Whole([scale EXCEPT ![g] = b])
    /\ scale' = [scale EXCEPT ![g] = b]
    /\ UNCHANGED <<sgroup, agroup, window, past, share>>

-----------------------------------------------------------------------------

Import(j) ==
    \/ \E file \in Files : Start(j, file)
    \/ Flush(j) \/ Finish(j) \/ Fail(j)
    \/ \E A \in SUBSET Accounts : LoadChunk(j, A)
    \/ \E a \in Accounts : RefreshLoaded(j, a)

Request ==
    \/ \E a \in Accounts : RefreshAccount(a)
    \/ \E manual \in Corrected \cup {NoGroup} :
          \/ \E a \in Accounts : CorrectAccount(a, manual)
          \/ \E s \in Services : CorrectService(s, manual)
    \/ \E table \in Scales : \E written \in DOMAIN table : ReplaceScale(table, written)
    \/ \E g \in Groups, b \in Band : EditBand(g, b)

Next == (\E j \in Imports : Import(j)) \/ Request

Spec == Init /\ [][Next]_vars

-----------------------------------------------------------------------------
(* Properties *)

\* A month of debt no active band has; group_for_months then takes the last one.
InHole(months) == \A g \in Active(scale) : ~Contains(scale[g], months)

RightGroup(group, months) ==
    /\ group \in Active(scale)
    /\ IF InHole(months) THEN \A g \in Active(scale) : g =< group ELSE Contains(scale[group], months)

\* The figures of an account are those of its services as AIS gave them: a service in debt is in
\* the group of an active band that contains its months, or in the last group if there is none,
\* the account in the largest of them; the history has all of the balance in the earliest month
\* that is owed and nothing in any other, whatever was owed before; and the shares add up to the
\* balances, with none of a provider that has no service there any more.
FiguresRight(a) ==
    /\ \A s \in Known(a) :
          LET group == sgroup[s].calc
          IN /\ IF svc[s].bal = 0 THEN group = NoGroup ELSE RightGroup(group, svc[s].months)
             /\ group =< agroup[a].calc
             /\ \A g \in Ages : past[s][g] = IF g + 1 = svc[s].months THEN svc[s].bal ELSE 0
    /\ agroup[a].calc # NoGroup => \E s \in Known(a) : sgroup[s].calc = agroup[a].calc
    /\ LET paid == {p \in Providers : share[a][p] # Absent}
       IN /\ paid = {ProviderOf[s] : s \in Known(a)}
          /\ MapThenSumSet(LAMBDA p : share[a][p], paid) = Total(Known(a))

\* An import that is done leaves the figures of every account in its file right, also when the
\* same rows had come in with an import that broke off: then nothing in them is new, and their
\* accounts are counted again all the same.
ImportLeavesFigures ==
    [][\A j \in Imports :
          job[j].at # "idle" /\ job'[j].status = "done" =>
              \A n \in DOMAIN job[j].file :
                  job[j].file[n].ok => FiguresRight(AccountOf[job[j].file[n].s])]_vars

\* scale.py:1 "Шкала групп: без пересечений и без пропусков": no month of debt is in a hole of
\* the scale.
ScaleHasNoHoles == \A months \in Ages : ~InHole(months)

\* Kept and dropped corrections of one row, g before a step and h after it.
Stands(g, h) == g.manual # NoGroup => h.manual = IF g.basis = h.calc THEN g.manual ELSE NoGroup

\* The group that a user has corrected by hand outlives every recount that finds the debt in the
\* group it was in when it was corrected, whatever the correction says, and no other recount:
\* users alone write corrections and take them back.
CorrectionStands ==
    [][edits' = edits =>
          /\ \A a \in Accounts : Stands(agroup[a], agroup'[a])
          /\ \A s \in Services : Stands(sgroup[s], sgroup'[s])]_vars

=============================================================================
