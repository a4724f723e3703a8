---------------------------- MODULE MCScenarioRun -----------------------------
(* Small instances of ScenarioRun. *)
EXTENDS ScenarioRun, TLC

CONSTANTS s1, s2

Simple(order, action) ==
    [order |-> order, action |-> action, blocks |-> TRUE, auto |-> FALSE, wait |-> FALSE,
     after |-> FALSE, large |-> FALSE, terminal |-> order = 3, template |-> "none", name |-> "none"]

\* Two steps of one order that do not block, a messenger, and the claim for large debts,
\* whose template has been renamed.
Rows == << [Simple(1, "call") EXCEPT !.blocks = FALSE, !.template = "first", !.name = "first"],
           [Simple(1, "sms") EXCEPT !.auto = TRUE],
           Simple(2, "messenger"),
           [Simple(3, "writ") EXCEPT !.large = TRUE, !.template = "first", !.name = "second"] >>

\* A warning, days to wait, and what follows its delivery.
Chain == << Simple(1, "warning"),
            [Simple(2, "call") EXCEPT !.wait = TRUE],
            [Simple(3, "disconnect") EXCEPT !.after = TRUE, !.blocks = FALSE] >>

DeadEnd == << Simple(1, "call") >>

\* Two steps: an old stock chain, and what an administrator made of it.
Old  == << Simple(1, "call"), [Simple(2, "disconnect") EXCEPT !.terminal = TRUE] >>
Mine == << [Simple(1, "call") EXCEPT !.large = TRUE, !.blocks = FALSE],
           [Simple(2, "writ") EXCEPT !.terminal = TRUE, !.wait = TRUE] >>

PlanTable == [p \in Plans |-> CASE p = "chain" -> Chain [] p = "dead" -> DeadEnd
                                [] p = "old" -> Old [] p = "mine" -> Mine
                                [] OTHER -> Rows]

RowsAndChain == [s \in Scenarios |-> IF s = s1 THEN "rows" ELSE "chain"]
AllOld       == [s \in Scenarios |-> "old"]

===============================================================================
