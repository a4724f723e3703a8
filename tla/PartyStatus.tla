----------------------------- MODULE PartyStatus -----------------------------
(***************************************************************************)
(* The statuses of a party (models.Measure) and of its rows                *)
(* (models.MeasureItem), and the verdict rollup() draws from the rows.     *)
(***************************************************************************)

ItemStatus  == {"assigned", "running", "done", "failed", "cancelled"}
PartyStatus == ItemStatus \cup {"paused"}

\* ITEM_OPEN: rows that still have work to do.
OpenItem  == {"assigned", "running"}
\* PARTY_OPEN: parties a payment may still close.
OpenParty == {"assigned", "running", "paused"}

(***************************************************************************)
(* rollup() looks at the statuses only through any(...) and all(...), so   *)
(* its verdict is a function of the set S of statuses that occur.          *)
(***************************************************************************)
Verdict(S) ==
    CASE "running" \in S                                     -> "running"
      [] S \cap OpenItem # {} /\ S \ OpenItem # {}           -> "running"
      [] S = {"assigned"}                                    -> "assigned"
      [] S = {"cancelled"}                                   -> "cancelled"
      [] "failed" \in S /\ S \cap OpenItem = {}              -> "failed"
      [] OTHER                                               -> "done"

=============================================================================
