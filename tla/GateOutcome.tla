----------------------------- MODULE GateOutcome -----------------------------
(***************************************************************************)
(* The status lattice of the quality gate (src/aecctx/gate/evaluator.py):  *)
(* statuses are ranked, a check has the highest disposition of its         *)
(* findings, and the outcome of a result is the highest status of its      *)
(* checks with "waived" read as "requires_review".                         *)
(***************************************************************************)
EXTENDS Naturals

Statuses == {"pass", "waived", "requires_review", "fail", "error"}
Outcomes == Statuses \ {"waived"}

Priority == [s \in Statuses |->
  CASE s = "pass" -> 0
    [] s = "waived" -> 1
    [] s = "requires_review" -> 2
    [] s = "fail" -> 3
    [] s = "error" -> 4]

\* max(..., key=_STATUS_PRIORITY.__getitem__, default=default)
Highest(S, default) ==
  IF S = {} THEN default ELSE CHOOSE s \in S : \A t \in S : Priority[t] <= Priority[s]

\* Mutant: waived checks count as passed.
AggregateWaivedPasses(S) ==
  LET highest == Highest(S, "pass") IN IF highest = "waived" THEN "pass" ELSE highest

\* aggregate_gate_outcome over the set of the check statuses.
Aggregate(S) ==
  LET highest == Highest(S, "pass") IN IF highest = "waived" THEN "requires_review" ELSE highest
=============================================================================
