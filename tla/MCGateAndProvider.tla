-------------------------- MODULE MCGateAndProvider --------------------------
(***************************************************************************)
(* Two programs that share no state and must end: an evaluation of a gate  *)
(* and a call of the provider runner.  The initial state says which of     *)
(* them runs; the other has ended.                                         *)
(***************************************************************************)
EXTENDS MCGateEvaluation, MCProviderRunner

VARIABLE program

\* The candidate was a symlink.
NothingIsEvaluated ==
  /\ form = [r \in Roles |-> IF r = "candidate" THEN "symlink" ELSE "not_supplied"]
  /\ links = [r \in Roles |-> {}] /\ policy = <<>> /\ pair = "none"
  /\ live = [r \in Roles |-> Nothing] /\ callerFiles = [ids |-> Absent, ifc |-> Absent]
  /\ changes = 0 /\ faults = 0
  /\ pc = "done"
  /\ role = "candidate" /\ todo = {} /\ at = None /\ ok = TRUE
  /\ archive = Nothing /\ copy = [r \in Roles |-> Nothing]
  /\ initial = [r \in Roles |-> None] /\ held = [r \in Roles |-> None]
  /\ k = 1 /\ got = Absent /\ identity = None /\ results = <<>>
  /\ result = [outcome |-> "error", code |-> "CANDIDATE_INVALID",
               candidate |-> None, baseline |-> None, ids |-> None]

\* A local call that its preflight refused.
NoOneCalls ==
  /\ call = [profile |-> "local", defects |-> {"PREFLIGHT_REFUSED"}]
  /\ runnerPc = "ended" /\ outcome = "PREFLIGHT_REFUSED"
  /\ Oci!Init /\ Remote!Init

Init ==
  \/ program = "evaluation" /\ EvaluationInit /\ NoOneCalls
  \/ program = "runner" /\ NothingIsEvaluated /\ RunnerInit

Evaluating(A) == program = "evaluation" /\ A /\ UNCHANGED <<program, runnerVars>>
Calling(A) == program = "runner" /\ A /\ UNCHANGED <<program, evaluationVars>>

Next == Evaluating(EvaluationNext) \/ Calling(RunnerNext)

vars == <<program, evaluationVars, runnerVars>>

\* The fairness of each program.
Spec ==
  /\ Init /\ [][Next]_vars
  /\ WF_vars(Evaluating(Step))
  /\ WF_vars(Calling(Run))
  /\ WF_vars(Calling(Oci!TimePasses /\ UNCHANGED <<call, remoteVars>>))
=============================================================================
