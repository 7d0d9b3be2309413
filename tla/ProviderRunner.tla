---------------------------- MODULE ProviderRunner ----------------------------
(***************************************************************************)
(* ProviderRunner.run of src/aecctx/providers/runner.py: one call of a     *)
(* provider, from the registry to an accepted result or an error.  What    *)
(* follows the admission is OciSession or RemoteSession, according to the  *)
(* profile of the runner.                                                  *)
(***************************************************************************)
EXTENDS Naturals, Sequences, FiniteSets

CONSTANTS
  Names, FileVersions, Size, MaxBytes, MaxFiles, Missing, \* of OciSession
  MaxAttempts, NoAnswer                             \* of RemoteSession

ASSUME ProviderAssumption ==
  /\ Missing \notin FileVersions
  /\ IsFiniteSet(Names)
  /\ Size \in [FileVersions -> Nat]
  /\ MaxBytes \in Nat /\ MaxFiles \in Nat
  /\ MaxAttempts \in Nat \ {0}

VARIABLES
  call,         \* [profile, defects]: the runner's profile, what is wrong with the call
  runnerPc, outcome,
  workspace, client, container, over, files, reply, excess, response, unread, captured,
  attempt, peer, received, executed, answer, history

Oci == INSTANCE OciSession
Remote == INSTANCE RemoteSession

ociVars == <<workspace, client, container, over, files, reply, excess, response, unread, captured>>
remoteVars == <<attempt, peer, received, executed, answer, history>>
runnerVars == <<call, runnerPc, outcome, ociVars, remoteVars>>

\* "local" stands for LocalProviderProfile and MacOSSeatbeltProfile, whose
\* preflight always refuses.
Profiles == {"local", "oci", "remote"}
Defects == {"NOT_REGISTERED", "ACTION_UNSUPPORTED", "PREFLIGHT_REFUSED", "REQUEST_REFUSED", "ENVELOPE_REFUSED"}

RunnerInit ==
  /\ call \in [profile : Profiles, defects : SUBSET Defects]
  /\ call.profile = "local" => "PREFLIGHT_REFUSED" \in call.defects
  /\ call.profile # "remote" => "ENVELOPE_REFUSED" \notin call.defects
  /\ runnerPc = "called"
  /\ outcome = "none"
  /\ Oci!Init
  /\ Remote!Init

\* Mutant: a remote profile is dispatched to before the request is validated.
RefusalAfterDispatch ==
  CASE "NOT_REGISTERED" \in call.defects -> "NOT_REGISTERED"
    [] "ACTION_UNSUPPORTED" \in call.defects -> "ACTION_UNSUPPORTED"
    [] "PREFLIGHT_REFUSED" \in call.defects -> "PREFLIGHT_REFUSED"
    [] "REQUEST_REFUSED" \in call.defects /\ call.profile # "remote" -> "REQUEST_REFUSED"
    [] OTHER -> "none"

\* The tests of run and of the head of run_remote_provider, in their order.
Refusal ==
  CASE "NOT_REGISTERED" \in call.defects -> "NOT_REGISTERED"
    [] "ACTION_UNSUPPORTED" \in call.defects -> "ACTION_UNSUPPORTED"
    [] "PREFLIGHT_REFUSED" \in call.defects -> "PREFLIGHT_REFUSED"
    [] "REQUEST_REFUSED" \in call.defects -> "REQUEST_REFUSED"
    [] "ENVELOPE_REFUSED" \in call.defects -> "ENVELOPE_REFUSED"
    [] OTHER -> "none"

Admit ==
  /\ runnerPc = "called"
  /\ IF Refusal # "none"
       THEN runnerPc' = "ended" /\ outcome' = Refusal
       ELSE runnerPc' = (IF call.profile = "remote" THEN "retry" ELSE "workspace") /\ UNCHANGED outcome
  /\ UNCHANGED <<call, ociVars, remoteVars>>

OciStep == call.profile = "oci" /\ Oci!Step /\ UNCHANGED <<call, remoteVars>>
RemoteStep == call.profile = "remote" /\ Remote!Step /\ UNCHANGED <<call, ociVars>>
OciEnvironment == call.profile = "oci" /\ Oci!Environment /\ UNCHANGED <<call, remoteVars>>
RemoteEnvironment == call.profile = "remote" /\ Remote!Environment /\ UNCHANGED <<call, ociVars>>

Run == Admit \/ OciStep \/ RemoteStep
RunnerNext == Run \/ OciEnvironment \/ RemoteEnvironment

RunnerSpec == RunnerInit /\ [][RunnerNext]_runnerVars

\* The runner takes its steps and time passes; docker, the container, the
\* network and the provider need never do anything.
RunnerFairSpec == RunnerSpec /\ WF_runnerVars(Run) /\ WF_runnerVars(Oci!TimePasses /\ UNCHANGED <<call, remoteVars>>)

-----------------------------------------------------------------------------
(* Properties.                                                             *)

\* The types of the locals of run, of docker's processes and of the exchange.
RunnerTypeOK ==
  /\ workspace \in BOOLEAN /\ over \in BOOLEAN /\ excess \in BOOLEAN
  /\ client \in {"none", "running", "killed"} \cup Oci!Exits
  /\ container \in {"none", "running", "removed"} \cup Oci!Exits
  /\ files \in Oci!Trees /\ captured \in Oci!Trees
  /\ reply \in Oci!Responses /\ response \in Oci!Responses
  /\ unread \subseteq Names
  /\ attempt \in 0..MaxAttempts
  /\ peer \in [1..MaxAttempts -> {"none", "pinned", "other"}]
  /\ received \subseteq 1..attempt /\ executed \subseteq received
  /\ answer \in Remote!Answers \cup {NoAnswer}
  /\ Len(history) \in {attempt, attempt - 1}

\* Nothing is created, started or sent for a call that is refused, and each
\* profile keeps to its own means: no exchange locally, no workspace remotely.
NothingStartsUnadmitted ==
  /\ workspace \/ client # "none" \/ peer # [n \in 1..MaxAttempts |-> "none"] => call.defects = {}
  /\ workspace \/ client # "none" => call.profile = "oci"
  /\ peer # [n \in 1..MaxAttempts |-> "none"] => call.profile = "remote"

\* An accepted result is what its response declares, within the limits, even
\* though the container may go on writing between the check of the tree, the
\* reading of the response and that of each artifact.
AcceptedIsAsDeclared ==
  outcome = "accepted" /\ call.profile = "oci" =>
    /\ response.state = "whole"
    /\ captured = response.declares
    /\ Oci!Fits(captured)
    /\ Cardinality(Oci!Present(captured)) <= MaxFiles

\* A run that ends with a result or with an error of its own leaves no child
\* process and no workspace behind: only a foreign exception may.
RegularEndIsClean ==
  runnerPc = "ended" /\ outcome # "raised" => client # "running" /\ ~workspace

\* "terminate the container on timeout": docs/specs/plugin-isolation-profile.md:30.
TimeoutEndsContainer ==
  runnerPc = "ended" /\ outcome = "TIMEOUT" /\ call.profile = "oci" => container # "running"

\* Requests and credentials reach the pinned peer only, and none is sent again
\* once the call has succeeded or failed for good, although a request may have
\* been executed, and be paid for, while its answer was lost.
SpendIsAuthorised ==
  /\ \A n \in received : peer[n] = "pinned"
  /\ \A n \in received : \A j \in 1..(n - 1) : history[j] \in Remote!Retryable

\* Only transient failures are retried, and the call is exhausted exactly when
\* each of the attempts the policy allows has failed so.
RetriesAreTransient ==
  /\ \A j \in 1..(Len(history) - 1) : history[j] \in Remote!Retryable
  /\ call.profile = "remote" /\ runnerPc = "ended" /\ outcome # "raised" /\ history # <<>> =>
       IF \A j \in DOMAIN history : history[j] \in Remote!Retryable
         THEN outcome = "RETRY_EXHAUSTED" /\ Len(history) = MaxAttempts
         ELSE outcome = history[Len(history)]

\* Every run ends, whatever docker, the container and the provider do or fail
\* to do: the wall time bounds the polling, the attempts bound the exchanges.
RunEnds == <>(runnerPc = "ended")
=============================================================================
