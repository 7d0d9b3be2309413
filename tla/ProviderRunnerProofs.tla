------------------------ MODULE ProviderRunnerProofs ------------------------
(***************************************************************************)
(* Proofs about ProviderRunner for every set of artifacts, every limit and *)
(* every number of attempts.  The inductive invariant has one part for the *)
(* local session and one for the remote one; a session that is not the     *)
(* profile's stays as it was initially.                                    *)
(***************************************************************************)
EXTENDS ProviderRunner, FiniteSetTheorems, SequenceTheorems, TLAPS

OciPlaces == {"workspace", "launch", "poll", "clock", "remove", "kill", "tree", "response", "header",
              "artifacts", "cleanup"}
RemotePlaces == {"retry", "connect", "pin", "send", "answer"}

Empty == [n \in Names |-> Missing]
NoPeer == [n \in 1..MaxAttempts |-> "none"]

OciTypes ==
  /\ workspace \in BOOLEAN /\ over \in BOOLEAN /\ excess \in BOOLEAN
  /\ client \in {"none", "running", "killed"} \cup Oci!Exits
  /\ container \in {"none", "running", "removed"} \cup Oci!Exits
  /\ files \in Oci!Trees /\ captured \in Oci!Trees
  /\ reply \in Oci!Responses /\ response \in Oci!Responses
  /\ unread \subseteq Names

\* What has been read so far is what the response declares.
Reading ==
  /\ response.state = "whole"
  /\ Oci!Cardinality(Oci!Present(response.declares)) <= MaxFiles
  /\ \A n \in Names \ unread : captured[n] = response.declares[n]
  /\ Oci!Fits(captured)

OciInv ==
  /\ OciTypes
  /\ workspace \/ client # "none" => call.defects = {}
  /\ runnerPc \in {"workspace", "launch"} => client = "none"
  /\ runnerPc \in {"tree", "response", "header", "artifacts"} => client # "running"
  /\ runnerPc \notin {"cleanup", "ended"} => outcome = "none"
  /\ runnerPc \in {"cleanup", "ended"} /\ outcome # "raised" => client # "running"
  /\ runnerPc = "ended" /\ outcome # "raised" => ~workspace
  /\ runnerPc = "header" => response.state \in {"refused", "whole"}
  /\ runnerPc \notin {"artifacts", "cleanup", "ended"} => captured = Empty
  /\ runnerPc = "artifacts" => Reading
  /\ outcome = "accepted" => Reading /\ unread = {}

Codes == Remote!Answers \cup Remote!Retryable \cup {"TLS_IDENTITY_FAILED", "DEPENDENCY_UNAVAILABLE"}

RemoteTypes ==
  /\ attempt \in 0..MaxAttempts
  /\ peer \in [1..MaxAttempts -> {"none", "pinned", "other"}]
  /\ received \subseteq 1..attempt /\ executed \subseteq received
  /\ answer \in Remote!Answers \cup {NoAnswer}
  /\ history \in Seq(Codes)
  /\ Len(history) \in {attempt, attempt - 1}

\* How a remote call that has ended came to its outcome.
Concluded ==
  IF \A j \in DOMAIN history : history[j] \in Remote!Retryable
    THEN outcome = "RETRY_EXHAUSTED" /\ Len(history) = MaxAttempts
    ELSE outcome = history[Len(history)]

RemoteInv ==
  /\ RemoteTypes
  /\ peer # NoPeer => call.defects = {}
  /\ runnerPc = "retry" => Len(history) = attempt
  /\ runnerPc \in RemotePlaces \ {"retry"} => attempt >= 1 /\ Len(history) = attempt - 1
  /\ runnerPc \in RemotePlaces => \A j \in DOMAIN history : history[j] \in Remote!Retryable
  /\ \A j \in 1..(attempt - 1) : history[j] \in Remote!Retryable
  /\ runnerPc \in {"connect", "pin", "send"} => attempt \notin received
  /\ runnerPc \in {"send", "answer"} => peer[attempt] = "pinned"
  /\ \A n \in received : peer[n] = "pinned"
  /\ runnerPc = "ended" /\ outcome # "raised" /\ history # <<>> => Concluded

Inv ==
  /\ call \in [profile : Profiles, defects : SUBSET Defects]
  /\ call.profile = "local" => call.defects # {}
  /\ runnerPc \in {"called", "ended"} \cup OciPlaces \cup RemotePlaces
  /\ runnerPc \notin {"called", "ended"} => call.defects = {}
  /\ runnerPc = "called" => outcome = "none" /\ Oci!Init /\ Remote!Init
  /\ runnerPc \in OciPlaces => call.profile = "oci"
  /\ runnerPc \in RemotePlaces => call.profile = "remote"
  /\ IF call.profile = "oci" THEN OciInv ELSE Oci!Init
  /\ IF call.profile = "remote" THEN RemoteInv ELSE Remote!Init

-----------------------------------------------------------------------------
(* The initial states.                                                     *)

\* The session's instance counts as the runner does.
LEMMA SameCardinality == \A S : Oci!Cardinality(S) = Cardinality(S)
BY DEF Oci!Cardinality, Cardinality

\* No artifact is within any limit: the sum over none of them is 0.
LEMMA EmptyFits == Oci!Fits(Empty)
<1>1. Oci!Present(Empty) = {}
  BY DEF Oci!Present, Empty
<1>2. Oci!BytesIn(Empty) = 0
  <2> DEFINE Sum(it) ==
        it = [s \in SUBSET {} |-> IF s = {} THEN 0
                                  ELSE LET x == CHOOSE x \in s : TRUE IN Size[Empty[x]] + it[s \ {x}]]
  <2>1. Sum([s \in {{}} |-> 0])
    OBVIOUS
  <2>2. Sum(CHOOSE it : Sum(it))
    BY <2>1
  <2>3. (CHOOSE it : Sum(it))[{}] = 0
    BY <2>2
  <2> QED BY <1>1, <2>3 DEF Oci!BytesIn, Oci!MapThenSumSet, Oci!MapThenFoldSet
<1> QED BY <1>2, ProviderAssumption DEF Oci!Fits

\* The initial local session has its types.
LEMMA OciInitTypes == Oci!Init => OciTypes
<1>1. Empty \in Oci!Trees
  BY DEF Empty, Oci!Trees, Oci!Contents
<1>2. Oci!NoResponse \in Oci!Responses
  BY DEF Oci!NoResponse, Oci!Responses
<1> QED BY <1>1, <1>2 DEF Oci!Init, OciTypes, Empty

\* The initial exchange has its types.
LEMMA RemoteInitTypes == Remote!Init => RemoteTypes
<1>1. <<>> \in Seq(Codes) /\ Len(<<>>) = 0
  OBVIOUS
<1> QED BY <1>1, ProviderAssumption DEF Remote!Init, RemoteTypes

\* Before a session begins, its part of the invariant holds of its initial state.
LEMMA OciBegins ==
  ASSUME Oci!Init, runnerPc \in {"called", "workspace", "ended"}, outcome \notin {"accepted"},
         runnerPc # "ended" => outcome = "none"
  PROVE  OciInv
BY OciInitTypes DEF OciInv, Oci!Init, Empty

\* The same for the exchange.
LEMMA RemoteBegins ==
  ASSUME Remote!Init, runnerPc \in {"called", "retry", "ended"}
  PROVE  RemoteInv
<1>1. DOMAIN <<>> = {} /\ Len(<<>>) = 0
  OBVIOUS
<1> QED BY <1>1, RemoteInitTypes, ProviderAssumption DEF RemoteInv, Remote!Init, NoPeer, RemotePlaces

\* The invariant holds before the call.
LEMMA InvInit == RunnerInit => Inv
<1> SUFFICES ASSUME RunnerInit PROVE Inv
  OBVIOUS
<1>1. OciInv /\ RemoteInv
  BY OciBegins, RemoteBegins DEF RunnerInit
<1> QED BY <1>1 DEF RunnerInit, Inv, OciPlaces, RemotePlaces, Profiles

-----------------------------------------------------------------------------
(* Admission.                                                              *)

\* The tests of run, and their refusals, keep the invariant.
LEMMA AdmitInv ==
  ASSUME Inv, Admit
  PROVE  Inv'
<1>1. runnerPc = "called" /\ outcome = "none" /\ Oci!Init /\ Remote!Init
  BY DEF Inv, Admit
<1>2. UNCHANGED <<call, ociVars, remoteVars>>
  BY DEF Admit
<1>3. Oci!Init' /\ Remote!Init'
  BY <1>1, <1>2 DEF Oci!Init, Remote!Init, ociVars, remoteVars
<1>4. OciTypes' /\ RemoteTypes'
  <2>1. OciTypes /\ RemoteTypes
    BY <1>1, OciInitTypes, RemoteInitTypes
  <2> QED BY <1>2, <2>1 DEF OciTypes, RemoteTypes, ociVars, remoteVars
<1>5. captured' = Empty /\ peer' = NoPeer /\ ~workspace' /\ client' = "none" /\ history' = <<>>
      /\ received' = {} /\ attempt' = 0
  BY <1>3 DEF Oci!Init, Remote!Init, Empty, NoPeer
<1>6. Refusal = "none" => call.defects = {}
  BY DEF Inv, Refusal, Defects
<1>7. Refusal # "accepted"
  BY DEF Refusal
<1>8. CASE Refusal # "none"
  <2>1. runnerPc' = "ended" /\ outcome' = Refusal
    BY <1>8 DEF Admit
  <2>2. OciInv' /\ RemoteInv'
    BY <1>7, <1>4, <1>5, <2>1 DEF OciInv, RemoteInv, RemotePlaces
  <2> QED BY <1>2, <1>3, <2>1, <2>2 DEF Inv, OciPlaces, RemotePlaces
<1>9. CASE Refusal = "none"
  <2>1. runnerPc' = (IF call.profile = "remote" THEN "retry" ELSE "workspace") /\ outcome' = "none"
    BY <1>1, <1>9 DEF Admit
  <2>2. call.profile \in {"oci", "remote"}
    BY <1>6, <1>9 DEF Inv, Profiles
  <2>3. CASE call.profile = "remote"
    <3>1. RemoteInv'
      BY <1>4, <1>5, <2>1, <2>3 DEF RemoteInv, RemotePlaces
    <3> QED BY <1>2, <1>3, <1>6, <1>9, <2>1, <2>3, <3>1 DEF Inv, OciPlaces, RemotePlaces
  <2>4. CASE call.profile = "oci"
    <3>1. OciInv'
      BY <1>4, <1>5, <2>1, <2>4 DEF OciInv
    <3> QED BY <1>2, <1>3, <1>6, <1>9, <2>1, <2>4, <3>1 DEF Inv, OciPlaces, RemotePlaces
  <2> QED BY <2>2, <2>3, <2>4
<1> QED BY <1>8, <1>9

-----------------------------------------------------------------------------
(* The local session.                                                      *)

\* Every step of the local session, docker's included, keeps its invariant.
LEMMA OciSessionInv ==
  ASSUME OciInv, call.profile = "oci", runnerPc # "workspace" \/ call.defects = {},
         runnerPc # "launch" \/ call.defects = {}, Oci!Step \/ Oci!Environment, UNCHANGED call
  PROVE  OciInv'
<1> USE DEF OciInv, OciTypes, Oci!Leave, Oci!Exits, Oci!outputs, Oci!reading, Oci!ociVars
<1>1. CASE Oci!MakeWorkspace
  BY <1>1 DEF Oci!MakeWorkspace, Reading
<1>2. CASE Oci!Launch
  BY <1>2 DEF Oci!Launch, Reading
<1>3. CASE Oci!Poll
  BY <1>3 DEF Oci!Poll, Reading
<1>4. CASE Oci!Clock
  BY <1>4 DEF Oci!Clock, Reading
<1>5. CASE Oci!RemoveContainer
  BY <1>5 DEF Oci!RemoveContainer, Reading
<1>6. CASE Oci!Kill
  BY <1>6 DEF Oci!Kill, Reading
<1>7. CASE Oci!CheckTree
  BY <1>7 DEF Oci!CheckTree, Reading
<1>8. CASE Oci!ReadResponse
  <2>1. reply.state \in {"absent", "torn", "refused", "whole"}
    BY DEF Oci!Responses
  <2> QED BY <1>8, <2>1 DEF Oci!ReadResponse
<1>9. CASE Oci!CheckHeader
  <2>1. runnerPc = "header" /\ captured = Empty
    BY <1>9 DEF Oci!CheckHeader
  <2>2. CASE response.state = "refused" \/ Oci!Cardinality(Oci!Present(response.declares)) > MaxFiles
    <3>1. /\ runnerPc' = "cleanup" /\ outcome' = "RESPONSE_REFUSED"
          /\ UNCHANGED <<workspace, client, container, over, files, reply, excess, response, unread, captured>>
      BY <1>9, <2>2 DEF Oci!CheckHeader
    <3> QED BY <2>1, <3>1
  <2>3. CASE response.state = "whole" /\ ~(Oci!Cardinality(Oci!Present(response.declares)) > MaxFiles)
    <3>1. Oci!Cardinality(Oci!Present(response.declares)) \in Nat
      BY SameCardinality, ProviderAssumption, FS_Subset, FS_CardinalityType DEF Oci!Present
    <3>2. \A n \in Names \ Oci!Present(response.declares) : captured[n] = response.declares[n]
      BY <2>1 DEF Oci!Present, Empty
    <3>3. /\ runnerPc' = "artifacts" /\ outcome' = "none" /\ unread' = Oci!Present(response.declares)
          /\ UNCHANGED <<workspace, client, container, over, files, reply, excess, response, captured>>
      BY <1>9, <2>1, <2>3 DEF Oci!CheckHeader
    <3>4. Oci!Cardinality(Oci!Present(response.declares)) <= MaxFiles
      BY <2>3, <3>1, ProviderAssumption
    <3>5. Reading'
      BY <2>1, <2>3, <3>2, <3>3, <3>4, EmptyFits DEF Reading
    <3>6. Oci!Present(response.declares) \subseteq Names
      BY DEF Oci!Present
    <3> QED BY <2>1, <3>3, <3>5, <3>6
  <2> QED BY <2>1, <2>2, <2>3
<1>10. ASSUME NEW n \in Names, Oci!Capture(n) PROVE OciInv'
  <2> DEFINE read == [captured EXCEPT ![n] = files[n]]
  <2>1. CASE files[n] = Missing \/ ~Oci!Fits(read) \/ files[n] # response.declares[n]
    BY <1>10, <2>1 DEF Oci!Capture
  <2>2. CASE ~(files[n] = Missing \/ ~Oci!Fits(read) \/ files[n] # response.declares[n])
    <3>1. read \in Oci!Trees
      BY DEF Oci!Trees
    <3>2. \A m \in Names \ (unread \ {n}) : read[m] = response.declares[m]
      BY <1>10, <2>2 DEF Oci!Capture, Reading, Oci!Trees
    <3> QED BY <1>10, <2>2, <3>1, <3>2 DEF Oci!Capture, Reading
  <2> QED BY <2>1, <2>2
<1>11. CASE Oci!Accept
  BY <1>11 DEF Oci!Accept, Reading
<1>12. CASE Oci!Cleanup
  <2>1. /\ runnerPc = "cleanup" /\ runnerPc' = "ended"
        /\ UNCHANGED <<client, container, over, files, reply, excess, response, unread, captured>>
    BY <1>12 DEF Oci!Cleanup
  <2>2. \/ workspace' = FALSE /\ outcome' = outcome
        \/ outcome' = "raised" /\ workspace' = workspace
    BY <1>12 DEF Oci!Cleanup
  <2>3. OciTypes'
    BY <2>1, <2>2
  <2>4. CASE workspace' = FALSE /\ outcome' = outcome
    BY <2>1, <2>3, <2>4 DEF Reading
  <2>5. CASE outcome' = "raised" /\ workspace' = workspace
    BY <2>1, <2>3, <2>5
  <2> QED BY <2>2, <2>4, <2>5
<1>13. CASE Oci!Interrupt
  BY <1>13 DEF Oci!Interrupt
<1>14. CASE Oci!StartContainer
  BY <1>14 DEF Oci!StartContainer, Reading
<1>15. CASE Oci!Write
  <2>1. /\ UNCHANGED <<runnerPc, outcome, workspace, client, container, over, response, unread, captured>>
        /\ files' \in Oci!Trees /\ reply' \in Oci!Responses /\ excess' \in BOOLEAN
    BY <1>15 DEF Oci!Write, Oci!Trees
  <2>2. Reading' = Reading
    BY <2>1 DEF Reading
  <2> QED BY <2>1, <2>2
<1>16. CASE Oci!ContainerEnds
  BY <1>16 DEF Oci!ContainerEnds, Reading
<1>17. CASE Oci!ClientEnds
  BY <1>17 DEF Oci!ClientEnds, Reading
<1>18. CASE Oci!TimePasses
  BY <1>18 DEF Oci!TimePasses, Reading
<1> HIDE DEF OciInv, OciTypes, Oci!Leave, Oci!Exits, Oci!outputs, Oci!reading, Oci!ociVars
<1> QED BY <1>1, <1>2, <1>3, <1>4, <1>5, <1>6, <1>7, <1>8, <1>9, <1>10, <1>11, <1>12, <1>13, <1>14,
           <1>15, <1>16, <1>17, <1>18 DEF Oci!Step, Oci!Environment

\* The local session stays in its own program points until it ends.
LEMMA OciPlace ==
  ASSUME OciInv, Oci!Step \/ Oci!Environment, runnerPc # "called"
  PROVE  runnerPc' = runnerPc \/ runnerPc' \in OciPlaces \cup {"ended"}
BY DEF OciPlaces, Oci!Leave, Oci!Step, Oci!Environment, Oci!ociVars, Oci!MakeWorkspace, Oci!Launch, Oci!Poll, Oci!Clock,
       Oci!RemoveContainer, Oci!Kill, Oci!CheckTree, Oci!ReadResponse, Oci!CheckHeader, Oci!Capture,
       Oci!Accept, Oci!Cleanup, Oci!Interrupt, Oci!StartContainer, Oci!Write, Oci!ContainerEnds,
       Oci!ClientEnds, Oci!TimePasses

\* A local step, or one of its environment, keeps the whole invariant.
LEMMA OciNextInv ==
  ASSUME Inv, OciStep \/ OciEnvironment
  PROVE  Inv'
<1>1. call.profile = "oci" /\ UNCHANGED <<call, remoteVars>> /\ (Oci!Step \/ Oci!Environment)
  BY DEF OciStep, OciEnvironment
<1>2. OciInv /\ Remote!Init
  BY <1>1 DEF Inv
<1>3. runnerPc # "called"
  <2>1. ASSUME runnerPc = "called" PROVE client = "none" /\ container = "none"
    BY <2>1 DEF Inv, Oci!Init
  <2> QED BY <1>1, <2>1 DEF Oci!Step, Oci!Environment, Oci!MakeWorkspace, Oci!Launch, Oci!Poll, Oci!Clock,
       Oci!RemoveContainer, Oci!Kill, Oci!CheckTree, Oci!ReadResponse, Oci!CheckHeader, Oci!Capture,
       Oci!Accept, Oci!Cleanup, Oci!Interrupt, Oci!StartContainer, Oci!Write, Oci!ContainerEnds,
       Oci!ClientEnds, Oci!TimePasses
<1>4. OciInv'
  BY <1>1, <1>2, OciSessionInv DEF Inv
<1>5. Remote!Init'
  BY <1>1, <1>2 DEF Remote!Init, remoteVars
<1>6. runnerPc' = runnerPc \/ runnerPc' \in OciPlaces \cup {"ended"}
  BY <1>1, <1>2, <1>3, OciPlace
<1>7. runnerPc' \notin {"called", "ended"} => call.defects = {}
  <2>1. runnerPc # "ended" => call.defects = {}
    BY <1>3 DEF Inv
  <2>2. runnerPc = "ended" => runnerPc' = "ended"
    BY <1>1 DEF Oci!Leave, Oci!Step, Oci!Environment, Oci!MakeWorkspace, Oci!Launch, Oci!Poll, Oci!Clock,
       Oci!RemoveContainer, Oci!Kill, Oci!CheckTree, Oci!ReadResponse, Oci!CheckHeader, Oci!Capture,
       Oci!Accept, Oci!Cleanup, Oci!Interrupt, Oci!StartContainer, Oci!Write, Oci!ContainerEnds,
       Oci!ClientEnds, Oci!TimePasses
  <2> QED BY <2>1, <2>2
<1>8. runnerPc' \in OciPlaces \cup {"ended"}
  BY <1>1, <1>3, <1>6 DEF Inv, RemotePlaces
<1> QED BY <1>1, <1>4, <1>5, <1>7, <1>8 DEF Inv, OciPlaces, RemotePlaces

-----------------------------------------------------------------------------
(* The remote session.                                                     *)

\* The end of an attempt keeps the history apart into retryable failures and
\* what the call ends with.
LEMMA EndAttemptInv ==
  ASSUME RemoteInv, runnerPc \in RemotePlaces \ {"retry"}, NEW code \in Codes, Remote!EndAttempt(code),
         UNCHANGED <<call, attempt>>,
         peer' \in [1..MaxAttempts -> {"none", "pinned", "other"}], peer' # NoPeer => call.defects = {},
         received' \subseteq 1..attempt, executed' \subseteq received',
         \A n \in received' : peer'[n] = "pinned"
  PROVE  RemoteInv' /\ runnerPc' \in {"retry", "ended"}
<1> DEFINE h == Append(history, code)
<1>1. /\ history \in Seq(Codes) /\ attempt \in Nat /\ attempt >= 1 /\ Len(history) = attempt - 1
      /\ \A j \in DOMAIN history : history[j] \in Remote!Retryable
  BY ProviderAssumption DEF RemoteInv, RemoteTypes
<1>2. history' = h /\ answer' = NoAnswer
  BY DEF Remote!EndAttempt
<1>3. /\ h \in Seq(Codes) /\ Len(h) = attempt /\ h # <<>> /\ h[Len(h)] = code
      /\ DOMAIN h = 1..attempt
      /\ \A j \in 1..(attempt - 1) : h[j] = history[j]
  BY <1>1
<1>4. \A j \in 1..(attempt - 1) : h[j] \in Remote!Retryable
  BY <1>1, <1>3
<1>5. RemoteTypes'
  BY <1>2, <1>3 DEF RemoteInv, RemoteTypes
<1>6. CASE code \in Remote!Retryable
  <2>1. runnerPc' = "retry" /\ outcome' = outcome
    BY <1>6 DEF Remote!EndAttempt
  <2>2. \A j \in DOMAIN h : h[j] \in Remote!Retryable
    BY <1>1, <1>3, <1>4, <1>6
  <2> QED BY <1>1, <1>2, <1>3, <1>4, <1>5, <2>1, <2>2 DEF RemoteInv, RemotePlaces
<1>7. CASE code \notin Remote!Retryable
  <2>1. runnerPc' = "ended" /\ outcome' = code
    BY <1>7 DEF Remote!EndAttempt
  <2>2. Concluded'
    BY <1>1, <1>2, <1>3, <1>7, <2>1 DEF Concluded
  <2> QED BY <1>1, <1>2, <1>3, <1>4, <1>5, <2>1, <2>2 DEF RemoteInv, RemotePlaces
<1> QED BY <1>6, <1>7

\* Every step of the exchange keeps its invariant.
LEMMA RemoteSessionInv ==
  ASSUME RemoteInv, runnerPc # "called", runnerPc \in RemotePlaces => call.defects = {},
         Remote!Step \/ Remote!Environment, UNCHANGED call
  PROVE  RemoteInv' /\ runnerPc' \in {runnerPc, "ended"} \cup RemotePlaces /\ (runnerPc = "ended" => runnerPc' = "ended")
<1>1. RemoteTypes /\ attempt \in Nat /\ MaxAttempts \in Nat
  BY ProviderAssumption DEF RemoteInv, RemoteTypes
<1>2. {"TIMEOUT", "TRANSPORT_FAILED", "TLS_IDENTITY_FAILED", "DEPENDENCY_UNAVAILABLE"} \subseteq Codes
  BY DEF Codes, Remote!Retryable
<1>3. CASE Remote!NextAttempt
  <2>1. runnerPc = "retry" /\ UNCHANGED <<peer, received, executed, answer, history>>
    BY <1>3 DEF Remote!NextAttempt
  <2>2. Len(history) = attempt /\ DOMAIN history = 1..attempt /\ (history = <<>> => attempt = 0)
        /\ \A j \in DOMAIN history : history[j] \in Remote!Retryable
    BY <1>1, <2>1 DEF RemoteInv, RemoteTypes, RemotePlaces
  <2>3. CASE attempt < MaxAttempts
    <3>1. attempt' = attempt + 1 /\ runnerPc' = "connect" /\ outcome' = outcome
      BY <1>3, <2>3 DEF Remote!NextAttempt
    <3>2. RemoteTypes'
      BY <1>1, <2>1, <2>2, <2>3, <3>1 DEF RemoteTypes
    <3>3. attempt' \notin received'
      BY <1>1, <2>1, <3>1 DEF RemoteTypes
    <3> QED BY <1>1, <2>1, <2>2, <3>1, <3>2, <3>3 DEF RemoteInv, RemotePlaces
  <2>4. CASE ~(attempt < MaxAttempts)
    <3>1. attempt' = attempt /\ runnerPc' = "ended" /\ outcome' = "RETRY_EXHAUSTED"
      BY <1>3, <2>4 DEF Remote!NextAttempt
    <3>2. attempt = MaxAttempts
      BY <1>1, <2>4 DEF RemoteTypes
    <3>3. Concluded'
      BY <2>1, <2>2, <3>1, <3>2 DEF Concluded
    <3>4. RemoteTypes'
      BY <1>1, <2>1, <3>1 DEF RemoteTypes
    <3> QED BY <2>1, <3>1, <3>3, <3>4 DEF RemoteInv, RemotePlaces
  <2> QED BY <2>3, <2>4
<1>4. CASE Remote!Connect
  <2>1. runnerPc = "connect" /\ UNCHANGED <<attempt, received, executed>>
    BY <1>4 DEF Remote!Connect
  <2>2. ASSUME NEW who \in {"pinned", "other"}, peer' = [peer EXCEPT ![attempt] = who], runnerPc' = "pin",
               UNCHANGED <<outcome, answer, history>>
        PROVE  RemoteInv'
    <3>1. peer' \in [1..MaxAttempts -> {"none", "pinned", "other"}]
      BY <1>1, <2>2 DEF RemoteTypes
    <3>2. attempt \notin received /\ \A n \in received : peer'[n] = peer[n]
      BY <1>1, <2>1, <2>2 DEF RemoteInv, RemoteTypes
    <3>3. RemoteTypes'
      BY <1>1, <2>1, <2>2, <3>1 DEF RemoteTypes
    <3>4. call.defects = {}
      BY <2>1 DEF RemotePlaces
    <3> QED BY <2>1, <2>2, <3>2, <3>3, <3>4 DEF RemoteInv, RemotePlaces
  <2>3. CASE Remote!Lost /\ UNCHANGED peer
    <3>1. PICK code \in Codes : Remote!EndAttempt(code)
      BY <1>2, <2>3 DEF Remote!Lost
    <3> QED BY <1>1, <2>1, <2>3, <3>1, EndAttemptInv DEF RemoteInv, RemoteTypes, RemotePlaces
  <2>4. runnerPc' \in {runnerPc, "ended"} \cup RemotePlaces /\ runnerPc # "ended"
    BY <1>4 DEF Remote!Connect, Remote!Lost, Remote!EndAttempt, RemotePlaces
  <2> QED BY <1>4, <2>2, <2>3, <2>4 DEF Remote!Connect
<1>5. CASE Remote!CheckPin
  <2>1. runnerPc = "pin" /\ UNCHANGED <<attempt, peer, received, executed>>
    BY <1>5 DEF Remote!CheckPin
  <2>2. CASE \E code \in Codes : Remote!EndAttempt(code)
    <3>1. PICK code \in Codes : Remote!EndAttempt(code)
      BY <2>2
    <3> QED BY <1>1, <2>1, <3>1, EndAttemptInv DEF RemoteInv, RemoteTypes, RemotePlaces
  <2>3. CASE peer[attempt] = "pinned" /\ runnerPc' = "send" /\ UNCHANGED <<outcome, answer, history>>
    BY <1>1, <2>1, <2>3 DEF RemoteInv, RemoteTypes, RemotePlaces
  <2>4. (\E code \in Codes : Remote!EndAttempt(code))
        \/ (peer[attempt] = "pinned" /\ runnerPc' = "send" /\ UNCHANGED <<outcome, answer, history>>)
    BY <1>2, <1>5 DEF Remote!CheckPin
  <2> QED BY <2>1, <2>2, <2>3, <2>4 DEF RemotePlaces
<1>6. CASE Remote!Send
  <2>1. runnerPc = "send" /\ UNCHANGED <<attempt, peer, executed>>
    BY <1>6 DEF Remote!Send
  <2>2. received' \in {received, received \cup {attempt}}
    BY <1>6 DEF Remote!Send
  <2>3. attempt >= 1 /\ peer[attempt] = "pinned"
    BY <2>1 DEF RemoteInv, RemotePlaces
  <2>4. received' \subseteq 1..attempt /\ executed' \subseteq received' /\ \A n \in received' : peer'[n] = "pinned"
    BY <1>1, <2>1, <2>2, <2>3 DEF RemoteInv, RemoteTypes
  <2>5. CASE Remote!Lost
    <3>1. PICK code \in Codes : Remote!EndAttempt(code)
      BY <1>2, <2>5 DEF Remote!Lost
    <3> QED BY <1>1, <2>1, <2>4, <3>1, EndAttemptInv DEF RemoteInv, RemoteTypes, RemotePlaces
  <2>6. CASE runnerPc' = "answer" /\ UNCHANGED <<outcome, answer, history>>
    BY <1>1, <2>1, <2>3, <2>4, <2>6 DEF RemoteInv, RemoteTypes, RemotePlaces
  <2> QED BY <1>6, <2>1, <2>5, <2>6 DEF Remote!Send, RemotePlaces
<1>7. CASE Remote!ReadAnswer \/ Remote!LoseAnswer
  <2>1. runnerPc = "answer" /\ UNCHANGED <<attempt, peer, received, executed>>
    BY <1>7 DEF Remote!ReadAnswer, Remote!LoseAnswer
  <2>2. PICK code \in Codes : Remote!EndAttempt(code)
    BY <1>1, <1>2, <1>7 DEF Remote!ReadAnswer, Remote!LoseAnswer, Remote!Lost, RemoteTypes, Codes
  <2> QED BY <1>1, <2>1, <2>2, EndAttemptInv DEF RemoteInv, RemoteTypes, RemotePlaces
<1>8. CASE Remote!Interrupt
  BY <1>1, <1>8 DEF Remote!Interrupt, Remote!remoteVars, RemoteInv, RemoteTypes, RemotePlaces
<1>9. CASE Remote!Execute
  <2>1. UNCHANGED <<runnerPc, outcome, attempt, peer, received, answer, history>> /\ executed' \subseteq received
    BY <1>1, <1>9 DEF Remote!Execute, RemoteTypes
  <2> QED BY <1>1, <2>1 DEF RemoteInv, RemoteTypes, Concluded
<1>10. CASE Remote!Answer
  <2>1. UNCHANGED <<runnerPc, outcome, attempt, peer, received, executed, history>> /\ answer' \in Remote!Answers
    BY <1>10 DEF Remote!Answer
  <2> QED BY <1>1, <2>1 DEF RemoteInv, RemoteTypes, Concluded
<1> QED BY <1>3, <1>4, <1>5, <1>6, <1>7, <1>8, <1>9, <1>10 DEF Remote!Step, Remote!Environment

\* A remote step, or one of its environment, keeps the whole invariant.
LEMMA RemoteNextInv ==
  ASSUME Inv, RemoteStep \/ RemoteEnvironment
  PROVE  Inv'
<1>1. call.profile = "remote" /\ UNCHANGED <<call, ociVars>> /\ (Remote!Step \/ Remote!Environment)
  BY DEF RemoteStep, RemoteEnvironment
<1>2. RemoteInv /\ Oci!Init
  BY <1>1 DEF Inv
<1>3. runnerPc # "called"
  <2>1. ASSUME runnerPc = "called" PROVE received = {}
    BY <2>1 DEF Inv, Remote!Init
  <2> QED BY <1>1, <2>1 DEF Remote!Step, Remote!Environment, Remote!NextAttempt, Remote!Connect, Remote!CheckPin,
       Remote!Send, Remote!ReadAnswer, Remote!LoseAnswer, Remote!Interrupt, Remote!Execute, Remote!Answer
<1>4. RemoteInv' /\ runnerPc' \in {runnerPc, "ended"} \cup RemotePlaces /\ (runnerPc = "ended" => runnerPc' = "ended")
  BY <1>1, <1>2, <1>3, RemoteSessionInv DEF Inv, RemotePlaces
<1>5. Oci!Init'
  BY <1>1, <1>2 DEF Oci!Init, ociVars
<1>6. runnerPc \in {"ended"} \cup RemotePlaces
  BY <1>1, <1>3 DEF Inv, OciPlaces
<1> QED BY <1>1, <1>3, <1>4, <1>5, <1>6 DEF Inv, OciPlaces, RemotePlaces

\* Every step keeps the invariant.
LEMMA InvNext == Inv /\ [RunnerNext]_runnerVars => Inv'
<1> SUFFICES ASSUME Inv, [RunnerNext]_runnerVars PROVE Inv'
  OBVIOUS
<1>1. CASE UNCHANGED runnerVars
  BY <1>1 DEF runnerVars, ociVars, remoteVars, Inv, OciInv, OciTypes, Reading, RemoteInv, RemoteTypes, Concluded,
              Oci!Init, Remote!Init
<1>2. CASE Admit
  BY <1>2, AdmitInv
<1>3. CASE OciStep \/ OciEnvironment
  BY <1>3, OciNextInv
<1>4. CASE RemoteStep \/ RemoteEnvironment
  BY <1>4, RemoteNextInv
<1> QED BY <1>1, <1>2, <1>3, <1>4 DEF RunnerNext, Run

-----------------------------------------------------------------------------
(* The theorems.  They hold of every behaviour, fair or not.               *)

\* At each program point of run, what has been started, read and retried is what
\* the point says (runner.py:29-105, oci.py, remote.py:289-321).
THEOREM Invariant == RunnerSpec => []Inv
BY InvInit, InvNext, PTL DEF RunnerSpec

\* The session that is not the profile's has the types of its initial state.
LEMMA Types == Inv => OciTypes /\ RemoteTypes
BY OciInitTypes, RemoteInitTypes DEF Inv, OciInv, RemoteInv

\* The locals of run, docker's processes and the exchange keep their types.
THEOREM TypeCorrect == RunnerSpec => []RunnerTypeOK
<1>1. Inv => RunnerTypeOK
  BY Types DEF RunnerTypeOK, OciTypes, RemoteTypes
<1> QED BY <1>1, Invariant, PTL

\* Nothing is created, started or sent for a call that fails one of the tests of
\* run, and each profile keeps to its own means (runner.py:29-46).
THEOREM NothingStarts == RunnerSpec => []NothingStartsUnadmitted
<1>1. ASSUME Inv PROVE NothingStartsUnadmitted
  <2>1. CASE call.profile = "oci"
    BY <1>1, <2>1 DEF Inv, OciInv, Remote!Init, NothingStartsUnadmitted
  <2>2. CASE call.profile = "remote"
    BY <1>1, <2>2 DEF Inv, RemoteInv, NoPeer, Oci!Init, NothingStartsUnadmitted
  <2>3. CASE call.profile \notin {"oci", "remote"}
    BY <1>1, <2>3 DEF Inv, Oci!Init, Remote!Init, NothingStartsUnadmitted
  <2> QED BY <2>1, <2>2, <2>3
<1> QED BY <1>1, Invariant, PTL

\* What is accepted is what the response declares, within the limits, although
\* the container may write between any two reads (protocol.py:199-232).
THEOREM AcceptedAsDeclared == RunnerSpec => []AcceptedIsAsDeclared
<1>1. ASSUME Inv, outcome = "accepted", call.profile = "oci"
      PROVE  /\ response.state = "whole" /\ captured = response.declares /\ Oci!Fits(captured)
             /\ Cardinality(Oci!Present(captured)) <= MaxFiles
  <2>1. Reading /\ unread = {}
    BY <1>1 DEF Inv, OciInv
  <2>2. captured \in [Names -> Oci!Contents] /\ response \in Oci!Responses
    BY <1>1 DEF Inv, OciInv, OciTypes, Oci!Trees
  <2>3. response.declares \in [Names -> Oci!Contents]
    BY <2>1, <2>2 DEF Reading, Oci!Responses, Oci!Trees
  <2>4. captured = response.declares
    BY <2>1, <2>2, <2>3 DEF Reading
  <2> QED BY <2>1, <2>4, SameCardinality DEF Reading
<1>2. Inv => AcceptedIsAsDeclared
  BY <1>1 DEF AcceptedIsAsDeclared
<1> QED BY <1>2, Invariant, PTL

\* A run that ends otherwise than by a foreign exception has no child process and
\* no workspace left (runner.py:47-105, oci.py:173-190).
THEOREM CleanEnd == RunnerSpec => []RegularEndIsClean
<1>1. ASSUME Inv PROVE RegularEndIsClean
  BY <1>1 DEF Inv, OciInv, Oci!Init, RegularEndIsClean
<1> QED BY <1>1, Invariant, PTL

\* Requests reach the pinned peer only, and only after retryable failures
\* (remote.py:243-321).
THEOREM SpendAuthorised == RunnerSpec => []SpendIsAuthorised
<1>1. ASSUME Inv PROVE SpendIsAuthorised
  <2>1. CASE call.profile = "remote"
    <3>1. RemoteInv /\ attempt \in Nat
      BY <1>1, <2>1, ProviderAssumption DEF Inv, RemoteInv, RemoteTypes
    <3>2. \A n \in received : 1..(n - 1) \subseteq 1..(attempt - 1)
      BY <3>1 DEF RemoteInv, RemoteTypes
    <3> QED BY <3>1, <3>2 DEF RemoteInv, SpendIsAuthorised
  <2>2. CASE call.profile # "remote"
    BY <1>1, <2>2 DEF Inv, Remote!Init, SpendIsAuthorised
  <2> QED BY <2>1, <2>2
<1> QED BY <1>1, Invariant, PTL

\* Every failure but the last is transient, and the call is exhausted exactly
\* when all of the attempts it may make have failed so (remote.py:304-321).
THEOREM RetriesTransient == RunnerSpec => []RetriesAreTransient
<1>1. ASSUME Inv PROVE RetriesAreTransient
  <2>1. CASE call.profile = "remote"
    <3>1. RemoteInv /\ attempt \in Nat
      BY <1>1, <2>1, ProviderAssumption DEF Inv, RemoteInv, RemoteTypes
    <3>2. 1..(Len(history) - 1) \subseteq 1..(attempt - 1)
      BY <3>1 DEF RemoteInv, RemoteTypes
    <3> QED BY <3>1, <3>2 DEF RemoteInv, Concluded, RetriesAreTransient
  <2>2. CASE call.profile # "remote"
    <3>1. history = <<>> /\ Len(<<>>) = 0
      BY <1>1, <2>2 DEF Inv, Remote!Init
    <3> QED BY <2>2, <3>1 DEF RetriesAreTransient
  <2> QED BY <2>1, <2>2
<1> QED BY <1>1, Invariant, PTL
=============================================================================
