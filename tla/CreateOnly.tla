----------------------------- MODULE CreateOnly -----------------------------
(***************************************************************************)
(* What the create-only publication of src/aecctx/_atomic.py promises to   *)
(* the commands that write a gate result, its projections or a signature   *)
(* sidecar: a call creates every requested output and reports success, or  *)
(* reports a refusal and leaves none of its own outputs behind, or is lost *)
(* (killed, interrupted, or stopped by an error in its own cleanup) and    *)
(* promises nothing about completeness.  Whatever happens, no step changes *)
(* or removes a file that somebody else created.                           *)
(***************************************************************************)
CONSTANTS
  Procs,      \* the concurrent invocations
  Outputs,    \* the output paths
  NoFile,     \* the owner of a path where nothing exists
  Outsider    \* the owner of every file that no invocation created

VARIABLES
  store,      \* store[f]: who created the file at path f, or NoFile
  want,       \* want[p]: the outputs invocation p was asked for
  verdict     \* verdict[p]: what invocation p has reported

absVars == <<store, want, verdict>>

Init ==
  /\ store \in [Outputs -> {NoFile, Outsider}]
  /\ want = [p \in Procs |-> {}]
  /\ verdict = [p \in Procs |-> "none"]

Call(p) ==
  /\ verdict[p] = "none"
  /\ \E W \in SUBSET Outputs :
       /\ want' = [want EXCEPT ![p] = W]
       /\ verdict' = [verdict EXCEPT ![p] = "open"]
  /\ UNCHANGED store

\* Creation, never replacement: the path must be free.
Create(p, f) ==
  /\ verdict[p] = "open"
  /\ f \in want[p]
  /\ store[f] = NoFile
  /\ store' = [store EXCEPT ![f] = p]
  /\ UNCHANGED <<want, verdict>>

\* An invocation takes back only what it created itself.
Withdraw(p, f) ==
  /\ verdict[p] = "open"
  /\ store[f] = p
  /\ store' = [store EXCEPT ![f] = NoFile]
  /\ UNCHANGED <<want, verdict>>

Report(p, v) ==
  /\ verdict[p] = "open"
  /\ verdict' = [verdict EXCEPT ![p] = v]
  /\ UNCHANGED <<store, want>>

Succeed(p) == Report(p, "ok") /\ \A f \in want[p] : store[f] = p

Refuse(p) == Report(p, "refused") /\ \A f \in Outputs : store[f] # p

Lose(p) == Report(p, "lost")

OutsideCreate(f) ==
  /\ store[f] = NoFile
  /\ store' = [store EXCEPT ![f] = Outsider]
  /\ UNCHANGED <<want, verdict>>

\* Outsiders may take back what is theirs.
OutsideRemove(f) ==
  /\ store[f] = Outsider
  /\ store' = [store EXCEPT ![f] = NoFile]
  /\ UNCHANGED <<want, verdict>>

Next ==
  \/ \E p \in Procs : Call(p) \/ Succeed(p) \/ Refuse(p) \/ Lose(p)
  \/ \E p \in Procs, f \in Outputs : Create(p, f) \/ Withdraw(p, f)
  \/ \E f \in Outputs : OutsideCreate(f) \/ OutsideRemove(f)

Spec == Init /\ [][Next]_absVars
=============================================================================
