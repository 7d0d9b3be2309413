----------------------------- MODULE MCPrograms -----------------------------
(***************************************************************************)
(* Four programs that share no state and never wait: invocations of        *)
(* atomic_create_many, writers of a package, runs of the plugin manager,   *)
(* and the application of a gate's waivers.  The initial state says which  *)
(* of them runs; the others do not begin, or have ended.                   *)
(*                                                                         *)
(* Two invocations over two paths, each asking for at most two outputs:    *)
(* the smallest instance where both can win one path and lose the other.   *)
(* Two writers with one output path, in every combination of forms and     *)
(* embedding policies, over a source file that changes at most once.       *)
(* Two process ids, two plugin versions, four runs of the manager and one  *)
(* failing system call: a killed upgrade whose process id comes back, and  *)
(* an install that fills the gap it left.  The waivers: MCGateWaivers.     *)
(***************************************************************************)
EXTENDS AtomicCreate, PackageStore, InspectorLifecycle, MCGateWaivers

VARIABLE program

NoOneCreates ==
  /\ CreateInit
  /\ fs = [f \in Outputs |-> NoFile]

NoOneWrites ==
  /\ StoreInit
  /\ source = (CHOOSE s \in Sources : TRUE)
  /\ form = [p \in Writers |-> "zip"] /\ embedding = [p \in Writers |-> "external"]

\* No check was declared and no waiver given.
NothingIsWaived ==
  /\ evaluated = {} /\ original = [c \in Declared |-> [f \in Fingerprints |-> "none"]] /\ waivers = <<>>
  /\ waiverPc = "done" /\ i = 1
  /\ updates = [c \in Declared |-> {}] /\ floors = {} /\ diagnostics = {} /\ unbuilt = {}
  /\ final = [c \in Declared |-> [status |-> "pass", findings |-> original[c]]]
  /\ error = "none"

Init ==
  /\ LifecycleInit
  /\ \/ program = "create" /\ CreateInit /\ NoOneWrites /\ NothingIsWaived
     \/ program = "store" /\ NoOneCreates /\ StoreInit /\ NothingIsWaived
     \/ program = "manager" /\ NoOneCreates /\ NoOneWrites /\ NothingIsWaived
     \/ program = "waivers" /\ NoOneCreates /\ NoOneWrites /\ WaiverInit

Creating(A) == program = "create" /\ A /\ UNCHANGED <<program, storeVars, lifecycleVars, waiverVars>>
Storing(A) == program = "store" /\ A /\ UNCHANGED <<program, createVars, lifecycleVars, waiverVars>>
Managing(A) == program = "manager" /\ A /\ UNCHANGED <<program, createVars, storeVars, waiverVars>>
Waiving(A) == program = "waivers" /\ A /\ UNCHANGED <<program, createVars, storeVars, lifecycleVars>>

Next == Creating(CreateNext) \/ Storing(StoreNext) \/ Managing(LifecycleNext) \/ Waiving(WaiverNext)

vars == <<program, createVars, storeVars, lifecycleVars, waiverVars>>

Spec == Init /\ [][Next]_vars
=============================================================================
