---------------------------- MODULE AtomicCreate ----------------------------
(***************************************************************************)
(* atomic_create_many of src/aecctx/_atomic.py: every output is staged in  *)
(* a temporary file of its directory, then the staged files are hard       *)
(* linked to their outputs one by one; a failure unlinks the outputs       *)
(* linked so far, and the temporaries are unlinked in any case.            *)
(*                                                                         *)
(* Several invocations run at once (two `aecctx gate`, or a gate and a     *)
(* `sign`), outsiders create files at the same paths, every system call    *)
(* may fail, and a process may be interrupted (KeyboardInterrupt, which    *)
(* only the `finally` clause sees) or killed between any two steps.        *)
(*                                                                         *)
(* The bytes of an output are abstracted to who created the file and       *)
(* whether the data was completely written when it became visible.         *)
(***************************************************************************)
EXTENDS Integers, Sequences

CONSTANTS
  Procs,            \* invocations of atomic_create_many
  Outputs,          \* resolved output paths
  NoFile,           \* a path where nothing exists
  Outsider,         \* the creator of files no invocation made
  MaxOutputs,       \* bound: outputs of one invocation (the gate command has three)
  Removable         \* whose files outsiders remove from these paths

ASSUME PartiesAssumption ==
  /\ NoFile \notin Procs \cup {Outsider} \cup [by : Procs \cup {Outsider}, data : {"partial", "full"}]
  /\ Outsider \notin Procs
  /\ MaxOutputs \in Nat
  /\ Removable \subseteq Procs \cup {Outsider}

VARIABLES
  fs,         \* fs[f]: NoFile, or [by, data] for the file at output path f
  createPc,   \* createPc[p]: where invocation p is
  request,    \* request[p]: the output paths, in the order of `items`
  item,       \* item[p]: index of the output the current loop is at
  temps,      \* temps[p]: `staged`, reduced to whether each temporary is "partial" or "full"
  published,  \* published[p]: length of the list `published` (a prefix of request[p])
  returned    \* returned[p]: what the call returns or raises

createVars == <<fs, createPc, request, item, temps, published, returned>>

Requests == UNION {[1..n -> Outputs] : n \in 0..MaxOutputs}
Files == [by : Procs \cup {Outsider}, data : {"partial", "full"}]
InTry == {"staging", "writing", "linking", "rollback"}
Running == InTry \cup {"resolving", "checking", "cleanup"}
Ended == {"done", "crashed"}

Owner(f) == IF fs[f] = NoFile THEN NoFile ELSE fs[f].by

Distinct(r) == \A i, j \in DOMAIN r : r[i] = r[j] => i = j

CreateInit ==
  /\ fs \in [Outputs -> {NoFile, [by |-> Outsider, data |-> "full"]}]
  /\ createPc = [p \in Procs |-> "idle"]
  /\ request = [p \in Procs |-> <<>>]
  /\ item = [p \in Procs |-> 1]
  /\ temps = [p \in Procs |-> <<>>]
  /\ published = [p \in Procs |-> 0]
  /\ returned = [p \in Procs |-> "none"]

-----------------------------------------------------------------------------
(* The steps of one invocation.                                            *)

Goto(p, l) == createPc' = [createPc EXCEPT ![p] = l]

Exit(p, o) == /\ Goto(p, "done")
              /\ returned' = [returned EXCEPT ![p] = o]

\* The next turn of a loop over the outputs, or on to what follows the loop.
Advance(p, loop, next) ==
  IF item[p] = Len(request[p])
    THEN item' = [item EXCEPT ![p] = 1] /\ Goto(p, next)
    ELSE item' = [item EXCEPT ![p] = @ + 1] /\ Goto(p, loop)

\* Mutant: the handler passes a reason AtomicCreateError does not know.
FailUnknownReason(p, reason) == /\ Goto(p, "rollback")
                                /\ returned' = [returned EXCEPT ![p] = "unlinked"]

\* An exception inside the try block: the handler's reason, then its rollback.
Fail(p, reason) == /\ Goto(p, "rollback")
                   /\ returned' = [returned EXCEPT ![p] = reason]

\* Materialise the items.
CallCreate(p) ==
  /\ createPc[p] = "idle"
  /\ \E r \in Requests : request' = [request EXCEPT ![p] = r]
  /\ Goto(p, "resolving")
  /\ UNCHANGED <<fs, item, temps, published, returned>>

\* Nothing to do, or two items resolving to one path, ends the call before any
\* file is looked at.
Resolve(p) ==
  /\ createPc[p] = "resolving"
  /\ \/ request[p] = <<>> /\ Exit(p, "ok")
     \/ ~Distinct(request[p]) /\ Exit(p, "exists")
     \/ /\ request[p] # <<>> /\ Distinct(request[p])
        /\ Goto(p, "checking")
        /\ UNCHANGED returned
  /\ UNCHANGED <<fs, request, item, temps, published>>

\* any(path.exists() or path.is_symlink()): the paths are looked at in turn.
CheckOutputs(p) ==
  /\ createPc[p] = "checking"
  /\ \/ /\ fs[request[p][item[p]]] # NoFile
        /\ Exit(p, "exists")
        /\ UNCHANGED item
     \/ /\ fs[request[p][item[p]]] = NoFile
        /\ Advance(p, "checking", "staging")
        /\ UNCHANGED returned
  /\ UNCHANGED <<fs, request, temps, published>>

\* mkstemp in the parent directory of the output, recorded in `staged`.
MakeTemp(p) ==
  /\ createPc[p] = "staging"
  /\ temps' = [temps EXCEPT ![p] = Append(@, "partial")]
  /\ Goto(p, "writing")
  /\ UNCHANGED <<fs, request, item, published, returned>>

\* Mutant: the staged file is left unwritten.
WriteTempNothing(p) ==
  /\ createPc[p] = "writing"
  /\ Advance(p, "staging", "linking")
  /\ UNCHANGED <<fs, request, temps, published, returned>>

\* chmod, write, flush and fsync of one temporary; after the last, publication.
WriteTemp(p) ==
  /\ createPc[p] = "writing"
  /\ temps' = [temps EXCEPT ![p][item[p]] = "full"]
  /\ Advance(p, "staging", "linking")
  /\ UNCHANGED <<fs, request, published, returned>>

\* Mutant: os.replace in place of os.link.
LinkReplacing(p) ==
  /\ createPc[p] = "linking"
  /\ fs' = [fs EXCEPT ![request[p][item[p]]] = [by |-> p, data |-> temps[p][item[p]]]]
  /\ published' = [published EXCEPT ![p] = item[p]]
  /\ Advance(p, "linking", "cleanup")
  /\ returned' = [returned EXCEPT ![p] = IF item[p] = Len(request[p]) THEN "ok" ELSE @]
  /\ UNCHANGED <<request, temps>>

\* os.link refuses an existing target, whoever made it.
Link(p) ==
  LET f == request[p][item[p]] IN
  /\ createPc[p] = "linking"
  /\ \/ /\ fs[f] # NoFile
        /\ Fail(p, "exists")
        /\ UNCHANGED <<fs, item, published>>
     \/ /\ fs[f] = NoFile
        /\ fs' = [fs EXCEPT ![f] = [by |-> p, data |-> temps[p][item[p]]]]
        /\ published' = [published EXCEPT ![p] = item[p]]
        /\ IF item[p] = Len(request[p])
             THEN /\ Goto(p, "cleanup")
                  /\ returned' = [returned EXCEPT ![p] = "ok"]
                  /\ UNCHANGED item
             ELSE /\ item' = [item EXCEPT ![p] = @ + 1]
                  /\ UNCHANGED <<createPc, returned>>
  /\ UNCHANGED <<request, temps>>

\* Mutant: the rollback forgets the first output.
RollbackAllButFirst(p) ==
  /\ createPc[p] = "rollback"
  /\ IF published[p] <= 1
       THEN Goto(p, "cleanup") /\ UNCHANGED <<fs, published>>
       ELSE /\ fs' = [fs EXCEPT ![request[p][published[p]]] = NoFile]
            /\ published' = [published EXCEPT ![p] = @ - 1]
            /\ UNCHANGED createPc
  /\ UNCHANGED <<request, item, temps, returned>>

\* for output in reversed(published): output.unlink(missing_ok=True)
Rollback(p) ==
  /\ createPc[p] = "rollback"
  /\ IF published[p] = 0
       THEN Goto(p, "cleanup") /\ UNCHANGED <<fs, published>>
       ELSE /\ fs' = [fs EXCEPT ![request[p][published[p]]] = NoFile]
            /\ published' = [published EXCEPT ![p] = @ - 1]
            /\ UNCHANGED createPc
  /\ UNCHANGED <<request, item, temps, returned>>

\* finally: the temporaries are unlinked in the order they were staged.
Cleanup(p) ==
  /\ createPc[p] = "cleanup"
  /\ IF temps[p] = <<>>
       THEN Goto(p, "done") /\ UNCHANGED temps
       ELSE temps' = [temps EXCEPT ![p] = Tail(@)] /\ UNCHANGED createPc
  /\ UNCHANGED <<fs, request, item, published, returned>>

CreateStep(p) ==
  Resolve(p) \/ CheckOutputs(p) \/ MakeTemp(p) \/ WriteTemp(p) \/ Link(p) \/ Rollback(p) \/ Cleanup(p)

-----------------------------------------------------------------------------
(* Faults and the environment.                                             *)

\* mkstemp, chmod, write, fsync or link raises an OSError that is not EEXIST.
IOError(p) ==
  /\ createPc[p] \in {"staging", "writing", "linking"}
  /\ Fail(p, "failed")
  /\ UNCHANGED <<fs, request, item, temps, published>>

\* An unlink of the handler raises: the finally clause still runs; an unlink of
\* the finally clause raises: the rest of its loop is abandoned.
UnlinkError(p) ==
  /\ createPc[p] \in {"rollback", "cleanup"}
  /\ createPc[p] = "rollback" => published[p] > 0
  /\ createPc[p] = "cleanup" => temps[p] # <<>>
  /\ Goto(p, IF createPc[p] = "rollback" THEN "cleanup" ELSE "done")
  /\ returned' = [returned EXCEPT ![p] = "oserror"]
  /\ UNCHANGED <<fs, request, item, temps, published>>

\* KeyboardInterrupt is no OSError: no rollback, only the finally clause.
Interrupt(p) ==
  /\ createPc[p] \in Running
  /\ Goto(p, IF createPc[p] \in InTry THEN "cleanup" ELSE "done")
  /\ returned' = [returned EXCEPT ![p] = "interrupted"]
  /\ UNCHANGED <<fs, request, item, temps, published>>

\* SIGKILL or power loss: nothing more runs, temporaries and links stay.
Crash(p) ==
  /\ createPc[p] \in Running
  /\ Goto(p, "crashed")
  /\ UNCHANGED <<fs, request, item, temps, published, returned>>

\* Another program creates a file at an output path.
OutsideCreate(f) ==
  /\ fs[f] = NoFile
  /\ fs' = [fs EXCEPT ![f] = [by |-> Outsider, data |-> "full"]]
  /\ UNCHANGED <<createPc, request, item, temps, published, returned>>

\* Another program removes the file at an output path: its own, or one that an
\* invocation created.
OutsideRemove(f) ==
  /\ fs[f] # NoFile
  /\ fs[f].by \in Removable
  /\ fs' = [fs EXCEPT ![f] = NoFile]
  /\ UNCHANGED <<createPc, request, item, temps, published, returned>>

CreateNext ==
  \/ \E p \in Procs : CallCreate(p) \/ CreateStep(p) \/ IOError(p) \/ UnlinkError(p) \/ Interrupt(p) \/ Crash(p)
  \/ \E f \in Outputs : OutsideCreate(f) \/ OutsideRemove(f)

CreateSpec == CreateInit /\ [][CreateNext]_createVars

-----------------------------------------------------------------------------
(* Properties.                                                             *)

\* The types of the file system and of every invocation's locals
\* (atomic_create_many's variables).
CreateTypeOK ==
  /\ fs \in [Outputs -> Files \cup {NoFile}]
  /\ createPc \in [Procs -> {"idle"} \cup Running \cup Ended]
  /\ request \in [Procs -> Seq(Outputs)]
  /\ item \in [Procs -> Nat \ {0}]
  /\ temps \in [Procs -> Seq({"partial", "full"})]
  /\ published \in [Procs -> Nat]
  /\ returned \in [Procs -> {"none", "ok", "exists", "failed", "oserror", "interrupted"}]

\* Whoever looks at an output path, at whatever moment and after whatever
\* crash, finds no file or a completely written one: the outputs of
\* atomic_create_many become visible only by os.link of a synced temporary.
CompleteOutputs == \A f \in Outputs : fs[f] # NoFile => fs[f].data = "full"

\* A call that raised AtomicCreateError has left neither an output nor a
\* temporary of its own, however many outputs it had linked before an outsider
\* or another invocation took the next path (the except clauses and finally).
RefusalLeavesNothing ==
  \A p \in Procs :
    createPc[p] = "done" /\ returned[p] \in {"exists", "failed"} =>
      temps[p] = <<>> /\ \A f \in Outputs : Owner(f) # p

\* The rollback unlinks only files this invocation created: the promise of
\* docs/specs/quality-gate-v02-profile.md, section 12, about the except clauses.
RollbackOnlyOwn ==
  [][\A p \in Procs : published'[p] < published[p] =>
       \A f \in Outputs : fs'[f] # fs[f] => fs[f].by = p]_createVars

\* The environment the promise needs: outsiders leave the files of others alone.
OwnRemovalsOnly == Removable \subseteq {Outsider}

\* The abstraction: who owns each path, what was asked, what was reported.
Reported(o) ==
  IF o = "ok" THEN "ok" ELSE IF o \in {"exists", "failed"} THEN "refused" ELSE "lost"

Verdict(p) ==
  IF createPc[p] = "idle" THEN "none"
  ELSE IF createPc[p] = "done" THEN Reported(returned[p])
  ELSE IF createPc[p] = "crashed" THEN "lost"
  ELSE "open"

StoreView == [f \in Outputs |-> Owner(f)]
WantView == [p \in Procs |-> {request[p][i] : i \in DOMAIN request[p]}]
VerdictView == [p \in Procs |-> Verdict(p)]

Promise == INSTANCE CreateOnly WITH store <- StoreView, want <- WantView, verdict <- VerdictView

\* atomic_create_many implements the create-only store: no overwriting, no
\* removal of anything it did not create, success only with every output in
\* place, refusal only with none (as long as outsiders remove only their own files).
ImplementsCreateOnly == Promise!Spec
=============================================================================
