--------------------------- MODULE GateEvaluation ---------------------------
(***************************************************************************)
(* evaluate_gate of src/aecctx/gate/evaluator.py, with validate_package    *)
(* (validation.py) and PackageReader (package.py), reading packages and    *)
(* caller files that other processes may change under it, and with system  *)
(* calls that may fail though nobody has changed anything.                 *)
(*                                                                         *)
(* Candidate and baseline go through the same preflight: validate the      *)
(* caller's path, copy it to a private snapshot, validate the snapshot and *)
(* require its manifest to equal the one first validated.  IDS checks each *)
(* read the caller's IDS and IFC files anew.                               *)
(*                                                                         *)
(* The manifest of a package is its version, which fixes the bytes of      *)
(* every member; a digest is the bytes it is the digest of; what a policy  *)
(* check finds is a given function of what it read.                        *)
(***************************************************************************)
EXTENDS GateOutcome, Sequences

CONSTANTS
  Versions,        \* the manifests packages may have
  Members,         \* inventoried artifact paths
  Bytes,           \* the contents of members
  Inventory,       \* Inventory[v][m]: the bytes of member m in version v
  IdsBytes,        \* contents of IDS documents
  IfcBytes,        \* contents of IFC sources
  SourceIds,       \* registered source identifiers
  Registered,      \* Registered[v][s]: IFC bytes the source record of s cites
  PackageVerdict,  \* PackageVerdict[v]: status of a check that reads the candidate
  DiffVerdict,     \* DiffVerdict[w][v]: status of the diff check of v against w
  IdsVerdict,      \* IdsVerdict[d][s]: status of an IDS check
  Calls,           \* the invocations considered: how the packages are stored,
                   \* the policy's checks, whether IDS and IFC paths are given
  Absent, Torn,    \* no file; a file that is no version's
  None,
  MaxChanges,      \* bound: changes others make during one evaluation
  MaxFaults        \* bound: system calls of the evaluation that fail

Roles == {"candidate", "baseline"}
Forms == {"directory", "zip", "symlink"}
Pairs == {"none", "half", "both"}
Manifest == "manifest.json"
Paths == Members \cup {Manifest}
Contents == Versions \cup Bytes \cup {Absent, Torn}
Identities == IdsBytes \X SourceIds \X IfcBytes
Checks == [kind : {"package", "diff"}] \cup [kind : {"ids"}, ids : IdsBytes, source : SourceIds]

ASSUME EvaluationAssumption ==
  /\ Inventory \in [Versions -> [Members -> Bytes]]
  /\ Registered \in [Versions -> [SourceIds -> IfcBytes]]
  /\ PackageVerdict \in [Versions -> Statuses]
  /\ DiffVerdict \in [Versions -> [Versions -> Statuses]]
  /\ IdsVerdict \in [IdsBytes -> [IfcBytes -> Statuses]]
  /\ \A c \in Calls : /\ c.candidate \in Forms /\ c.baseline \in Forms \cup {"not_supplied"}
                     /\ c.links \subseteq Members
                     /\ c.policy \in Seq(Checks)
                     /\ c.pair \in Pairs
  /\ MaxChanges \in Nat /\ MaxFaults \in Nat
  /\ Manifest \notin Members
  /\ None \notin Identities
  /\ Absent # Torn
  /\ {Absent, Torn, None} \cap (Versions \cup Bytes \cup IdsBytes \cup IfcBytes \cup Paths) = {}

VARIABLES
  form, links,  \* form[r], links[r]: how the package of role r is stored; its symlinked members
  policy, pair, \* the checks; whether IDS and IFC paths were given
  live,         \* live[r][p]: what is at path p of the caller's package now
  callerFiles,  \* files.ids, files.ifc: the caller's IDS and IFC files now
  changes,      \* how often others changed something
  faults,       \* how many system calls failed
  pc,
  role,         \* the package the preflight is at
  todo,         \* paths the current loop has not reached
  at,           \* the path just seen to exist and not yet read
  ok,           \* no validation diagnostic so far
  archive,      \* the members of the ZIP as inspected (_archive_infos)
  initial,      \* initial[r]: manifest of the first validation
  copy,         \* copy[r]: the private snapshot
  held,         \* held[r]: manifest of the accepted snapshot, or None
  k,            \* index of the policy check being evaluated
  got,          \* IDS bytes read for it
  identity,     \* ids_identity
  results,      \* [status, evidence] of the checks evaluated so far
  result        \* what evaluate_gate returns or raises

input == <<form, links, policy, pair>>
world == <<live, callerFiles, changes, faults>>
preflight == <<role, todo, at, ok, archive, initial, copy, held>>
checking == <<k, got, identity, results>>
evaluationVars == <<input, world, pc, preflight, checking, result>>

Whole(v) == [p \in Paths |-> IF p = Manifest THEN v ELSE Inventory[v][p]]
Nothing == [p \in Paths |-> Absent]
\* One member is damaged; of an archive, the list of its members is not.
Damaged == {[Whole(v) EXCEPT ![m] = Torn] : v \in Versions, m \in Members}

EvaluationInit ==
  /\ \E c \in Calls :
       /\ form = [r \in Roles |-> IF r = "candidate" THEN c.candidate ELSE c.baseline]
       /\ links = [r \in Roles |-> IF form[r] = "directory" THEN c.links ELSE {}]
       /\ policy = c.policy
       /\ pair = c.pair
  /\ live \in [Roles -> {Whole(v) : v \in Versions} \cup Damaged \cup {Nothing}]
  /\ \A r \in Roles : form[r] \notin {"directory", "zip"} => live[r] = Nothing
  /\ callerFiles \in IF pair = "both" THEN [ids : IdsBytes, ifc : IfcBytes] ELSE {[ids |-> Absent, ifc |-> Absent]}
  /\ changes = 0
  /\ faults = 0
  /\ pc = "start"
  /\ role = "candidate"
  /\ todo = {}
  /\ at = None
  /\ ok = TRUE
  /\ archive = Nothing
  /\ initial = [r \in Roles |-> None]
  /\ copy = [r \in Roles |-> Nothing]
  /\ held = [r \in Roles |-> None]
  /\ k = 1
  /\ got = Absent
  /\ identity = None
  /\ results = <<>>
  /\ result = [outcome |-> "none", code |-> "none", candidate |-> None, baseline |-> None, ids |-> None]

-----------------------------------------------------------------------------
(* Ways to end.                                                            *)

\* _build_result of a completed or failed evaluation.
Report(outcome, code, ids) ==
  /\ pc' = "done"
  /\ result' = [outcome |-> outcome, code |-> code,
                candidate |-> held["candidate"], baseline |-> held["baseline"], ids |-> ids]

\* An error result: invalid candidate, baseline_error or ids_error.
Error(code) == Report("error", code, None)

\* An exception nothing in evaluate_gate catches: no result document.
Raise == Report("raised", "UNCAUGHT", None) /\ UNCHANGED preflight

-----------------------------------------------------------------------------
(* Phase one: validate_package of the caller's path.                       *)

InvalidCode(r) == IF r = "candidate" THEN "CANDIDATE_INVALID" ELSE "BASELINE_INVALID"
ChangedCode(r) == IF r = "candidate" THEN "CANDIDATE_CHANGED" ELSE "BASELINE_CHANGED"

Invalid == /\ Error(InvalidCode(role))
           /\ UNCHANGED preflight

RejectSymlink ==
  /\ pc = "start"
  /\ form[role] = "symlink"
  /\ Invalid
  /\ UNCHANGED <<input, world, checking>>

\* _validate_directory reads manifest.json first.
LoadManifest ==
  /\ pc = "start"
  /\ form[role] = "directory"
  /\ IF live[role][Manifest] \in {Absent, Torn}
       THEN Invalid
       ELSE /\ initial' = [initial EXCEPT ![role] = live[role][Manifest]]
            /\ ok' = TRUE
            /\ todo' = Members
            /\ pc' = "artifacts"
            /\ UNCHANGED <<role, at, archive, copy, held, result>>
  /\ UNCHANGED <<input, world, checking>>

\* is_file() of the next inventoried artifact, record file or listed path:
\* a missing one is a diagnostic for the artifact loop and skipped by the others.
Look(p) ==
  /\ pc \in {"artifacts", "records", "copying"}
  /\ at = None
  /\ p \in todo
  /\ IF live[role][p] # Absent
       THEN at' = p /\ UNCHANGED <<todo, ok>>
       ELSE /\ todo' = todo \ {p}
            /\ ok' = (ok /\ pc # "artifacts")
            /\ UNCHANGED at
  /\ UNCHANGED <<input, world, pc, role, archive, initial, copy, held, checking, result>>

\* The read that follows is_file(): the file may have changed or gone.  Only
\* _validate_records catches the OSError.
Read ==
  /\ pc \in {"artifacts", "records"}
  /\ at # None
  /\ LET seen == live[role][at] IN
     \/ seen = Absent /\ pc = "artifacts" /\ Raise
     \/ /\ seen # Absent \/ pc = "records"
        /\ ok' = (ok /\ seen # Absent
                     /\ IF pc = "artifacts" THEN seen = Inventory[initial[role]][at] ELSE seen # Torn)
        /\ todo' = todo \ {at}
        /\ at' = None
        /\ UNCHANGED <<pc, role, archive, initial, copy, held, result>>
  /\ UNCHANGED <<input, world, checking>>

ArtifactsDone ==
  /\ pc = "artifacts" /\ at = None /\ todo = {}
  /\ pc' = "records"
  /\ todo' = Members
  /\ UNCHANGED <<input, world, role, at, ok, archive, initial, copy, held, checking, result>>

ValidationDone ==
  /\ pc = "records" /\ at = None /\ todo = {}
  /\ IF ok THEN pc' = "open" /\ UNCHANGED <<result, preflight>> ELSE Invalid
  /\ UNCHANGED <<input, world, checking>>

-----------------------------------------------------------------------------
(* ZIP form: PackageReader lists the members, then re-opens the archive by  *)
(* path for each; a member comes out as listed (the CRC says so) or raises: *)
(* what zipfile raises the reader turns into its error, what the inflater   *)
(* raises (zlib.error, EOFError) it does not.                               *)

Unreadable == {Absent, Torn}

\* The failure of a reader is a validation diagnostic in phase one and a
\* changed package in phase two.
ReaderError == IF pc \in {"start", "unpacking"} THEN Invalid
               ELSE Error(ChangedCode(role)) /\ UNCHANGED preflight

Inspect ==
  /\ pc \in {"start", "open"}
  /\ form[role] = "zip"
  /\ IF live[role][Manifest] \in Unreadable
       THEN ReaderError
       ELSE /\ archive' = live[role]
            /\ todo' = Paths
            /\ pc' = IF pc = "start" THEN "unpacking" ELSE "extracting"
            /\ UNCHANGED <<role, at, ok, initial, copy, held, result>>
  /\ UNCHANGED <<input, world, checking>>

Unzip(p) ==
  /\ pc \in {"unpacking", "extracting"}
  /\ p \in todo
  /\ \/ /\ live[role] # archive \/ archive[p] = Torn
        /\ ReaderError \/ Raise
     \/ /\ live[role][p] = archive[p] /\ archive[p] # Torn
        /\ todo' = todo \ {p}
        /\ copy' = [copy EXCEPT ![role][p] = IF pc = "extracting" THEN archive[p] ELSE @]
        /\ UNCHANGED <<pc, role, at, ok, archive, initial, held, result>>
  /\ UNCHANGED <<input, world, checking>>

\* _validate_directory of a private directory: nobody interferes.
Valid(c) == c[Manifest] \in Versions /\ c = Whole(c[Manifest])

\* Phase one of a ZIP ends with the validation of the temporary copy.
Unpacked ==
  /\ pc = "unpacking" /\ todo = {}
  /\ IF Valid(archive)
       THEN /\ initial' = [initial EXCEPT ![role] = archive[Manifest]]
            /\ pc' = "open"
            /\ UNCHANGED <<role, todo, at, ok, archive, copy, held, result>>
       ELSE Invalid
  /\ UNCHANGED <<input, world, checking>>

-----------------------------------------------------------------------------
(* Phase two: the private snapshot.                                        *)

\* Mutant: a changed package is simply read again.
ChangedRetries == /\ pc' = "open"
                  /\ at' = None
                  /\ UNCHANGED <<role, todo, ok, archive, initial, copy, held, result>>

Changed == Error(ChangedCode(role)) /\ UNCHANGED preflight

\* PackageReader reads the manifest, then extract_to lists the directory.
Open ==
  /\ pc = "open"
  /\ form[role] = "directory"
  /\ IF live[role][Manifest] \in Unreadable
       THEN Changed
       ELSE /\ todo' = {p \in Paths : live[role][p] # Absent}
            /\ pc' = "copying"
            /\ UNCHANGED <<role, at, ok, archive, initial, copy, held, result>>
  /\ UNCHANGED <<input, world, checking>>

Copy ==
  /\ pc = "copying"
  /\ at # None
  /\ LET seen == live[role][at] IN
     \/ at \in links[role] /\ Changed
     \/ at \notin links[role] /\ seen = Absent /\ Raise
     \/ /\ at \notin links[role] /\ seen # Absent
        /\ copy' = [copy EXCEPT ![role][at] = seen]
        /\ todo' = todo \ {at}
        /\ at' = None
        /\ UNCHANGED <<pc, role, ok, archive, initial, held, result>>
  /\ UNCHANGED <<input, world, checking>>

CopyDone == pc \in {"copying", "extracting"} /\ todo = {} /\ at = None

\* Mutant: the snapshot is held against the candidate's manifest, whatever its role.
AcceptedForCandidate == Valid(copy[role]) /\ copy[role][Manifest] = initial["candidate"]

\* Mutant: any valid snapshot will do.
AcceptedIfValid == Valid(copy[role])

\* The snapshot must be valid and have the complete manifest first validated.
Accepted == Valid(copy[role]) /\ copy[role][Manifest] = initial[role]

Compare ==
  /\ CopyDone
  /\ IF Accepted
       THEN /\ held' = [held EXCEPT ![role] = copy[role][Manifest]]
            /\ pc' = IF role = "candidate" THEN "baseline" ELSE "inputs"
            /\ UNCHANGED <<role, todo, at, ok, archive, initial, copy, result>>
       ELSE Changed
  /\ UNCHANGED <<input, world, checking>>

-----------------------------------------------------------------------------
(* The baseline and the IDS inputs.                                        *)

Kinds == {policy[j].kind : j \in DOMAIN policy}

Baseline ==
  /\ pc = "baseline"
  /\ \/ /\ form["baseline"] = "not_supplied"
        /\ IF "diff" \in Kinds THEN Error("BASELINE_MISSING") ELSE pc' = "inputs" /\ UNCHANGED result
        /\ UNCHANGED preflight
     \/ /\ form["baseline"] # "not_supplied"
        /\ pc' = "start"
        /\ role' = "baseline"
        /\ UNCHANGED <<todo, at, ok, archive, initial, copy, held, result>>
  /\ UNCHANGED <<input, world, checking>>

Inputs ==
  /\ pc = "inputs"
  /\ IF pair = "half" \/ ("ids" \in Kinds /\ pair # "both") THEN Error("IDS_PAIR_REQUIRED")
     ELSE IF pair = "both" /\ "ids" \notin Kinds THEN Error("IDS_INPUT_INVALID")
     ELSE pc' = "checks" /\ UNCHANGED result
  /\ UNCHANGED <<input, world, preflight, checking>>

-----------------------------------------------------------------------------
(* The policy checks, in the policy's order.                               *)

\* What a check finds in a package: the verdict of its version; a mixture of
\* versions satisfies nobody's expectations.
Judge(c, verdict) == IF Valid(c) THEN verdict[c[Manifest]] ELSE "fail"

\* Mutant: the check after the one concluded is passed over.
ConcludeSkipping(status, evidence) ==
  /\ results' = Append(results, [status |-> status, evidence |-> evidence])
  /\ k' = k + 2

Conclude(status, evidence) ==
  /\ results' = Append(results, [status |-> status, evidence |-> evidence])
  /\ k' = k + 1

\* Mutant: the checks read the caller's path, not the snapshot.
PackageCheckLive ==
  /\ pc = "checks" /\ k <= Len(policy)
  /\ policy[k].kind = "package"
  /\ Conclude(Judge(live["candidate"], PackageVerdict), None)
  /\ UNCHANGED <<input, world, pc, preflight, got, identity, result>>

\* capability.minimum, loss.maximum, value_state.action, diagnostic.maximum.
PackageCheck ==
  /\ pc = "checks" /\ k <= Len(policy)
  /\ policy[k].kind = "package"
  /\ Conclude(Judge(copy["candidate"], PackageVerdict), None)
  /\ UNCHANGED <<input, world, pc, preflight, got, identity, result>>

DiffCheck ==
  /\ pc = "checks" /\ k <= Len(policy)
  /\ policy[k].kind = "diff"
  /\ IF held["baseline"] = None
       THEN Error("BASELINE_MISSING") /\ UNCHANGED <<k, results>>
       ELSE /\ Conclude(Judge(copy["candidate"], [v \in Versions |->
                          Judge(copy["baseline"], [w \in Versions |-> DiffVerdict[w][v]])]), None)
            /\ UNCHANGED <<pc, result>>
  /\ UNCHANGED <<input, world, preflight, got, identity>>

\* prepare_ids_input, first half: the IDS document is read.
ReadIds ==
  /\ pc = "checks" /\ k <= Len(policy)
  /\ policy[k].kind = "ids"
  /\ IF callerFiles.ids = Absent
       THEN Error("IDS_INPUT_INVALID") /\ UNCHANGED got
       ELSE got' = callerFiles.ids /\ pc' = "bind" /\ UNCHANGED result
  /\ UNCHANGED <<input, world, preflight, k, identity, results>>

Current(c) == <<got, c.source, callerFiles.ifc>>

\* Mutant: the checks of a policy need not bind one input identity.
BindDefectAnyIdentity(c) ==
  IF callerFiles.ifc = Absent THEN "IDS_INPUT_INVALID"
  ELSE IF got # c.ids THEN "IDS_DIGEST_MISMATCH"
  ELSE IF callerFiles.ifc # Registered[held["candidate"]][c.source] THEN "IDS_SOURCE_HASH_MISMATCH"
  ELSE "none"

\* The first reason not to evaluate the pair just read for check c: both files
\* are bound to policy and package, and to what earlier IDS checks read.
BindDefect(c) ==
  IF callerFiles.ifc = Absent THEN "IDS_INPUT_INVALID"
  ELSE IF got # c.ids THEN "IDS_DIGEST_MISMATCH"
  ELSE IF callerFiles.ifc # Registered[held["candidate"]][c.source] THEN "IDS_SOURCE_HASH_MISMATCH"
  ELSE IF identity \notin {None, Current(c)} THEN "IDS_INPUT_INVALID"
  ELSE "none"

\* The IFC source is read and the worker evaluates copies of the bytes just read.
Bind ==
  /\ pc = "bind"
  /\ LET c == policy[k] IN
     IF BindDefect(c) # "none"
       THEN Error(BindDefect(c)) /\ UNCHANGED <<k, identity, results>>
       ELSE /\ identity' = Current(c)
            /\ Conclude(IdsVerdict[got][callerFiles.ifc], Current(c))
            /\ pc' = "checks"
            /\ UNCHANGED result
  /\ UNCHANGED <<input, world, preflight, got>>

\* The worker of an IDS check times out, crashes, or answers out of protocol.
WorkerFails ==
  /\ pc = "bind"
  /\ Error("IDS_WORKER")
  /\ UNCHANGED <<input, world, preflight, checking>>

\* Every system check passed; the outcome is the highest status of the checks.
\* The waivers between are those of GateWaivers: here the policy has none.
Finish ==
  /\ pc = "checks" /\ k > Len(policy)
  /\ Report(Aggregate({results[j].status : j \in DOMAIN results} \cup {"pass"}), "none", identity)
  /\ UNCHANGED <<input, world, preflight, checking>>

Step ==
  \/ RejectSymlink \/ LoadManifest \/ (\E p \in Paths : Look(p)) \/ Read \/ ArtifactsDone \/ ValidationDone
  \/ Inspect \/ (\E p \in Paths : Unzip(p)) \/ Unpacked
  \/ Open \/ Copy \/ Compare
  \/ Baseline \/ Inputs
  \/ PackageCheck \/ DiffCheck \/ ReadIds \/ Bind \/ WorkerFails \/ Finish

-----------------------------------------------------------------------------
(* System calls that fail although nothing has changed: a file cannot be   *)
(* read, the private directory not be made or written.                     *)

Failing == pc # "done" /\ faults < MaxFaults /\ faults' = faults + 1

\* What _read_json, _validate_records, PackageReader and prepare_ids_input catch.
FaultCaught ==
  /\ Failing
  /\ \/ /\ pc = "records" /\ at # None
        /\ ok' = FALSE
        /\ todo' = todo \ {at}
        /\ at' = None
        /\ UNCHANGED <<pc, role, archive, initial, copy, held, result>>
     \/ pc \in {"start", "unpacking", "open", "extracting"} /\ form[role] # "symlink" /\ ReaderError
     \/ /\ pc = "bind" \/ (pc = "checks" /\ k <= Len(policy) /\ policy[k].kind = "ids")
        /\ Error("IDS_INPUT_INVALID")
        /\ UNCHANGED preflight
  /\ UNCHANGED <<input, live, callerFiles, changes, checking>>

\* read_bytes of _validate_artifacts, copyfile of extract_to, and whatever writes or
\* reads back the private copies, the worker's included.
FaultRaised ==
  /\ Failing
  /\ \/ pc \in {"artifacts", "copying"} /\ at # None
     \/ pc \in {"unpacking", "open", "extracting", "bind"}
     \/ CopyDone
  /\ Raise
  /\ UNCHANGED <<input, live, callerFiles, changes, checking>>

-----------------------------------------------------------------------------
(* What others may do meanwhile.                                           *)

MayChange == pc # "done" /\ changes < MaxChanges /\ changes' = changes + 1

\* A file of a directory package is rewritten, half written, or removed.
WriteMember(r, p) ==
  /\ MayChange
  /\ form[r] = "directory"
  /\ \E c \in {Whole(v)[p] : v \in Versions} \cup {Absent, Torn} :
       c # live[r][p] /\ live' = [live EXCEPT ![r][p] = c]
  /\ UNCHANGED <<input, callerFiles, faults, pc, preflight, checking, result>>

\* A ZIP package is replaced, removed, or found half written.
ReplaceArchive(r) ==
  /\ MayChange
  /\ form[r] = "zip"
  /\ \E c \in {Whole(v) : v \in Versions} \cup {Nothing, [p \in Paths |-> Torn]} :
       c # live[r] /\ live' = [live EXCEPT ![r] = c]
  /\ UNCHANGED <<input, callerFiles, faults, pc, preflight, checking, result>>

ChangeInput ==
  /\ MayChange
  /\ pair = "both"
  /\ \/ \E d \in IdsBytes \cup {Absent} : d # callerFiles.ids /\ callerFiles' = [callerFiles EXCEPT !.ids = d]
     \/ \E s \in IfcBytes \cup {Absent} : s # callerFiles.ifc /\ callerFiles' = [callerFiles EXCEPT !.ifc = s]
  /\ UNCHANGED <<input, live, faults, pc, preflight, checking, result>>

Others ==
  \/ \E r \in Roles, p \in Paths : WriteMember(r, p)
  \/ \E r \in Roles : ReplaceArchive(r)
  \/ ChangeInput

EvaluationNext == Step \/ FaultCaught \/ FaultRaised \/ Others

EvaluationSpec == EvaluationInit /\ [][EvaluationNext]_evaluationVars

\* The evaluating process is scheduled; its loops wait for nobody.
EvaluationFairSpec == EvaluationSpec /\ WF_evaluationVars(Step)

-----------------------------------------------------------------------------
(* Properties.                                                             *)

\* The types of evaluate_gate's locals and of the packages it reads.
EvaluationTypeOK ==
  /\ live \in [Roles -> [Paths -> Contents]]
  /\ copy \in [Roles -> [Paths -> Contents]]
  /\ archive \in [Paths -> Contents]
  /\ callerFiles.ids \in IdsBytes \cup {Absent} /\ callerFiles.ifc \in IfcBytes \cup {Absent}
  /\ role \in Roles
  /\ todo \subseteq Paths
  /\ at \in Paths \cup {None}
  /\ ok \in BOOLEAN
  /\ initial \in [Roles -> Versions \cup {None}]
  /\ held \in [Roles -> Versions \cup {None}]
  /\ k \in 1..(Len(policy) + 1) /\ Len(results) = k - 1
  /\ identity \in Identities \cup {None}
  /\ \A j \in DOMAIN results : results[j].status \in Statuses
  /\ result.outcome \in Outcomes \cup {"none", "raised"}

Completed == pc = "done" /\ result.outcome # "raised" /\ result.code = "none"

\* What a check of the policy says of the identities a result reports.
ReferenceStatus(c) ==
  CASE c.kind = "package" -> PackageVerdict[result.candidate]
    [] c.kind = "diff" -> DiffVerdict[result.baseline][result.candidate]
    [] c.kind = "ids" -> IdsVerdict[result.ids[1]][result.ids[3]]

\* A completed result is a function of the identities it reports: whatever was
\* written to the caller's paths between the reads of evaluate_gate, each check
\* says what it says of exactly the reported candidate, baseline and IDS pair,
\* and the outcome is the aggregate of those.
ResultFollowsFromIdentities ==
  Completed =>
    /\ result.candidate # None
    /\ Len(results) = Len(policy)
    /\ \A j \in DOMAIN policy : results[j].status = ReferenceStatus(policy[j])
    /\ result.outcome = Aggregate({ReferenceStatus(policy[j]) : j \in DOMAIN policy} \cup {"pass"})

\* A package is reported only when the manifest validated first at the caller's
\* path is the one of the snapshot that was evaluated: a package swapped between
\* the two phases is never reported, not even when the swapped one is valid.
ReportedIsFirstValidated ==
  pc = "done" =>
    /\ result.candidate \in {None, initial["candidate"]}
    /\ result.baseline \in {None, initial["baseline"]}

\* Nothing the caller or the policy asked for is left out of a completed result:
\* the supplied baseline and the IDS pair are identified, a diff check has a
\* baseline, every IDS check evaluated the reported pair, the pair is that of
\* the policy and of the reported candidate's source record.
NothingAskedIsSkipped ==
  Completed =>
    /\ form["baseline"] # "not_supplied" \/ "diff" \in Kinds => result.baseline # None
    /\ (pair = "both") = (result.ids # None)
    /\ \A j \in DOMAIN policy : policy[j].kind = "ids" =>
         /\ results[j].evidence = result.ids
         /\ policy[j].ids = result.ids[1] /\ policy[j].source = result.ids[2]
         /\ Registered[result.candidate][result.ids[2]] = result.ids[3]

\* An alarm has a cause.  evaluate_gate says "changed during evaluation" only if
\* something did change, a system call failed or a directory package holds a
\* symlink; and it dies of an exception only if something changed, a system call
\* failed or a member of an archive is damaged (validation.py:101, package.py:257-276).
NoFalseAlarm ==
  pc = "done" /\ changes = 0 /\ faults = 0 =>
    /\ \A r \in Roles : result.code = ChangedCode(r) => links[r] # {}
    /\ result.outcome = "raised" => \E r \in Roles : form[r] = "zip" /\ live[r] \in Damaged

\* Every evaluation ends, in a result or an exception, however the packages change
\* under it and whatever fails.
EvaluationEnds == <>(pc = "done")
=============================================================================
