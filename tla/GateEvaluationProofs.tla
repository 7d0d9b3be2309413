------------------------ MODULE GateEvaluationProofs ------------------------
(***************************************************************************)
(* Proofs about GateEvaluation for every set of versions, members, inputs  *)
(* and calls, and any number of changes by others.  The inductive          *)
(* invariant ties each accepted snapshot to the manifest first validated   *)
(* (Snapshots), says which packages are accepted where (Phases), ties the  *)
(* concluded checks to the accepted snapshots (Checking), and follows an   *)
(* evaluation that nobody disturbs (Calm).                                 *)
(***************************************************************************)
EXTENDS GateEvaluation, SequenceTheorems, TLAPS

Preflight == {"start", "artifacts", "records", "unpacking", "open", "extracting", "copying"}
Early == Preflight \cup {"baseline", "inputs"}
Evaluating == pc \in {"checks", "bind"} \/ Completed

Types ==
  /\ EvaluationTypeOK
  /\ pc \in Early \cup {"checks", "bind", "done"}
  /\ policy \in Seq(Checks) /\ pair \in Pairs
  /\ form \in [Roles -> Forms \cup {"not_supplied"}]
  /\ \A r \in Roles : live[r][Manifest] \in Versions \cup Unreadable
  /\ archive[Manifest] \in Versions \cup Unreadable
  /\ callerFiles \in [ids : IdsBytes \cup {Absent}, ifc : IfcBytes \cup {Absent}]
  /\ changes \in Nat /\ faults \in Nat
  /\ got \in IdsBytes \cup {Absent}
  /\ results \in Seq([status : Statuses, evidence : Identities \cup {None}])

\* An accepted snapshot is valid and has the manifest validated first.
Snapshots ==
  \A r \in Roles : held[r] # None =>
    Valid(copy[r]) /\ held[r] = copy[r][Manifest] /\ held[r] = initial[r]

\* What evaluate_gate needs before the first check: the candidate, and the
\* baseline if one was given or is asked for.
Ready ==
  /\ held["candidate"] # None
  /\ form["baseline"] # "not_supplied" \/ "diff" \in Kinds => held["baseline"] # None

Phases ==
  /\ pc \in Preflight => held[role] = None
  /\ pc \in Preflight /\ role = "baseline" => held["candidate"] # None
  /\ pc = "baseline" => held["candidate"] # None
  /\ pc \in Preflight \cup {"baseline"} => held["baseline"] = None
  /\ pc \in {"inputs", "checks", "bind"} => Ready
  /\ at # None => pc \in {"artifacts", "records", "copying", "done"}

\* The check c was concluded as the accepted packages h and the IDS pair say.
Judged(c, concluded, h, ids) ==
  CASE c.kind = "package" -> concluded.status = PackageVerdict[h["candidate"]]
    [] c.kind = "diff" -> concluded.status = DiffVerdict[h["baseline"]][h["candidate"]]
    [] c.kind = "ids" -> /\ ids \in Identities
                         /\ ids[1] = c.ids /\ ids[2] = c.source
                         /\ ids[3] = Registered[h["candidate"]][c.source]
                         /\ concluded.status = IdsVerdict[ids[1]][ids[3]]
                         /\ concluded.evidence = ids

Checking ==
  /\ pc \in Early => k = 1 /\ results = <<>> /\ identity = None
  /\ identity # None => "ids" \in Kinds
  /\ Evaluating => /\ Ready
                   /\ (pair = "both") = ("ids" \in Kinds)
                   /\ \A j \in 1..(k - 1) : Judged(policy[j], results[j], held, identity)
  /\ pc = "bind" => k <= Len(policy) /\ policy[k].kind = "ids" /\ got \in IdsBytes

Ending ==
  /\ pc # "done" => result.outcome = "none"
  /\ pc = "done" => result.candidate = held["candidate"] /\ result.baseline = held["baseline"]
  /\ Completed =>
       /\ k = Len(policy) + 1
       /\ result.ids = identity
       /\ result.outcome = Aggregate({results[j].status : j \in DOMAIN results} \cup {"pass"})

\* An alarm has its cause: a symlink, or an archive with a damaged member.
Quiet ==
  /\ \A r \in Roles : result.code = ChangedCode(r) => links[r] # {}
  /\ result.outcome = "raised" => \E r \in Roles : form[r] = "zip" /\ live[r] \in Damaged

\* Nobody changed anything so far: a package is whole, has one damaged member or is
\* not there; what was read of it is what is still there, and what validation passed
\* is whole.
Calm ==
  changes = 0 =>
    /\ \A r \in Roles : live[r] \in {Whole(v) : v \in Versions} \cup Damaged \cup {Nothing}
    /\ at # None => live[role][at] # Absent
    /\ pc \in {"unpacking", "extracting"} => archive = live[role] /\ form[role] = "zip"
    /\ pc \in {"artifacts", "records", "open", "extracting", "copying"} =>
         /\ initial[role] \in Versions /\ live[role][Manifest] = initial[role]
         /\ \A p \in Paths : live[role][p] # Absent
    /\ pc = "artifacts" /\ ok =>
         \A p \in Members \ todo : live[role][p] = Inventory[initial[role]][p]
    /\ (pc = "records" /\ ok) \/ pc \in {"open", "extracting", "copying"} =>
         live[role] = Whole(initial[role])
    /\ pc \in {"extracting", "copying"} =>
         \A p \in Paths \ todo : copy[role][p] = live[role][p]
    /\ pc = "done" /\ faults = 0 => Quiet

Inv == Types /\ Snapshots /\ Phases /\ Checking /\ Ending /\ Calm

-----------------------------------------------------------------------------
(* The initial states and the types.                                       *)

\* The aggregate of statuses that include "pass" is an outcome.
LEMMA AggregateType == ASSUME NEW S \in SUBSET Statuses PROVE Aggregate(S \cup {"pass"}) \in Outcomes
<1> DEFINE T == S \cup {"pass"}
<1>1. Priority["pass"] = 0 /\ Priority["waived"] = 1 /\ Priority["requires_review"] = 2
      /\ Priority["fail"] = 3 /\ Priority["error"] = 4
  BY DEF Priority, Statuses
<1>2. \E s \in T : \A t \in T : Priority[t] <= Priority[s]
  <2>1. CASE "error" \in S
    BY <1>1, <2>1 DEF Statuses
  <2>2. CASE "error" \notin S /\ "fail" \in S
    BY <1>1, <2>2 DEF Statuses
  <2>3. CASE {"error", "fail"} \cap S = {} /\ "requires_review" \in S
    BY <1>1, <2>3 DEF Statuses
  <2>4. CASE {"error", "fail", "requires_review"} \cap S = {}
    BY <1>1, <2>4 DEF Statuses
  <2> QED BY <2>1, <2>2, <2>3, <2>4
<1>3. Highest(T, "pass") \in T
  BY <1>2 DEF Highest
<1> QED BY <1>3 DEF Aggregate, Outcomes, Statuses

\* A version's package has a content at every path, and is valid.
LEMMA WholeType ==
  ASSUME NEW v \in Versions
  PROVE  /\ Whole(v) \in [Paths -> Contents]
         /\ Whole(v)[Manifest] = v
         /\ \A p \in Paths : Whole(v)[p] # Absent
         /\ Valid(Whole(v))
<1>1. Whole(v) = [p \in Paths |-> IF p = Manifest THEN v ELSE Inventory[v][p]]
  BY DEF Whole
<1>2. Manifest \in Paths /\ \A p \in Paths : p = Manifest \/ p \in Members
  BY DEF Paths
<1>3. \A m \in Members : Inventory[v][m] \in Bytes
  BY EvaluationAssumption
<1>4. Whole(v)[Manifest] = v
  BY <1>1, <1>2
<1>5. \A p \in Paths : Whole(v)[p] \in Versions \cup Bytes
  BY <1>1, <1>2, <1>3
<1> QED BY <1>1, <1>4, <1>5, EvaluationAssumption DEF Contents, Valid

\* A damaged package has a content at every path and a version's manifest; only the
\* damaged member is no version's.
LEMMA DamagedType ==
  ASSUME NEW d \in Damaged
  PROVE  /\ d \in [Paths -> Contents]
         /\ d[Manifest] \in Versions
         /\ \A p \in Paths : d[p] # Absent
<1>1. PICK v \in Versions, m \in Members : d = [Whole(v) EXCEPT ![m] = Torn]
  BY DEF Damaged
<1>2. Whole(v) \in [Paths -> Contents] /\ Whole(v)[Manifest] = v /\ \A p \in Paths : Whole(v)[p] # Absent
  BY WholeType
<1>3. m # Manifest /\ Manifest \in Paths /\ Torn \in Contents
  BY EvaluationAssumption DEF Paths, Contents
<1>4. Torn # Absent
  BY EvaluationAssumption
<1>5. d \in [Paths -> Contents] /\ d[Manifest] = v
  BY <1>1, <1>2, <1>3
<1>6. \A p \in Paths : d[p] # Absent
  BY <1>1, <1>2, <1>4
<1> QED BY <1>5, <1>6

\* A content no version has, in a package that is there, is the damage.
LEMMA DamageSeen ==
  ASSUME NEW d \in {Whole(v) : v \in Versions} \cup Damaged \cup {Nothing},
         NEW p \in Paths, d[p] = Torn
  PROVE  d \in Damaged
<1>1. Nothing[p] = Absent /\ Absent # Torn
  BY EvaluationAssumption DEF Nothing
<1>2. ASSUME NEW v \in Versions PROVE Whole(v)[p] # Torn
  <2>1. Valid(Whole(v)) /\ Whole(v)[p] = IF p = Manifest THEN v ELSE Inventory[v][p]
    BY WholeType DEF Whole
  <2>2. p # Manifest => Inventory[v][p] \in Bytes
    BY EvaluationAssumption DEF Paths
  <2> QED BY <2>1, <2>2, EvaluationAssumption
<1> QED BY <1>1, <1>2

\* An empty directory has the type of one.
LEMMA NothingType == Nothing \in [Paths -> Contents] /\ Nothing[Manifest] = Absent
BY DEF Nothing, Contents, Paths

\* The invariant holds before the evaluation.
LEMMA InvInit == EvaluationInit => Inv
<1> SUFFICES ASSUME EvaluationInit PROVE Inv
  OBVIOUS
<1>1. PICK c \in Calls :
        /\ form = [r \in Roles |-> IF r = "candidate" THEN c.candidate ELSE c.baseline]
        /\ policy = c.policy /\ pair = c.pair
  BY DEF EvaluationInit
<1>2. /\ policy \in Seq(Checks) /\ pair \in Pairs
      /\ form \in [Roles -> Forms \cup {"not_supplied"}]
  BY <1>1, EvaluationAssumption
<1>3. \A r \in Roles : /\ live[r] \in {Whole(v) : v \in Versions} \cup Damaged \cup {Nothing}
                       /\ live[r] \in [Paths -> Contents]
                       /\ live[r][Manifest] \in Versions \cup Unreadable
  BY WholeType, DamagedType, NothingType DEF EvaluationInit, Unreadable
<1>4. live \in [Roles -> [Paths -> Contents]]
  BY <1>3 DEF EvaluationInit
<1>5. callerFiles \in [ids : IdsBytes \cup {Absent}, ifc : IfcBytes \cup {Absent}]
  BY DEF EvaluationInit
<1>6. results = <<>> /\ Len(results) = 0 /\ DOMAIN results = {} /\ k = 1 /\ 1 \in 1..(Len(policy) + 1)
  BY <1>2 DEF EvaluationInit
<1>7. EvaluationTypeOK
  BY <1>4, <1>5, <1>6, NothingType DEF EvaluationInit, EvaluationTypeOK, Roles
<1>8. Types
  BY <1>2, <1>3, <1>5, <1>6, <1>7, NothingType DEF EvaluationInit, Types, Early, Preflight, Unreadable
<1>9. Snapshots /\ Phases /\ Checking /\ Ending
  BY <1>6 DEF EvaluationInit, Snapshots, Phases, Checking, Ending, Early, Preflight, Evaluating, Completed, Roles
<1>10. Calm
  BY <1>3 DEF EvaluationInit, Calm
<1> QED BY <1>8, <1>9, <1>10 DEF Inv

\* A conclusion adds a typed result.
LEMMA ConcludeType ==
  ASSUME Types, k <= Len(policy), NEW status \in Statuses, NEW evidence \in Identities \cup {None},
         Conclude(status, evidence)
  PROVE  /\ k' \in 1..(Len(policy) + 1) /\ k' = k + 1
         /\ results' \in Seq([status : Statuses, evidence : Identities \cup {None}])
         /\ Len(results') = k' - 1 /\ Len(results) = k - 1
         /\ DOMAIN results' = 1..k
         /\ results'[k] = [status |-> status, evidence |-> evidence]
         /\ \A j \in 1..(k - 1) : results'[j] = results[j]
<1> DEFINE E == [status : Statuses, evidence : Identities \cup {None}]
           e == [status |-> status, evidence |-> evidence]
<1>1. results \in Seq(E) /\ e \in E /\ results' = Append(results, e) /\ k' = k + 1
  BY DEF Types, Conclude
<1>2. Len(policy) \in Nat /\ k \in 1..(Len(policy) + 1) /\ Len(results) = k - 1
  BY LenProperties DEF Types, EvaluationTypeOK
<1> HIDE DEF E, e
<1>3. results' \in Seq(E) /\ Len(results') = Len(results) + 1
      /\ results'[Len(results) + 1] = e /\ \A j \in 1..Len(results) : results'[j] = results[j]
  BY <1>1, AppendProperties
<1>4. DOMAIN results' = 1..Len(results')
  BY <1>3, LenProperties
<1> QED BY <1>1, <1>2, <1>3, <1>4 DEF E, e

\* What a check finds is a status.
LEMMA JudgeType ==
  ASSUME NEW c, NEW verdict \in [Versions -> Statuses]
  PROVE  Judge(c, verdict) \in Statuses
BY DEF Judge, Valid, Statuses

\* The ways to end that leave the packages alone.
LEMMA Ends ==
  ASSUME Invalid \/ Changed \/ ReaderError \/ Raise
  PROVE  /\ UNCHANGED preflight /\ pc' = "done"
         /\ result'.candidate = held["candidate"] /\ result'.baseline = held["baseline"]
         /\ result'.outcome \in {"error", "raised"}
         /\ result'.code # "none"
BY DEF Invalid, Changed, ReaderError, Raise, Error, Report, InvalidCode, ChangedCode

\* Every step keeps the types.
LEMMA TypesStep ==
  ASSUME Inv, [EvaluationNext]_evaluationVars
  PROVE  Types'
<1> USE DEF Inv, input, world, preflight, checking
<1>0. faults \in Nat
  BY DEF Types
<1> USE <1>0
<1>1. ASSUME UNCHANGED <<input, checking>>, live' = live, callerFiles' = callerFiles, changes' = changes, faults' \in Nat,
             UNCHANGED preflight, pc' \in Early \cup {"checks", "bind", "done"},
             result'.outcome \in Outcomes \cup {"none", "raised"}
      PROVE  Types'
  BY <1>1 DEF Types, EvaluationTypeOK
<1>2. ASSUME UNCHANGED <<input, checking, live, callerFiles, changes>>, faults' \in Nat,
             Invalid \/ Changed \/ ReaderError \/ Raise
      PROVE  Types'
  BY <1>1, <1>2, Ends DEF Outcomes, Statuses
<1>3. CASE RejectSymlink
  BY <1>2, <1>3 DEF RejectSymlink
<1>4. CASE LoadManifest
  <2>1. CASE Invalid
    BY <1>2, <1>4, <2>1 DEF LoadManifest
  <2>2. CASE live[role][Manifest] \notin {Absent, Torn}
    BY <1>4, <2>2 DEF LoadManifest, Types, EvaluationTypeOK, Unreadable, Paths, Early, Preflight
  <2> QED BY <1>4, <2>1, <2>2 DEF LoadManifest
<1>5. CASE \E p \in Paths : Look(p)
  BY <1>5 DEF Look, Types, EvaluationTypeOK
<1>6. CASE Read
  <2>1. CASE Raise
    BY <1>2, <1>6, <2>1 DEF Read
  <2>2. CASE pc' = pc
    BY <1>6, <2>2 DEF Read, Types, EvaluationTypeOK, Raise, Report
  <2> QED BY <1>6, <2>1, <2>2 DEF Read
<1>7. CASE ArtifactsDone
  BY <1>7 DEF ArtifactsDone, Types, EvaluationTypeOK, Paths, Early, Preflight
<1>8. CASE ValidationDone
  BY <1>1, <1>2, <1>8 DEF ValidationDone, Early, Preflight, Types, EvaluationTypeOK
<1>9. CASE Inspect
  <2>1. CASE ReaderError
    BY <1>2, <1>9, <2>1 DEF Inspect
  <2>2. CASE live[role][Manifest] \notin Unreadable
    BY <1>9, <2>2 DEF Inspect, Types, EvaluationTypeOK, Early, Preflight
  <2> QED BY <1>9, <2>1, <2>2 DEF Inspect
<1>10. CASE \E p \in Paths : Unzip(p)
  <2>1. CASE ReaderError \/ Raise
    BY <1>2, <1>10, <2>1 DEF Unzip
  <2>2. CASE ~(ReaderError \/ Raise)
    <3>1. PICK p \in Paths : /\ copy' = [copy EXCEPT ![role][p] = IF pc = "extracting" THEN archive[p] ELSE @]
                             /\ todo' = todo \ {p}
                             /\ UNCHANGED <<input, world, pc, role, at, ok, archive, initial, held, checking, result>>
      BY <1>10, <2>2 DEF Unzip
    <3>2. archive[p] \in Contents /\ copy[role][p] \in Contents /\ copy[role] \in [Paths -> Contents]
      BY <3>1 DEF Types, EvaluationTypeOK
    <3>3. copy' \in [Roles -> [Paths -> Contents]]
      BY <3>1, <3>2 DEF Types, EvaluationTypeOK
    <3> QED BY <3>1, <3>3 DEF Types, EvaluationTypeOK
  <2> QED BY <2>1, <2>2
<1>11. CASE Unpacked
  <2>1. CASE Invalid
    BY <1>2, <1>11, <2>1 DEF Unpacked
  <2>2. CASE Valid(archive)
    BY <1>11, <2>2 DEF Unpacked, Valid, Types, EvaluationTypeOK, Early, Preflight
  <2> QED BY <1>11, <2>1, <2>2 DEF Unpacked
<1>12. CASE Open
  <2>1. CASE Changed
    BY <1>2, <1>12, <2>1 DEF Open
  <2>2. CASE pc' = "copying"
    BY <1>12, <2>2 DEF Open, Changed, Error, Report, Types, EvaluationTypeOK, Early, Preflight
  <2> QED BY <1>12, <2>1, <2>2 DEF Open
<1>13. CASE Copy
  <2>1. CASE Changed \/ Raise
    BY <1>2, <1>13, <2>1 DEF Copy
  <2>2. CASE /\ copy' = [copy EXCEPT ![role][at] = live[role][at]]
             /\ todo' = todo \ {at} /\ at' = None
             /\ UNCHANGED <<pc, role, ok, archive, initial, held, result>>
    <3>1. at \in Paths /\ live[role][at] \in Contents
      BY <1>13 DEF Copy, Types, EvaluationTypeOK
    <3>2. copy' \in [Roles -> [Paths -> Contents]]
      BY <2>2, <3>1 DEF Types, EvaluationTypeOK
    <3> QED BY <1>13, <2>2, <3>2 DEF Copy, Types, EvaluationTypeOK
  <2> QED BY <1>13, <2>1, <2>2 DEF Copy
<1>14. CASE Compare
  <2>1. CASE Changed
    BY <1>2, <1>14, <2>1 DEF Compare
  <2>2. CASE Accepted
    BY <1>14, <2>2 DEF Compare, Accepted, Valid, Types, EvaluationTypeOK, Early, Preflight
  <2> QED BY <1>14, <2>1, <2>2 DEF Compare
<1>15. CASE Baseline
  <2>1. CASE form["baseline"] = "not_supplied"
    BY <1>1, <1>15, <2>1 DEF Baseline, Error, Report, Early, Types, EvaluationTypeOK, Outcomes, Statuses
  <2>2. CASE form["baseline"] # "not_supplied"
    BY <1>15, <2>2 DEF Baseline, Types, EvaluationTypeOK, Roles, Early, Preflight
  <2> QED BY <2>1, <2>2
<1>16. CASE Inputs
  BY <1>1, <1>16 DEF Inputs, Error, Report, Early, Types, EvaluationTypeOK, Outcomes, Statuses
<1>17. ASSUME NEW status \in Statuses, NEW evidence \in Identities \cup {None},
              k <= Len(policy), Conclude(status, evidence), identity' \in Identities \cup {None},
              UNCHANGED <<input, world, preflight, got, result>>, pc' \in {pc, "checks"}
       PROVE  Types'
  <2>1. \A j \in DOMAIN results' : results'[j].status \in Statuses
    <3> SUFFICES ASSUME NEW j \in DOMAIN results' PROVE results'[j].status \in Statuses
      OBVIOUS
    <3>1. results' \in Seq([status : Statuses, evidence : Identities \cup {None}])
      BY <1>17, ConcludeType
    <3>2. results'[j] \in [status : Statuses, evidence : Identities \cup {None}]
      BY <3>1, ElementOfSeq, LenProperties
    <3> QED BY <3>2
  <2>2. /\ k' \in 1..(Len(policy) + 1) /\ Len(results') = k' - 1
        /\ results' \in Seq([status : Statuses, evidence : Identities \cup {None}])
    BY <1>17, ConcludeType
  <2> QED BY <1>17, <2>1, <2>2 DEF Types, EvaluationTypeOK, Early
<1>18. CASE PackageCheck
  <2>1. /\ Judge(copy["candidate"], PackageVerdict) \in Statuses
        /\ Conclude(Judge(copy["candidate"], PackageVerdict), None)
        /\ k <= Len(policy) /\ identity \in Identities \cup {None}
    BY <1>18, JudgeType, EvaluationAssumption DEF PackageCheck, Types, EvaluationTypeOK
  <2> QED BY <1>17, <1>18, <2>1 DEF PackageCheck
<1>19. CASE DiffCheck
  <2>1. CASE held["baseline"] = None
    BY <1>1, <1>19, <2>1 DEF DiffCheck, Error, Report, Early, Types, EvaluationTypeOK, Outcomes, Statuses
  <2>2. CASE held["baseline"] # None
    <3> DEFINE verdict == [v \in Versions |->
                             Judge(copy["baseline"], [w \in Versions |-> DiffVerdict[w][v]])]
    <3>1. \A v \in Versions : [w \in Versions |-> DiffVerdict[w][v]] \in [Versions -> Statuses]
      BY EvaluationAssumption
    <3>2. verdict \in [Versions -> Statuses]
      BY <3>1, JudgeType
    <3>3. Conclude(Judge(copy["candidate"], verdict), None)
          /\ k <= Len(policy) /\ identity \in Identities \cup {None}
      BY <1>19, <2>2 DEF DiffCheck, Types, EvaluationTypeOK
    <3> HIDE DEF verdict
    <3>4. Judge(copy["candidate"], verdict) \in Statuses
      BY <3>2, JudgeType
    <3> QED BY <1>17, <1>19, <2>2, <3>3, <3>4 DEF DiffCheck
  <2> QED BY <2>1, <2>2
<1>20. CASE ReadIds
  BY <1>20 DEF ReadIds, Error, Report, Early, Types, EvaluationTypeOK, Outcomes, Statuses
<1>21. CASE Bind
  <2>1. CASE BindDefect(policy[k]) # "none"
    BY <1>1, <1>21, <2>1 DEF Bind, Error, Report, Types, EvaluationTypeOK, Outcomes, Statuses
  <2>2. CASE BindDefect(policy[k]) = "none"
    <3>1. policy[k] \in Checks /\ k <= Len(policy)
      BY <1>21, ElementOfSeq, LenProperties DEF Bind, Checking, Types, EvaluationTypeOK
    <3>2. policy[k].source \in SourceIds /\ got \in IdsBytes
      BY <1>21, <3>1 DEF Bind, Checking, Checks
    <3>3. callerFiles.ifc \in IfcBytes
      BY <2>2 DEF BindDefect, Types, EvaluationTypeOK
    <3>4. Current(policy[k]) \in Identities /\ IdsVerdict[got][callerFiles.ifc] \in Statuses
      BY <3>2, <3>3, EvaluationAssumption DEF Current, Identities
    <3> QED BY <1>17, <1>21, <2>2, <3>1, <3>4 DEF Bind
  <2> QED BY <2>1, <2>2
<1>22. CASE WorkerFails
  BY <1>1, <1>22 DEF WorkerFails, Error, Report, Outcomes, Statuses
<1>23. CASE Finish
  <2>1. {results[j].status : j \in DOMAIN results} \in SUBSET Statuses
    BY DEF Types, EvaluationTypeOK
  <2>2. Aggregate({results[j].status : j \in DOMAIN results} \cup {"pass"}) \in Outcomes
    BY <2>1, AggregateType
  <2> QED BY <1>1, <1>23, <2>2 DEF Finish, Report
<1>24. CASE \E r \in Roles, p \in Paths : WriteMember(r, p)
  <2>0. PICK r \in Roles, p \in Paths : WriteMember(r, p)
    BY <1>24
  <2>1. PICK c \in {Whole(v)[p] : v \in Versions} \cup {Absent, Torn} :
          live' = [live EXCEPT ![r][p] = c]
    BY <2>0 DEF WriteMember
  <2>2. c \in Contents /\ (p = Manifest => c \in Versions \cup Unreadable)
    BY <2>1, WholeType DEF Contents, Unreadable
  <2>3. live' \in [Roles -> [Paths -> Contents]] /\ \A q \in Roles : live'[q][Manifest] \in Versions \cup Unreadable
    BY <2>1, <2>2 DEF Types, EvaluationTypeOK
  <2> QED BY <2>0, <2>3 DEF WriteMember, MayChange, Types, EvaluationTypeOK
<1>25. CASE \E r \in Roles : ReplaceArchive(r)
  <2>1. PICK r \in Roles, c \in {Whole(v) : v \in Versions} \cup {Nothing, [p \in Paths |-> Torn]} :
          ReplaceArchive(r) /\ live' = [live EXCEPT ![r] = c]
    BY <1>25 DEF ReplaceArchive
  <2>2. c \in [Paths -> Contents] /\ c[Manifest] \in Versions \cup Unreadable
    BY <2>1, WholeType, NothingType DEF Contents, Unreadable, Paths
  <2>3. live' \in [Roles -> [Paths -> Contents]] /\ \A q \in Roles : live'[q][Manifest] \in Versions \cup Unreadable
    BY <2>1, <2>2 DEF Types, EvaluationTypeOK
  <2> QED BY <2>1, <2>3 DEF ReplaceArchive, MayChange, Types, EvaluationTypeOK
<1>26. CASE ChangeInput
  BY <1>26 DEF ChangeInput, MayChange, Types, EvaluationTypeOK
<1>28. CASE FaultCaught
  <2>1. UNCHANGED <<input, live, callerFiles, changes, checking>> /\ faults' \in Nat
    BY <1>28 DEF FaultCaught, Failing
  <2>2. CASE ReaderError
    BY <1>2, <2>1, <2>2
  <2>3. CASE Error("IDS_INPUT_INVALID") /\ UNCHANGED preflight
    <3>1. pc' = "done" /\ result'.outcome = "error"
      BY <2>3 DEF Error, Report
    <3> QED BY <1>1, <2>1, <2>3, <3>1 DEF Outcomes, Statuses
  <2>4. CASE /\ ok' = FALSE /\ todo' = todo \ {at} /\ at' = None
             /\ UNCHANGED <<pc, role, archive, initial, copy, held, result>>
    BY <2>1, <2>4 DEF Types, EvaluationTypeOK
  <2> QED BY <1>28, <2>2, <2>3, <2>4 DEF FaultCaught
<1>29. CASE FaultRaised
  BY <1>2, <1>29 DEF FaultRaised, Failing
<1>27. CASE UNCHANGED evaluationVars
  BY <1>1, <1>27 DEF evaluationVars, Types, EvaluationTypeOK
<1> QED
  BY <1>3, <1>4, <1>5, <1>6, <1>7, <1>8, <1>9, <1>10, <1>11, <1>12, <1>13, <1>14, <1>15, <1>16, <1>18, <1>19,
     <1>20, <1>21, <1>22, <1>23, <1>24, <1>25, <1>26, <1>27, <1>28, <1>29 DEF EvaluationNext, Step, Others

-----------------------------------------------------------------------------
(* The packages.                                                           *)

\* Every step keeps what is known of the snapshots.
LEMMA SnapshotsStep ==
  ASSUME Inv, [EvaluationNext]_evaluationVars
  PROVE  Snapshots'
<1> USE DEF Inv, input, world, preflight, checking
<1>1. ASSUME UNCHANGED <<copy, held, initial>> PROVE Snapshots'
  BY <1>1 DEF Snapshots, Valid
<1>2. ASSUME UNCHANGED <<copy, held>>, held[role] = None, \A r \in Roles : r # role => initial'[r] = initial[r]
      PROVE  Snapshots'
  BY <1>2 DEF Snapshots, Valid
<1>3. ASSUME UNCHANGED <<initial, held>>, held[role] = None, \A r \in Roles : r # role => copy'[r] = copy[r]
      PROVE  Snapshots'
  BY <1>3 DEF Snapshots, Valid
<1>4. CASE RejectSymlink \/ (\E p \in Paths : Look(p)) \/ ArtifactsDone \/ Inspect \/ Open
  BY <1>1, <1>4, Ends DEF RejectSymlink, Look, ArtifactsDone, Inspect, Open
<1>5. CASE Read \/ ValidationDone
  BY <1>1, <1>5, Ends DEF Read, ValidationDone
<1>6. CASE LoadManifest
  BY <1>1, <1>2, <1>6, Ends DEF LoadManifest, Phases, Preflight, Types, EvaluationTypeOK
<1>7. CASE \E p \in Paths : Unzip(p)
  BY <1>1, <1>3, <1>7, Ends DEF Unzip, Phases, Preflight, Types, EvaluationTypeOK
<1>8. CASE Unpacked
  BY <1>1, <1>2, <1>8, Ends DEF Unpacked, Phases, Preflight, Types, EvaluationTypeOK
<1>9. CASE Copy
  BY <1>1, <1>3, <1>9, Ends DEF Copy, Phases, Preflight, Types, EvaluationTypeOK
<1>10. CASE Compare
  <2>1. CASE Changed
    BY <1>1, <1>10, <2>1, Ends DEF Compare
  <2>2. CASE Accepted
    BY <1>10, <2>2 DEF Compare, Accepted, Snapshots, Valid, Types, EvaluationTypeOK
  <2> QED BY <1>10, <2>1, <2>2 DEF Compare
<1>11. CASE Baseline \/ Inputs
  BY <1>1, <1>11 DEF Baseline, Inputs
<1>12. CASE PackageCheck \/ DiffCheck \/ ReadIds \/ Bind \/ WorkerFails \/ Finish
  BY <1>1, <1>12 DEF PackageCheck, DiffCheck, ReadIds, Bind, WorkerFails, Finish
<1>13. CASE Others
  BY <1>1, <1>13 DEF Others, WriteMember, ReplaceArchive, ChangeInput
<1>15. CASE FaultCaught \/ FaultRaised
  BY <1>1, <1>15, Ends DEF FaultCaught, FaultRaised
<1>14. CASE UNCHANGED evaluationVars
  BY <1>1, <1>14 DEF evaluationVars
<1> QED
  BY <1>4, <1>5, <1>6, <1>7, <1>8, <1>9, <1>10, <1>11, <1>12, <1>13, <1>14, <1>15 DEF EvaluationNext, Step

\* Every step keeps what a program point says of the preflight.
LEMMA PhasesStep ==
  ASSUME Inv, [EvaluationNext]_evaluationVars
  PROVE  Phases'
<1> USE DEF Inv, input, world, preflight, checking
<1>1. ASSUME UNCHANGED <<input, preflight>>, pc' = "done" PROVE Phases'
  BY <1>1 DEF Phases, Preflight
<1>2. ASSUME UNCHANGED <<input, role, held>>, pc \in Preflight, pc' \in Preflight,
             at' # None => pc' \in {"artifacts", "records", "copying"}
      PROVE  Phases'
  BY <1>2 DEF Phases, Preflight, Ready, Kinds
<1>3. CASE RejectSymlink \/ LoadManifest
  BY <1>1, <1>2, <1>3, Ends DEF RejectSymlink, LoadManifest, Phases, Preflight
<1>4. CASE (\E p \in Paths : Look(p)) \/ ArtifactsDone
  BY <1>2, <1>4 DEF Look, ArtifactsDone, Phases, Preflight
<1>5. CASE Read \/ ValidationDone
  BY <1>1, <1>2, <1>5, Ends DEF Read, ValidationDone, Phases, Preflight
<1>6. CASE Inspect \/ Unpacked \/ Open
  BY <1>1, <1>2, <1>6, Ends DEF Inspect, Unpacked, Open, Phases, Preflight
<1>7. CASE \E p \in Paths : Unzip(p)
  BY <1>1, <1>2, <1>7, Ends DEF Unzip, Phases, Preflight
<1>8. CASE Copy
  BY <1>1, <1>2, <1>8, Ends DEF Copy, Phases, Preflight
<1>9. CASE Compare
  <2>1. CASE Changed
    BY <1>1, <1>9, <2>1, Ends DEF Compare
  <2>2. CASE Accepted
    <3>1. /\ held' = [held EXCEPT ![role] = initial[role]] /\ UNCHANGED <<input, at, role>>
          /\ pc' = IF role = "candidate" THEN "baseline" ELSE "inputs"
          /\ pc \in Preflight
      BY <1>9, <2>2 DEF Compare, Accepted, Preflight, CopyDone
    <3>2. initial[role] \in Versions /\ initial[role] # None
      BY <2>2, EvaluationAssumption DEF Accepted, Valid
    <3>3. at' = None
      BY <1>9, <3>1 DEF Compare, CopyDone
    <3>4. CASE role = "candidate"
      <4>1. held'["candidate"] # None /\ held'["baseline"] = None /\ pc' = "baseline"
        BY <3>1, <3>2, <3>4 DEF Phases, Types, EvaluationTypeOK, Roles
      <4> QED BY <3>1, <3>3, <4>1 DEF Phases, Preflight
    <3>5. CASE role = "baseline"
      <4>1. held'["candidate"] # None /\ held'["baseline"] # None /\ pc' = "inputs"
        BY <3>1, <3>2, <3>5 DEF Phases, Types, EvaluationTypeOK, Roles
      <4> QED BY <3>1, <3>3, <4>1 DEF Phases, Preflight, Ready
    <3> QED BY <3>4, <3>5 DEF Types, EvaluationTypeOK, Roles
  <2> QED BY <1>9, <2>1, <2>2 DEF Compare
<1>10. CASE Baseline
  BY <1>10 DEF Baseline, Error, Report, Phases, Preflight, Ready, Kinds, Types, EvaluationTypeOK
<1>11. CASE Inputs
  BY <1>11 DEF Inputs, Error, Report, Phases, Preflight, Ready, Kinds
<1>12. CASE PackageCheck \/ DiffCheck \/ ReadIds \/ Bind
  BY <1>12 DEF PackageCheck, DiffCheck, ReadIds, Bind, Error, Report, Phases, Preflight, Ready, Kinds
<1>13. CASE WorkerFails \/ Finish
  BY <1>1, <1>13 DEF WorkerFails, Finish, Error, Report
<1>15. CASE FaultCaught
  <2>1. CASE UNCHANGED preflight /\ pc' = "done"
    BY <1>1, <1>15, <2>1 DEF FaultCaught
  <2>2. CASE pc' = pc /\ pc = "records" /\ at' = None /\ UNCHANGED <<role, held>>
    BY <1>2, <1>15, <2>2 DEF FaultCaught, Preflight
  <2> QED BY <1>15, <2>1, <2>2, Ends DEF FaultCaught, Error, Report
<1>16. CASE FaultRaised
  BY <1>1, <1>16, Ends DEF FaultRaised
<1>14. CASE Others \/ UNCHANGED evaluationVars
  BY <1>14 DEF Others, WriteMember, ReplaceArchive, ChangeInput, evaluationVars, Phases, Ready, Kinds
<1> QED
  BY <1>3, <1>4, <1>5, <1>6, <1>7, <1>8, <1>9, <1>10, <1>11, <1>12, <1>13, <1>14, <1>15, <1>16 DEF EvaluationNext, Step

-----------------------------------------------------------------------------
(* The checks and the end.                                                 *)

\* The snapshot of an accepted package is judged as its version.
LEMMA JudgeHeld ==
  ASSUME Snapshots, NEW r \in Roles, held[r] # None, NEW verdict
  PROVE  Judge(copy[r], verdict) = verdict[held[r]] /\ held[r] \in Versions
BY DEF Snapshots, Judge, Valid

\* A check that leaves the accepted packages alone and is concluded as they say.
LEMMA ConcludeKeeps ==
  ASSUME Inv, pc \in {"checks", "bind"}, k <= Len(policy), NEW status \in Statuses,
         NEW evidence \in Identities \cup {None}, Conclude(status, evidence),
         UNCHANGED <<input, held, result>>, pc' = "checks",
         identity' # None => "ids" \in Kinds,
         Judged(policy[k], [status |-> status, evidence |-> evidence], held, identity'),
         \A j \in 1..(k - 1) : policy[j].kind = "ids" => identity' = identity
  PROVE  Checking'
<1>1. /\ k' = k + 1 /\ k \in Nat /\ results'[k] = [status |-> status, evidence |-> evidence]
      /\ \A j \in 1..(k - 1) : results'[j] = results[j]
  BY ConcludeType DEF Inv, Types, EvaluationTypeOK
<1>2. ASSUME NEW j \in 1..(k - 1) PROVE Judged(policy[j], results'[j], held, identity')
  <2>1. Judged(policy[j], results[j], held, identity)
    BY DEF Inv, Checking, Evaluating
  <2>2. results'[j] = results[j]
    BY <1>1
  <2>3. policy[j] \in Checks
    <3>1. j \in 1..Len(policy)
      BY <1>1, LenProperties DEF Inv, Types
    <3> QED BY <3>1, ElementOfSeq DEF Inv, Types
  <2>4. policy[j].kind \in {"package", "diff", "ids"}
    BY <2>3 DEF Checks
  <2>5. CASE policy[j].kind = "ids"
    BY <2>1, <2>2, <2>5
  <2>6. CASE policy[j].kind # "ids"
    BY <2>1, <2>2, <2>4, <2>6 DEF Judged
  <2> QED BY <2>5, <2>6
<1>3. ASSUME NEW j \in 1..(k' - 1) PROVE Judged(policy'[j], results'[j], held', identity')
  <2>1. j = k \/ j \in 1..(k - 1)
    BY <1>1
  <2>2. Judged(policy[j], results'[j], held, identity')
    BY <1>1, <1>2, <2>1
  <2> QED BY <2>2 DEF input
<1>4. Ready /\ (pair = "both") = ("ids" \in Kinds)
  BY DEF Inv, Checking, Evaluating
<1>5. Ready' /\ ((pair = "both") = ("ids" \in Kinds))' /\ Kinds' = Kinds
  BY <1>4 DEF Ready, Kinds, input
<1> QED BY <1>3, <1>5 DEF Checking, Early, Preflight

\* Every step keeps what the checks done so far have seen.
LEMMA CheckingStep ==
  ASSUME Inv, [EvaluationNext]_evaluationVars
  PROVE  Checking'
<1> USE DEF Inv, input, world, preflight, checking
<1>1. ASSUME UNCHANGED <<input, checking>>, pc \in Early, pc' \in Early PROVE Checking'
  BY <1>1 DEF Checking, Evaluating, Completed, Early, Preflight, Kinds
<1>2. ASSUME UNCHANGED <<input, identity>>, pc' = "done", result'.outcome = "raised" \/ result'.code # "none"
      PROVE  Checking'
  BY <1>2 DEF Checking, Evaluating, Completed, Early, Preflight, Kinds
<1>3. ASSUME UNCHANGED <<input, checking>>, Invalid \/ Changed \/ ReaderError \/ Raise
      PROVE  Checking'
  BY <1>2, <1>3, Ends
<1>4. ASSUME UNCHANGED <<input, checking, held>>, UNCHANGED <<pc, result>> PROVE Checking'
  BY <1>4 DEF Checking, Evaluating, Completed, Ready, Kinds, Early, Preflight
<1>5. CASE RejectSymlink \/ LoadManifest \/ Unpacked
  BY <1>1, <1>3, <1>5 DEF RejectSymlink, LoadManifest, Unpacked, Early, Preflight
<1>6. CASE (\E p \in Paths : Look(p)) \/ ArtifactsDone \/ (\E p \in Paths : Unzip(p))
  BY <1>1, <1>3, <1>6 DEF Look, ArtifactsDone, Unzip, Early, Preflight
<1>7. CASE Read \/ ValidationDone
  BY <1>1, <1>3, <1>7 DEF Read, ValidationDone, Early, Preflight
<1>8. CASE Inspect \/ Open
  BY <1>1, <1>3, <1>8 DEF Inspect, Open, Early, Preflight
<1>9. CASE Copy \/ Compare
  BY <1>1, <1>3, <1>9 DEF Copy, Compare, CopyDone, Early, Preflight
<1>10. CASE Baseline
  BY <1>1, <1>2, <1>10 DEF Baseline, Error, Report, Early, Preflight
<1>11. CASE Inputs
  <2>1. CASE pc' = "done"
    BY <1>2, <1>11, <2>1 DEF Inputs, Error, Report
  <2>2. CASE pc' = "checks"
    <3>1. /\ UNCHANGED <<input, preflight, checking>> /\ pc = "inputs"
          /\ ~("ids" \in Kinds /\ pair # "both") /\ ~(pair = "both" /\ "ids" \notin Kinds)
      BY <1>11, <2>2 DEF Inputs, Error, Report
    <3>2. Ready' /\ Kinds' = Kinds /\ k' = 1
      BY <3>1 DEF Phases, Checking, Early, Ready, Kinds
    <3>3. \A j \in 1..(k' - 1) : Judged(policy'[j], results'[j], held', identity')
      BY <3>2
    <3> QED BY <2>2, <3>1, <3>2, <3>3 DEF Checking, Early, Preflight
  <2> QED BY <1>11, <2>1, <2>2 DEF Inputs, Error, Report
<1>12. CASE PackageCheck
  <2> DEFINE status == Judge(copy["candidate"], PackageVerdict)
  <2>1. /\ pc = "checks" /\ k <= Len(policy) /\ policy[k].kind = "package"
        /\ UNCHANGED <<input, held, result, copy, identity>> /\ pc' = "checks"
        /\ Conclude(status, None)
    BY <1>12 DEF PackageCheck
  <2>2. status \in Statuses
    BY JudgeType, EvaluationAssumption
  <2>3. status = PackageVerdict[held["candidate"]]
    BY <2>1, JudgeHeld DEF Phases, Ready, Roles
  <2>4. Judged(policy[k], [status |-> status, evidence |-> None], held, identity')
    BY <2>1, <2>3 DEF Judged
  <2> HIDE DEF status
  <2> QED BY <2>1, <2>2, <2>4, ConcludeKeeps DEF Checking
<1>13. CASE DiffCheck
  <2>1. CASE held["baseline"] = None
    BY <1>2, <1>13, <2>1 DEF DiffCheck, Error, Report
  <2>2. CASE held["baseline"] # None
    <3> DEFINE baselines(v) == [w \in Versions |-> DiffVerdict[w][v]]
               verdict == [v \in Versions |-> Judge(copy["baseline"], baselines(v))]
               status == Judge(copy["candidate"], verdict)
    <3>1. /\ pc = "checks" /\ k <= Len(policy) /\ policy[k].kind = "diff"
          /\ UNCHANGED <<input, held, result, copy, identity>> /\ pc' = "checks"
          /\ Conclude(status, None)
      BY <1>13, <2>2 DEF DiffCheck
    <3>2. held["candidate"] \in Versions /\ held["baseline"] \in Versions
      BY <2>2, <3>1, JudgeHeld DEF Phases, Ready, Roles
    <3>3. status = verdict[held["candidate"]]
      <4> HIDE DEF verdict
      <4> QED BY <3>1, JudgeHeld DEF Phases, Ready, Roles
    <3>4. \A v \in Versions : baselines(v) \in [Versions -> Statuses]
      BY EvaluationAssumption
    <3>5. verdict[held["candidate"]] = Judge(copy["baseline"], baselines(held["candidate"]))
      BY <3>2
    <3>6. Judge(copy["baseline"], baselines(held["candidate"])) = baselines(held["candidate"])[held["baseline"]]
      <4> HIDE DEF baselines
      <4> QED BY <2>2, JudgeHeld DEF Roles
    <3>7. status = DiffVerdict[held["baseline"]][held["candidate"]] /\ status \in Statuses
      <4> HIDE DEF status, verdict
      <4> QED BY <3>2, <3>3, <3>5, <3>6, EvaluationAssumption
    <3>8. Judged(policy[k], [status |-> status, evidence |-> None], held, identity')
      <4> HIDE DEF status
      <4> QED BY <3>1, <3>7 DEF Judged
    <3> HIDE DEF status
    <3> QED BY <3>1, <3>7, <3>8, ConcludeKeeps DEF Checking
  <2> QED BY <2>1, <2>2
<1>14. CASE ReadIds
  <2>1. CASE callerFiles.ids = Absent
    BY <1>2, <1>14, <2>1 DEF ReadIds, Error, Report
  <2>2. CASE callerFiles.ids # Absent
    <3>1. /\ UNCHANGED <<input, held, result, k, identity, results>> /\ pc = "checks" /\ pc' = "bind"
          /\ k <= Len(policy) /\ policy[k].kind = "ids" /\ got' \in IdsBytes
      BY <1>14, <2>2 DEF ReadIds, Types
    <3> QED BY <3>1 DEF Checking, Evaluating, Ready, Kinds, Early, Preflight
  <2> QED BY <2>1, <2>2
<1>15. CASE Bind
  <2> DEFINE c == policy[k]
             status == IdsVerdict[got][callerFiles.ifc]
  <2>1. CASE BindDefect(c) # "none"
    BY <1>2, <1>15, <2>1 DEF Bind, Error, Report
  <2>2. CASE BindDefect(c) = "none"
    <3>1. /\ pc = "bind" /\ k <= Len(policy) /\ c.kind = "ids" /\ got \in IdsBytes
          /\ UNCHANGED <<input, held, result>> /\ pc' = "checks"
          /\ identity' = Current(c) /\ Conclude(status, Current(c))
      BY <1>15, <2>2 DEF Bind, Checking
    <3>2. c \in Checks /\ k \in DOMAIN policy
      BY <3>1, ElementOfSeq, LenProperties DEF Types, EvaluationTypeOK
    <3>3. /\ callerFiles.ifc \in IfcBytes /\ got = c.ids /\ c.source \in SourceIds
          /\ callerFiles.ifc = Registered[held["candidate"]][c.source]
          /\ identity \in {None, Current(c)}
      BY <2>2, <3>1, <3>2 DEF BindDefect, Types, Checks
    <3>4. Current(c) \in Identities /\ status \in Statuses
      <4>1. status \in Statuses
        <5>1. got \in IdsBytes /\ callerFiles.ifc \in IfcBytes
          BY <3>1, <3>3
        <5>2. IdsVerdict \in [IdsBytes -> [IfcBytes -> Statuses]]
          BY EvaluationAssumption
        <5> QED BY <5>1, <5>2
      <4>2. <<got, c.source, callerFiles.ifc>> \in IdsBytes \X SourceIds \X IfcBytes
        BY <3>1, <3>3
      <4> QED BY <4>1, <4>2 DEF Current, Identities
    <3>5. Judged(c, [status |-> status, evidence |-> Current(c)], held, identity')
      BY <3>1, <3>3, <3>4 DEF Judged, Current
    <3>6. "ids" \in Kinds
      BY <3>1, <3>2 DEF Kinds
    <3>7. \A j \in 1..(k - 1) : policy[j].kind = "ids" => identity' = identity
      <4> SUFFICES ASSUME NEW j \in 1..(k - 1), policy[j].kind = "ids" PROVE identity' = identity
        OBVIOUS
      <4>1. identity \in Identities
        BY <3>1 DEF Checking, Evaluating, Judged
      <4> QED BY <3>1, <3>3, <4>1, EvaluationAssumption
    <3> HIDE DEF c, status
    <3> QED BY <3>1, <3>4, <3>5, <3>6, <3>7, ConcludeKeeps DEF c
  <2> QED BY <2>1, <2>2
<1>16. CASE WorkerFails
  BY <1>2, <1>16 DEF WorkerFails, Error, Report
<1>17. CASE Finish
  BY <1>17 DEF Finish, Report, Checking, Evaluating, Ready, Kinds, Early, Preflight
<1>19. CASE FaultCaught
  <2>1. CASE ReaderError
    BY <1>3, <1>19, <2>1 DEF FaultCaught
  <2>2. CASE Error("IDS_INPUT_INVALID")
    BY <1>2, <1>19, <2>2 DEF FaultCaught, Error, Report
  <2>3. CASE pc' = pc /\ UNCHANGED <<held, result>>
    BY <1>4, <1>19, <2>3 DEF FaultCaught
  <2> QED BY <1>19, <2>1, <2>2, <2>3 DEF FaultCaught
<1>20. CASE FaultRaised
  BY <1>3, <1>20 DEF FaultRaised
<1>18. CASE Others \/ UNCHANGED evaluationVars
  BY <1>4, <1>18 DEF Others, WriteMember, ReplaceArchive, ChangeInput, evaluationVars
<1> QED
  BY <1>5, <1>6, <1>7, <1>8, <1>9, <1>10, <1>11, <1>12, <1>13, <1>14, <1>15, <1>16, <1>17, <1>18, <1>19, <1>20 DEF EvaluationNext, Step

\* Every step keeps what an ended evaluation reports.
LEMMA EndingStep ==
  ASSUME Inv, [EvaluationNext]_evaluationVars
  PROVE  Ending'
<1> USE DEF Inv, input, world, preflight, checking
<1>1. ASSUME UNCHANGED result, pc # "done", pc' # "done" PROVE Ending'
  BY <1>1 DEF Ending, Completed
<1>2. ASSUME pc' = "done", result'.candidate = held'["candidate"], result'.baseline = held'["baseline"],
             result'.code # "none"
      PROVE  Ending'
  BY <1>2 DEF Ending, Completed
<1>3. ASSUME Invalid \/ Changed \/ ReaderError \/ Raise PROVE Ending'
  BY <1>2, <1>3, Ends
<1>4. CASE RejectSymlink \/ LoadManifest \/ Unpacked \/ Compare
  BY <1>1, <1>3, <1>4 DEF RejectSymlink, LoadManifest, Unpacked, Compare, CopyDone
<1>5. CASE (\E p \in Paths : Look(p)) \/ ArtifactsDone \/ (\E p \in Paths : Unzip(p))
  BY <1>1, <1>3, <1>5 DEF Look, ArtifactsDone, Unzip
<1>6. CASE Read \/ ValidationDone
  BY <1>1, <1>3, <1>6 DEF Read, ValidationDone
<1>7. CASE Inspect \/ Open \/ Copy
  BY <1>1, <1>3, <1>7 DEF Inspect, Open, Copy
<1>8. CASE Baseline \/ Inputs
  BY <1>1, <1>2, <1>8 DEF Baseline, Inputs, Error, Report
<1>9. CASE PackageCheck \/ DiffCheck \/ ReadIds \/ Bind \/ WorkerFails
  BY <1>1, <1>2, <1>9 DEF PackageCheck, DiffCheck, ReadIds, Bind, WorkerFails, Error, Report
<1>10. CASE Finish
  <2>1. k = Len(policy) + 1
    BY <1>10, LenProperties DEF Finish, Types, EvaluationTypeOK
  <2> QED BY <1>10, <2>1 DEF Finish, Report, Ending, Completed
<1>11. CASE Others
  BY <1>1, <1>11 DEF Others, WriteMember, ReplaceArchive, ChangeInput, MayChange
<1>13. CASE FaultCaught
  <2>1. CASE ReaderError
    BY <1>3, <2>1
  <2>2. CASE Error("IDS_INPUT_INVALID") /\ UNCHANGED preflight
    BY <1>2, <2>2 DEF Error, Report
  <2>3. CASE pc = "records" /\ pc' = pc /\ UNCHANGED result
    BY <1>1, <2>3
  <2> QED BY <1>13, <2>1, <2>2, <2>3 DEF FaultCaught
<1>14. CASE FaultRaised
  BY <1>3, <1>14 DEF FaultRaised
<1>12. CASE UNCHANGED evaluationVars
  BY <1>12 DEF evaluationVars, Ending, Completed
<1> QED
  BY <1>4, <1>5, <1>6, <1>7, <1>8, <1>9, <1>10, <1>11, <1>12, <1>13, <1>14 DEF EvaluationNext, Step

-----------------------------------------------------------------------------
(* The undisturbed evaluation.                                             *)

\* An undisturbed evaluation reads what is there, accepts only what is whole, and
\* while no system call fails raises an alarm only for a symlink or a damaged archive.
LEMMA CalmStep ==
  ASSUME Inv, [EvaluationNext]_evaluationVars
  PROVE  Calm'
<1> SUFFICES ASSUME changes' = 0 PROVE Calm'
  BY DEF Calm
<1> USE DEF input, world, preflight, checking
<1>1. CASE Others
  BY <1>1 DEF Others, WriteMember, ReplaceArchive, ChangeInput, MayChange, Inv, Types
<1> SUFFICES ASSUME Step \/ FaultCaught \/ FaultRaised \/ UNCHANGED evaluationVars PROVE Calm'
  BY <1>1 DEF EvaluationNext
<1>2. UNCHANGED <<live, changes, links, form>> /\ changes = 0 /\ (faults' = 0 => faults = 0)
  <2>1. CASE FaultCaught \/ FaultRaised
    BY <2>1 DEF FaultCaught, FaultRaised, Failing, Inv, Types
  <2>2. CASE Step \/ UNCHANGED evaluationVars
    BY <2>2 DEF Step, evaluationVars, RejectSymlink, LoadManifest, Look, Read, ArtifactsDone, ValidationDone, Inspect,
         Unzip, Unpacked, Open, Copy, Compare, Baseline, Inputs, PackageCheck, DiffCheck, ReadIds,
         Bind, WorkerFails, Finish
  <2> QED BY <2>1, <2>2
<1>3. /\ \A r \in Roles : live[r] \in {Whole(v) : v \in Versions} \cup Damaged \cup {Nothing}
      /\ at # None => live[role][at] # Absent
      /\ pc \in {"unpacking", "extracting"} => archive = live[role] /\ form[role] = "zip"
      /\ pc \in {"artifacts", "records", "open", "extracting", "copying"} =>
           /\ initial[role] \in Versions /\ live[role][Manifest] = initial[role]
           /\ \A p \in Paths : live[role][p] # Absent
      /\ pc = "artifacts" /\ ok =>
           \A p \in Members \ todo : live[role][p] = Inventory[initial[role]][p]
      /\ (pc = "records" /\ ok) \/ pc \in {"open", "extracting", "copying"} =>
           live[role] = Whole(initial[role])
      /\ pc \in {"extracting", "copying"} =>
           \A p \in Paths \ todo : copy[role][p] = live[role][p]
      /\ pc = "done" /\ faults = 0 => Quiet
  BY <1>2 DEF Inv, Calm
<1>4. ASSUME UNCHANGED preflight, pc' = "done", faults' = 0 => Quiet' PROVE Calm'
  BY <1>2, <1>3, <1>4 DEF Calm
<1>5. ASSUME UNCHANGED <<preflight, result>>, pc' = pc PROVE Calm'
  BY <1>2, <1>3, <1>5 DEF Calm, Quiet, ChangedCode
<1>6. Invalid => UNCHANGED preflight /\ pc' = "done" /\ Quiet'
  BY DEF Invalid, Error, Report, InvalidCode, ChangedCode, Roles, Quiet
<1>7. role \in Roles /\ at \in Paths \cup {None} /\ initial \in [Roles -> Versions \cup {None}]
      /\ copy \in [Roles -> [Paths -> Contents]] /\ live \in [Roles -> [Paths -> Contents]]
      /\ ok \in BOOLEAN /\ Manifest \in Paths /\ Members \subseteq Paths
  BY DEF Inv, Types, EvaluationTypeOK, Paths
<1>8. at # None => pc \in {"artifacts", "records", "copying", "done"}
  BY DEF Inv, Phases
\* What is read of the package is there; once validated, it is the version's.
<1>9. pc \in {"open", "extracting", "copying"} =>
        live[role][Manifest] \in Versions /\ \A p \in Paths : live[role][p] # Absent
  BY <1>3, WholeType
<1>10. CASE RejectSymlink
  BY <1>4, <1>6, <1>10 DEF RejectSymlink
<1>11. CASE LoadManifest
  <2>1. CASE Invalid
    BY <1>4, <1>6, <2>1
  <2>2. CASE ~Invalid
    <3>1. /\ initial' = [initial EXCEPT ![role] = live[role][Manifest]] /\ pc' = "artifacts"
          /\ UNCHANGED <<role, at>> /\ at = None /\ live[role][Manifest] # Absent /\ todo' = Members
      BY <1>8, <1>11, <2>2 DEF LoadManifest
    <3>2. live[role] # Nothing
      BY <1>7, <3>1, NothingType
    <3>3. live[role][Manifest] \in Versions /\ \A p \in Paths : live[role][p] # Absent
      BY <1>3, <1>7, <3>2, WholeType, DamagedType
    <3>4. initial'[role] = live[role][Manifest]
      BY <1>7, <3>1
    <3> QED BY <1>2, <1>3, <3>1, <3>3, <3>4 DEF Calm
  <2> QED BY <2>1, <2>2
<1>12. CASE \E p \in Paths : Look(p)
  <2>1. PICK p \in Paths : Look(p)
    BY <1>12
  <2>2. CASE live[role][p] # Absent
    <3>1. at' = p /\ UNCHANGED <<pc, role, todo, ok, archive, initial, copy, result>> /\ pc # "done"
      BY <2>1, <2>2 DEF Look
    <3> QED BY <1>2, <1>3, <2>2, <3>1 DEF Calm
  <2>3. CASE live[role][p] = Absent
    BY <1>3, <2>1, <2>3 DEF Look
  <2> QED BY <2>2, <2>3
<1>13. CASE Read
  <2>1. live[role][at] # Absent /\ at \in Paths /\ pc \in {"artifacts", "records"}
    BY <1>3, <1>7, <1>13 DEF Read
  <2>2. /\ todo' = todo \ {at} /\ at' = None /\ UNCHANGED <<pc, role, archive, initial, copy, result>>
        /\ ok' = (ok /\ live[role][at] # Absent
                     /\ IF pc = "artifacts" THEN live[role][at] = Inventory[initial[role]][at]
                                            ELSE live[role][at] # Torn)
    BY <1>13, <2>1 DEF Read
  <2>3. pc = "artifacts" /\ ok' => ok /\ live[role][at] = Inventory[initial[role]][at]
    BY <2>2
  <2>4. pc = "artifacts" /\ ok' => \A p \in Members \ todo' : live[role][p] = Inventory[initial[role]][p]
    BY <1>3, <2>2, <2>3
  <2>5. pc = "records" /\ ok' => ok
    BY <2>2
  <2> QED BY <1>2, <1>3, <2>1, <2>2, <2>4, <2>5 DEF Calm
<1>14. CASE ArtifactsDone
  <2>1. /\ pc = "artifacts" /\ pc' = "records" /\ todo = {}
        /\ UNCHANGED <<role, at, ok, initial, live>> /\ at = None
    BY <1>2, <1>14 DEF ArtifactsDone
  <2>2. ASSUME ok PROVE live[role] = Whole(initial[role])
    <3>1. \A p \in Members : live[role][p] = Inventory[initial[role]][p]
      BY <1>3, <2>1, <2>2
    <3>2. live[role] = [p \in Paths |-> live[role][p]]
      BY <1>7
    <3> QED BY <1>3, <2>1, <3>1, <3>2 DEF Whole, Paths
  <2> QED BY <1>2, <1>3, <2>1, <2>2 DEF Calm
<1>15. CASE ValidationDone
  <2>1. CASE Invalid
    BY <1>4, <1>6, <2>1
  <2>2. CASE ~Invalid
    BY <1>2, <1>3, <1>15, <2>2 DEF ValidationDone, Calm
  <2> QED BY <2>1, <2>2
<1>16. CASE Inspect
  <2>1. CASE ReaderError
    <3>1. pc = "start"
      BY <1>9, <1>16, <2>1, Ends, EvaluationAssumption DEF Inspect, Unreadable
    <3> QED BY <1>4, <1>6, <2>1, <3>1 DEF ReaderError
  <2>2. CASE ~ReaderError
    <3>1. /\ archive' = live[role] /\ todo' = Paths /\ form[role] = "zip"
          /\ pc' = IF pc = "start" THEN "unpacking" ELSE "extracting"
          /\ UNCHANGED <<role, at, initial, copy>> /\ pc \in {"start", "open"}
      BY <1>16, <2>2 DEF Inspect
    <3> QED BY <1>2, <1>3, <1>7, <3>1 DEF Calm
  <2> QED BY <2>1, <2>2
<1>17. CASE \E p \in Paths : Unzip(p)
  <2>1. PICK p \in Paths : Unzip(p)
    BY <1>17
  <2>2. pc \in {"unpacking", "extracting"} /\ archive = live[role] /\ form[role] = "zip"
    BY <1>3, <2>1 DEF Unzip
  <2>3. CASE archive[p] = Torn /\ (ReaderError \/ Raise)
    <3>1. live[role] \in Damaged
      BY <1>3, <1>7, <2>2, <2>3, DamageSeen
    <3>2. pc = "unpacking"
      <4>1. pc = "extracting" => Valid(Whole(initial[role])) /\ live[role] = Whole(initial[role])
        BY <1>3, WholeType
      <4>2. pc = "extracting" => live[role] # live[role]
        <5>1. ASSUME pc = "extracting" PROVE FALSE
          <6>1. initial[role] \in Versions /\ Whole(initial[role])[p] = Torn
            BY <1>3, <2>2, <2>3, <5>1
          <6>2. Whole(initial[role])[p] = IF p = Manifest THEN initial[role] ELSE Inventory[initial[role]][p]
            BY DEF Whole
          <6>3. p # Manifest => Inventory[initial[role]][p] \in Bytes
            BY <6>1, EvaluationAssumption DEF Paths
          <6> QED BY <6>1, <6>2, <6>3, EvaluationAssumption
        <5> QED BY <5>1
      <4> QED BY <2>2, <4>2
    <3>3. CASE ReaderError
      BY <1>4, <1>6, <3>2, <3>3 DEF ReaderError
    <3>4. CASE Raise
      <4>1. Quiet'
        BY <1>2, <1>7, <2>2, <3>1, <3>4 DEF Raise, Report, Quiet, ChangedCode, Damaged, Whole
      <4> QED BY <1>4, <3>4, <4>1 DEF Raise, Report
    <3> QED BY <2>3, <3>3, <3>4
  <2>4. CASE /\ copy' = [copy EXCEPT ![role][p] = IF pc = "extracting" THEN archive[p] ELSE @]
             /\ todo' = todo \ {p} /\ UNCHANGED <<pc, role, at, archive, initial, result>>
    <3>1. pc = "extracting" => \A q \in Paths \ todo' : copy'[role][q] = live[role][q]
      BY <1>3, <1>7, <2>2, <2>4
    <3> QED BY <1>2, <1>3, <2>2, <2>4, <3>1 DEF Calm
  <2> QED BY <2>1, <2>2, <2>3, <2>4 DEF Unzip
<1>18. CASE Unpacked
  <2>1. CASE Invalid
    BY <1>4, <1>6, <2>1
  <2>2. CASE ~Invalid
    <3>1. /\ initial' = [initial EXCEPT ![role] = archive[Manifest]] /\ pc' = "open" /\ Valid(archive)
          /\ UNCHANGED <<role, at>> /\ archive = live[role]
      BY <1>3, <1>18, <2>2 DEF Unpacked
    <3>2. initial'[role] \in Versions /\ live[role] = Whole(initial'[role])
      BY <1>7, <3>1 DEF Valid
    <3>3. live[role][Manifest] = initial'[role] /\ \A p \in Paths : live[role][p] # Absent
      BY <3>2, WholeType
    <3> QED BY <1>2, <1>3, <3>1, <3>2, <3>3 DEF Calm
  <2> QED BY <2>1, <2>2
<1>19. CASE Open
  <2>1. live[role][Manifest] \notin Unreadable
    BY <1>9, <1>19, EvaluationAssumption DEF Open, Unreadable
  <2>2. todo' = Paths /\ pc' = "copying" /\ UNCHANGED <<role, at, initial, copy>> /\ pc = "open"
    BY <1>9, <1>19, <2>1 DEF Open
  <2> QED BY <1>2, <1>3, <2>2 DEF Calm
<1>20. CASE Copy
  <2>1. CASE at \in links[role] /\ Changed
    <3>1. \A r \in Roles : ChangedCode(r) = ChangedCode(role) => r = role
      BY <1>7 DEF ChangedCode, Roles
    <3>2. Quiet'
      BY <1>2, <2>1, <3>1 DEF Changed, Error, Report, Quiet, ChangedCode
    <3> QED BY <1>4, <2>1, <3>2 DEF Changed, Error, Report
  <2>2. CASE ~(at \in links[role] /\ Changed)
    <3>1. /\ copy' = [copy EXCEPT ![role][at] = live[role][at]]
          /\ todo' = todo \ {at} /\ at' = None /\ UNCHANGED <<pc, role, initial>>
          /\ pc = "copying" /\ at \in Paths
      BY <1>3, <1>7, <1>20, <2>2 DEF Copy
    <3>2. \A q \in Paths \ todo' : copy'[role][q] = live[role][q]
      BY <1>3, <1>7, <3>1
    <3> QED BY <1>2, <1>3, <3>1, <3>2 DEF Calm
  <2> QED BY <2>1, <2>2
<1>21. CASE Compare
  <2>1. pc \in {"copying", "extracting"} /\ todo = {} /\ at = None
    BY <1>21 DEF Compare, CopyDone
  <2>2. copy[role] = live[role]
    <3>1. \A p \in Paths : copy[role][p] = live[role][p]
      BY <1>3, <2>1
    <3> QED BY <1>7, <3>1
  <2>3. Accepted
    BY <1>3, <2>1, <2>2, WholeType DEF Accepted
  <2>4. UNCHANGED at /\ pc' \in {"baseline", "inputs"}
    BY <1>21, <2>3 DEF Compare
  <2> QED BY <1>2, <1>3, <2>1, <2>4 DEF Calm
<1>22. CASE Baseline
  <2>1. at' = None /\ pc' \in {"start", "inputs", "done"} /\ (pc' = "done" => Quiet')
    BY <1>8, <1>22 DEF Baseline, Error, Report, ChangedCode, Quiet
  <2> QED BY <1>2, <1>3, <2>1 DEF Calm
<1>23. CASE Inputs
  <2>1. at' = None /\ pc' \in {"checks", "done"} /\ (pc' = "done" => Quiet')
    BY <1>8, <1>23 DEF Inputs, Error, Report, ChangedCode, Quiet
  <2> QED BY <1>2, <1>3, <2>1 DEF Calm
<1>24. CASE PackageCheck \/ UNCHANGED evaluationVars
  BY <1>5, <1>24 DEF PackageCheck, evaluationVars
<1>25. CASE DiffCheck \/ ReadIds
  <2>1. at' = None /\ pc' \in {"checks", "bind", "done"} /\ (pc' = "done" => Quiet')
    BY <1>8, <1>25 DEF DiffCheck, ReadIds, Error, Report, ChangedCode, Quiet
  <2> QED BY <1>2, <1>3, <2>1 DEF Calm
<1>26. CASE Bind
  <2>1. BindDefect(policy[k]) \notin {ChangedCode(r) : r \in Roles}
    BY DEF BindDefect, ChangedCode
  <2>2. at' = None /\ pc' \in {"checks", "done"} /\ (pc' = "done" => Quiet')
    BY <1>8, <1>26, <2>1 DEF Bind, Error, Report, Quiet, ChangedCode
  <2> QED BY <1>2, <1>3, <2>2 DEF Calm
<1>27. CASE WorkerFails \/ Finish
  <2>1. at' = None /\ pc' = "done" /\ result'.code \in {"IDS_WORKER", "none"}
    BY <1>8, <1>27 DEF WorkerFails, Finish, Error, Report
  <2>2. result'.outcome # "raised"
    <3>1. {results[j].status : j \in DOMAIN results} \in SUBSET Statuses
      BY DEF Inv, Types, EvaluationTypeOK
    <3>2. Aggregate({results[j].status : j \in DOMAIN results} \cup {"pass"}) \in Outcomes
      BY <3>1, AggregateType
    <3> QED BY <1>27, <3>2 DEF WorkerFails, Finish, Error, Report, Outcomes, Statuses
  <2>3. Quiet'
    BY <2>1, <2>2 DEF Quiet, ChangedCode
  <2> QED BY <1>2, <1>3, <2>1, <2>3 DEF Calm
<1>28. CASE FaultCaught
  <2>1. faults' # 0
    BY <1>28 DEF FaultCaught, Failing, Inv, Types
  <2>2. CASE pc' = "done" /\ UNCHANGED preflight
    BY <1>4, <2>1, <2>2
  <2>3. CASE /\ pc = "records" /\ ok' = FALSE /\ at' = None
             /\ UNCHANGED <<pc, role, archive, initial, copy>>
    BY <1>2, <1>3, <2>3 DEF Calm
  <2> QED BY <1>28, <2>2, <2>3, Ends DEF FaultCaught, Error, Report
<1>29. CASE FaultRaised
  <2>1. faults' # 0 /\ pc' = "done" /\ UNCHANGED preflight
    BY <1>29 DEF FaultRaised, Failing, Raise, Report, Inv, Types
  <2> QED BY <1>4, <2>1
<1> QED
  BY <1>10, <1>11, <1>12, <1>13, <1>14, <1>15, <1>16, <1>17, <1>18, <1>19, <1>20, <1>21, <1>22, <1>23,
     <1>24, <1>25, <1>26, <1>27, <1>28, <1>29 DEF Step

-----------------------------------------------------------------------------
(* The theorems.                                                           *)

\* The inductive invariant holds of every reachable state.
THEOREM Invariant == EvaluationSpec => []Inv
<1>1. Inv /\ [EvaluationNext]_evaluationVars => Inv'
  BY TypesStep, SnapshotsStep, PhasesStep, CheckingStep, EndingStep, CalmStep DEF Inv
<1> QED BY InvInit, <1>1, PTL DEF EvaluationSpec

\* The locals of evaluate_gate and the packages it reads keep their types.
THEOREM TypeCorrect == EvaluationSpec => []EvaluationTypeOK
<1>1. Inv => EvaluationTypeOK
  BY DEF Inv, Types
<1> QED BY Invariant, <1>1, PTL

\* A completed result is the one the reported identities call for, whatever is
\* written to the caller's paths meanwhile.
THEOREM ResultIsFunctionOfIdentities == EvaluationSpec => []ResultFollowsFromIdentities
<1>1. Inv => ResultFollowsFromIdentities
  <2> SUFFICES ASSUME Inv, Completed PROVE ResultFollowsFromIdentities!2
    BY DEF ResultFollowsFromIdentities
  <2>1. /\ Len(results) = Len(policy) /\ k - 1 = Len(policy) /\ k = Len(policy) + 1
        /\ DOMAIN results = 1..Len(policy) /\ DOMAIN policy = 1..Len(policy)
        /\ policy \in Seq(Checks) /\ Len(policy) \in Nat
    BY LenProperties DEF Inv, Types, EvaluationTypeOK, Ending
  <2>2. result.candidate = held["candidate"] /\ result.baseline = held["baseline"] /\ result.ids = identity
    BY DEF Inv, Ending, Completed
  <2>3. result.candidate # None
    BY <2>2 DEF Inv, Checking, Evaluating, Ready
  <2>4. ASSUME NEW j \in DOMAIN policy PROVE results[j].status = ReferenceStatus(policy[j])
    <3>1. Judged(policy[j], results[j], held, identity)
      BY <2>1 DEF Inv, Checking, Evaluating
    <3>2. policy[j].kind \in {"package", "diff", "ids"}
      <4>1. policy[j] \in Checks
        BY <2>1, ElementOfSeq
      <4> QED BY <4>1 DEF Checks
    <3> QED BY <2>2, <3>1, <3>2 DEF Judged, ReferenceStatus
  <2>5. {results[j].status : j \in DOMAIN results} = {ReferenceStatus(policy[j]) : j \in DOMAIN policy}
    BY <2>1, <2>4
  <2>6. result.outcome = Aggregate({results[j].status : j \in DOMAIN results} \cup {"pass"})
    BY DEF Inv, Ending
  <2> QED BY <2>1, <2>3, <2>4, <2>5, <2>6
<1> QED BY Invariant, <1>1, PTL

\* A package swapped between validation and snapshot is never reported.
THEOREM ReportsWhatWasValidated == EvaluationSpec => []ReportedIsFirstValidated
<1>1. Inv => ReportedIsFirstValidated
  BY DEF Inv, Ending, Snapshots, ReportedIsFirstValidated, Roles
<1> QED BY Invariant, <1>1, PTL

\* A completed result leaves out nothing the caller or the policy asked for.
THEOREM NothingSkipped == EvaluationSpec => []NothingAskedIsSkipped
<1>1. Inv => NothingAskedIsSkipped
  <2> SUFFICES ASSUME Inv, Completed PROVE NothingAskedIsSkipped!2
    BY DEF NothingAskedIsSkipped
  <2>1. k - 1 = Len(policy) /\ DOMAIN policy = 1..Len(policy)
    BY LenProperties DEF Inv, Types, Ending
  <2>2. result.candidate = held["candidate"] /\ result.baseline = held["baseline"] /\ result.ids = identity
    BY DEF Inv, Ending, Completed
  <2>3. form["baseline"] # "not_supplied" \/ "diff" \in Kinds => result.baseline # None
    BY <2>2 DEF Inv, Checking, Evaluating, Ready
  <2>4. \A j \in DOMAIN policy : Judged(policy[j], results[j], held, identity)
    BY <2>1 DEF Inv, Checking, Evaluating
  <2>5. \A j \in DOMAIN policy : policy[j].kind = "ids" =>
         /\ identity # None
         /\ results[j].evidence = result.ids
         /\ policy[j].ids = result.ids[1] /\ policy[j].source = result.ids[2]
         /\ Registered[result.candidate][result.ids[2]] = result.ids[3]
    BY <2>2, <2>4, EvaluationAssumption DEF Judged
  <2>6. "ids" \in Kinds => identity # None
    BY <2>5 DEF Kinds
  <2>7. (pair = "both") = (result.ids # None)
    BY <2>2, <2>6 DEF Inv, Checking, Evaluating
  <2> QED BY <2>3, <2>5, <2>7
<1> QED BY Invariant, <1>1, PTL

\* Without a change by others and without a failing system call, evaluate_gate claims
\* a change only of a package that holds a symlink, and dies of an exception only when
\* a member of an archive is damaged.
THEOREM AlarmsAreTrue == EvaluationSpec => []NoFalseAlarm
<1>1. Inv => NoFalseAlarm
  BY DEF Inv, Calm, Quiet, NoFalseAlarm
<1> QED BY Invariant, <1>1, PTL
=============================================================================
