-------------------------------- MODULE Commands --------------------------------
(***************************************************************************)
(* One call of the program: main of cli.py parses the options, checks them *)
(* against the adapter that it was given or that the file suggests, loads  *)
(* the replays of providers, runs one component and turns what it did into *)
(* an exit code.  The components share job, pc and outcome; those that     *)
(* write packages share the records.  A worker process is what a plugin or *)
(* the gate starts: its caller is no command line.                         *)
(***************************************************************************)
EXTENDS Lists, WorkerRequests

CONSTANTS
    Nil,             \* nothing of the kind: no result, no profile, no package
    Broken,          \* a file that does not parse
    RasterJobs, DxfJobs, IfcJobs, ExchangeJobs, MeshJobs, SigningJobs, ReadingJobs,
    MaxInsertDepth,                \* of DxfRecords
    MaxReferenceDepth, MaxMembers, \* of IfcIngest
    MaxSignatures, MaxKeys,        \* of Signing
    RecordPaths,                   \* of Reading
    CallsFor(_, _)   \* the command lines of a job of a component that are tried

VARIABLES
    command,  \* the component that is called
    call,     \* the options of the command line
    stage,    \* "main", "running" or "exited"
    exit,     \* the exit code, and whether main was left by an exception
    job, pc, outcome, records, diagnostics, artifacts,
    verdicts,
    disk, index, total, admitted, digest, stack, documents, opened, rewrites,
    pending, profiles, notes, preview, issues,
    checked,
    solution,
    content, turn, validated, statement, bundle, history, result, changes,
    packages, stores, position, seen, answer, replaced,
    worker, code, output, signal, timedOut

R == INSTANCE RasterIngest WITH None <- Nil
D == INSTANCE DxfIngest WITH Absent <- Nil
I == INSTANCE IfcIngest WITH Unset <- Nil
E == INSTANCE ExchangeIngest WITH NoResult <- Nil
G == INSTANCE GeometryIngest WITH Undeclared <- Nil
S == INSTANCE Signing WITH NoStatement <- Nil
Q == INSTANCE Reading WITH Nothing <- Nil
W == INSTANCE WorkerProcess

ASSUME RasterAssumption == \A j \in RasterJobs : R!IsRasterJob(j)
ASSUME DxfAssumption == MaxInsertDepth \in Nat /\ \A j \in DxfJobs : D!IsDxfJob(j)
ASSUME IfcAssumption == \A j \in IfcJobs : I!IsIfcJob(j)
ASSUME ExchangeAssumption == \A j \in ExchangeJobs : E!IsExchangeJob(j)
ASSUME MeshAssumption == \A j \in MeshJobs : G!IsMeshJob(j)
ASSUME SigningAssumption == MaxSignatures \in Nat \ {0} /\ \A j \in SigningJobs : S!IsSigningJob(j)
ASSUME ReadingAssumption == IsFiniteSet(RecordPaths) /\ RecordPaths # {} /\ \A j \in ReadingJobs : Q!IsReadingJob(j)

main == <<command, call, stage, exit>>
written == <<records, diagnostics, artifacts>>
dxf == <<disk, index, total, admitted, digest, stack, documents, opened, rewrites>>
ifc == <<pending, profiles, notes, preview, issues>>
signing == <<content, turn, validated, statement, bundle, history, result, changes>>
reading == <<packages, stores, position, seen, answer, replaced>>
process == <<worker, code, output, signal, timedOut>>
own == <<verdicts, dxf, ifc, checked, solution, signing, reading, process>>
vars == <<main, job, pc, outcome, written, own>>

----------------------------------------------------------------------------
(* The adapter: the option, or the first format whose probe is certain. *)
Formats == <<"ifc", "step-iges", "dwg", "dxf", "pdf", "geometry", "image">>
Governed == Range(Formats)

Probed(source) ==
    LET certain == SelectSeq(Formats, LAMBDA f : f \in source.probes)
    IN  IF source.bundle THEN "dxf" ELSE IF certain = <<>> THEN "opaque" ELSE Head(certain)
Adapter(c) == IF c.adapter = "auto" THEN Probed(c.source) ELSE c.adapter

Given(replay) == replay.corpus # "none"
Paired(replay) == Given(replay) = (replay.entries > 0)
(* A corpus that does not load raises ProviderExecutionError, a RuntimeError. *)
Loads(replay) == Given(replay) => replay.corpus # "broken"
V02Anywhere(c, adapters) == c.version = "0.2.0"
V02(c, adapters) == c.version = "0.2.0" /\ Adapter(c) \in adapters

(***************************************************************************)
(* Libraries are optional, and named for the adapter that needs them first *)
(* ("geometry": trimesh and numpy).  An adapter imports its own one before *)
(* it looks at anything else; to probe a file main imports the module of   *)
(* the geometry adapter, and the image adapter asks its library when no    *)
(* other format is certain.                                                *)
(***************************************************************************)
Imported(c) == {Adapter(c)} \cap {"ifc", "dxf", "pdf", "geometry", "image"}
ProbesImage(c) == c.adapter = "auto" /\ ~c.source.bundle /\ c.source.probes \subseteq {"image"}

(* The tests of main before an ingest and the import of its library, in their order, and what each raises. *)
IngestChecks(c) ==
    << <<c.adapter = "auto" => "geometry" \notin c.missing, "ImportError">>,
       <<c.adapter = "auto" => c.source.readable, "OSError">>,
       <<ProbesImage(c) => "image" \notin c.missing, "DependencyError">>,
       <<c.version = "0.2.0" => Adapter(c) \in Governed, "ValueError">>,
       <<c.coordinate # "none" => V02(c, {"geometry"}) /\ c.coordinate = "sound", "ValueError">>,
       <<c.crs # "none" => V02(c, {"geometry"}) /\ c.coordinate = "none" /\ c.crs = "sound", "ValueError">>,
       <<Paired(c.inference), "ValueError">>,
       <<Given(c.inference) => V02(c, {"pdf", "image"}), "ValueError">>,
       <<Loads(c.inference), "ProviderExecutionError">>,
       <<Paired(c.vision), "ValueError">>,
       <<Given(c.vision) => V02(c, {"pdf", "image"}), "ValueError">>,
       <<Loads(c.vision), "ProviderExecutionError">>,
       <<c.vision.corpus # "foreign", "ValueError">>,
       <<Paired(c.provider), "ValueError">>,
       <<Given(c.provider) => V02(c, {"step-iges", "dwg"}), "ValueError">>,
       <<Loads(c.provider), "ProviderExecutionError">>,
       <<c.provider.corpus # "foreign", "ValueError">>,
       <<c.provider.entries > 1 => Adapter(c) = "dwg" /\ c.source.bundle, "ValueError">>,
       <<Imported(c) \cap c.missing = {}, "DependencyError">> >>

(* Neither OSErrors nor ValueErrors: ProviderExecutionError and the DependencyErrors are RuntimeErrors. *)
Uncaught == {"ProviderExecutionError", "DependencyError", "ImportError"}
Refusal(c) ==
    LET checks == IngestChecks(c)
        failed == {k \in DOMAIN checks : ~checks[k][1]}
    IN  IF failed = {} THEN "none" ELSE checks[Min(failed)][2]

Ingests == {"raster", "dxf", "ifc", "exchange", "geometry", "opaque"}

(***************************************************************************)
(* What main makes of a command line that it lets through: the adapter is  *)
(* one of the component's, and the component's job has the version and     *)
(* those of the replays and coordinate options that the component takes.   *)
(***************************************************************************)
AdaptersOf ==
    [raster |-> {"pdf", "image"}, dxf |-> {"dxf"}, ifc |-> {"ifc"}, exchange |-> {"step-iges", "dwg"},
     geometry |-> {"geometry"}, opaque |-> {"opaque"}]
JobsOf ==
    [raster |-> RasterJobs, dxf |-> DxfJobs, ifc |-> IfcJobs, exchange |-> ExchangeJobs, geometry |-> MeshJobs, opaque |-> {Nil}]
Takes ==
    [raster |-> {"inference", "vision"}, dxf |-> {}, ifc |-> {}, exchange |-> {"provider"}, geometry |-> {"coordinate", "crs"},
     opaque |-> {}]

Supplied(c) ==
    {k \in {"inference", "vision", "provider"} : Given(c[k])}
    \cup {k \in {"coordinate", "crs"} : c[k] # "none"}
Used(component, j) ==
    CASE component = "raster" -> (IF j.ocr = Nil THEN {} ELSE {"inference"}) \cup (IF j.vision = Nil THEN {} ELSE {"vision"})
      [] component = "exchange" -> IF j.result = Nil /\ j.results = <<>> THEN {} ELSE {"provider"}
      [] component = "geometry" -> (IF j.profile = Nil THEN {} ELSE {"coordinate"}) \cup (IF j.registry = Nil THEN {} ELSE {"crs"})
      [] OTHER -> {}
(* Of the replay entries for a DWG bundle only those whose input is a member go into the job; the strays are left out. *)
Unmatched(c) ==
    IF Adapter(c) = "dwg" /\ c.source.bundle /\ c.provider.entries = c.provider.strays THEN {"provider"} ELSE {}
Carries(c, component, j) ==
    /\ Adapter(c) \in AdaptersOf[component]
    /\ component # "opaque" => j.version = c.version
    /\ component = "exchange" => (Adapter(c) = "dwg" /\ c.source.bundle <=> j.form = "bundle")
    /\ (Supplied(c) \ Unmatched(c)) \cap Takes[component] = Used(component, j)
ASSUME CallsAssumption ==
    \A component \in Ingests : \A j \in JobsOf[component] : \A c \in CallsFor(component, j) :
        Refusal(c) = "none" => Carries(c, component, j)

----------------------------------------------------------------------------
NoRecords == records = Nil /\ diagnostics = Nil
NoDxf == /\ disk = Nil /\ index = Nil /\ total = Nil /\ admitted = Nil /\ digest = Nil /\ stack = Nil
         /\ documents = Nil /\ opened = Nil /\ rewrites = Nil
NoIfc == pending = Nil /\ profiles = Nil /\ notes = Nil /\ preview = Nil /\ issues = Nil
NoSigning == /\ content = Nil /\ turn = Nil /\ validated = Nil /\ statement = Nil /\ bundle = Nil
             /\ history = Nil /\ result = Nil /\ changes = Nil
NoReading == packages = Nil /\ stores = Nil /\ position = Nil /\ seen = Nil /\ answer = Nil /\ replaced = Nil
NoWorker == worker = Nil /\ code = Nil /\ output = Nil /\ signal = Nil /\ timedOut = Nil

Opaque == /\ job = Nil /\ pc = "opaque" /\ outcome = "running"
          /\ NoRecords /\ artifacts = Nil

(* The component a command calls starts as it does alone; the state of the others stays Nil. *)
Component ==
    /\ \/ command = "raster" /\ R!Init /\ artifacts = Nil
       \/ command = "dxf" /\ D!Init /\ diagnostics = Nil /\ artifacts = Nil
       \/ command = "ifc" /\ I!Init /\ artifacts = Nil
       \/ command = "exchange" /\ E!Init
       \/ command = "geometry" /\ G!Init
       \/ command = "sign" /\ S!Init /\ NoRecords /\ artifacts = Nil
       \/ command = "read" /\ Q!Init /\ NoRecords /\ artifacts = Nil
       \/ command = "worker" /\ W!Init /\ NoRecords /\ artifacts = Nil
       \/ command = "opaque" /\ Opaque
    /\ command # "raster" => verdicts = Nil
    /\ command # "dxf" => NoDxf
    /\ command # "ifc" => NoIfc
    /\ command # "exchange" => checked = Nil
    /\ command # "geometry" => solution = Nil
    /\ command # "sign" => NoSigning
    /\ command # "read" => NoReading
    /\ command # "worker" => NoWorker

Init ==
    /\ Component
    /\ IF command \in Ingests THEN call \in CallsFor(command, job) /\ stage = "main"
       ELSE call = Nil /\ stage = "running"
    /\ exit = [code |-> Nil, raised |-> FALSE]

Leave(status, raised) ==
    /\ stage' = "exited"
    /\ exit' = [code |-> status, raised |-> raised]
    /\ UNCHANGED <<command, call, job, pc, outcome, written, own>>

(* main around an ingest: `except (OSError, ValueError)`; anything else ends the interpreter with 1. *)
Refuse ==
    /\ stage = "main" /\ Refusal(call) # "none"
    /\ IF Refusal(call) \in Uncaught THEN Leave(1, TRUE) ELSE Leave(2, FALSE)

Run ==
    /\ stage = "main" /\ Refusal(call) = "none"
    /\ stage' = "running"
    /\ UNCHANGED <<command, call, exit, job, pc, outcome, written, own>>

(***************************************************************************)
(* What a library raises in the middle of an ingest: the parser of an IFC  *)
(* file, a PDF or an image something that is no OSError and no ValueError, *)
(* which these adapters do not convert; or trimesh, which other adapters   *)
(* import when there is a mesh to export, is missing.                      *)
(***************************************************************************)
MeshExported ==
    \/ command = "exchange" /\ job.adapter = "step"
    \/ command = "dxf" /\ job.version = "0.2.0" /\ D!Mesh(D!Root).faces # <<>>
LibraryFails ==
    \/ pc = "arguments" /\ call.source.raises /\ ((command = "raster" /\ job.regular) \/ (command = "ifc" /\ job.valid))
    \/ pc = "records" /\ "geometry" \in call.missing /\ MeshExported
Abort == stage = "running" /\ command \in Ingests /\ LibraryFails /\ Leave(1, TRUE)

Running(component) == stage = "running" /\ command = component /\ ~(command \in Ingests /\ LibraryFails)
Raster == Running("raster") /\ R!Next /\ UNCHANGED <<main, artifacts, dxf, ifc, checked, solution, signing, reading, process>>
Dxf == Running("dxf") /\ D!Next /\ UNCHANGED <<main, diagnostics, artifacts, verdicts, ifc, checked, solution, signing, reading, process>>
Ifc == Running("ifc") /\ I!Next /\ UNCHANGED <<main, artifacts, verdicts, dxf, checked, solution, signing, reading, process>>
Exchange == Running("exchange") /\ E!Next /\ UNCHANGED <<main, verdicts, dxf, ifc, solution, signing, reading, process>>
Geometry == Running("geometry") /\ G!Next /\ UNCHANGED <<main, verdicts, dxf, ifc, checked, signing, reading, process>>
SignOrVerify == Running("sign") /\ S!Next /\ UNCHANGED <<main, written, verdicts, dxf, ifc, checked, solution, reading, process>>
Read == Running("read") /\ Q!Next /\ UNCHANGED <<main, written, verdicts, dxf, ifc, checked, solution, signing, process>>

Elsewhere == UNCHANGED <<main, written, verdicts, dxf, ifc, checked, solution, signing, reading>>
Parent == Running("worker") /\ W!Parent /\ Elsewhere
Worker == Running("worker") /\ W!Worker /\ Elsewhere
Killed == Running("worker") /\ W!Killed /\ Elsewhere

(* ingest_opaque: see PackageStore. *)
IngestOpaque ==
    /\ Running("opaque") /\ pc = "opaque"
    /\ pc' = "done"
    /\ outcome' \in {"written", "ValueError"}
    /\ UNCHANGED <<main, job, written, own>>

(***************************************************************************)
(* The end of main.  `diff` catches nothing, `query` and `context` only    *)
(* ValueErrors, and the interpreter ends with 1 after any other exception. *)
(***************************************************************************)
Escapes ==
    CASE command = "raster" -> outcome = "KeyError"
      [] command = "geometry" -> outcome = "Exception"
      [] command = "read" -> outcome = "PackageReadError" \/ (job.command = "diff" /\ outcome = "ValueError")
      [] OTHER -> FALSE

Status ==
    CASE command = "sign" -> IF outcome # "verified" THEN 2 ELSE IF result.satisfied THEN 0 ELSE 1
      [] command = "read" -> IF outcome # "answered" THEN 2
                             ELSE IF job.command = "diff" /\ Q!SemanticChange(answer) THEN 1 ELSE 0
      [] OTHER -> IF outcome \in {"written", "opaque"} THEN 0 ELSE 2

Exit ==
    /\ stage = "running" /\ command # "worker" /\ pc = "done"
    /\ Leave(IF Escapes THEN 1 ELSE Status, Escapes)

Next ==
    \/ Refuse \/ Run \/ Abort \/ Exit
    \/ Raster \/ Dxf \/ Ifc \/ Exchange \/ Geometry \/ IngestOpaque
    \/ SignOrVerify \/ Read \/ Parent \/ Worker

(* Only a worker's parent is waited for: its timers expire, and a SIGKILL is delivered. *)
Spec == Init /\ [][Next]_vars /\ WF_vars(Parent) /\ WF_vars(Killed)

----------------------------------------------------------------------------
(***************************************************************************)
(* Whatever an adapter writes holds together: identifiers are unique, what *)
(* a record names is in the package, and so is every artifact; and a       *)
(* bundle of DXF files is only written whole, its members being what the   *)
(* manifest says unless somebody changes them during the call.             *)
(***************************************************************************)
PackagesAreClosed ==
    /\ command = "raster" => R!WrittenIsClosed
    /\ command = "dxf" => D!DxfRecordsAreClosed /\ D!AcceptedIsClosed
    /\ command = "ifc" => I!IfcRecordsAreClosed
    /\ command = "exchange" => E!ExchangeIsClosed
    /\ command = "geometry" => G!MeshIsClosed

(***************************************************************************)
(* dxf-v03-profile.md:34-36: all hashes are validated before any member is *)
(* parsed and a mismatch fails closed, so that what a DXF bundle's package *)
(* says of a member is said of the content with the digest it gives.       *)
(***************************************************************************)
BundleMembersAreClaimed == command = "dxf" => D!MembersAreWhatTheyClaim

(***************************************************************************)
(* What was not observed in the source rests on what was: inferences on    *)
(* the raster they were made from, translations on the objects of their    *)
(* own source, calibrations on its meshes and one assertion of a person.   *)
(* And it says what it is: a text that is inferred or was rejected, units  *)
(* that nobody declared or that contradict each other, a location that is  *)
(* not known, are said to be so in the package.  One location is said to   *)
(* be known and does not rest on a known frame: that of an IFC file        *)
(* without a world coordinate system, whose package validation refuses.    *)
(***************************************************************************)
DerivedRestsOnEvidence ==
    /\ command = "raster" => R!InferenceOnlyAdds /\ R!ResultsAreDeclared
    /\ command = "exchange" => E!DerivedIsGrounded
    /\ command = "geometry" => G!CalibrationRestsOnSource /\ G!CoordinatesAreDeclared
    /\ command = "ifc" => I!LocationIsDeclared

(***************************************************************************)
(* ifc-v02-profile.md:56-62: a link to a map is known only when a finite   *)
(* invertible WCS is explicit too, and records.py:109-123 refuses a known  *)
(* location without a complete known chain.                                *)
(***************************************************************************)
LocationsAreComplete == command = "ifc" => I!KnownLocationIsComplete

(***************************************************************************)
(* No geometry is lost without a word: what block references or nested     *)
(* items lead to is drawn, once for each way that leads to it, or a        *)
(* diagnostic in the package says where it was cut off; except for the     *)
(* two omissions of the IFC preview that IfcIngest names, Overlooked and   *)
(* Unsegmented.                                                            *)
(***************************************************************************)
NothingIsSilentlyOmitted ==
    /\ command = "dxf" => D!MeshIsComplete
    /\ command = "ifc" => I!NothingSilentlyOmitted

(***************************************************************************)
(* ifc-v03-profile.md:52-53 and ifc-v02-profile.md:45-46 list an outcome   *)
(* for everything that is not extracted: an unlisted class or form is      *)
(* ITEM_UNSUPPORTED, a malformed, cyclic or over-limit structure is        *)
(* EXTRACTION_FAILED; a curve set and a mapping are listed for supported   *)
(* members only, an indexed curve of IFC4X3 for explicit segments.         *)
(***************************************************************************)
OmissionsAreReported == command = "ifc" => I!EveryOmissionIsReported

(***************************************************************************)
(* A verdict on signatures is about the package at its path, counts only   *)
(* those who could sign it then, and is not undone by a further signature; *)
(* a bundle that was written can be read.                                  *)
(***************************************************************************)
SignaturesCount == command = "sign" => S!VerdictIsAboutThisPackage /\ S!CountedCouldSign /\ S!BundlesStayReadable

(* A context, a diff and a query say what the package says, within the limits they were given. *)
ProjectionsAreExact == command = "read" => Q!ContextFits /\ Q!DiffIsExact /\ Q!QueryDivides

(* The result of a worker is its whole answer in time, and nothing of it is running when the call returns. *)
WorkersAreAccountedFor == command = "worker" => W!ResultIsTheAnswer /\ W!NothingRunsOn

(***************************************************************************)
(* The exit code tells what happened.  An ingest ends with 0 exactly when  *)
(* a package was written, never an opaque one for AECCTX 0.2.0, and        *)
(* something of each option that was given went into it (of the replay     *)
(* entries of a DWG bundle those of its members); it ends with 2 for a     *)
(* cause that was there.  A verification ends with 0 only if as many       *)
(* signers count as the policy asks, a diff only if the packages assert    *)
(* the same.  An exception leaves main only for: a replay corpus that does *)
(* not load, a library that is missing, a parser that raises what nobody   *)
(* converts, a mesh that the library refuses, a package that does not      *)
(* validate (in a diff) or is taken away while it is read; and a vision    *)
(* result that is rejected or empty, which inference-v02-profile.md:62     *)
(* promises to be a mere loss in the package.                              *)
(***************************************************************************)
ExitTellsTheOutcome ==
    stage = "exited" =>
        /\ command \in Ingests /\ exit.code = 0 =>
             /\ outcome \in {"written", "opaque"}
             /\ call.version = "0.2.0" => outcome = "written" /\ command # "opaque"
             /\ Supplied(call) = Used(command, job)
        /\ command = "dxf" => D!RefusedWithCause
        /\ command = "sign" /\ exit.code = 0 => job.policy # Nil /\ Cardinality(result.counted) >= job.policy.minimum
        /\ command = "read" /\ exit.code = 0 /\ job.command = "diff" /\ Q!Undisturbed =>
             Q!Asserted(Q!Opened(1)) = Q!Asserted(Q!Opened(2))
        /\ exit.raised =>
             \/ command \in Ingests /\ "broken" \in {call.inference.corpus, call.vision.corpus, call.provider.corpus}
             \/ command \in Ingests /\ (call.missing # {} \/ call.source.raises)
             \/ command = "raster" /\ job.vision # Nil /\ (verdicts.vision = "rejected" \/ job.vision.candidates = <<>>)
             \/ command = "geometry" /\ call.version = "0.1.0"
             \/ command = "read" /\ (~Q!Undisturbed \/ \E side \in DOMAIN seen : \E c \in seen[side] : c = Nil \/ ~c.valid)

(* Every call of a worker process returns, whatever the worker does. *)
CallsReturn == <>(command = "worker" => pc = "done")

=============================================================================
