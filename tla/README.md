# Formal model of aecctx

`aecctx` turns AEC documents (IFC, DXF, DWG, PDF, ...) into evidence packages and derives from them
gate results, signatures, diffs and contexts for agents. The code is Python, one process per command,
with no server and no lock. Two things make it hard: several processes that share a file system, files
that change under a reader, child processes with deadlines and system calls that fail half way; and
packages whose every record, reference, loss and digest must agree although dozens of limits,
refusals and providers decide what goes into them. This directory models those parts in TLA+, checks
them with TLC and proves theorems about them with TLAPS. Every path below is relative to the
repository; a file without a directory is under `src/aecctx/`.

## Reading order

| Module | Models | Role |
|---|---|---|
| `CreateOnly` | what publication promises | abstract specification |
| `AtomicCreate` | `_atomic.py` | implements `CreateOnly` |
| `PackageStore` | `ingest_opaque`, `PackageWriter.write` | writers among writers |
| `GateOutcome` | status lattice of `gate/evaluator.py` | shared operators |
| `GateWaivers` | `apply_waivers` | algorithm against an order-free reference |
| `GateEvaluation` | `evaluate_gate`, `validate_package`, `PackageReader`, input side of `gate/ids.py` | reader among writers |
| `GateValueStates` | `evaluate_value_state_check` without `field_path` | algorithm |
| `InspectorLifecycle` | `plugins/aecctx-inspector/scripts/manage.py` | install, upgrade, uninstall |
| `OciSession` | `providers/oci.py`, local half of `providers/runner.py`, `validate_provider_response` | parent, docker client and container |
| `RemoteSession` | `run_remote_provider`, `_https_exchange` of `providers/remote.py` | retries over a network |
| `ProviderRunner` | `ProviderRunner.run` | composes the two |
| `WorkerRequests`, `WorkerProcess` | `plugins.py`, `plugin_worker.py`, the worker of `gate/ids.py`, `gate/_ids_worker.py` | parent and child process at a deadline |
| `Signing` | `signing.py`, `trust/` | signers and a verifier over a path that changes |
| `Reading` | `records.py`, `query.py`, `diff.py`, `context.py` | readers over paths that change, and what they answer |
| `RasterIngest` | `adapters/image.py`, `adapters/pdf.py`, `inference.py`, `vision.py` | adapter |
| `DxfRecords`, `DxfIngest` | `adapters/dxf.py`, `source_bundle.py` | adapter over files that change |
| `IfcIngest` | `adapters/ifc.py` | adapter |
| `ExchangeIngest` | `adapters/step_iges.py`, `adapters/dwg.py`, `step_iges.py`, `dwg.py` | adapter of a provider's result |
| `GeometryIngest` | `adapters/geometry.py`, `mesh_coordinates.py`, `crs.py` | adapter with a profile or a registry |
| `Commands` | `cli.py` | composes the adapters, `Signing`, `Reading` and `WorkerProcess` |
| `Lists` | lists the adapters and readers make | operators shared by the adapters and `Reading`: what is in a list, in ascending order, in some order, filtered, joined |
| `AtomicCreateProofs`, `PackageStoreProofs`, `GateWaiversProofs`, `GateEvaluationProofs`, `InspectorLifecycleProofs`, `ProviderRunnerProofs` | | theorems about the module they are named after |
| `ReadingProofs`, `CommandsProofs` | | theorems about `Commands` and the components it composes |

`MC*.tla` supply constants, and two of them put programs side by side that share nothing: the initial state
of `MCPrograms` says which of `AtomicCreate`, `PackageStore`, `InspectorLifecycle` and `GateWaivers` runs, that of
`MCGateAndProvider` whether `GateEvaluation` (`MCGateEvaluation`) or `ProviderRunner` (`MCProviderRunner`) does, so
that one run checks each of them over all its own initial states. There is one `.cfg` per run. `RasterCalls`, `DxfCalls`, `IfcCalls`,
`ExchangeCalls`, `GeometryCalls`, `SigningCalls` and `ReadingCalls` are the families of
calls that `MCCommands` puts together. Operators commented `Mutant:` are plausible bugs; each of them,
put in place of the operator it is derived from, makes TLC report one property as violated, which shows
that the property depends on the code it is about.

## Inventory

The components, what they keep, how they meet, and what makes them correct.

| Component | State | Operations | Meets others through | Correct means |
|---|---|---|---|---|
| Publication (`_atomic.py`) | temporaries, list of published outputs | `atomic_create`, `atomic_create_many` | output directory, shared with any process | all or nothing when it reports, complete files always, nobody else's file touched |
| Package writing (`package.py`, `ingest.py`) | directory growing in place, or a temporary ZIP | `ingest_opaque`, `PackageWriter.write` | output path; source file read three times | one author, whole ZIP, a success is a valid package, source record cites what is embedded |
| Validation and reading (`validation.py`, `package.py`) | none; archive member list | `validate_package`, `PackageReader.*` | package path others may write | a verdict about one version of the package, never a mixture |
| Gate evaluation (`gate/evaluator.py`) | private snapshots, results so far, `ids_identity` | `evaluate_gate` | caller's candidate, baseline, IDS and IFC files | the result follows from the identities it reports; nothing asked for is skipped |
| Waivers (`gate/evaluator.py`) | updates, review floors, diagnostics | `apply_waivers` | policy | independent of order; no pass out of a finding |
| Policy checks (`gate/evaluator.py`, `diff_checks.py`, `ids.py`) | counters, findings | one function per check kind | record store of the snapshot; IDS worker process | every relevant record is counted once |
| Inspector manager (`manage.py`) | destination tree, marker, stage, backup | install, upgrade, uninstall | plugin directory, users who edit it | an installation survives, edits are preserved |
| Signing (`signing.py`, `trust/`) | statement, bundle of signatures | build, sign, append, verify | package path, sidecar through `atomic_create` | a verdict is about this package and counts those who could sign it then |
| Providers (`providers/`) | workspace, child process or container, attempts | run, poll, terminate, collect, retry | child process, Docker daemon, HTTPS | ends within its limits, no output accepted after a limit, bounded retries |
| Plugins (`plugins.py`) and IDS worker (`gate/ids.py`) | child process, output file | start, wait, kill, reap, judge | child process | a result is a whole answer in time; nothing runs on |
| Records, query, context, diff (`records.py`, `query.py`, `context.py`, `diff.py`) | record map | open, select, project, compare | package path | one package; budgets kept; exact classification |
| PDF and image adapters with OCR and vision | records, diagnostics, verdicts | page, raster, map, sort, write | provider results by raster digest | an inference rests on its raster; a rejected one is declared |
| DXF adapter and source bundles | stack of documents, admitted members | check a member, visit, collect faces | files of the caller | a bundle is written whole, as its manifest says; no xref twice, too deep or missing |
| IFC adapter | profiles, preview, issues | one representation at a time | | what is not understood is declared; references resolve |
| STEP/IGES and DWG adapters | checked members, artifacts | check events, build records | provider results | derived objects rest on observed ones of the same source |
| Mesh adapter, coordinates and CRS | solution, artifacts | check, solve, build | profile or registry of the caller | coordinates are declared, or said not to be; a calibration rests on one assertion |
| CLI | options | check, dispatch, exit | all | the exit code tells what happened; nothing supplied is dropped |
| MCP server, gate policy and projections, provider definitions | none | convert, dispatch | all | arguments reach the operation |
| Conformance, release | recorded evidence | run suites | tests | tooling |

Hard behaviours, the source lines where they bite and the properties that guard them are the `hazards`
of `PROJECT.json`. In short: check-then-act on a shared path (`_atomic.py:26`, `package.py:109`,
`manage.py:182`), roll-back by path (`_atomic.py:51`, `manage.py:190`), validate-then-read
(`evaluator.py:789-817`, `validation.py:98-101`, `signing.py:464-469`), several reads of one file taken
for one (`ingest.py:63` and `package.py:119`, `evaluator.py:981`), a crash between two renames
(`manage.py:211`), order in an array whose meaning is a set (`evaluator.py:184`), and child processes at
their deadline (`providers/`, `plugins.py`, `gate/ids.py`).

## The modules and the code

**AtomicCreate.** `createPc[p]` walks one call through `atomic_create_many`: `Resolve` (empty list, distinct
paths), `CheckOutputs` (a path per step), `MakeTemp`/`WriteTemp` per item, `Link` per item, `Rollback` per
published output in reverse, `Cleanup` per temporary (the `finally` clause). `temps` is `staged`,
`published` the length of the list of that name. The bytes of a file are who created it and whether they
were complete when the name appeared. `IOError` is an `OSError` of a call in the `try` block,
`UnlinkError` one in the handlers or in `finally`, `Interrupt` a `KeyboardInterrupt` (no handler sees
it, only `finally`), `Crash` a kill, `OutsideCreate` and `OutsideRemove` other programs. The parameter
`Removable` says whose files outsiders remove: with their own only (`OwnRemovalsOnly`) the promise
holds, with those of an invocation it does not.
A symbolic link at an output path is a file there (`exists() or is_symlink()`); type errors in the
arguments are left out.

**GateWaivers.** One turn of a loop per step: `Control` (`_validate_waiver_control`), `Classify`, and
`Rebuild`. Findings are a function from fingerprints to dispositions because `GateCheckResult` refuses
duplicate fingerprints (`gate/models.py:250`); `updates` is `finding_updates`, `floors` is
`review_floors`. The reference is declarative: what a *set* of waivers means for each finding and each
check, with no order in it.

**GateEvaluation.** The candidate and then the baseline go through the same preflight, `role` says
which: first validation of the caller's path, private copy, validation of the copy, comparison of the
manifests. A directory is read member by member, with `Look` (`is_file`) and `Read` or `Copy` as
separate steps; a ZIP is listed once and re-opened for every member. Any of these system calls may fail, at most
`MaxFaults` times in an evaluation: `FaultCaught` where the code converts the exception (the readers of archives, of
record files and of IDS inputs), `FaultRaised` where nobody does and the evaluation ends `"raised"`
(`read_bytes` at `validation.py:101`, `copyfile` at `package.py:274`, whatever writes or reads back the private copies). A member of the caller's archive may also be
damaged from the start: `zlib` raises what the reader does not catch (`Unzip`, `package.py:257`). A manifest stands for the version
of the package, whose `Inventory` fixes every member's bytes, so that a package holding members of two
versions is invalid exactly as the digests make it. The IDS document and the IFC source are read in two
steps per IDS check (`ReadIds`, `Bind`). `WriteMember`, `ReplaceArchive` and `ChangeInput` are the other
processes: any member rewritten to any version's bytes, half written, or removed; an archive swapped,
torn, or removed; either IDS input replaced or removed. What a check finds in a package is a given
function of its version (`PackageVerdict`, `DiffVerdict`, `IdsVerdict`): the verdict functions
themselves are other modules' business.

**GateValueStates.** The walk of `_selected_values` and the loop that consumes it, with the length of a
pointer computed because the code's outcome depends on it.

**PackageStore.** Every artifact is opened, then filled, in the sorted order of the paths. The four
names stand for the artifacts before the manifest (`context/`, `diagnostics/`, `evidence/`), the
manifest, the embedded source and the records. The source is read at `HashSource`, `Inventory` and when
`"embedded"` is copied. `WriteFails` is an exception anywhere, `Crash` a kill.

**InspectorLifecycle.** A tree is its version, who made it and how its content relates to its marker.
`copytree` and `rmtree` take several steps; each `rename` is atomic. `OnException` and `OnInterrupt` are
the control flow of the two `try` statements: only `finally` sees a `KeyboardInterrupt`. `prior` is what was at
the destination when a call began; the code does not keep it, the properties need it.

**ProviderRunner, OciSession, RemoteSession.** `call` is a runner's profile and what is wrong with the
call; `Admit` is everything `run` tests before it acts. What follows is a step of the instance `Oci` or of
`Remote`, which share `runnerPc` and `outcome` with it. In `OciSession` the parent polls (`Poll`, `Clock`),
gives up (`RemoveContainer`, `Kill`: the two halves of `terminate`) or reads (`CheckTree`,
`ReadResponse`, `CheckHeader`, `Capture` per artifact). The child of the parent is the docker *client*;
the container is the daemon's, so it may appear after the client was started, outlive it, and write
(`Write`) between any two reads. The memory branch of the loop is dead under this profile
(`memory_bytes` is 0); a memory kill is exit status 137 (`"oom"`). `LocalProviderProfile` and the macOS
profile always refuse in preflight. In `RemoteSession` an attempt is `Connect`, `CheckPin`, `Send`,
`ReadAnswer` or `LoseAnswer`; `received` and `executed` are what the other side saw and did, also for
attempts given up. An `Answer` is what the chain of checks in `_https_exchange`, `_strict_json` and
`replay_remote_provider` would make of it. `Interrupt` is a `KeyboardInterrupt`.

**WorkerRequests, WorkerProcess.** `job` is who calls (`"plugin"` or `"ids"`) and what its worker will
do: how many pieces its answer has, whether it hangs, ignores SIGTERM, or may be ended by the system.
The parent sends the request, waits, kills (`Parent`: a plugin's process group at once, an IDS worker
with SIGTERM, two seconds of grace and SIGKILL), reaps and judges the output file (`PluginVerdicts`: an answer that is cut is invalid JSON or, inside a
character, a `UnicodeDecodeError` nobody converts, `plugins.py:118`); the worker computes,
writes piece by piece and exits (`Worker`). `exited` is a zombie: the kill of one that has exited but is
not reaped is the race of `plugins.py:103`.

**Signing.** A job is several signing calls, each appending to the bundle the one before wrote, and then
a verification, basic or with certificate chains. In a call the package is validated (`validated`) and
its statement built (`statement`) by separate reads of a path that others replace. `history` is every
content the path ever had in the call. A key is its secret, so a wrong signature is one made with
another secret or over another statement; validity, revocation and freshness are intervals of a few
instants at which all boundaries coincide somewhere.

**Reading.** `RecordStore.open` validates the package at its path, then reads the manifest and each
record file by path again; `position` is the next file. After the last store is open, `query`
filters, `diff` classifies, `context` selects under two budgets. Sizes are bytes and the token estimate
is the code's.

**RasterIngest.** Pages with their rasters and native text, then the OCR and the vision result, each bound to
the raster of its locator or rejected, then the losses and the sort. Results are what the mappers test of
them: attested, well formed, in order, fitting, identifiers unique.

**DxfRecords, DxfIngest.** `CheckMember` is one turn of the loop of `load_source_bundle`; the visit of
the xrefs keeps its stack; every read of a file sees what is on disk then, and `opened` keeps what was parsed for a
member beside the digest that its manifest claimed. `DxfRecords` is the walk
through block references, a recursive method in the code and a recursive function here, and the records of a document.

**IfcIngest.** One representation per step in the order of the STEP numbers; the notes on an item are
those written last, because representations share items; then the coordinate qualification, the records
and the diagnostics. What `_geometry_2d` returns for an item, drawn, unsupported or failed, and with or without
paths, is `Leaf`, `Curve` and `Text`, per profile version: an indexed curve without `Segments` draws nothing in
IFC4X3, one with a segment of another type has no geometry at all, a text with a bad placement fails.

**ExchangeIngest.** The events of a provider's result are checked in the code's order, for STEP/IGES one
result, for DWG one per member of a bundle. The records observed in the lexical source precede
the derived ones.

**GeometryIngest.** The checks of a profile or of a registry in their order, the qualification that
results (known, conflicted or none), the records, the artifacts and the losses.

**Commands.** `main` before an ingest is `IngestChecks`, the tests of the options and the imports of the libraries
in their order; then
the component the command calls runs as it does alone, with the state of all others untouched; `Exit`
is the exception handlers and the exit code of each command. `main` catches `OSError` and `ValueError` only
(`cli.py:640`): `Escapes` names the components' other exceptions, `Uncaught` those of the options (a
`ProviderExecutionError`, a `DependencyError`, which is a `RuntimeError`, an `ImportError`), and `Abort` is an exception of
a library in the middle of an ingest (a parser's that nobody converts, the export of a mesh). A DWG bundle takes
the replay entries of its members; those of no member (`strays`) are dropped, as `cli.py:536` does.

## Runs

| Run | Configuration | Result |
|---|---|---|
| `programs` | 1,36x,xxx distinct states. `AtomicCreate`: 2 invocations, 2 paths, at most 2 outputs each, outsiders create and remove their own. `PackageStore`: 2 writers, all forms and policies, 1 change of the source. `InspectorLifecycle`: 4 runs in sequence, 2 process ids, 2 versions, 1 fault, any kill or edit. `GateWaivers`: 2 checks, 3 fingerprints, 0 to 2 waivers over 4 targets and 5 intervals | passes |
| `gate_and_provider` | 1,1xx,xxx distinct states. `GateEvaluation`: 10 calls, 2 versions of 2 members, any of them damaged, 2 IDS and 2 IFC files, 2 changes, 1 fault. `ProviderRunner`: 3 profiles, all combinations of defects, 2 artifacts of 2 sizes under 3 bytes and 5 files, 2 attempts | passes |
| `commands` | 379,690 distinct states, 8 families of calls: 0 to 2 pages of up to 2 rasters under every verdict on an OCR and a vision result; every graph of references of 4 drawings at 2 depths, block references 2 deep, files that change; IFC items nested 2 deep in 2 representations, both profile versions; STEP/IGES with up to 2 roots and DWG with bundles, with and without replay entries of no member; every mode, defect and conflict of a coordinate profile or registry; every library missing, every parser raising; up to 3 signatures and keys over 4 contents; queries, diffs and contexts around every budget; all workers with answers of up to 3 pieces for an output limit of 2 | passes |
| `atomic_rollback` | as above, outsiders remove any file | `RollbackOnlyOwn` violated |
| `gate_value_states` | records of two levels, keys of one and of five characters | `EveryStateIsEvaluated` violated |
| `package_source` | 2 writers, as above | `EmbeddedIsRegistered` violated |
| `inspector_install_race` | 2 overlapping installs | `InstallIsCreateOnly` violated |
| `inspector_upgrade` | runs in sequence, 1 fault | `FailureRestoresPrior` violated |
| `provider_timeout` | calls of the runner, as above | `TimeoutEndsContainer` violated |
| `dxf_members` | the DXF calls of `commands` | `BundleMembersAreClaimed` violated |
| `ifc_location` | the IFC calls of `commands` | `LocationsAreComplete` violated |
| `ifc_omission` | the IFC calls of `commands` | `OmissionsAreReported` violated |

A passing property that is weaker than what a document of the repository says has a run beside it whose claim is
that document's line: `UpgradeIsAllOrNothing` has `inspector_upgrade`, the parts of `PackagesAreClosed`,
`DerivedRestsOnEvidence` and `NothingIsSilentlyOmitted` about DXF and IFC have `dxf_members`, `ifc_location` and
`ifc_omission`.

What they show:

- *Publication.* Whoever looks sees complete files; a refused call leaves nothing of its own; and the whole implements `CreateOnly`: no replacement, no removal of anything not
  created, success only with all outputs there, refusal only with none. All of it assumes that outsiders
  remove only their own files: the rollback unlinks by path (`_atomic.py:51`), so when somebody removes the
  output it has linked it may unlink a file somebody else made, which the profile (`quality-gate-v02-profile.md:236`) excludes.
- *Waivers.* `apply_waivers` raises exactly when the set of waivers is malformed or an active one names
  a finding that cannot be waived, otherwise it computes the order-free meaning of the set, and it makes
  no pass out of a finding.
- *Evaluation.* A completed result follows from the identities it reports, whatever was written between
  two reads; a package is reported only if it is the one first validated; nothing asked for is left out;
  "changed" is reported only if something changed, a system call failed, or a directory package holds a symlink; and an
  exception leaves the evaluation only if something changed, a system call failed, or a member of an archive is
  damaged (`NoFalseAlarm`). That exceptions of reads do leave it (`validation.py:101`, `package.py:257`, `274`) is what the
  code does; no property asks otherwise, because no document says what an unreadable member must give.
- *Value states.* Without `field_path` the check does not do what the profile (line 102) says: the
  walk yields strings where the loop unpacks pairs.
- *Packages.* Two writers never mix their files in one package, a ZIP is whole or absent, a directory is
  never replaced, and a success leaves a valid package as long as the source holds still. If it does
  not, a *valid* package may cite one content of the source and embed another (`package_source`). A
  second ZIP writer that passed the existence check may replace the first one's ZIP: both succeed, and
  the properties promise no more. That validation refuses a half-written directory is not stated on its own.
- *Inspector.* In sequence, an installation survives every failure and kill, at the destination or as a
  backup beside it, and edits are preserved. An upgrade that ends with an error leaves the exact prior tree or the
  exact new one, never a partial or a third one (`UpgradeIsAllOrNothing`); the new one when the deletion of the backup is what fails
  (`manage.py:217`). The profile (`inspector-distribution-v03-profile.md:45`) makes no such exception:
  `inspector_upgrade` shows the disagreement. Two overlapping installs can destroy each other's tree (`manage.py:190`).
  Edits are made between runs: one made while `uninstall` deletes is lost by construction of `rmtree`, and versions
  are compared once per run, so that two *overlapping* upgrades may downgrade; neither is excluded by the code.
- *Providers.* A refused call starts nothing. What is accepted is what the response declares, within the
  limits, although a container that outlives its client may write between the reads. A run that ends
  by itself leaves neither a client process nor a workspace; requests go to the pinned peer only, and
  only transient failures are retried, up to the budget. Every run ends, whatever the daemon, the
  container or the provider do. But a timeout does not always end the *container*, as the isolation
  profile (`plugin-isolation-profile.md:30`) says: `docker rm -f` is tried once, before the client is
  killed, and may come too early or fail (`oci.py:181`).
- *Adapters.* What is written holds together: identifiers are unique, every reference and artifact is
  in the package, a bundle is complete (`PackagesAreClosed`); inferences, translations, calibrations and
  locations rest on what was observed or declared in the same source, and rejected results and undeclared
  or contradictory coordinates are declared (`DerivedRestsOnEvidence`); geometry that is not drawn is
  declared (`NothingIsSilentlyOmitted`). Three of these are conditional, and each condition is one the profiles do not
  make:
  - a member of a DXF bundle is recorded under the digest of what was read *if no file changed during the call*;
    otherwise the digest of the manifest is claimed for other content (`dxf_members`: `source_bundle.py:152`,
    `dxf.py:548`, `dxf.py:1131`);
  - a known IFC location has a complete chain of links *if the file has a world coordinate system*; if not, its first
    link is unknown and the reader refuses the package (`ifc_location`: `ifc.py:139`, `286`, `records.py:121`);
  - what is not drawn is reported *unless it is below a curve set or a mapping, or an indexed curve of IFC4X3 without
    `Segments`* (`ifc_omission`: `ifc.py:518`, `647`, `663`).
- *Signatures.* A verdict is about a manifest that was at the path during the call, and about the validated one
  unless the package was replaced meanwhile; it counts exactly the keys that signed that manifest and were valid,
  not revoked and in scope then, each once; a further signature never undoes it.
- *Views.* Undisturbed, a context keeps both budgets, a diff classifies exactly and a query divides the
  records; disturbed, an answer is of packages that were there.
- *Workers.* A result is the whole answer of a worker that ended before its deadline; nothing runs on
  when a call returns; and every call returns, whether the worker hangs, ignores SIGTERM or is killed.
- *Exit codes.* An ingest exits with 0 exactly when a package was written and something of every option went
  into it; of the replay entries of a DWG bundle only those of its members do, the others are dropped without a word. A
  verification exits with 0 only with as many signers as the policy asks; a diff only if both packages
  assert the same. An exception leaves `main` for a replay corpus that does not load, a missing library, a parser that
  raises what nobody converts, a mesh whose export the library refuses, a package that does not validate (in a diff) or
  is taken away while it is read, and for a vision result that is rejected or empty; that last one is against
  `inference-v02-profile.md:62` (observation 1).

### Observations

Behaviour of the code that the models contain as it is, met while modelling, for its maintainers. The
disagreements that a run of their own shows (the nine violations above) are the `findings` of `PROJECT.json`.

1. A vision result that is rejected, or accepted without candidates, leaves a diagnostic without the key
   the final sort uses; `ingest_pdf` and `ingest_image` end in a `KeyError` that `main` does not catch
   (`vision.py:86`, `adapters/pdf.py:399`, `adapters/image.py:280`; `inference-v02-profile.md:62` wants a
   diagnostic).
2. An arc of IFC4 that cannot be evaluated gives `EXTRACTION_FAILED` where `ifc-v02-profile.md:37` speaks of
   `ITEM_UNSUPPORTED`.
3. The depth limit of DXF xrefs is tested after the child has been read.
4. Bundle members of equal content share a diagnostic identifier in DXF (`adapters/dxf.py:1186`) and a source
   record in DWG (`adapters/dwg.py:269`).
5. If the first STEP root fails, the primitive refers to a representation that is not in the package
   (`adapters/step_iges.py:194`); the provider's result is never compared with the source's bytes.
6. IFC assertion keys are joined by `:`, which the parts may contain (`adapters/ifc.py:1259`).
7. A statement is built from a second read of the package (`signing.py:468`), so what is signed or verified
   may be a manifest that was at the path but never validated.
8. An empty selection may exceed a context's budget; a printed estimate may be two tokens above the real one, a
   seven-digit one longer than its placeholder; a chunk with its header may exceed the chunk budget.
9. `validation.py:130` splits record lines with `splitlines`, which also splits at U+0085, U+2028 and U+2029.
10. Single-file adapters hash, parse and copy their source by three reads of its path.
11. A plugin's exit status is not looked at when its output parses; output that is cut inside a character ends the
    caller with a `UnicodeDecodeError` (`plugins.py:118`).
12. `--adapter auto` takes every bundle directory for DXF.
13. `diff` of an invalid package exits with 1, the code for a semantic change (`cli.py:679`);
    `PackageReadError` (a package taken away between validation and reading) and the
    `ProviderExecutionError` of a broken corpus escape `main`.
14. In a query, `true` and `1` are equal (`query.py:67`).
15. DWG provider entries that match no member of the bundle are ignored (`cli.py:536`), and the exit code is 0. A
    DWG bundle records the digest of its manifest (`adapters/dwg.py:294`) and embeds what is at the path by then (`324`);
    that its files change is modelled for DXF only.
16. The GLB of a mesh is exported from untransformed meshes, bounds and preview from the transformed
    scene (`adapters/geometry.py:282`, `290`, `305`).
17. `diff` does not distinguish an explicit null from a missing key (`diff.py:75`).
18. The `DependencyError` of an adapter whose library is not installed is a `RuntimeError` and passes
    `except (OSError, ValueError)` (`cli.py:640`). Without numpy and trimesh, `--adapter auto` ends every ingest in an
    `ImportError`, whatever the file, because all probes are imported.
19. A damaged member of a ZIP package gives `zlib.error` or `EOFError`, and a read that the system refuses an `OSError`
    (`package.py:257`, `274`, `validation.py:101`); the evaluation of a gate ends in a traceback where
    `quality-gate-v02-profile.md:36` lists error codes.

### Bounds, and why they suffice

Two invocations and two outputs are the smallest instance in which each wins one path and loses the
other, so that both roll back; the theorems cover every other size. Two waivers meet in every pair of
defect, activity and target; three targets of declared checks and one of an undeclared one cover every
branch. Two package versions that share one member allow mixtures the manifest does and does not reveal;
two changes allow a swap and a swap back (ABA), one of each role, or one of each IDS input. Four manager
runs allow install, killed upgrade, another install into the gap and a run whose process id comes back.
Two artifacts reach each limit both exactly and by one: of files (two, beside the two logs and the
response, are five) and of bytes, where the tree (with the response) and the artifacts (without) differ.
Two attempts are one retry and the exhaustion; the policy allows three at most.
In `commands` two levels of nesting (block references, IFC items, xrefs) are one inside and one
beyond the limit of two; two members, rasters, roots or words are the least number that can share an
identifier, a digest or a reference, three signatures and keys the least with a duplicate and another.
Answers of one to three pieces lie below, at and above the output limit. The budgets of a context are
chosen around the sizes of its sections, one token to each side.
`MaxChanges`, `MaxEdits`, `MaxCalls`, `MaxFaults`, `MaxVersion`, `MaxOutputs` and `MaxWaivers` are the bounds
and each is named in its module; `MaxInsertDepth`, `MaxReferenceDepth`, `MaxMembers`, `MaxSignatures`,
`MaxKeys`, `MaxLength` and `MaxOutput` are the program's limits, smaller, the calls of a family bound
everything else; `MaxBytes`, `MaxFiles` and `MaxAttempts` are the program's own limits. Deadlock checking is off where calls end: `done` and `crashed`
processes have no further step.

### Fairness

The evaluation of a gate (`EvaluationFairSpec`) assumes weak fairness of the process's own steps
only: the operating system schedules a runnable process, none of the modelled loops waits for another
process or retries, and system calls return. Faults, kills and other programs have no fairness: they
need never happen. A call of a provider (`RunnerFairSpec`) adds weak fairness of the passing of time while the parent
polls; nothing is assumed of docker, the container, the network or the provider, because the code bounds
each of its waits (`subprocess.run(timeout=5)`, socket timeouts, `SIGKILL` before `wait`). `Commands` assumes weak fairness of a
worker's parent, whose waits all have a timer, and of the death of a process that was sent SIGKILL
(`Killed`); of a worker nothing is assumed. The remaining specifications have no liveness property and
no fairness.

## Proofs

`AtomicCreateProofs` proves, for every set of invocations and paths and every number of outputs, under
`PartiesAssumption` only:

- `Invariant`: `Spec => []Inv`. `CompleteOutputs` and `RefusalLeavesNothing` are not inductive: that a
  file is complete depends on `Link` linking a temporary that `WriteTemp` has filled, and that a refusal
  is clean depends on the rollback finding exactly the linked prefix. `Inv` therefore says of every
  program point how long `staged` and `published` are and which temporaries are full (`Locals`), and
  that the files of an invocation lie at the first `published` requested paths (`Owned`). Distinctness
  of the requested paths, established by `Resolve`, is part of it: without it, rolling back one output
  would remove another's entry. One lemma per action, each with one step per conjunct.
- `TypeCorrect`, `NeverTorn`, `RefusalIsClean`: consequences of `Inv`.
- `RollbackIsOwn`: if outsiders remove only their own files, the rollback touches only its own. The run
  `atomic_rollback` shows that the hypothesis is needed.
- `Implements`: under the same hypothesis, every step maps to a step of `CreateOnly` or to a stutter
  (`RefinesNext`), by cases on the actions with the refinement mapping `StoreView`, `WantView`,
  `VerdictView`.

`GateWaiversProofs` proves, for every set of checks, fingerprints, targets and intervals and for arrays
of every length, under `WaiverAssumption` only:

- `Invariant`: `Spec => []Inv`. The properties speak of the end; `Inv` says how far each loop has come.
  In the first loop the waivers before `i` are well formed (`WellFormed(i - 1)`); in the second, `updates`
  and `floors` are exactly what the waivers before `i` call for (`Accumulated`, in terms of the
  declarative `Turned` and `Stale`); in the third, every check is untouched or has its reference result.
  `OneMore` is the step of the second loop, `RebuildIsReference` that of the third: flooring a recomputed
  status is the same as taking the highest of all (`HighestNested`, from the rank order alone).
- `OrderIndependent`, `RaisesExactly`, `NeverCreatesAPass`, `TypeCorrect`: consequences of `Inv`.

`PackageStoreProofs`, for any writers, contents of the source and number of changes, under `StoreAssumption`:

- `Invariant` describes a package by its `Writer`: `Progress(p)` says that the package of a writer at
  turn `i` holds exactly the first `i - 1` artifacts of its sorted list with its own content,
  possibly a torn one; `Alone` that one writer at a time fills a directory at the output path (`mkdir`
  succeeds once), `Authored` that every complete file there but the embedded source is one writer's, `Outcomes` that a success
  was followed by somebody's finished package. `SuccessMeansValid` alone is not inductive: it needs to
  know that a replaced ZIP was replaced by a whole one.
- `SingleAuthor`, `ZipsAreWhole`, `SuccessIsValid`, `DirectoriesGrow`, `TypeCorrect` follow.

`GateEvaluationProofs`, for any versions, members, inputs, policies, verdicts and changes, under
`EvaluationAssumption`:

- `Invariant`: an accepted snapshot is valid and has the manifest that was validated first (`Snapshots`),
  and each program point says which packages have been accepted (`Phases`); a check concluded so far
  says what it says of those and, if about IDS, of the pair that was bound first (`Checking`); an ended
  evaluation reports them (`Ending`); and as long as nothing has changed and no call has failed, the caller's paths
  hold whole packages, damaged archives or none, and what was copied is what is there (`Calm`).
- `ResultIsFunctionOfIdentities`, `ReportsWhatWasValidated`, `NothingSkipped`, `AlarmsAreTrue`,
  `TypeCorrect` follow; the first also from the lemmas about the lattice of `GateOutcome` at its beginning.

`InspectorLifecycleProofs`, for any runs, versions, faults, kills and edits:

- `TypeCorrect` without a hypothesis. `Invariant` under `~Concurrent`: overlapping runs do destroy each
  other's trees (the run `inspector_install_race`). `AtPlace(p)` says for each program point what
  is at the destination, staged and in the backup; all runs but one are idle (`OthersIdle`).
- `SomeInstallationSurvives`, `EditsSurvive`, `BackupsAreOlder` follow; `FailedUpgradeIsAtomic` (an upgrade that fails leaves
  exactly the prior tree or exactly the new one) needs
  `MaxFaults <= 1` as well: a second failing call can stop the rollback itself.

`ProviderRunnerProofs`, for any calls, limits, artifacts and attempts, under `ProviderAssumption`:

- `Invariant`: the session of the profile that was called is where its program point says, the other is
  still in its initial state. `OciInv` says what has been read and is still to be read of the
  response; `RemoteInv` that the failures so far are retryable and that requests went to the pinned peer.
- `NothingStarts`, `AcceptedAsDeclared`, `CleanEnd`, `SpendAuthorised`, `RetriesTransient`, `TypeCorrect`
  follow.

`ReadingProofs` and `CommandsProofs` are about `Commands`, whose specification is all commands of the
program. A step of it is a step of the component that the command calls, or leaves the component where it is
(`StepIsOfComponent`), so that an invariant of a component, guarded by its command, is one of the program.
Each of the invariants below was checked by TLC on the run `commands` before it was proved.

`ReadingProofs`, for any packages, replacements, budgets and queries, under `ReadingAssumption`:

- `ReadingInvariant`: how many packages were validated and opened at each program point (`OpenedSoFar`); that
  what is being opened was valid when it was alone at its path (`BeingOpened`); that a store that was opened
  without a replacement is the whole package, file by file (`WholeStores`); and what each way to end means
  (`Ends`). That a store is whole is not inductive without the part that has been read so far (`PartOf`).
- `Projections` (`ProjectionsAreExact`): a context fits its budgets because the greedy selection takes a record
  only when the placeholder estimate fits (`SelectedIs`), and the estimate that is printed is at most two tokens
  off (`PrintedIs`); a diff and the diff of the two packages in the other order say the same (`DiffSwaps`); a
  query and its negation divide the records (`QueryIs`).
- What these rest on is stated as lemmas: sums and chunks of sizes of every length (`SumIs`, `ChunksAre`), and that
  a recursive function over `0..n` exists (`Recursion`), both from the well-foundedness of the naturals, because
  induction over data is not available as a rule.

`ReadingProofs` also holds what the theorems of `CommandsProofs` about the adapters share. Lists that are
filtered, enumerated, joined or sorted have the items they should, each as often as it should be
(`FilteredIs`, `ForEachIs`, `ConcatIs`, `AscendingIs`), and a list of records with distinct identifiers stays one
(`DistinctJoined`). For the rasters and for IFC it says what has been written so far (`RasterBuilt`, `IfcBuilt`) and
that it is closed (`RasterClosed`, `IfcClosed`); for a bundle of DXF files it says how the visit of its documents keeps
`DxfInv` and `DxfBuilt` (below).

`CommandsProofs`, for any jobs, command lines and limits:

- `WorkerInvariant` relates where the parent is to what the worker can still do; `WorkersAccounted`
  (`WorkersAreAccountedFor`) follows. Under `BoundAssumption` and `JobAssumption`.
- `SigningInvariant`: in a call the bundle was found readable (`InOrder`), the package that was validated
  (`Examined`) and the manifest that is signed or verified (`Stated`) were at the path since the call began,
  and a verdict is the one of these (`Judged`). `SignaturesAreCounted` (`SignaturesCount`): a verdict is about
  this package and counts only those who could sign it then; that a further signature undoes none is
  `SatisfiedStays`, by an injection of what counted into what counts. Under `SigningAssumption`: limits are positive
  (`SigningLimits.__post_init__`, `signing.py:71`), key registries name each key once (`trust/__init__.py:40`).
- `IngestInvariant`: what main has tested (`MainInv`) and where each adapter is. For a bundle of DXF
  files, as long as no file changes, the documents being visited are a path of xrefs from the root (`Chained`), and an
  xref of a document that was taken up is visited or pending in a frame of it (`Followed`). The first
  gives the path that a cycle or the depth is refused for; the second makes what was visited at the end closed
  under xrefs, so that what was not is not reachable. Neither `XREF_UNREACHABLE` nor `XREF_CYCLE` can be
  justified from the property alone, which speaks only of the end. Under `DxfAssumption` and `MeshAssumption`.
- `ExitCodes` (`ExitTellsTheOutcome`): from these, `SigningInvariant`, `ReadingInvariant` and `CallsAssumption`,
  which says that the job a component gets is the one that the options describe: its version, its form, and of the
  replay entries those that have an input (`Unmatched` names the ones that have none, which are dropped). The causes for
  which an exception leaves `main` are those listed above; `Abort` and the checks of the imports are steps of `main`
  like any other.
- `BuiltInvariant` says *what* an adapter has made so far, where `IngestInvariant` says how far it is: at each point
  the records, diagnostics and artifacts are the adapter's functions of the call and of its accepted results
  (`RasterBuilt`, `IfcBuilt`, `ExchangeBuilt`, `MeshBuilt`). `DerivedRests` (`DerivedRestsOnEvidence`) follows from what
  these functions return. The baseline of a raster ingest has only observed records and what OCR and vision add
  has none (`InferenceAdds`), so that filtering gives the baseline back; an inferred record cites the one raster
  whose pixels were given to its provider, or a record before it that was read from there, because a result that is
  not about exactly one raster is not accepted (`LocatedIs`). A translation of a DWG object is grounded in the one
  object with its handle unless the handle is in conflict, and the conflicts are what the provider reports because
  the evidence is refused otherwise (`TranslationsGrounded`). A calibration is manual only with its profile and
  derived only without a conflict (`CalibrationRests`), and every unknown unit, frame or place has its diagnostic
  (`CoordinatesDeclared`, `LocationDeclared`). Under `RasterAssumption`, `IfcAssumption`, `ExchangeAssumption` and
  `MeshAssumption`.
- `PackagesClosed` (`PackagesAreClosed`): the identifiers of a package are distinct, and what a record, a diagnostic or
  a file of it names is in it. The lists of an adapter are joined from parts; each part has its own kinds of
  identifiers (the prefix of `_stable_id`), so it is enough that a part is distinct in itself (`DistinctJoined`,
  `KindsJoined`, `NamingJoined`), which the adapters owe to different sources of distinctness: numbers of IFC
  instances, names of meshes, labels of STEP, places in a DXF file, digests of members. Where two parts share a kind,
  the keys differ: a member of a DWG bundle has the digest of its content, which the evidence must not repeat
  (`DwgMembers`); a primitive of a DXF member has the path of the member, which a manifest names once (`MemberIs`).
- `DxfVisited` is what the DXF half of it rests on, the second invariant of the visit (`DxfBuilt`): each member was
  admitted once and each document taken up once, after one that names it; the open documents are a chain
  on the stack; and a document that was left leads only to documents that were left, without a cycle. Hence in an
  accepted bundle every member is a document (and, by `DxfRead`, what was parsed for a member is what its
  manifest claims as long as no file changed), the xrefs between them are acyclic, and nothing was dropped
  (`AcceptedClosed`), for bundles of every size and depth. That the walk of the block references ends and finds only
  faces and INSERTs of its own document (`WalkedIs`) is by induction on the levels that are left: cyclic blocks, and
  blocks nested deeper than the limit, included.

The assumptions on jobs say what a caller's data are after parsing: a manifest names paths of the bundle, a profile
has one of the modes of its schema (`mesh_coordinates.py:97`), a package's record identifiers are unique when it is
valid (`validation.py:168`), an OCR result has one of two schemas (`inference.py:74`), a bundle of drawings has a root
(`source_bundle.py:157`), IFC instances have numbers, the meshes of a scene have names, and the worker of STEP and IGES
lists every label once and numbers the roots (`providers/step-iges-ocp/worker.py:541`, `736`). A manifest
names each path once (`source_bundle.py:127`) and gives each entry a role, and the INSERTs of a document name blocks of
it: ezdxf's audit removes the others from the root (`adapters/dxf.py:514`), and in a member, whose INSERTs are not
followed, such an INSERT is one more child without a face. TLC evaluates these assumptions on the jobs of the run.

`Lists` stands where the community module of sequences would: seven instances of that module in one specification
make every proof obligation many times as large, and recursive operators cannot be reasoned about; its definitions are
functions, and `ForEach` takes a function and `Filtered` a set where an operator would be an argument no lemma can
range over. For the same reason `WalkInsert` is a function of the levels that are left.

Only model-checked: `NothingIsSilentlyOmitted` of `Commands`, which compares what the walk over repeated references collects with
what it should, an induction over the paths of blocks and of IFC assemblies; and
liveness (`EvaluationEnds`, `RunEnds`, `CallsReturn`), which needs fairness and `ENABLED`;
`GateValueStates`, whose walk is a recursive operator.

## Not modelled

- *Numbers and text.* Coordinates, transformations, tessellation, least squares and token wording are
  given data: their results appear as what later code tests of them (`geometry.py`, most of
  `mesh_coordinates.py` and `crs.py`, the numeric parts of `adapters/ifc.py` and `adapters/dxf.py`).
- *Formats.* JSON schemas, canonical encodings, X.509, OCSP, CRL and TSP structures, DXF and STEP syntax,
  and third-party parsers. Digests and signatures have no collisions.
- *Provider definitions and their workers* (`providers/dwg.py` and the like, `providers/*/worker.py`,
  `reference_provider_worker.py`): scripts for one external tool each, whose results are parameters
  of `ExchangeIngest` and `RasterIngest` in all shapes the checks distinguish.
- *Gate policy, models and projections* (`gate/policy.py`, `gate/models.py`, `gate/projection.py`): pure
  conversions. `gate/diff_checks.py` and the capability, loss and diagnostic checks compare counts with a
  bound; `GateEvaluation` has them as given functions of a version.
- *IDS semantics* belongs to IfcTester, an external library.
- *MCP server and listings of the CLI* dispatch to modelled operations.
- *Conformance and release tooling* is about recorded evidence, not about the program's behaviour.
- *Resource limits of processes* other than time, output and files are decisions of the kernel: a worker
  or container may be ended at any step.

Limits of the models: a writer that replaces a package does so between two modelled reads, never inside
one; the single-file adapters read a source that holds still (observation 10 says what happens
otherwise); a timeout of a socket bounds each `recv` and not the exchange, so that a peer that answers byte by byte
keeps a remote call longer than its limit, which `RunEnds` does not see: an answer is one step; the certificates of
time stamp authorities and countersigners are accepted or not, their own validity and revocation over time is not
modelled; `Commands` runs one command at a time, the concurrency being that of each component with
its environment.

## How the parts depend on each other

1. `AtomicCreate` with `CreateOnly`: everything the program publishes in one file goes through it.
2. `PackageStore`: where packages come from; the adapters say what is put in.
3. `GateOutcome`, `GateWaivers`, `GateEvaluation`, `GateValueStates`: the gate is the program's verdict.
4. `ProviderRunner` and `WorkerProcess`: whatever runs outside the process.
5. `Signing` and `Reading`: what is said about a package later.
6. `InspectorLifecycle`: the one component that replaces and deletes.
7. `Commands`: how a user reaches all of them.

Worth doing next: a proof that what is not drawn is declared; an abstract reader that `Reading` and
`GateEvaluation` both implement; concurrent ingests through `Commands` over `PackageStore`.
