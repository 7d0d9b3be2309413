---------------------------- MODULE PackageStore ----------------------------
(***************************************************************************)
(* Writing a package: ingest_opaque of src/aecctx/ingest.py and            *)
(* PackageWriter.write of src/aecctx/package.py, run by several processes  *)
(* with one output path and one source file, which may change meanwhile.   *)
(*                                                                         *)
(* The source is read up to three times: ingest_opaque hashes it for the   *)
(* source record, the writer hashes it for the manifest's inventory and    *)
(* copies it into the package.  A directory package grows file by file at  *)
(* the output path; a ZIP is written to a temporary file that replaces the *)
(* output path.                                                            *)
(*                                                                         *)
(* A digest is the bytes it is the digest of; the bytes of an artifact     *)
(* made by ingest_opaque are the invocation that made it (its timestamps   *)
(* and package id are in all of them) and the digest it registered.        *)
(***************************************************************************)
EXTENDS Naturals, Sequences, SequencesExt

CONSTANTS
  Writers,    \* invocations
  Sources,    \* contents the source file may have
  NoOutput,   \* nothing at the output path
  Torn,       \* a file opened for writing and not completely written
  None,
  MaxEdits    \* bound: how often the source file is changed

\* The artifacts in the order they are written: sorted by logical path, so the
\* manifest precedes the source's records.  "evidence" stands for context/,
\* diagnostics/ and evidence/, "records" for sources/sources.jsonl.
Order(embedding) ==
  IF embedding = "embedded" THEN <<"evidence", "manifest.json", "embedded", "records">>
                            ELSE <<"evidence", "manifest.json", "records">>
Artifacts == {"evidence", "manifest.json", "embedded", "records"}
Forms == {"directory", "zip"}

\* What an artifact's file may hold: the start of a write, source bytes, records
\* or a manifest.
Contents == {Torn} \cup [bytes : Sources] \cup [by : Writers, cites : Sources \cup {None}]
              \cup [by : Writers, lists : SUBSET Artifacts, digest : Sources \cup {None}]
Packages(S) == [form : Forms, files : [S -> Contents]]

ASSUME StoreAssumption ==
  /\ MaxEdits \in Nat
  /\ None \notin Sources
  /\ \A S \in SUBSET Artifacts : NoOutput \notin Packages(S)
  /\ Torn \notin [bytes : Sources] \cup [by : Writers, cites : Sources \cup {None}]
                   \cup [by : Writers, lists : SUBSET Artifacts, digest : Sources \cup {None}]

VARIABLES
  source,     \* the content of the source file now
  edits,      \* how often it was changed
  out,        \* the output path: NoOutput or [form, files]
  form,       \* form[p]: package_form
  embedding,  \* embedding[p]: embedding_policy, "redacted" being like "external"
  storePc,
  registered, \* registered[p]: source_digest of ingest_opaque
  inventory,  \* inventory[p]: digest of the embedded source in the manifest
  temp,       \* temp[p]: the temporary archive, or NoOutput
  position,   \* position[p]: index of the artifact being written
  stored      \* stored[p]: "none", "ok", "exists", "failed"

storeVars == <<source, edits, out, form, embedding, storePc, registered, inventory, temp, position, stored>>
chosen == <<form, embedding>>
locals == <<registered, inventory, temp, position>>

StoreInit ==
  /\ source \in Sources
  /\ edits = 0
  /\ out = NoOutput
  /\ form \in [Writers -> Forms]
  /\ embedding \in [Writers -> {"external", "embedded"}]
  /\ storePc = [p \in Writers |-> "idle"]
  /\ registered = [p \in Writers |-> None]
  /\ inventory = [p \in Writers |-> None]
  /\ temp = [p \in Writers |-> NoOutput]
  /\ position = [p \in Writers |-> 1]
  /\ stored = [p \in Writers |-> "none"]

GotoStage(p, l) == storePc' = [storePc EXCEPT ![p] = l]
End(p, o) == /\ GotoStage(p, "done")
             /\ stored' = [stored EXCEPT ![p] = o]

-----------------------------------------------------------------------------
(* One invocation.                                                         *)

\* ingest_opaque and later PackageWriter.write refuse an existing output.
CheckExists(p) ==
  /\ storePc[p] \in {"idle", "hashed"}
  /\ IF out # NoOutput THEN End(p, "exists")
     ELSE GotoStage(p, IF storePc[p] = "idle" THEN "hash" ELSE "inventory") /\ UNCHANGED stored
  /\ UNCHANGED <<source, edits, out, chosen, locals>>

\* hash_file(source) for the source record and every identifier.
HashSource(p) ==
  /\ storePc[p] = "hash"
  /\ registered' = [registered EXCEPT ![p] = source]
  /\ GotoStage(p, "hashed")
  /\ UNCHANGED <<source, edits, out, chosen, inventory, temp, position, stored>>

\* The writer's loop over the artifacts hashes the source file again.
Inventory(p) ==
  /\ storePc[p] = "inventory"
  /\ inventory' = [inventory EXCEPT ![p] = IF embedding[p] = "embedded" THEN source ELSE None]
  /\ GotoStage(p, "create")
  /\ UNCHANGED <<source, edits, out, chosen, registered, temp, position, stored>>

Empty(f) == [form |-> f, files |-> [n \in {} |-> Torn]]

\* Mutant: output.mkdir(exist_ok=True).
MakeDirectoryExisting(p) ==
  /\ storePc[p] = "create"
  /\ form[p] = "directory"
  /\ out' = IF out = NoOutput THEN Empty("directory") ELSE out
  /\ GotoStage(p, "open")
  /\ UNCHANGED <<source, edits, chosen, locals, stored>>

\* output.mkdir() fails on anything that exists by now.
MakeDirectory(p) ==
  /\ storePc[p] = "create"
  /\ form[p] = "directory"
  /\ IF out # NoOutput THEN End(p, "exists") /\ UNCHANGED out
     ELSE /\ out' = Empty("directory")
          /\ GotoStage(p, "open")
          /\ UNCHANGED stored
  /\ UNCHANGED <<source, edits, chosen, locals>>

\* Mutant: every form is staged in a temporary, which nothing publishes.
MakeTempAlways(p) ==
  /\ storePc[p] = "create"
  /\ temp' = [temp EXCEPT ![p] = Empty("zip")]
  /\ GotoStage(p, "open")
  /\ UNCHANGED <<source, edits, out, chosen, registered, inventory, position, stored>>

\* NamedTemporaryFile beside the output path.
MakeTempArchive(p) ==
  /\ storePc[p] = "create"
  /\ form[p] = "zip"
  /\ temp' = [temp EXCEPT ![p] = Empty("zip")]
  /\ GotoStage(p, "open")
  /\ UNCHANGED <<source, edits, out, chosen, registered, inventory, position, stored>>

Artifact(p) == Order(embedding[p])[position[p]]

\* What the artifact being written should contain, and, for the embedded
\* source, what the source file contains now.
Content(p) ==
  CASE Artifact(p) = "embedded" -> [bytes |-> source]
    [] Artifact(p) = "manifest.json" -> [by |-> p, lists |-> ToSet(Order(embedding[p])) \ {"manifest.json"},
                                         digest |-> inventory[p]]
    [] OTHER -> [by |-> p, cites |-> registered[p]]

With(package, name, c) ==
  [package EXCEPT !.files = [n \in DOMAIN @ \cup {name} |-> IF n = name THEN c ELSE @[n]]]

Put(p, c) ==
  IF form[p] = "directory"
    THEN out' = With(out, Artifact(p), c) /\ UNCHANGED temp
    ELSE temp' = [temp EXCEPT ![p] = With(@, Artifact(p), c)] /\ UNCHANGED out

\* target.open("wb"): the file is there, and empty.
OpenArtifact(p) ==
  /\ storePc[p] = "open"
  /\ Put(p, Torn)
  /\ GotoStage(p, "copy")
  /\ UNCHANGED <<source, edits, chosen, registered, inventory, position, stored>>

AtLast(p) == position[p] = Len(Order(embedding[p]))

\* _copy_content, then the next artifact, the publication, or the end.
CopyArtifact(p) ==
  /\ storePc[p] = "copy"
  /\ Put(p, Content(p))
  /\ IF ~AtLast(p) THEN position' = [position EXCEPT ![p] = @ + 1] /\ GotoStage(p, "open") /\ UNCHANGED stored
     ELSE /\ UNCHANGED position
          /\ IF form[p] = "zip" THEN GotoStage(p, "publish") /\ UNCHANGED stored ELSE End(p, "ok")
  /\ UNCHANGED <<source, edits, chosen, registered, inventory>>

\* Mutant: an existing package directory is removed to make room for the ZIP.
PublishReplacing(p) ==
  /\ storePc[p] = "publish"
  /\ End(p, "ok")
  /\ out' = temp[p]
  /\ temp' = [temp EXCEPT ![p] = NoOutput]
  /\ UNCHANGED <<source, edits, chosen, registered, inventory, position>>

\* temporary_path.replace(output) overwrites a file and fails on a directory;
\* the finally clause unlinks what is left of the temporary.
Publish(p) ==
  /\ storePc[p] = "publish"
  /\ IF out # NoOutput /\ out.form = "directory"
       THEN End(p, "failed") /\ UNCHANGED out
       ELSE End(p, "ok") /\ out' = temp[p]
  /\ temp' = [temp EXCEPT ![p] = NoOutput]
  /\ UNCHANGED <<source, edits, chosen, registered, inventory, position>>

Step(p) ==
  \/ CheckExists(p) \/ HashSource(p) \/ Inventory(p) \/ MakeDirectory(p) \/ MakeTempArchive(p)
  \/ OpenArtifact(p) \/ CopyArtifact(p) \/ Publish(p)

Writing(p) == storePc[p] \notin {"idle", "done", "crashed"}

\* Mutant: a failing writer publishes what it has.
WriteFailsPublishing(p) ==
  /\ Writing(p)
  /\ End(p, "failed")
  /\ out' = IF form[p] = "zip" /\ out = NoOutput THEN temp[p] ELSE out
  /\ temp' = [temp EXCEPT ![p] = NoOutput]
  /\ UNCHANGED <<source, edits, chosen, registered, inventory, position>>

\* An exception anywhere (a full disk, a vanished source, Ctrl-C): a directory
\* stays as it is, the temporary archive is unlinked.
WriteFails(p) ==
  /\ Writing(p)
  /\ End(p, "failed")
  /\ temp' = [temp EXCEPT ![p] = NoOutput]
  /\ UNCHANGED <<source, edits, out, chosen, registered, inventory, position>>

\* The process is killed: temporaries stay too.
CrashWriter(p) ==
  /\ Writing(p)
  /\ GotoStage(p, "crashed")
  /\ UNCHANGED <<source, edits, out, chosen, locals, stored>>

\* Somebody edits the source file.
ChangeSource ==
  /\ edits < MaxEdits
  /\ edits' = edits + 1
  /\ \E s \in Sources \ {source} : source' = s
  /\ UNCHANGED <<out, chosen, storePc, locals, stored>>

StoreNext == (\E p \in Writers : Step(p) \/ WriteFails(p) \/ CrashWriter(p)) \/ ChangeSource

StoreSpec == StoreInit /\ [][StoreNext]_storeVars

-----------------------------------------------------------------------------
(* Properties.                                                             *)

IsPackage(x) == DOMAIN x.files \in SUBSET Artifacts /\ x \in Packages(DOMAIN x.files)

\* The types of the output path and of every invocation's locals
\* (PackageWriter.write and ingest_opaque).
StoreTypeOK ==
  /\ out # NoOutput => IsPackage(out)
  /\ \A p \in Writers : temp[p] # NoOutput => IsPackage(temp[p]) /\ temp[p].form = "zip" /\ form[p] = "zip"
  /\ registered \in [Writers -> Sources \cup {None}]
  /\ inventory \in [Writers -> Sources \cup {None}]
  /\ \A p \in Writers : position[p] \in DOMAIN Order(embedding[p])
  /\ stored \in [Writers -> {"none", "ok", "exists", "failed"}]

File(package, n) == package.files[n]
Whole(package) == \A n \in DOMAIN package.files : package.files[n] # Torn

\* validate_package: the manifest is there and every artifact it lists has the
\* bytes it had when it was hashed.
Valid(package) ==
  /\ package # NoOutput
  /\ "manifest.json" \in DOMAIN package.files
  /\ LET m == File(package, "manifest.json") IN
     /\ m # Torn
     /\ m.lists \subseteq DOMAIN package.files
     /\ \A n \in m.lists : /\ File(package, n) # Torn
                           /\ IF n = "embedded" THEN File(package, n).bytes = m.digest
                                                ELSE File(package, n).by = m.by

Authors(package) ==
  {File(package, n).by : n \in {n \in DOMAIN package.files \ {"embedded"} : File(package, n) # Torn}}

\* However two writers, failures and crashes interleave, no package at the
\* output path has files of two invocations (mkdir and replace are exclusive).
OneAuthor == out # NoOutput => \A p, q \in Authors(out) : p = q

\* A ZIP is seen complete or not at all, whatever fails while it is written.
ZipIsWhole ==
  out # NoOutput /\ out.form = "zip" =>
    /\ Whole(out)
    /\ "manifest.json" \in DOMAIN out.files
    /\ File(out, "manifest.json").lists \subseteq DOMAIN out.files

\* If the source file holds still, a success leaves a valid package at the
\* output path, its source record citing the embedded bytes: a refused, failing
\* or dying competitor cannot spoil it.
SuccessMeansValid ==
  edits = 0 /\ (\E p \in Writers : stored[p] = "ok") =>
    /\ Valid(out)
    /\ "embedded" \in DOMAIN out.files => File(out, "embedded").bytes = File(out, "records").cites

\* A directory at the output path, finished, abandoned by a failed or killed
\* writer, or being written, is never replaced, and a file written in it never
\* changes: later invocations neither repair nor damage it, ZIP writers included.
DirectoryOnlyGrows ==
  [][out # NoOutput /\ out.form = "directory" =>
       /\ out' # NoOutput /\ out'.form = "directory"
       /\ DOMAIN out.files \subseteq DOMAIN out'.files
       /\ \A n \in DOMAIN out.files : out.files[n] # Torn => out'.files[n] = out.files[n]]_storeVars

\* "Every policy remains recorded with the exact source hash, and embedded
\* content is inventoried as authoritative source evidence"
\* (docs/decisions/decision-log.md:62): the source record of a valid package cites
\* the embedded bytes.  ingest_opaque and PackageWriter.write hash the file twice.
EmbeddedIsRegistered ==
  Valid(out) /\ "embedded" \in DOMAIN out.files =>
    File(out, "embedded").bytes = File(out, "records").cites
=============================================================================
