------------------------------ MODULE OciSession ------------------------------
(***************************************************************************)
(* The local half of ProviderRunner.run (src/aecctx/providers/runner.py)   *)
(* under OCIDockerProfile (oci.py), with validate_provider_response        *)
(* (protocol.py): workspace, launch of a docker client, polling under a    *)
(* wall-time limit, termination, and the reading of what the container     *)
(* has written.                                                            *)
(*                                                                         *)
(* The child of the runner is the docker client; the container is the      *)
(* daemon's and may start late, outlive its client and write as long as it *)
(* runs.  The memory limit of the polling loop cannot be met under this    *)
(* profile, whose memory_bytes is 0: the container's own limit ends it     *)
(* with status 137 ("oom").                                                *)
(***************************************************************************)
EXTENDS Naturals, FiniteSets, FiniteSetsExt

CONSTANTS
  Names,     \* artifact paths a container may write and declare
  FileVersions, \* contents of an artifact
  Size,      \* Size[v]: bytes of v
  MaxBytes,  \* limits.max_output_bytes
  MaxFiles,  \* limits.max_files
  Missing    \* no file, no declaration

Contents == FileVersions \cup {Missing}
Trees == [Names -> Contents]

\* response.json: absent, not JSON (torn), refused for anything but its
\* artifacts (size, schema, request, attestation, digest, events, capabilities),
\* or whole, with the content of the artifacts it declares.
Responses ==
  [state : {"absent", "torn", "refused"}, declares : {[n \in Names |-> Missing]}]
    \cup [state : {"whole"}, declares : Trees]

NoResponse == [state |-> "absent", declares |-> [n \in Names |-> Missing]]

VARIABLES
  runnerPc, outcome, \* of ProviderRunner.run
  workspace,    \* the temporary directory exists
  client,       \* the docker client: "none", "running", or how it exited
  container,    \* the container: "none", "running", "removed", or how it exited
  over,         \* the wall time is over
  files,        \* output/artifacts
  reply,        \* output/response.json
  excess,       \* other output: a symbolic link, or more than a limit allows
  response,     \* the response as read
  unread,       \* declared artifacts not yet read
  captured      \* captured_artifacts

outputs == <<files, reply, excess>>
reading == <<response, unread, captured>>
ociVars == <<workspace, client, container, over, outputs, reading>>

Exits == {"zero", "oom", "other"}

Init ==
  /\ workspace = FALSE
  /\ client = "none"
  /\ container = "none"
  /\ over = FALSE
  /\ files = [n \in Names |-> Missing]
  /\ reply = NoResponse
  /\ excess = FALSE
  /\ response = NoResponse
  /\ unread = {}
  /\ captured = [n \in Names |-> Missing]

Present(tree) == {n \in Names : tree[n] # Missing}
BytesIn(tree) == MapThenSumSet(LAMBDA n : Size[tree[n]], Present(tree))

\* All that is in output: with the artifacts, the (here empty) two logs of the
\* client, and response.json, here of one byte.
ReplyFiles == IF reply.state = "absent" THEN 0 ELSE 1
TreeFiles == Cardinality(Present(files)) + 2 + ReplyFiles
TreeBytes == BytesIn(files) + ReplyFiles
Fits(tree) == BytesIn(tree) <= MaxBytes

\* An exception leaves the with statements through their cleanup.
Leave(code) ==
  /\ outcome' = code
  /\ runnerPc' = "cleanup"

-----------------------------------------------------------------------------
(* The runner.                                                             *)

MakeWorkspace ==
  /\ runnerPc = "workspace"
  /\ workspace' = TRUE
  /\ \/ runnerPc' = "launch" /\ UNCHANGED outcome
     \/ Leave("raised")
  /\ UNCHANGED <<client, container, over, outputs, reading>>

\* launch repeats the preflight of the profile, then starts the client.
Launch ==
  /\ runnerPc = "launch"
  /\ \/ client' = "running" /\ runnerPc' = "poll" /\ UNCHANGED outcome
     \/ Leave("PROFILE_UNAVAILABLE") /\ UNCHANGED client
     \/ Leave("LAUNCH_FAILED") /\ UNCHANGED client
  /\ UNCHANGED <<workspace, container, over, outputs, reading>>

Poll ==
  /\ runnerPc = "poll"
  /\ runnerPc' = IF client = "running" THEN "clock" ELSE "tree"
  /\ UNCHANGED <<outcome, ociVars>>

Clock ==
  /\ runnerPc = "clock"
  /\ runnerPc' = IF over THEN "remove" ELSE "poll"
  /\ UNCHANGED <<outcome, ociVars>>

\* Mutant: terminate is repeated until the daemon has removed the container.
RemoveContainerInsisting ==
  /\ runnerPc = "remove"
  /\ \/ container = "running" /\ container' = "removed" /\ runnerPc' = "kill" /\ UNCHANGED outcome
     \/ UNCHANGED <<container, runnerPc, outcome>>
  /\ UNCHANGED <<workspace, client, over, outputs, reading>>

\* docker rm -f: there may be no container yet, the daemon may refuse (check is
\* False), and after five seconds subprocess.TimeoutExpired leaves terminate.
RemoveContainer ==
  /\ runnerPc = "remove"
  /\ \/ container' = (IF container = "running" THEN "removed" ELSE container)
     \/ UNCHANGED container
  /\ \/ runnerPc' = "kill" /\ UNCHANGED outcome
     \/ Leave("raised")
  /\ UNCHANGED <<workspace, client, over, outputs, reading>>

\* Mutant: the client is expected to end with its container.
KillNothing ==
  /\ runnerPc = "kill"
  /\ Leave("TIMEOUT")
  /\ UNCHANGED ociVars

\* process.kill() and process.wait()
Kill ==
  /\ runnerPc = "kill"
  /\ client' = IF client = "running" THEN "killed" ELSE client
  /\ Leave("TIMEOUT")
  /\ UNCHANGED <<workspace, container, over, outputs, reading>>

\* _check_workspace_output; a file that vanishes while it is listed raises.
CheckTree ==
  /\ runnerPc = "tree"
  /\ \/ container = "running" /\ Leave("raised")
     \/ IF excess \/ TreeFiles > MaxFiles \/ TreeBytes > MaxBytes
          THEN Leave("OUTPUT_REFUSED")
          ELSE runnerPc' = "response" /\ UNCHANGED outcome
  /\ UNCHANGED ociVars

ReadResponse ==
  /\ runnerPc = "response"
  /\ response' = reply
  /\ CASE reply.state = "absent" -> Leave(IF client = "oom" THEN "MEMORY_LIMIT" ELSE "RESPONSE_MISSING")
       [] reply.state = "torn" -> Leave("PROTOCOL_INVALID")
       [] OTHER -> runnerPc' = "header" /\ UNCHANGED outcome
  /\ UNCHANGED <<workspace, client, container, over, outputs, unread, captured>>

\* validate_provider_response up to its loop over the artifacts.
CheckHeader ==
  /\ runnerPc = "header"
  /\ IF response.state = "refused" \/ Cardinality(Present(response.declares)) > MaxFiles
       THEN Leave("RESPONSE_REFUSED") /\ UNCHANGED unread
       ELSE runnerPc' = "artifacts" /\ unread' = Present(response.declares) /\ UNCHANGED outcome
  /\ UNCHANGED <<workspace, client, container, over, outputs, response, captured>>

\* Mutant: the sizes the tree check has found are trusted.
CaptureTrusting(n) ==
  /\ runnerPc = "artifacts"
  /\ n \in unread
  /\ IF files[n] = Missing
       THEN Leave("ARTIFACT_REFUSED") /\ UNCHANGED <<unread, captured>>
       ELSE captured' = [captured EXCEPT ![n] = files[n]] /\ unread' = unread \ {n} /\ UNCHANGED <<runnerPc, outcome>>
  /\ UNCHANGED <<workspace, client, container, over, outputs, response>>

\* One artifact: present, within the limit with those before it, as declared.
Capture(n) ==
  /\ runnerPc = "artifacts"
  /\ n \in unread
  /\ LET read == [captured EXCEPT ![n] = files[n]] IN
     IF files[n] = Missing \/ ~Fits(read) \/ files[n] # response.declares[n]
       THEN Leave("ARTIFACT_REFUSED") /\ UNCHANGED <<unread, captured>>
       ELSE captured' = read /\ unread' = unread \ {n} /\ UNCHANGED <<runnerPc, outcome>>
  /\ UNCHANGED <<workspace, client, container, over, outputs, response>>

Accept ==
  /\ runnerPc = "artifacts"
  /\ unread = {}
  /\ Leave("accepted")
  /\ UNCHANGED ociVars

\* TemporaryDirectory.__exit__: a container that still writes may make it raise.
Cleanup ==
  /\ runnerPc = "cleanup"
  /\ runnerPc' = "ended"
  /\ \/ workspace' = FALSE /\ UNCHANGED outcome
     \/ container = "running" /\ outcome' = "raised" /\ UNCHANGED workspace
  /\ UNCHANGED <<client, container, over, outputs, reading>>

Step ==
  \/ MakeWorkspace \/ Launch \/ Poll \/ Clock \/ RemoveContainer \/ Kill
  \/ CheckTree \/ ReadResponse \/ CheckHeader \/ (\E n \in Names : Capture(n)) \/ Accept \/ Cleanup

\* A KeyboardInterrupt is handled by the with statements only.
Interrupt ==
  /\ runnerPc \in {"launch", "poll", "clock", "remove", "kill", "tree", "response", "header", "artifacts"}
  /\ Leave("raised")
  /\ UNCHANGED ociVars

-----------------------------------------------------------------------------
(* Docker, the container, and time.                                        *)

StartContainer ==
  /\ client = "running"
  /\ container = "none"
  /\ container' = "running"
  /\ UNCHANGED <<runnerPc, outcome, workspace, client, over, outputs, reading>>

\* The container writes any file at any time while it runs.
Write ==
  /\ container = "running"
  /\ workspace
  /\ \/ \E n \in Names, v \in Contents : files' = [files EXCEPT ![n] = v] /\ UNCHANGED <<reply, excess>>
     \/ \E r \in Responses : reply' = r /\ UNCHANGED <<files, excess>>
     \/ excess' = TRUE /\ UNCHANGED <<files, reply>>
  /\ UNCHANGED <<runnerPc, outcome, workspace, client, container, over, reading>>

ContainerEnds ==
  /\ container = "running"
  /\ container' \in Exits
  /\ UNCHANGED <<runnerPc, outcome, workspace, client, over, outputs, reading>>

\* docker run exits with the status of its container; without one, or when it
\* loses the daemon, with a status of its own.
ClientEnds ==
  /\ client = "running"
  /\ client' = CASE container \in Exits -> container
                 [] container = "removed" -> "oom"
                 [] OTHER -> "other"
  /\ UNCHANGED <<runnerPc, outcome, workspace, container, over, outputs, reading>>

TimePasses ==
  /\ runnerPc \in {"poll", "clock"}
  /\ over' = TRUE
  /\ UNCHANGED <<runnerPc, outcome, workspace, client, container, outputs, reading>>

Environment == Interrupt \/ StartContainer \/ Write \/ ContainerEnds \/ ClientEnds \/ TimePasses
Next == Step \/ Environment
=============================================================================
