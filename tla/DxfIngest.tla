------------------------------ MODULE DxfIngest ------------------------------
(***************************************************************************)
(* ingest_dxf: load_source_bundle checks every member of a bundle against  *)
(* its manifest, `visit` opens the xrefs depth first, and the records of   *)
(* the documents are written.  The files belong to the caller: their       *)
(* content may change between any two reads.                               *)
(*                                                                         *)
(* A content is a size and the document it parses to, Broken if it does    *)
(* not; it is its own digest.  Logical paths are numbers in the order of   *)
(* the paths, 0 the root; what is not a path of the manifest stands for an *)
(* unsafe or an undeclared path.                                           *)
(***************************************************************************)
EXTENDS DxfRecords

CONSTANTS
    DxfJobs,  \* the calls; each bounds the changes of its files
    Broken,   \* no document
    Absent    \* no regular file

VARIABLES
    job,        \* the call: form, version, limits, manifest, the files at the start and how they may change
    pc,
    disk,       \* the content of each file now
    index,      \* the entry of the manifest that is being checked
    total,      \* total_bytes
    admitted,   \* the entries that were checked, with their digests
    digest,     \* source_digest, of the root
    stack,      \* the documents being visited: path, and xrefs not looked at yet
    documents,  \* bundle_documents: path and document, in the order of the visit
    opened,     \* every file that was given to the parser
    records, outcome, rewrites

loading == <<index, total, admitted>>
visiting == <<digest, stack, documents, opened>>
vars == <<job, pc, disk, loading, visiting, records, outcome, rewrites>>

(***************************************************************************)
(* Every path of the manifest and the path of the source have a content or *)
(* none; the limits are naturals.                                          *)
(***************************************************************************)
IsContent(c) == c # Absent /\ c.doc # Broken => IsDocument(c.doc)
IsDxfJob(j) ==
    /\ IsFiniteSet(DOMAIN j.files) /\ 0 \in DOMAIN j.files
    /\ \A path \in DOMAIN j.files : IsContent(j.files[path])
    /\ \A content \in j.variants : IsContent(content)
    /\ Len(j.manifest) \in Nat
    /\ \A i \in 1..Len(j.manifest) : j.manifest[i].path \in DOMAIN j.files /\ j.manifest[i].role \in {"root", "xref"}
    /\ j.maxDepth \in Nat

Bundled == job.form = "bundle"
Digest(path) == (CHOOSE e \in admitted : e.path = path).digest
RoleOf(path) == (CHOOSE e \in admitted : e.path = path).role
Regular(path) == disk[path] # Absent

Init ==
    /\ job \in DxfJobs
    /\ disk = job.files
    /\ pc = IF Bundled THEN "manifest" ELSE "source"
    /\ index = 1 /\ total = 0 /\ admitted = {}
    /\ digest = Absent /\ stack = <<>> /\ documents = <<>> /\ opened = <<>>
    /\ records = <<>>
    /\ outcome = "running"
    /\ rewrites = 0

Stop(how) == pc' = "done" /\ outcome' = how

(***************************************************************************)
(* load_source_bundle.                                                     *)
(***************************************************************************)
Manifest ==
    /\ pc = "manifest"
    /\ IF job.version # "0.2.0" THEN Stop("ValueError")
       ELSE IF Len(job.manifest) > job.maxFiles THEN Stop("FILE_LIMIT_EXCEEDED")
       ELSE pc' = "members" /\ UNCHANGED outcome
    /\ UNCHANGED <<job, disk, loading, visiting, records, rewrites>>

Entry == job.manifest[index]

MemberDefect ==
    LET size == disk[Entry.path].size
    IN  CASE \E e \in admitted : e.path = Entry.path -> "DUPLICATE_PATH"
          [] ~Regular(Entry.path) -> "MEMBER_NOT_REGULAR"
          [] size # Entry.bytes -> "SIZE_MISMATCH"
          [] size > job.maxMember -> "MEMBER_LIMIT_EXCEEDED"
          [] total + size > job.maxTotal -> "TOTAL_LIMIT_EXCEEDED"
          [] disk[Entry.path] # Entry.digest -> "DIGEST_MISMATCH"
          [] OTHER -> "none"

AdmitMember ==
    /\ pc = "members" /\ index <= Len(job.manifest)
    /\ MemberDefect = "none"
    /\ admitted' = admitted \cup {[path |-> Entry.path, role |-> Entry.role, digest |-> Entry.digest]}
    /\ total' = total + Entry.digest.size
    /\ index' = index + 1
    /\ UNCHANGED <<job, pc, disk, visiting, records, outcome, rewrites>>

RejectMember ==
    /\ pc = "members" /\ index <= Len(job.manifest)
    /\ MemberDefect # "none"
    /\ Stop(MemberDefect)
    /\ UNCHANGED <<job, disk, loading, visiting, records, rewrites>>

RootPaths == {e.path : e \in {d \in admitted : d.role = "root"}}
LoadDone ==
    /\ pc = "members" /\ index > Len(job.manifest)
    /\ IF RootPaths = {0} THEN pc' = "source" /\ UNCHANGED outcome ELSE Stop("ROOT_INVALID")
    /\ UNCHANGED <<job, disk, loading, visiting, records, rewrites>>

(***************************************************************************)
(* Opening the root, and `visit`.                                          *)
(***************************************************************************)
Frame(path, doc) == [path |-> path, pending |-> doc.xrefs]
Visited(path) == \E k \in DOMAIN documents : documents[k].path = path
OnStack(path) == \E k \in DOMAIN stack : stack[k].path = path

HashSource ==
    /\ pc = "source"
    /\ IF ~Regular(0) THEN Stop("ValueError") /\ UNCHANGED digest
       ELSE IF disk[0].size > job.maxMember THEN Stop("SOURCE_SIZE_LIMIT_EXCEEDED") /\ UNCHANGED digest
       ELSE digest' = disk[0] /\ pc' = "parse" /\ UNCHANGED outcome
    /\ UNCHANGED <<job, disk, loading, stack, documents, opened, records, rewrites>>

Document(path) == IF Regular(path) THEN disk[path].doc ELSE Broken

OpenRoot ==
    /\ pc = "parse"
    /\ opened' = Append(opened, 0)
    /\ IF Document(0) = Broken THEN Stop("PARSE_FAILED") /\ UNCHANGED <<stack, documents>>
       ELSE IF Cardinality(Handles(Document(0))) > job.maxRecords
       THEN Stop("RECORD_LIMIT_EXCEEDED") /\ UNCHANGED <<stack, documents>>
       ELSE /\ documents' = <<[path |-> 0, doc |-> Document(0)]>>
            /\ stack' = IF Bundled THEN <<Frame(0, Document(0))>> ELSE <<>>
            /\ pc' = "visit"
            /\ UNCHANGED outcome
    /\ UNCHANGED <<job, disk, loading, digest, records, rewrites>>

Top == stack[Len(stack)]
Below == SubSeq(stack, 1, Len(stack) - 1)
(* The xrefs of a document in the order of their paths. *)
NextXref == Min(Top.pending)
Looked == Append(Below, [Top EXCEPT !.pending = @ \ {NextXref}])
Looking == pc = "visit" /\ stack # <<>> /\ Top.pending # {}

Declared(path) == \E e \in admitted : e.path = path /\ e.role = "xref"

RefuseXref ==
    /\ Looking
    /\ \/ ~Declared(NextXref) /\ Stop("XREF_UNDECLARED")
       \/ Declared(NextXref) /\ OnStack(NextXref) /\ Stop("XREF_CYCLE")
    /\ UNCHANGED <<job, disk, loading, visiting, records, rewrites>>

(* The xref is read before `visit` looks whether it was visited and how deep it is. *)
OpenXref ==
    /\ Looking
    /\ Declared(NextXref) /\ ~OnStack(NextXref)
    /\ opened' = Append(opened, NextXref)
    /\ LET doc == Document(NextXref)
       IN  \/ /\ doc = Broken
              /\ Stop("XREF_PARSE_FAILED")
              /\ UNCHANGED <<stack, documents>>
           \/ /\ doc # Broken /\ Visited(NextXref)
              /\ stack' = Looked
              /\ UNCHANGED <<pc, documents, outcome>>
           \/ /\ doc # Broken /\ ~Visited(NextXref) /\ Len(stack) + 1 > job.maxDepth + 1
              /\ Stop("XREF_DEPTH_EXCEEDED")
              /\ UNCHANGED <<stack, documents>>
           \/ /\ doc # Broken /\ ~Visited(NextXref) /\ Len(stack) + 1 <= job.maxDepth + 1
              /\ stack' = Append(Looked, Frame(NextXref, doc))
              /\ documents' = Append(documents, [path |-> NextXref, doc |-> doc])
              /\ UNCHANGED <<pc, outcome>>
    /\ UNCHANGED <<job, disk, loading, digest, records, rewrites>>

Return ==
    /\ pc = "visit" /\ stack # <<>> /\ Top.pending = {}
    /\ stack' = Below
    /\ UNCHANGED <<job, pc, disk, loading, digest, documents, opened, records, outcome, rewrites>>

VisitDoneAnyway ==
    /\ pc = "visit" /\ stack = <<>>
    /\ pc' = "records"
    /\ UNCHANGED <<job, disk, loading, visiting, records, outcome, rewrites>>

VisitDone ==
    /\ pc = "visit" /\ stack = <<>>
    /\ IF \E e \in admitted : e.role = "xref" /\ ~Visited(e.path)
       THEN Stop("XREF_UNREACHABLE")
       ELSE pc' = "records" /\ UNCHANGED outcome
    /\ UNCHANGED <<job, disk, loading, visiting, records, rewrites>>

(***************************************************************************)
(* The records, and the limit that counts the ones of a bundle.            *)
(***************************************************************************)
Root == documents[1].doc
Members == SubSeq(documents, 2, Len(documents))
AllRecords ==
    <<Record(RootSource, {})>>
    \o RootRecords(Root, job.version) \o RootDiagnostics(Root, job.version, Bundled)
    \o Concat([k \in DOMAIN Members |->
         MemberRecords(Members[k].path, Digest(Members[k].path), Members[k].doc)
         \o MemberDiagnostics(Members[k].path, Digest(Members[k].path), Members[k].doc)])

WriteRecords ==
    /\ pc = "records"
    /\ IF Bundled /\ Len(AllRecords) - Len(documents) > job.maxRecords
       THEN Stop("RECORD_LIMIT_EXCEEDED") /\ UNCHANGED records
       ELSE Stop("written") /\ records' = AllRecords
    /\ UNCHANGED <<job, disk, loading, visiting, rewrites>>

Rewrite(path, content) ==
    /\ pc # "done" /\ rewrites < job.changes
    /\ path \in DOMAIN disk
    /\ disk' = [disk EXCEPT ![path] = content]
    /\ rewrites' = rewrites + 1
    /\ UNCHANGED <<job, pc, loading, visiting, records, outcome>>

Step ==
    \/ Manifest \/ AdmitMember \/ RejectMember \/ LoadDone
    \/ HashSource \/ OpenRoot \/ RefuseXref \/ OpenXref \/ Return \/ VisitDone \/ WriteRecords

Next == Step \/ \E path \in DOMAIN disk : \E content \in job.variants : Rewrite(path, content)

Spec == Init /\ [][Next]_vars

----------------------------------------------------------------------------
Written == outcome = "written"

(* The documents that were taken up and the xrefs between them, as they were read. *)
Taken == {documents[k].path : k \in DOMAIN documents}
XrefsOf(path) == UNION {documents[k].doc.xrefs : k \in {m \in DOMAIN documents : documents[m].path = path}}
Acyclic == \A some \in (SUBSET Taken) \ {{}} : \E p \in some : XrefsOf(p) \cap some = {}
ReachedFromRoot == \A some \in SUBSET Taken : 0 \in some /\ (\A p \in some : XrefsOf(p) \cap Taken \subseteq some) => some = Taken

(* The content that a source record says the k-th document was read from, and whether it is. *)
Claimed(k) == IF k = 1 THEN digest ELSE Digest(documents[k].path)
ReadAsClaimed == \A k \in DOMAIN documents : documents[k].doc = Claimed(k).doc

(***************************************************************************)
(* What an accepted bundle is, however its files changed meanwhile: every  *)
(* document was a declared member, each is taken up once, the xrefs of the *)
(* documents as they were read have no cycle, every member is reached from *)
(* the root (dxf-v03-profile section 4), and nothing was opened before the *)
(* whole manifest was checked.  If no file changed, what was read is also  *)
(* what the manifest says; if one did, see MembersAreWhatTheyClaim.        *)
(***************************************************************************)
AcceptedIsClosed ==
    /\ Written /\ rewrites = 0 => ReadAsClaimed
    /\ Bundled /\ opened # <<>> => Cardinality(admitted) = Len(job.manifest)
    /\ Bundled /\ Written =>
        /\ Taken = {e.path : e \in admitted} /\ Len(documents) = Cardinality(Taken)
        /\ 0 \in Taken /\ ReachedFromRoot
        /\ \A p \in Taken : XrefsOf(p) \subseteq Taken
        /\ Acyclic

(***************************************************************************)
(* The profile's promise: every hash is validated, and a mismatch fails    *)
(* closed before the xref is opened, so that a written member is the one   *)
(* of its digest.  The code hashes a member and opens it by its path.      *)
(***************************************************************************)
MembersAreWhatTheyClaim == Bundled /\ Written => ReadAsClaimed

(***************************************************************************)
(* A bundle is refused for its xrefs only with cause: without changes of   *)
(* the files, the traversal ends in a cycle exactly when the documents     *)
(* have one that no other defect hides, and never in a depth error when    *)
(* every path from the root is short enough.                               *)
(***************************************************************************)
FileEdges == UNION {{<<p, x>> : x \in Document(p).xrefs} : p \in {q \in DOMAIN disk : Document(q) # Broken}}
Paths(n) == {s \in [1..n -> DOMAIN disk] : s[1] = 0 /\ \A i \in 1..(n - 1) : <<s[i], s[i + 1]>> \in FileEdges}
RefusedWithCause ==
    Bundled /\ rewrites = 0 =>
        /\ outcome = "XREF_CYCLE" => Paths(Cardinality(DOMAIN disk) + 1) # {}
        /\ outcome = "XREF_DEPTH_EXCEEDED" => Paths(job.maxDepth + 2) # {}
        /\ outcome = "XREF_UNREACHABLE" =>
             \E e \in admitted : \A n \in 1..Cardinality(DOMAIN disk) : \A s \in Paths(n) : s[n] # e.path

(* Members with the same content share the identifiers of their ACIS diagnostics. *)
DistinctSolids ==
    \A a, b \in DOMAIN Members :
        (a # b /\ Solids(Members[a].doc) # {}) => Digest(Members[a].path) # Digest(Members[b].path)

(***************************************************************************)
(* The records a DXF ingest writes have unique identifiers and name only   *)
(* records of the package (DXF members with equal content and ACIS bodies  *)
(* excepted: their diagnostics share an identifier).                       *)
(***************************************************************************)
DxfRecordsAreClosed ==
    Written /\ (Bundled => DistinctSolids) =>
        LET ids == {records[a].id : a \in DOMAIN records}
        IN  /\ Cardinality(ids) = Len(records)
            /\ \A a \in DOMAIN records : records[a].refs \subseteq ids

(***************************************************************************)
(* Every face an INSERT brings into the model space is either in the mesh, *)
(* once for each path of block references that leads to it, or cut off by  *)
(* an INSERT that has a diagnostic: walk_insert against the definition by  *)
(* paths.                                                                  *)
(***************************************************************************)
InsertPaths(doc) ==
    LET below(s) == IF Child(doc, Last(s)).kind # "INSERT" THEN {}
                    ELSE {Append(s, h) : h \in Range(ChildrenOf(doc, Child(doc, Last(s)).block))}
        step[n \in 1..(MaxInsertDepth + 1)] ==
          IF n = 1 THEN {<<<<"space", i>>>> : i \in 1..Len(doc.space)} ELSE UNION {below(s) : s \in step[n - 1]}
    IN  UNION {step[n] : n \in 1..(MaxInsertDepth + 1)}

Sound(doc, s) ==  \* every INSERT of the path is followed
    \A k \in 1..(Len(s) - 1) :
        \A m \in 1..(k - 1) : Child(doc, s[m]).block # Child(doc, s[k]).block /\ ~(Child(doc, s[m]).huge /\ Child(doc, s[k]).huge)

MeshIsComplete ==
    Written /\ job.version = "0.2.0" =>
        LET sound == {s \in InsertPaths(Root) : Sound(Root, s)}
            faces == Mesh(Root).faces
            count(h) == Cardinality({k \in DOMAIN faces : faces[k] = h})
            diagnosed == {records[a].id[2] : a \in {b \in DOMAIN records : records[b].id[1] = "diag_dxf_v02_3d"}}
            cut(s) == LET i == Child(Root, Last(s))
                      IN  \/ Len(s) > MaxInsertDepth
                          \/ \E k \in 1..(Len(s) - 1) :
                               Child(Root, s[k]).block = i.block \/ (i.huge /\ Child(Root, s[k]).huge)
        IN  /\ \A h \in Handles(Root) :
                 count(h) = IF Child(Root, h).kind # "FACE" THEN 0
                            ELSE Cardinality({s \in sound : Last(s) = h})
            /\ \A s \in sound : Child(Root, Last(s)).kind = "INSERT" /\ cut(s) =>
                 \E x \in diagnosed : x[2] = Last(s)

=============================================================================
