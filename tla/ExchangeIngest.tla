--------------------------- MODULE ExchangeIngest ---------------------------
(***************************************************************************)
(* ingest_step_iges and ingest_dwg: formats that only an external provider *)
(* reads.  The result of the provider is checked event by event, then the  *)
(* records are built: observed ones from the provider's lexical source,    *)
(* derived ones from its translation.                                      *)
(*                                                                         *)
(* Artifacts are present or not; geometry, units, labels and wording are   *)
(* left out.  A digest names a content.                                    *)
(***************************************************************************)
EXTENDS Lists

CONSTANTS
    ExchangeJobs,  \* the calls
    NoResult       \* no provider result

VARIABLES
    job, pc,
    checked,   \* bundle members whose evidence was validated
    artifacts, \* the paths of the artifacts that will be written
    records, diagnostics, outcome

vars == <<job, pc, checked, artifacts, records, diagnostics, outcome>>

(***************************************************************************)
(* The result of a provider: its worker numbers the roots and lists every  *)
(* label once.  A bundle was loaded from a manifest that names every path  *)
(* once, else load_source_bundle refuses it.                               *)
(***************************************************************************)
IsResult(adapter, res) ==
    /\ IsFiniteSet(res.codes)
    /\ IF adapter = "step"
       THEN /\ IsList(res.items) /\ IsList(res.roots) /\ IsList(res.labels)
            /\ \A k \in DOMAIN res.roots : res.roots[k].number = k
            /\ \A k, l \in DOMAIN res.labels : res.labels[k].entry = res.labels[l].entry => k = l
       ELSE IsList(res.objects) /\ IsList(res.dxf)
IsExchangeJob(j) ==
    /\ j.adapter \in {"step", "dwg"}
    /\ j.result # NoResult => IsResult(j.adapter, j.result)
    /\ j.form = "bundle" =>
         /\ IsList(j.entries) /\ \E e \in Range(j.entries) : e.role = "root"
         /\ \A k, l \in DOMAIN j.entries : j.entries[k].path = j.entries[l].path => k = l
         /\ \A path \in DOMAIN j.results : IsResult(j.adapter, j.results[path])

(* The first check of a sequence of <<holds, code>> that fails. *)
FirstFailure(checks) ==
    LET failed == {i \in 1..Len(checks) : ~checks[i][1]}
    IN  IF failed = {} THEN "accepted" ELSE checks[Min(failed)][2]

(***************************************************************************)
(* validate_step_iges_events: one source event, and one shape (legacy) or  *)
(* one XDE document with an event per root.                                *)
(***************************************************************************)
Succeeded(roots) == Filtered(roots, {r \in Range(roots) : r.status = "success"})
Ids(items) == {items[k].id : k \in DOMAIN items}
UniqueIds(items) == Cardinality(Ids(items)) = Len(items)

StepChecks(res) ==
    LET failed == {k \in DOMAIN res.roots : res.roots[k].status = "failed"}
        roots == Succeeded(res.roots)
    IN  << <<res.ok /\ res.provider = "step", "PROVIDER_RESULT_INVALID">>,
           <<res.sequential, "EVENT_INVALID">>,
           <<res.expanded \/ Len(res.roots) = 1, "EVENT_INVALID">>,
           <<roots # <<>>, "EVENT_INVALID">>,
           <<res.expanded => res.complete = (failed = {}), "EVENT_INVALID">>,
           <<UniqueIds(res.items), "EVENT_INVALID">>,
           <<\A k \in DOMAIN res.items : res.items[k].references \subseteq Ids(res.items), "EVENT_INVALID">>,
           <<\A k \in DOMAIN roots : roots[k].brep, "ARTIFACT_INVALID">>,
           <<\A k \in DOMAIN roots : roots[k].healed # "same", "BREP_INVALID">> >>

(* evidence.shape: the first root that was translated. *)
Shape(res) == Head(Succeeded(res.roots))

(***************************************************************************)
(* validate_dwg_events: a source and a conversion event about one input.   *)
(***************************************************************************)
Handles(objects) == {objects[k].handle : k \in DOMAIN objects}
Repeated(objects) == {h \in Handles(objects) : Cardinality({k \in DOMAIN objects : objects[k].handle = h}) > 1}
(* The locator of an object: its handle, numbered when the handle is in conflict. *)
Locator(res, k) ==
    LET h == res.objects[k].handle
    IN  IF h \in res.conflicts THEN <<h, Cardinality({m \in 1..(k - 1) : res.objects[m].handle = h})>> ELSE <<h>>

DwgChecks(res) ==
    << <<res.ok /\ res.provider = "dwg", "PROVIDER_RESULT_INVALID">>,
       <<res.sequential, "EVENT_INVALID">>,
       <<res.input = res.converted, "EVENT_INVALID">>,
       <<res.artifact, "ARTIFACT_INVALID">>,
       <<res.counted, "SOURCE_INVALID">>,
       <<res.conflicts = Repeated(res.objects), "SOURCE_INVALID">> >>

(***************************************************************************)
(* Records.                                                                *)
(***************************************************************************)
Record(id, refs, class) == [id |-> id, refs |-> refs, class |-> class]

Source == <<"src">>
StepPrim(n) == <<"prim_step_iges", n>>
Xde(entry) == <<"prim_step_iges_xde", entry>>
Brep(n) == <<"prim_step_iges_brep", n>>

(* The records of lists: the items of the file, those of a class, and the labels and roots of the translation. *)
Observed(res) == {StepPrim(n) : n \in Ids(res.items)}
ItemPrims(items) == [k \in DOMAIN items |-> Record(StepPrim(items[k].id), {Source}, "observed")]
OfClass(items, class) == Filtered(items, {i \in Range(items) : i.class = class})
Indexing(tag, items) == [k \in DOMAIN items |-> Record(<<tag, items[k].id>>, {StepPrim(items[k].id)}, "observed")]

LabelParents(res, label) ==
    LET correlated == {StepPrim(n) : n \in label.correlated \cap Ids(res.items)}
    IN  IF correlated = {} THEN {Source} ELSE correlated
LabelPrims(res) == [k \in DOMAIN res.labels |-> Record(Xde(res.labels[k].entry), LabelParents(res, res.labels[k]), "observed")]

RootParents(res, root) == IF root.entry \in {l.entry : l \in Range(res.labels)} THEN {Xde(root.entry)} ELSE Observed(res)
Others(roots) == Filtered(roots, {r \in Range(roots) : r.number # 1})
RootPrims(res, roots) == [k \in DOMAIN roots |-> Record(Brep(roots[k].number), RootParents(res, roots[k]), "derived")]
Healed(roots) == Filtered(roots, {r \in Range(roots) : r.healed = "applied"})
HealedPrims(roots) == [k \in DOMAIN roots |-> Record(<<"prim_step_iges_healed", roots[k].number>>, {Brep(roots[k].number)}, "derived")]

StepRecords(res) ==
    LET translated == Succeeded(res.roots)
    IN  <<Record(Source, {}, "observed")>>
        \o ItemPrims(res.items)
        \o Indexing("entity_step_product", OfClass(res.items, "PRODUCT"))
        \o Indexing("relation_step_assembly", OfClass(res.items, "NEXT_ASSEMBLY_USAGE_OCCURRENCE"))
        \o (IF res.expanded THEN LabelPrims(res) ELSE <<>>)
        \o <<Record(Brep(1), Observed(res), "derived")>>
        \o (IF res.expanded THEN RootPrims(res, Others(translated)) \o HealedPrims(Healed(translated)) ELSE <<>>)

(* The artifacts: one for each translated root, by its own number. *)
StepArtifacts(res) ==
    IF res.expanded
    THEN {<<"translated", r.number>> : r \in Range(Succeeded(res.roots))}
         \cup {<<"healed", r.number>> : r \in Range(Healed(Succeeded(res.roots)))}
    ELSE {<<"translated", 1>>}

(* The artifact a derived record refers to. *)
ArtifactOf(id) ==
    CASE id[1] = "prim_step_iges_brep" -> {<<"translated", id[2]>>}
      [] id[1] = "prim_step_iges_healed" -> {<<"healed", id[2]>>}
      [] OTHER -> {}

Converted == {"LINE", "INSERT", "TEXT"}
Indexed == {"LAYER", "INSERT", "TEXT"}

(* The DXF entities that become derived primitives: the first one with each handle. *)
FirstSeen(res) ==
    {k \in DOMAIN res.dxf : /\ res.dxf[k].class \in Converted /\ res.dxf[k].handle # ""
                            /\ \A m \in 1..(k - 1) : res.dxf[m].class \in Converted => res.dxf[m].handle # res.dxf[k].handle}
ObservedAsAny(res, h) ==
    {<<"prim_dwg", <<h>>>> : k \in {m \in DOMAIN res.objects : res.objects[m].handle = h}}
ObservedAs(res, h) ==
    {<<"prim_dwg", Locator(res, k)>> : k \in {m \in DOMAIN res.objects : res.objects[m].handle = h /\ h \notin res.conflicts}}
Unmatched(res) == {k \in FirstSeen(res) : ObservedAs(res, res.dxf[k].handle) = {}}
DwgCodes(res) == res.codes \cup (IF Unmatched(res) = {} THEN {} ELSE {"DXF_HANDLE_UNMATCHED"})

DwgRecords(res) ==
    LET prim(k) == <<"prim_dwg", Locator(res, k)>>
        index == {k \in DOMAIN res.objects : res.objects[k].class \in Indexed}
        parents(k) == IF k \in Unmatched(res) THEN {Source} ELSE ObservedAs(res, res.dxf[k].handle)
    IN  <<Record(Source, {}, "observed")>>
        \o ForEach([k \in DOMAIN res.objects |-> Record(prim(k), {Source}, "observed")])
        \o ForEach([k \in index |-> Record(<<"entity_dwg", Locator(res, k)>>, {prim(k)}, "observed")])
        \o ForEach([k \in FirstSeen(res) |-> Record(<<"prim_dwg_dxf", res.dxf[k].handle>>, parents(k), "derived")])

(* A member of a bundle: its source record is named by its content alone. *)
ChildSource(entry) == <<"src", entry.digest>>
MemberRecords(entry) ==
    <<Record(ChildSource(entry), {}, "observed"),
      Record(<<"relation_dwg_xref", entry.path>>, {Source, ChildSource(entry)}, "observed")>>

(***************************************************************************)
(* The call.                                                               *)
(***************************************************************************)
Init ==
    /\ job \in ExchangeJobs
    /\ pc = "arguments"
    /\ checked = {} /\ artifacts = {}
    /\ records = <<>> /\ diagnostics = <<>>
    /\ outcome = "running"

Stop(how) == pc' = "done" /\ outcome' = how
Bundled == job.form = "bundle"
Members == Range(job.entries)
ResultOf(path) == job.results[path]
RootEntry == CHOOSE e \in Members : e.role = "root"
RootResult == IF Bundled THEN ResultOf(RootEntry.path) ELSE job.result

(* Without a result AECCTX 0.1.0 takes the file as an opaque one. *)
Refuse ==
    /\ pc = "arguments"
    /\ \/ job.version = "0.1.0" /\ job.result = NoResult /\ ~Bundled /\ Stop("opaque")
       \/ job.version = "0.1.0" /\ (job.result # NoResult \/ Bundled) /\ Stop("VERSION_INVALID")
       \/ job.version = "0.2.0" /\ ~Bundled /\ job.result = NoResult /\ Stop("RUNTIME_UNAVAILABLE")
       \/ /\ job.version = "0.2.0" /\ Bundled
          /\ DOMAIN job.results # {e.path : e \in Members}
          /\ Stop("BUNDLE_PROVIDER_RESULTS_INVALID")
    /\ UNCHANGED <<job, checked, artifacts, records, diagnostics>>

Begin ==
    /\ pc = "arguments" /\ job.version = "0.2.0"
    /\ IF Bundled THEN DOMAIN job.results = {e.path : e \in Members} ELSE job.result # NoResult
    /\ pc' = IF Bundled THEN "members" ELSE "events"
    /\ UNCHANGED <<job, checked, artifacts, records, diagnostics, outcome>>

(* The evidence of each member of a bundle, in the order of the paths. *)
NextEntry == CHOOSE e \in Members \ checked : \A f \in Members \ checked : e.path <= f.path
CheckMember ==
    /\ pc = "members"
    /\ IF checked = Members THEN pc' = "events" /\ UNCHANGED <<checked, outcome>>
       ELSE LET verdict == FirstFailure(DwgChecks(ResultOf(NextEntry.path))
                             \o << <<ResultOf(NextEntry.path).input = NextEntry.digest, "INPUT_HASH_MISMATCH">> >>)
            IN  IF verdict = "accepted" THEN checked' = checked \cup {NextEntry} /\ UNCHANGED <<pc, outcome>>
                ELSE Stop(verdict) /\ UNCHANGED checked
    /\ UNCHANGED <<job, artifacts, records, diagnostics>>

(* Only the DWG adapter compares the digest of the source with the one its evidence names. *)
CheckEvents ==
    /\ pc = "events"
    /\ LET verdict == IF job.adapter = "step" THEN FirstFailure(StepChecks(RootResult))
                      ELSE FirstFailure(DwgChecks(RootResult)
                             \o << <<RootResult.input = job.source, "INPUT_HASH_MISMATCH">>,
                                   <<RootResult.parses, "CONVERTED_DXF_INVALID">> >>)
       IN  IF verdict = "accepted" THEN pc' = "records" /\ UNCHANGED outcome ELSE Stop(verdict)
    /\ UNCHANGED <<job, checked, artifacts, records, diagnostics>>

Children == Filtered(job.entries, {e \in Members : e.role # "root"})
Codes == IF job.adapter = "dwg" THEN DwgCodes(RootResult) ELSE RootResult.codes
Write ==
    /\ pc = "records"
    /\ IF Bundled /\ \E e \in Range(Children) : e.path \notin RootResult.retained
       THEN Stop("BUNDLE_XREF_UNREACHABLE") /\ UNCHANGED <<artifacts, records, diagnostics>>
       ELSE /\ records' = IF job.adapter = "step" THEN StepRecords(RootResult)
                          ELSE DwgRecords(RootResult)
                               \o (IF Bundled THEN Concat([k \in DOMAIN Children |-> MemberRecords(Children[k])]) ELSE <<>>)
            /\ artifacts' = IF job.adapter = "step" THEN StepArtifacts(RootResult) ELSE {}
            /\ diagnostics' = ForEach([c \in Codes |-> Record(<<"diag", c>>, {Source}, "observed")])
            /\ Stop("written")
    /\ UNCHANGED <<job, checked>>

Next == Refuse \/ Begin \/ CheckMember \/ CheckEvents \/ Write

Spec == Init /\ [][Next]_vars

----------------------------------------------------------------------------
Written == outcome = "written"
All == records \o diagnostics
Named == {All[a].id : a \in DOMAIN All}
ClassOf(id) == (CHOOSE r \in Range(All) : r.id = id).class

(* Members with equal content share a source record; a first root that failed leaves its place to another one. *)
DistinctMembers == Bundled => \A e, f \in Range(Children) : e.digest = f.digest => e = f
FirstRootTranslated == job.adapter = "step" => Shape(RootResult).number = 1

(***************************************************************************)
(* The package of a DWG or of a STEP file holds together: unique           *)
(* identifiers, only records of the package, and every artifact a derived  *)
(* record names and no other.                                              *)
(***************************************************************************)
ExchangeIsClosed ==
    Written /\ DistinctMembers /\ FirstRootTranslated =>
        /\ Cardinality(Named) = Len(All)
        /\ \A a \in DOMAIN All : All[a].refs \subseteq Named
        /\ UNION {ArtifactOf(i) : i \in Named} = artifacts

(***************************************************************************)
(* Translations rest on what was observed: a derived DWG primitive cites   *)
(* the one object with its handle, never one of several in conflict, or    *)
(* else the source, with a diagnostic; a healed shape rests on its raw     *)
(* one; and a bundle is written only when every member was decoded from    *)
(* its own bytes and is named by the root's evidence.                      *)
(***************************************************************************)
DerivedIsGrounded ==
    Written /\ FirstRootTranslated =>
        /\ \A a \in DOMAIN records :
             records[a].class = "derived" /\ records[a].refs = {} => job.adapter = "step" /\ RootResult.items = <<>>
        /\ job.adapter = "dwg" =>
             /\ \A a \in DOMAIN records : records[a].class = "derived" =>
                  /\ Cardinality(records[a].refs) = 1
                  /\ records[a].refs = {Source} => <<"diag", "DXF_HANDLE_UNMATCHED">> \in Named
                  /\ records[a].refs # {Source} =>
                       \E k \in DOMAIN RootResult.objects :
                          /\ RootResult.objects[k].handle = records[a].id[2]
                          /\ \A m \in DOMAIN RootResult.objects :
                               RootResult.objects[m].handle = records[a].id[2] => m = k
             /\ RootResult.input = job.source
        /\ Bundled => \A e \in Members : ResultOf(e.path).input = e.digest /\ (e.role = "root" \/ e.path \in RootResult.retained)
        /\ job.adapter = "step" =>
             Cardinality({a \in DOMAIN records : records[a].id[1] = "prim_step_iges_brep"}) = Len(Succeeded(RootResult.roots))

=============================================================================
