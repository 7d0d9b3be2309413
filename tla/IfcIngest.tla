------------------------------ MODULE IfcIngest ------------------------------
(***************************************************************************)
(* ingest_ifc: the primitives of the STEP instances, the source-native 2D  *)
(* profile (one representation after the other), the coordinate            *)
(* qualification, the neutral index and the diagnostics.                   *)
(*                                                                         *)
(* A file is its items, representations, products and relationships, by    *)
(* STEP number, and its georeferencing.  Coordinates, styles, attributes   *)
(* and the kernel's tessellation are left out; whether an item is well     *)
(* formed by itself is its field `sound`; its `form` says which segments   *)
(* an indexed curve has and whether a text is too long.  A path of the     *)
(* preview is named by the chain of items that leads to its curve, and     *)
(* stands for all that is drawn of this curve.                             *)
(***************************************************************************)
EXTENDS Lists

CONSTANTS
    IfcJobs,            \* the calls
    MaxReferenceDepth,  \* IFC_V03_REFERENCE_DEPTH: 32 in the code
    MaxMembers,         \* IFC_V03_MEMBER_LIMIT, and the limit of a composite curve
    Unset               \* a value the file does not declare

VARIABLES
    job, pc,
    pending,   \* the representations not looked at yet, by STEP number
    profiles,  \* ifc_2d_representation of the ones that declare a 2D context
    notes,     \* what was written last into the primitive of an item
    preview,   \* preview_paths
    issues,    \* v02_2d_issues
    records, diagnostics, outcome

drawing == <<pending, profiles, notes, preview, issues>>
vars == <<job, pc, drawing, records, diagnostics, outcome>>

(* The parser counts its statements; the instances have numbers. *)
IsIfcJob(j) ==
    /\ j.file.statements \in Nat
    /\ \A S \in {DOMAIN j.file.items, DOMAIN j.file.representations, DOMAIN j.file.products, DOMAIN j.file.relations} :
         S \subseteq Nat /\ IsFiniteSet(S)
    /\ \A id \in DOMAIN j.file.products : j.file.products[id].representations \ {Unset} \subseteq DOMAIN j.file.representations
    /\ \A id \in DOMAIN j.file.products : IsFiniteSet(j.file.products[id].properties)

File == job.file
V03 == File.schema = "IFC4X3_ADD2"
ById(S) == Ascending(S)

(***************************************************************************)
(* _geometry_2d: an item is "drawn" with its paths, "failed" or            *)
(* "unsupported" with a reason, or "none".  The members of a curve set and *)
(* the items a mapping resolves to spoil it only when they are "none".     *)
(***************************************************************************)
Verdict(v) == [verdict |-> v, paths |-> <<>>]
Invalid == Verdict(IF V03 THEN "failed" ELSE "none")

Curve(id) == [verdict |-> "drawn", paths |-> << <<id>> >>]

(* An indexed curve has no segments, lines, also arcs, or an arc that has not three indices. *)
Listed == IF V03 THEN {"none", "lines", "arcs"} ELSE {"none", "lines"}
Indexed(id) ==
    LET item == File.items[id]
    IN  IF ~item.sound THEN Invalid
        ELSE IF item.form \notin Listed THEN Verdict("none")
        ELSE IF V03 /\ item.form = "none" THEN Verdict("drawn")  \* a path for each segment: none
        ELSE Curve(id)
Text(item) == Verdict(IF item.form = "long" THEN "unsupported" ELSE IF item.sound THEN "drawn" ELSE "failed")

Leaf(id) ==
    LET item == File.items[id]
    IN  CASE item.kind = "polyline" -> IF item.sound THEN Curve(id) ELSE Verdict("none")
          [] item.kind = "indexed" -> Indexed(id)
          [] item.kind = "conic" /\ V03 -> IF item.sound THEN Curve(id) ELSE Verdict("failed")
          [] item.kind = "text" /\ V03 -> Text(item)
          [] OTHER -> Verdict("none")

Compound == {"composite", "fill", "set", "mapped"}
(* An outer boundary does not count as a member. *)
Limit(item) == IF item.kind = "fill" THEN MaxMembers + 1 ELSE MaxMembers
Parts(item) == IF item.kind \in {"set", "mapped"} THEN ById(Range(item.parts)) ELSE item.parts

Geometry ==
    LET geometry[id \in DOMAIN File.items, depth \in 0..MaxReferenceDepth + 1, seen \in SUBSET DOMAIN File.items] ==
        LET item == File.items[id]
            parts == Parts(item)
            drawn == [i \in DOMAIN parts |-> geometry[parts[i], depth + 1, seen \cup {id}]]
            all(verdicts) == \A i \in DOMAIN parts : drawn[i].verdict \in verdicts
            below(i) == [k \in DOMAIN drawn[i].paths |-> <<id>> \o drawn[i].paths[k]]
            joined == [verdict |-> "drawn", paths |-> Concat([i \in DOMAIN parts |-> below(i)])]
        IN  CASE depth > MaxReferenceDepth \/ id \in seen -> Verdict("failed")
              [] item.kind \notin Compound -> Leaf(id)
              [] item.kind \in {"composite", "fill"} ->
                   IF ~V03 THEN Verdict("none")
                   ELSE IF item.sound /\ parts # <<>> /\ Len(parts) <= Limit(item) /\ all({"drawn"}) THEN joined
                   ELSE Verdict("failed")
              [] item.kind = "set" /\ Len(parts) > Limit(item) -> Invalid
              [] item.kind = "mapped" /\ ~item.sound -> Verdict("none")
              [] OTHER -> IF all({"drawn", "failed", "unsupported"}) THEN joined ELSE Verdict("none")
    IN  geometry

Drawn(id) == Geometry[id, 0, {}]

(***************************************************************************)
(* One representation of _augment_ifc_v02_2d.                              *)
(***************************************************************************)
ItemsOf(r) == ById(File.representations[r].items)
Oversized(r) == Cardinality(File.representations[r].items) > MaxMembers
ItemState(id) ==
    CASE Drawn(id).verdict = "drawn" -> "supported"
      [] Drawn(id).verdict = "none" -> IF File.items[id].kind \in {"polyline", "indexed"}
                                       THEN "extraction_failed" ELSE "unsupported"
      [] Drawn(id).verdict = "failed" -> "extraction_failed"
      [] Drawn(id).verdict = "unsupported" -> "unsupported"
ItemStates(r) == IF Oversized(r) THEN {"extraction_failed"} ELSE {ItemState(id) : id \in Range(ItemsOf(r))}

ProfileStateOptimistic(r) ==
    CASE File.representations[r].items = {} -> "empty"
      [] "supported" \in ItemStates(r) -> "supported"
      [] OTHER -> "unsupported"
ProfileState(r) ==
    CASE File.representations[r].items = {} -> "empty"
      [] "extraction_failed" \in ItemStates(r) -> "extraction_failed"
      [] "unsupported" \in ItemStates(r) /\ "extraction_failed" \notin ItemStates(r) -> "unsupported"
      [] OTHER -> "supported"

IssuesOf(r) ==
    (IF ProfileState(r) = "empty" THEN <<<<"REPRESENTATION_EMPTY", r>>>> ELSE <<>>)
    \o (IF "unsupported" \in ItemStates(r) THEN <<<<"ITEM_UNSUPPORTED", r>>>> ELSE <<>>)
    \o (IF "extraction_failed" \in ItemStates(r) THEN <<<<"EXTRACTION_FAILED", r>>>> ELSE <<>>)

(* The primitives written for the items of r: its own, and the parts of the curve sets and mappings. *)
Good(r) == IF Oversized(r) THEN <<>> ELSE Filtered(ItemsOf(r), {id \in Range(ItemsOf(r)) : ItemState(id) = "supported"})
Note(id, verdict, from) == [item |-> id, verdict |-> verdict, mappedFrom |-> from]
NotesOf(r) ==
    LET own(id) == <<Note(id, "drawn", IF File.items[id].kind = "mapped" THEN r ELSE Unset)>>
        parts(id) == IF File.items[id].kind \notin {"set", "mapped"} THEN <<>>
                     ELSE LET members == Parts(File.items[id])
                              named == Filtered(members, {p \in Range(members) : Drawn(p).verdict # "none"})
                          IN  [k \in DOMAIN named |-> Note(named[k], Drawn(named[k]).verdict, Unset)]
        spoiled(id) == Drawn(id).verdict \in {"failed", "unsupported"}
        note(id) == IF ItemState(id) = "supported" THEN own(id) \o parts(id)
                    ELSE IF spoiled(id) THEN <<Note(id, Drawn(id).verdict, Unset)>> ELSE <<>>
    IN  IF Oversized(r) THEN <<>> ELSE Concat([i \in DOMAIN ItemsOf(r) |-> note(ItemsOf(r)[i])])

(***************************************************************************)
(* _coordinate_qualification: where the file is, and the last link of the  *)
(* chain of frames.                                                        *)
(***************************************************************************)
At(state, reason) == [state |-> state, reason |-> reason]
Incomplete(op, crs) ==
    \/ op.scaled /\ (~V03 \/ op.factors # "positive")
    \/ ~crs.named \/ ~crs.unit
    \/ op.parameters # "finite" \/ op.scale = "zero"

GlobalLocation(geo) ==
    IF geo.operations = <<>> /\ geo.crs = <<>> THEN At("unknown", "NOT_DECLARED")
    ELSE IF Len(geo.operations) # 1 \/ Len(geo.crs) # 1 THEN At("conflicted", "CONFLICTED")
    ELSE IF Incomplete(geo.operations[1], geo.crs[1]) THEN At("unsupported", "INCOMPLETE")
    ELSE IF ~geo.unit \/ geo.operations[1].scale # "as_units" THEN At("conflicted", "UNITS_CONFLICT")
    ELSE At("known", Unset)

TransformChain(geo) ==
    <<[from |-> "source", to |-> "project", state |-> IF geo.wcs THEN "known" ELSE "unknown"],
      [from |-> "project", to |-> "crs", state |-> GlobalLocation(geo).state]>>

(* IFC2X3 declares neither. *)
Georeference == IF File.schema = "IFC2X3" THEN [File.geo EXCEPT !.operations = <<>>, !.crs = <<>>] ELSE File.geo
HasGeoreference == Georeference.operations # <<>> \/ Georeference.crs # <<>>

(***************************************************************************)
(* The records.                                                            *)
(***************************************************************************)
Record(id, refs) == [id |-> id, refs |-> refs]
Source == <<"src">>
Prim(id) == <<"prim_ifc", id>>
Entity(id) == <<"entity_ifc", id>>
Preview == <<"prim_ifc_preview">>
(* The key of an assertion joins its number and its names by colons: names are sequences of parts. *)
Assertion(id, p) == <<"assert_ifc", id, p.set \o p.name>>

Instances ==
    DOMAIN File.items \cup DOMAIN File.representations \cup DOMAIN File.products \cup DOMAIN File.relations
Primitives == ForEach([id \in Instances |-> Record(Prim(id), {Source})])
PreviewRecord ==
    IF profiles = <<>> THEN <<>>
    ELSE <<Record(Preview, {Prim(profiles[k].id) : k \in DOMAIN profiles})>>

Index ==
    ForEach([id \in DOMAIN File.products |->
        Record(Entity(id), {Prim(id)} \cup {Prim(r) : r \in File.products[id].representations \ {Unset}}
                           \cup {Assertion(id, p) : p \in File.products[id].properties})])
    \o Concat(ForEach([id \in DOMAIN File.products |->
         ForEach([p \in File.products[id].properties |-> Record(Assertion(id, p), {Prim(id), Entity(id)})])]))
    \o ForEach([id \in DOMAIN File.relations |->
         Record(<<"relation_ifc", id>>, {Prim(id)} \cup {Entity(x) : x \in File.relations[id] \cap DOMAIN File.products})])

Capabilities ==
    [c \in {"2d_geometry", "georeferencing", "3d_geometry", "properties"} |->
        CASE c = "2d_geometry" -> "partial"
          [] c = "georeferencing" -> IF job.version = "0.1.0" /\ HasGeoreference THEN "full" ELSE "partial"
          [] c = "3d_geometry" -> IF \E id \in DOMAIN File.products : ~File.products[id].tessellates
                                  THEN "partial" ELSE "full"
          [] c = "properties" -> IF File.unsupportedFields = {} THEN "full" ELSE "partial"]

Losses == {c \in DOMAIN Capabilities : Capabilities[c] # "full"}
Diagnostics ==
    [k \in 1..File.statements |-> Record(<<"diag_ifc_validation", k>>, {Source})]
    \o ForEach([c \in Losses |-> Record(<<"diag_ifc_loss", c>>, {Source})])
Diagnostics02 ==
    [k \in DOMAIN issues |-> Record(<<"diag_ifc_v02_2d", issues[k][1], issues[k][2]>>, {Prim(issues[k][2])})]
    \o (IF GlobalLocation(Georeference).state = "known" THEN <<>>
        ELSE <<Record(<<"diag_ifc_v02_georef", GlobalLocation(Georeference).reason>>, {Source})>>)

(***************************************************************************)
(* The call.                                                               *)
(***************************************************************************)
Idle ==
    /\ pending = <<>> /\ profiles = <<>> /\ notes = <<>> /\ preview = <<>> /\ issues = <<>>

Init ==
    /\ job \in IfcJobs
    /\ pc = "arguments"
    /\ Idle
    /\ records = <<>> /\ diagnostics = <<>>
    /\ outcome = "running"

Refuse ==
    /\ pc = "arguments" /\ ~job.valid
    /\ pc' = "done" /\ outcome' = "ValueError"
    /\ UNCHANGED <<job, drawing, records, diagnostics>>

Undeclared == {id \in DOMAIN File.products : File.products[id].representations = {Unset}}

Extract ==
    /\ pc = "arguments" /\ job.valid
    /\ records' = Primitives
    /\ IF job.version = "0.2.0"
       THEN /\ pc' = "2d"
            /\ pending' = ById((UNION {File.products[id].representations : id \in DOMAIN File.products}) \ {Unset})
            /\ issues' = IF Undeclared = {} THEN <<>> ELSE <<<<"NOT_DECLARED", ById(Undeclared)[1]>>>>
       ELSE pc' = "index" /\ UNCHANGED <<pending, issues>>
    /\ UNCHANGED <<job, profiles, notes, preview, diagnostics, outcome>>

Represent ==
    /\ pc = "2d" /\ pending # <<>>
    /\ pending' = Tail(pending)
    /\ LET r == Head(pending)
       IN  IF ~File.representations[r].flat THEN UNCHANGED <<profiles, notes, preview, issues>>
           ELSE /\ profiles' = Append(profiles, [id |-> r, state |-> ProfileState(r)])
                /\ notes' = notes \o NotesOf(r)
                /\ preview' = preview \o Concat([i \in DOMAIN Good(r) |->
                                 LET paths == Drawn(Good(r)[i]).paths
                                 IN  [k \in DOMAIN paths |-> <<r>> \o paths[k]]])
                /\ issues' = issues \o IssuesOf(r)
    /\ UNCHANGED <<job, pc, records, diagnostics, outcome>>

Represented ==
    /\ pc = "2d" /\ pending = <<>>
    /\ records' = records \o PreviewRecord
    /\ pc' = "index"
    /\ UNCHANGED <<job, drawing, diagnostics, outcome>>

Write ==
    /\ pc = "index"
    /\ records' = <<Record(Source, {})>> \o records \o Index
    /\ diagnostics' = Diagnostics \o (IF job.version = "0.2.0" THEN Diagnostics02 ELSE <<>>)
    /\ pc' = "done" /\ outcome' = "written"
    /\ UNCHANGED <<job, drawing>>

Next == Refuse \/ Extract \/ Represent \/ Represented \/ Write

Spec == Init /\ [][Next]_vars

----------------------------------------------------------------------------
Written == outcome = "written"
All == records \o diagnostics
Named == {All[a].id : a \in DOMAIN All}

(* Property names joined by a colon are ambiguous. *)
Unambiguous ==
    \A id \in DOMAIN File.products : \A p, q \in File.products[id].properties :
        p.set \o p.name = q.set \o q.name => p = q

(***************************************************************************)
(* What an IFC ingest writes has unique identifiers and names only records *)
(* of the package, unless two properties of an object have names that a    *)
(* colon makes equal.                                                      *)
(***************************************************************************)
IfcRecordsAreClosed ==
    Written /\ Unambiguous =>
        /\ Cardinality(Named) = Len(All)
        /\ \A a \in DOMAIN All : All[a].refs \subseteq Named

(***************************************************************************)
(* Every chain of items from a 2D representation down to a curve, and what *)
(* cuts it: a reference to an item above it, a depth beyond the limit.     *)
(***************************************************************************)
Bound == MaxReferenceDepth + 2
ChainsFrom(r) ==
    LET below(s) == IF File.items[Last(s)].kind \notin Compound THEN {}
                    ELSE {Append(s, p) : p \in Range(File.items[Last(s)].parts)}
        simple(s) == \A i, j \in DOMAIN s : s[i] = s[j] => i = j
        step[n \in 1..Bound] ==
          IF n = 1 THEN {<<id>> : id \in File.representations[r].items}
          ELSE UNION {below(s) : s \in {x \in step[n - 1] : simple(x)}}
    IN  UNION {step[n] : n \in 1..Bound}
Cut(s) == Len(s) = Bound \/ \E i \in 1..(Len(s) - 1) : s[i] = Last(s)
Curves(r) == {s \in ChainsFrom(r) : File.items[Last(s)].kind \in {"polyline", "indexed", "conic"}}

(***************************************************************************)
(* The two omissions that the code does not report.  A curve set and a     *)
(* mapping take a part whose verdict is "failed" or "unsupported" for one  *)
(* that is drawn: only a part without any verdict spoils them.  And an     *)
(* indexed curve of IFC4X3 that lists no segments is supported, without    *)
(* a path.                                                                 *)
(***************************************************************************)
Overlooked(s) ==
    \E i \in 1..(Len(s) - 1) :
        /\ File.items[s[i]].kind \in {"set", "mapped"}
        /\ Geometry[s[i + 1], i, {s[m] : m \in 1..i}].verdict \in {"failed", "unsupported"}
Unsegmented(s) == V03 /\ File.items[Last(s)].kind = "indexed" /\ File.items[Last(s)].form = "none"

Reported(r) == \E i \in DOMAIN issues : issues[i][2] = r
Times(r, s) == Cardinality({i \in DOMAIN preview : preview[i] = <<r>> \o s})
Missing(r) == {s \in Curves(r) : Times(r, s) = 0}

(***************************************************************************)
(* No silent omission in 2D but those two.  A curve reached from a 2D      *)
(* representation is drawn once for each chain that reaches it, or its     *)
(* representation has a state and an issue that say so, or the code        *)
(* overlooks it in one of the two ways above; what is drawn is no more     *)
(* than that; and everything drawn at the top has a note.                  *)
(***************************************************************************)
NothingSilentlyOmitted ==
    Written /\ job.version = "0.2.0" =>
        \A k \in DOMAIN profiles :
            LET r == profiles[k].id
            IN  /\ \A s \in Curves(r) : Times(r, s) <= 1
                /\ \A i \in DOMAIN preview : preview[i][1] = r => Tail(preview[i]) \in Curves(r)
                /\ \A s \in Missing(r) : Overlooked(s) \/ Unsegmented(s) \/ Reported(r)
                /\ (profiles[k].state = "supported") = ~Reported(r)
                /\ profiles[k].state = "supported" =>
                     \A s \in ChainsFrom(r) : Cut(s) => Overlooked(s)
                /\ profiles[k].state = "supported" =>
                     \A id \in File.representations[r].items : \E i \in DOMAIN notes : notes[i].item = id

(***************************************************************************)
(* The profile's promise, without those exceptions: a curve that is not    *)
(* drawn, and a chain that is cyclic or too deep, has its representation   *)
(* among the issues.                                                       *)
(***************************************************************************)
EveryOmissionIsReported ==
    Written /\ job.version = "0.2.0" =>
        \A k \in DOMAIN profiles :
            /\ Missing(profiles[k].id) # {} => Reported(profiles[k].id)
            /\ (\E s \in ChainsFrom(profiles[k].id) : Cut(s)) => Reported(profiles[k].id)

(* A known location with a link that is not: validation refuses such a package (records.py). *)
ChainIsKnown == \A k \in DOMAIN TransformChain(Georeference) : TransformChain(Georeference)[k].state = "known"
ValidationRefusesLocation == GlobalLocation(Georeference).state = "known" /\ ~ChainIsKnown

(***************************************************************************)
(* A location is not a guess.  A file is placed in a CRS only when one     *)
(* operation and one CRS declare everything and agree with the units, and  *)
(* then the chain of frames ends in a known link; otherwise the package    *)
(* carries the reason (ifc-v02-profile: no omitted map parameter is        *)
(* defaulted).  What the code does not ask is that the first link of the   *)
(* chain is known too: a file without a world coordinate system, and only  *)
(* such a file, becomes a package that validation refuses.                 *)
(***************************************************************************)
LocationIsDeclared ==
    Written /\ job.version = "0.2.0" =>
        LET geo == Georeference
            location == GlobalLocation(geo)
        IN  /\ Last(TransformChain(geo)).state = location.state
            /\ location.state = "known" =>
                 /\ ValidationRefusesLocation <=> ~geo.wcs
                 /\ Len(geo.operations) = 1 /\ Len(geo.crs) = 1 /\ geo.unit
                 /\ geo.operations[1].parameters = "finite"
                 /\ geo.operations[1].scaled => geo.operations[1].factors = "positive"
            /\ (location.state # "known") = \E a \in DOMAIN diagnostics : diagnostics[a].id[1] = "diag_ifc_v02_georef"

(* The profile's promise: a known location rests on a known link for each step of the chain. *)
KnownLocationIsComplete == Written /\ job.version = "0.2.0" => ~ValidationRefusesLocation

=============================================================================
