---------------------------- MODULE GeometryIngest ----------------------------
(***************************************************************************)
(* ingest_geometry: a mesh file, and what its caller may say about its     *)
(* coordinates: a manual profile (load_coordinate_profile and              *)
(* solve_coordinate_profile) or a registry of reference systems            *)
(* (load_crs_registry and apply_datum_operation), never both.              *)
(*                                                                         *)
(* Vertices, matrices and residuals are what the checks say of them; a     *)
(* frame, a unit and a reference system are names.                         *)
(***************************************************************************)
EXTENDS Lists

CONSTANTS
    MeshJobs,  \* the calls
    Undeclared \* no unit, no frame, no reference system, no profile, no registry

VARIABLES
    job, pc,
    solution,  \* "none", "known" or "conflicted": what became of the profile or of the registry
    artifacts, \* the paths of the artifacts that are not records
    records, diagnostics, outcome

vars == <<job, pc, solution, artifacts, records, diagnostics, outcome>>

(* The meshes of a scene have names of their own, and a profile that is valid has one of the three modes. *)
IsScene(j) ==
    /\ IsList(j.meshes) /\ \A k, l \in DOMAIN j.meshes : j.meshes[k] = j.meshes[l] => k = l
    /\ IsList(j.edges)
IsMeshJob(j) == IsScene(j) /\ (j.profile # Undeclared /\ j.profile.valid => j.profile.mode \in {"scale", "matrix", "similarity"})

FirstFailure(checks) ==
    LET failed == {i \in 1..Len(checks) : ~checks[i][1]}
    IN  IF failed = {} THEN "accepted" ELSE checks[Min(failed)][2]

Names(items) == {items[k].id : k \in DOMAIN items}

(* _source_coordinate_profile: what the format itself says. *)
declared_units == IF job.suffix \in {"gltf", "glb"} THEN "m" ELSE Undeclared
declared_frame == IF job.suffix \in {"gltf", "glb"} THEN "GLTF_FRAME" ELSE Undeclared

(***************************************************************************)
(* solve_coordinate_profile.                                               *)
(***************************************************************************)
Profile == job.profile
Conflicts ==
    {f \in {"units", "frame"} :
        IF f = "units"
        THEN Undeclared \notin {declared_units, Profile.units} /\ declared_units # Profile.units
        ELSE Undeclared \notin {declared_frame, Profile.frame} /\ declared_frame # Profile.frame}

(* A matrix is singular, does not round trip, is not affine, or is regular. *)
MatrixChecks == << <<Profile.matrix # "singular", "MATRIX_SINGULAR">>, <<Profile.matrix # "lossy", "MATRIX_ROUND_TRIP_FAILED">> >>
SimilarityChecks ==
    << <<Len(Profile.points) >= 3, "CONTROL_POINTS_INSUFFICIENT">>,
       <<Cardinality(Range(Profile.points)) = Len(Profile.points), "PROFILE_INVALID">>,
       <<Profile.shape # "collinear", "CONTROL_POINTS_COLLINEAR">>,
       <<Profile.shape # "reflected", "REGISTRATION_REFLECTION_UNSUPPORTED">>,
       <<Profile.shape # "apart", "REGISTRATION_TOLERANCE_EXCEEDED">> >>
ModeChecks ==
    CASE Profile.mode = "scale" -> << <<Profile.frame \in {Undeclared, Profile.target}, "SCALE_FRAME_MISMATCH">> >> \o MatrixChecks
      [] Profile.mode = "matrix" -> << <<Profile.matrix # "projective", "MATRIX_NOT_AFFINE">> >> \o MatrixChecks
      [] Profile.mode = "similarity" -> SimilarityChecks \o MatrixChecks
ProfileVerdict ==
    IF ~Profile.valid THEN "PROFILE_INVALID"
    ELSE IF Conflicts # {} THEN "conflicted" ELSE FirstFailure(ModeChecks)

(***************************************************************************)
(* load_crs_registry, validate_crs_identifier, apply_datum_operation.      *)
(* What is accepted is what the runtime itself says, so that the operation *)
(* and its reference systems are then known and current.                   *)
(***************************************************************************)
Registry == job.registry
RegistryChecks ==
    << <<Registry.valid, "CRS_REGISTRY_INVALID">>,
       <<Cardinality(Range(Registry.records)) = Len(Registry.records), "CRS_REGISTRY_CONFLICT">>,
       <<Registry.digest, "CRS_REGISTRY_DIGEST_MISMATCH">>,
       <<Registry.installed, "CRS_DEPENDENCY_MISSING">>,
       <<Registry.governed, "CRS_RUNTIME_UNSUPPORTED">>,
       <<Registry.points \in 1..Registry.maximum, "CRS_POINT_LIMIT_EXCEEDED">>,
       <<Registry.inside, "CRS_POINT_INVALID">>,
       <<Registry.reverses, "CRS_ROUND_TRIP_TOLERANCE_EXCEEDED">> >>

(***************************************************************************)
(* Records.                                                                *)
(***************************************************************************)
Record(id, refs, class, shown) == [id |-> id, refs |-> refs, class |-> class, shown |-> shown]
Source == <<"src">>
Mesh(name) == <<"prim_mesh", name>>
(* The list of geometry references is one object: what is appended to it later, every entity has. *)
geometry_refs == {"scene.glb", "scene-top.svg", "scene-front.svg"}
                 \cup (IF Profile # Undeclared /\ solution = "known" THEN {"calibrated-scene.glb"} ELSE {})

Baseline ==
    LET indexed == [k \in DOMAIN job.edges |-> <<k, job.edges[k]>>]
        placed == Filtered(indexed, {e \in Range(indexed) : e[2].matrix})
    IN  <<Record(Source, {}, "observed", {})>>
        \o [k \in DOMAIN job.meshes |-> Record(Mesh(job.meshes[k]), {Source}, "observed", {})]
        \o [k \in DOMAIN job.meshes |-> Record(<<"entity_mesh", job.meshes[k]>>, {Mesh(job.meshes[k])}, "observed", geometry_refs)]
        \o (IF job.version = "0.1.0" THEN <<>>
            ELSE [k \in DOMAIN placed |->
                    Record(<<"prim_mesh_transform", placed[k][2].from, placed[k][2].to, placed[k][1]>>, {Source}, "observed", {})])

(* source_mesh_ids: the primitives whose class ends with _MESH. *)
MeshIds(known) == {r.id : r \in {x \in Range(known) : x.id[1] \in {"prim_mesh", "prim_mesh_calibrated", "prim_mesh_datum"}}}

Registration == <<"assert_mesh_coordinate">>
Calibrated(known) ==
    <<Record(Registration, {Source}, "manual", {})>>
    \o (IF solution # "known" THEN <<>>
        ELSE <<Record(<<"prim_mesh_calibrated">>, {Registration} \cup MeshIds(known), "derived", {"calibrated-scene.glb"})>>)
Datum(known) ==
    <<Record(<<"assert_mesh_datum">>, {Source}, "manual", {}),
      Record(<<"prim_mesh_datum">>, {<<"assert_mesh_datum">>} \cup MeshIds(known), "derived", {"datum-transformed-mesh.json"})>>

(***************************************************************************)
(* Capabilities and diagnostics.                                           *)
(***************************************************************************)
georeferencing ==
    IF solution = "known" /\ (job.registry # Undeclared \/ Profile.crs # Undeclared) THEN "partial" ELSE "unsupported"
GeoreferencingReason ==
    IF job.registry # Undeclared THEN "CALLER_CRS_QUALIFIED_NOT_SURVEYED"
    ELSE IF georeferencing = "partial" THEN "MANUAL_CRS_UNVERIFIED" ELSE "GEOREFERENCING_UNSUPPORTED"

Diagnostic(id, code, refs) == [id |-> id, code |-> code, refs |-> refs]
ConflictFields == Filtered(<<"units", "frame">>, IF solution = "conflicted" THEN Conflicts ELSE {})
Diagnostics ==
    <<Diagnostic(<<"diag_mesh_loss", "georeferencing">>, GeoreferencingReason, {Source})>>
    \o (IF declared_units # Undeclared THEN <<>> ELSE <<Diagnostic(<<"diag_mesh_units">>, "UNITS_NOT_DECLARED", {Source})>>)
    \o [k \in DOMAIN ConflictFields |->
          Diagnostic(<<"diag_mesh_coordinate_conflict", ConflictFields[k]>>, "SOURCE_MANUAL_CONFLICT", {Registration})]
    \o <<Diagnostic(<<"diag_preview">>, "PREVIEW_RENDERED", {Source})>>

(***************************************************************************)
(* The call.                                                               *)
(***************************************************************************)
Init ==
    /\ job \in MeshJobs
    /\ pc = "arguments"
    /\ solution = "none" /\ artifacts = {}
    /\ records = <<>> /\ diagnostics = <<>>
    /\ outcome = "running"

Stop(how) == pc' = "done" /\ outcome' = how

ArgumentChecks ==
    << <<job.regular, "ValueError">>,
       <<Profile # Undeclared => job.version = "0.2.0", "ValueError">>,
       <<job.registry # Undeclared => job.version = "0.2.0", "ValueError">>,
       <<Undeclared \in {Profile, job.registry}, "ValueError">> >>

(* Only AECCTX 0.2.0 looks into a glTF file before the library does, and turns the errors of the library into its own. *)
SceneChecks ==
    << <<job.scene # "old", "FORMAT_VERSION_UNSUPPORTED">>, <<job.scene # "external", "EXTERNAL_RESOURCE_UNSUPPORTED">>,
       <<job.scene # "broken", "PARSE_FAILED">> >>
CountChecks == << <<job.meshes # <<>>, "ValueError">>, <<job.faces <= job.maxFaces, "ValueError">> >>

Load ==
    /\ pc = "arguments"
    /\ LET verdict == FirstFailure(ArgumentChecks \o (IF job.version = "0.2.0" THEN SceneChecks ELSE <<>>) \o CountChecks)
       IN  CASE job.version = "0.1.0" /\ FirstFailure(ArgumentChecks) = "accepted" /\ job.scene = "broken" -> Stop("Exception")
             [] OTHER -> IF verdict = "accepted" THEN pc' = "coordinates" /\ UNCHANGED outcome ELSE Stop(verdict)
    /\ UNCHANGED <<job, solution, artifacts, records, diagnostics>>

Solve ==
    /\ pc = "coordinates"
    /\ LET verdict == CASE Profile # Undeclared -> ProfileVerdict
                        [] job.registry # Undeclared -> FirstFailure(RegistryChecks)
                        [] OTHER -> "none"
       IN  CASE verdict = "accepted" -> solution' = "known" /\ pc' = "records" /\ UNCHANGED outcome
             [] verdict \in {"none", "conflicted"} -> solution' = verdict /\ pc' = "records" /\ UNCHANGED outcome
             [] OTHER -> Stop(verdict) /\ UNCHANGED solution
    /\ UNCHANGED <<job, artifacts, records, diagnostics>>

Write ==
    /\ pc = "records"
    /\ LET calibrated == IF Profile = Undeclared THEN Baseline ELSE Baseline \o Calibrated(Baseline)
       IN  records' = IF job.registry = Undeclared THEN calibrated ELSE calibrated \o Datum(calibrated)
    /\ diagnostics' = Diagnostics
    /\ artifacts' = geometry_refs \cup (IF job.registry # Undeclared THEN {"datum-transformed-mesh.json"} ELSE {})
    /\ Stop("written")
    /\ UNCHANGED <<job, solution>>

Next == Load \/ Solve \/ Write

Spec == Init /\ [][Next]_vars

----------------------------------------------------------------------------
Written == outcome = "written"
All == Names(records) \cup Names(diagnostics)
Support(id) == (CHOOSE r \in Range(records) : r.id = id).refs

(***************************************************************************)
(* The package of a mesh holds together: unique identifiers, only records  *)
(* of the package are named, and its records show exactly the artifacts    *)
(* that are written, the calibrated scene in every entity.                 *)
(***************************************************************************)
MeshIsClosed ==
    Written =>
        /\ Cardinality(All) = Len(records) + Len(diagnostics)
        /\ \A r \in Range(records) \cup Range(diagnostics) : r.refs \subseteq All
        /\ UNION {r.shown : r \in Range(records)} = artifacts

(***************************************************************************)
(* A calibration or a datum operation is only derived: it cites one manual *)
(* assertion and all the meshes of the source and no other record, the     *)
(* source's own records do not change, and at most one of the two is made, *)
(* from a profile or a registry without a defect.                          *)
(***************************************************************************)
CalibrationRestsOnSource ==
    Written =>
        LET derived == {r \in Range(records) : r.class = "derived"}
            manual == {r.id : r \in {x \in Range(records) : x.class = "manual"}}
        IN  /\ \A r \in derived : r.refs = manual \cup {Mesh(job.meshes[k]) : k \in DOMAIN job.meshes}
            /\ Cardinality(derived) = IF solution = "known" THEN 1 ELSE 0
            /\ Cardinality(manual) = IF Profile = Undeclared /\ job.registry = Undeclared THEN 0 ELSE 1
            /\ Filtered(records, {r \in Range(records) : r.class = "observed"}) = Baseline

(***************************************************************************)
(* What the caller says of the coordinates is never taken for what the     *)
(* source says: undeclared units stay declared as missing, a contradiction *)
(* between the two is recorded field by field and calibrates nothing, and  *)
(* the location is never more than partial and says where it comes from.   *)
(***************************************************************************)
CoordinatesAreDeclared ==
    Written =>
        /\ (<<"diag_mesh_units">> \in All) = (declared_units = Undeclared)
        /\ Profile # Undeclared =>
             \A f \in {"units", "frame"} :
                LET said == IF f = "units" THEN Profile.units ELSE Profile.frame
                    own == IF f = "units" THEN declared_units ELSE declared_frame
                    conflict == <<"diag_mesh_coordinate_conflict", f>> \in All
                IN  /\ conflict = (Undeclared \notin {said, own} /\ said # own)
                    /\ conflict => <<"prim_mesh_calibrated">> \notin All
        /\ \E d \in Range(diagnostics) :
             d.code = CASE <<"prim_mesh_datum">> \in All -> "CALLER_CRS_QUALIFIED_NOT_SURVEYED"
                        [] <<"prim_mesh_calibrated">> \in All /\ Profile.crs # Undeclared -> "MANUAL_CRS_UNVERIFIED"
                        [] OTHER -> "GEOREFERENCING_UNSUPPORTED"

=============================================================================
