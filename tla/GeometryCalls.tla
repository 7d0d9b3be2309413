----------------------------- MODULE GeometryCalls -----------------------------
(* The calls of ingest_geometry that are model-checked. *)
EXTENDS Naturals, Sequences
CONSTANT Undeclared

Edge(from, to, matrix) == [from |-> from, to |-> to, matrix |-> matrix]
Job0 ==
    [regular |-> TRUE, version |-> "0.2.0", suffix |-> "gltf", scene |-> "sound", meshes |-> <<"a", "b">>, faces |-> 4, maxFaces |-> 4,
     edges |-> <<Edge("w", "a", TRUE), Edge("w", "b", FALSE), Edge("w", "b", TRUE)>>, profile |-> Undeclared, registry |-> Undeclared]
Good == [valid |-> TRUE, mode |-> "matrix", units |-> Undeclared, frame |-> Undeclared, target |-> "GLTF_FRAME", crs |-> Undeclared,
         matrix |-> "regular", points |-> <<1, 2, 3>>, shape |-> "general"]
Known == [valid |-> TRUE, records |-> <<1, 2>>, digest |-> TRUE, installed |-> TRUE, governed |-> TRUE, points |-> 1, maximum |-> 2,
          inside |-> TRUE, reverses |-> TRUE]

Profiles ==
    {[Good EXCEPT !.mode = m, !.units = u, !.frame = f, !.crs = c] :
        m \in {"scale", "matrix", "similarity"}, u \in {Undeclared, "m", "ft"}, f \in {Undeclared, "GLTF_FRAME", "Z_UP"}, c \in {Undeclared, "EPSG:32721"}}
    \cup {[Good EXCEPT !.mode = m, !.matrix = x] : m \in {"scale", "matrix", "similarity"}, x \in {"singular", "lossy", "projective"}}
    \cup {[Good EXCEPT !.mode = "similarity", !.points = p, !.shape = s] :
            p \in {<<1, 2>>, <<1, 1, 2>>, <<1, 2, 3>>}, s \in {"collinear", "reflected", "apart", "general"}}
    \cup {[Good EXCEPT !.valid = FALSE]}
Registries ==
    {Known, [Known EXCEPT !.valid = FALSE], [Known EXCEPT !.records = <<1, 1>>], [Known EXCEPT !.digest = FALSE],
     [Known EXCEPT !.installed = FALSE], [Known EXCEPT !.governed = FALSE], [Known EXCEPT !.points = 0], [Known EXCEPT !.points = 3],
     [Known EXCEPT !.inside = FALSE], [Known EXCEPT !.reverses = FALSE]}

Jobs ==
    {[Job0 EXCEPT !.suffix = s, !.profile = p] : s \in {"gltf", "obj"}, p \in Profiles \cup {Undeclared}}
    \cup {[Job0 EXCEPT !.suffix = s, !.registry = r] : s \in {"glb", "stl"}, r \in Registries}
    \cup {[Job0 EXCEPT !.version = v, !.profile = p, !.registry = r] : v \in {"0.1.0", "0.2.0"}, p \in {Undeclared, Good}, r \in {Undeclared, Known}}
    \cup {[Job0 EXCEPT !.version = v, !.scene = s] : v \in {"0.1.0", "0.2.0"}, s \in {"old", "external", "broken"}}
    \cup {[Job0 EXCEPT !.regular = FALSE], [Job0 EXCEPT !.meshes = <<>>], [Job0 EXCEPT !.faces = 5]}
=============================================================================
