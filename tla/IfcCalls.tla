-------------------------------- MODULE IfcCalls --------------------------------
(* The calls of ingest_ifc that are model-checked. *)
EXTENDS Naturals, Sequences, TLC
CONSTANT Unset

Compound == {"composite", "fill", "set", "mapped"}

Curve(kind, sound) == [kind |-> kind, sound |-> sound, parts |-> <<>>, form |-> "lines"]
Formed(kind, form) == [Curve(kind, TRUE) EXCEPT !.form = form]
Compounds == [kind : {"composite", "set", "mapped"}, sound : {TRUE}, form : {"lines"}, parts : {<<>>, <<1>>, <<3>>, <<2, 3>>, <<3, 2>>}]
Leaves == {Curve("polyline", TRUE), Curve("polyline", FALSE), Curve("conic", TRUE), Curve("conic", FALSE), Curve("text", FALSE),
           Formed("text", "long"), Formed("indexed", "none"), Formed("indexed", "arcs"), Formed("indexed", "unlisted")}

Operation == [scaled |-> FALSE, factors |-> "positive", parameters |-> "finite", scale |-> "as_units"]
Crs == [named |-> TRUE, unit |-> TRUE]
Placed == [operations |-> <<Operation>>, crs |-> <<Crs>>, unit |-> TRUE, wcs |-> TRUE]
Property(s, n) == [set |-> s, name |-> n]
Product(r, p) == [representations |-> r, properties |-> p, tessellates |-> TRUE]

Model(schema, items, reps) ==
    [schema |-> schema, items |-> items, representations |-> reps,
     products |-> (21 :> Product(DOMAIN reps, {Property(<<"Pset">>, <<"a">>), Property(<<"Pset">>, <<"b">>)}) @@ 22 :> Product({Unset}, {})),
     relations |-> (31 :> {21, 22, 1}), unsupportedFields |-> {}, statements |-> 1, geo |-> Placed]
Job(file) == [valid |-> TRUE, version |-> "0.2.0", file |-> file]

Flat(items) == [flat |-> TRUE, items |-> items]
(* Every nesting of three items, seen by one or by two representations. *)
Nestings ==
    {Job(Model(schema, 1 :> a @@ 2 :> b @@ 3 :> c, reps)) :
        schema \in {"IFC4", "IFC4X3_ADD2"}, a \in Compounds, b \in Compounds, c \in Leaves,
        reps \in {11 :> Flat({1}), 11 :> Flat({2, 3}) @@ 12 :> Flat({1})}}

Simple(schema) == Model(schema, 1 :> Curve("polyline", TRUE), 11 :> Flat({1}) @@ 12 :> Flat({}) @@ 13 :> [flat |-> FALSE, items |-> {1}])
(* Kinds, limits, arguments, unsupported attributes and failed tessellations. *)
Kinds ==
    {Job(Model(schema, 1 :> item @@ 2 :> Curve("indexed", sound), 11 :> Flat({1}))) :
        schema \in {"IFC2X3", "IFC4X3_ADD2"}, sound \in BOOLEAN,
        item \in {[Curve(k, s) EXCEPT !.parts = <<2>>] : k \in Compound, s \in BOOLEAN}
                 \cup {Curve("indexed", FALSE), Curve("text", TRUE), Curve("solid", TRUE)}}
    \cup {Job(Model("IFC4X3_ADD2", [i \in 1..4 |-> IF i = 1 THEN [Curve(k, TRUE) EXCEPT !.parts = <<2, 3, 4>>] ELSE Curve("polyline", TRUE)], 11 :> Flat(s))) :
        k \in Compound, s \in {{1}, {1, 2, 3}}}
    \cup {[Job(Simple(s)) EXCEPT !.version = v, !.valid = b] : s \in {"IFC2X3", "IFC4"}, v \in {"0.1.0", "0.2.0"}, b \in BOOLEAN}
    \cup {[Job(Simple("IFC4")) EXCEPT !.file.products[21].tessellates = FALSE, !.file.unsupportedFields = {1}],
          [Job(Simple("IFC4")) EXCEPT !.file.products[21].properties = {Property(<<"a", "b">>, <<"c">>), Property(<<"a">>, <<"b", "c">>)}]}

Places ==
    {[Job(Simple(schema)) EXCEPT !.file.geo = [operations |-> ops, crs |-> crs, unit |-> unit, wcs |-> wcs]] :
        schema \in {"IFC4", "IFC4X3_ADD2"}, unit \in BOOLEAN, wcs \in BOOLEAN,
        crs \in {<<>>, <<Crs>>, <<[Crs EXCEPT !.unit = FALSE]>>, <<Crs, Crs>>},
        ops \in {<<>>, <<Operation>>, <<[Operation EXCEPT !.scaled = TRUE]>>, <<[Operation EXCEPT !.scaled = TRUE, !.factors = "zero"]>>,
                 <<[Operation EXCEPT !.parameters = "missing"]>>, <<[Operation EXCEPT !.scale = "zero"]>>,
                 <<[Operation EXCEPT !.scale = "other"]>>, <<Operation, Operation>>}}

Jobs == Nestings \cup Kinds \cup Places
=============================================================================
