------------------------------ MODULE ExchangeCalls ------------------------------
(* The calls of ingest_step_iges and ingest_dwg that are model-checked. *)
EXTENDS Naturals, Sequences, FiniteSets
CONSTANT NoResult

Root(n, status, healed) ==
    [number |-> n, status |-> status, brep |-> TRUE, healed |-> healed, entry |-> n]
Item(n, class, refs) == [id |-> n, class |-> class, references |-> refs]
Label(n, to) == [entry |-> n, correlated |-> to]

StepResult(roots, items, labels) ==
    [ok |-> TRUE, provider |-> "step", sequential |-> TRUE, expanded |-> TRUE, roots |-> roots,
     complete |-> \A k \in DOMAIN roots : roots[k].status = "success", items |-> items, labels |-> labels, codes |-> {"LOSS"}]
StepJob(result) ==
    [adapter |-> "step", form |-> "file", version |-> "0.2.0", result |-> result, results |-> <<>>, entries |-> <<>>, source |-> "d0"]

RootLists ==
    {<<a>> : a \in [number : {1}, status : {"success", "failed"}, brep : BOOLEAN, healed : {"none", "applied", "same"}, entry : {1}]}
    \cup {<<Root(1, s, h), Root(2, t, g)>> : s \in {"success", "failed"}, t \in {"success", "failed"},
              h \in {"none", "applied"}, g \in {"none", "applied", "same"}}
ItemLists ==
    {<<>>, <<Item(1, "PRODUCT", {}), Item(2, "NEXT_ASSEMBLY_USAGE_OCCURRENCE", {1})>>,
     <<Item(1, "POINT", {2}), Item(2, "POINT", {1})>>, <<Item(1, "POINT", {3})>>, <<Item(1, "POINT", {}), Item(1, "POINT", {})>>}
LabelLists == {<<>>, <<Label(2, {1, 3})>>, <<Label(1, {}), Label(2, {1, 2})>>}

StepJobs ==
    LET results == {StepResult(r, i, l) : r \in RootLists, i \in ItemLists, l \in LabelLists}
        good == StepResult(<<Root(1, "success", "none")>>, <<Item(1, "PRODUCT", {})>>, <<>>)
        other == {[good EXCEPT !.ok = FALSE], [good EXCEPT !.sequential = FALSE], [good EXCEPT !.complete = FALSE],
                  [good EXCEPT !.expanded = FALSE], [good EXCEPT !.provider = "dwg"], NoResult}
    IN  {StepJob(x) : x \in results \cup other} \cup {[StepJob(x) EXCEPT !.version = "0.1.0"] : x \in {good, NoResult}}

Object(h, class) == [handle |-> h, class |-> class]
ObjectLists == {<<>>, <<Object("a", "LAYER")>>, <<Object("a", "INSERT"), Object("b", "LINE")>>,
                <<Object("a", "TEXT"), Object("a", "LINE"), Object("b", "LINE")>>}
DxfLists == {<<>>, <<Object("a", "LINE")>>, <<Object("b", "LINE"), Object("b", "TEXT"), Object("a", "3DSOLID")>>, <<Object("c", "INSERT"), Object("", "LINE")>>}
DwgResult(digest, objects, conflicts, dxf, retained) ==
    [ok |-> TRUE, provider |-> "dwg", sequential |-> TRUE, input |-> digest, converted |-> digest, artifact |-> TRUE, counted |-> TRUE,
     objects |-> objects, conflicts |-> conflicts, dxf |-> dxf, parses |-> TRUE, codes |-> {"LOSS"}, retained |-> retained]
DwgJob(result) == [StepJob(result) EXCEPT !.adapter = "dwg"]

Good == DwgResult("d0", <<Object("a", "INSERT"), Object("b", "LINE")>>, {}, <<Object("a", "LINE")>>, {1})
DwgJobs ==
    {DwgJob(DwgResult("d0", o, c, d, {})) : o \in ObjectLists, c \in SUBSET {"a", "b"}, d \in DxfLists}
    \cup {DwgJob(x) : x \in {[Good EXCEPT !.ok = FALSE], [Good EXCEPT !.sequential = FALSE], [Good EXCEPT !.converted = "d1"],
                             [Good EXCEPT !.artifact = FALSE], [Good EXCEPT !.counted = FALSE], [Good EXCEPT !.parses = FALSE],
                             [Good EXCEPT !.input = "d1", !.converted = "d1"], NoResult}}

(* A bundle of a root and two members, with the result of each path. *)
Entry(n, digest) == [path |-> n, role |-> IF n = 0 THEN "root" ELSE "xref", digest |-> digest]
Child(digest) == [Good EXCEPT !.input = digest, !.converted = digest]
Bundles ==
    {[DwgJob(Good) EXCEPT !.form = "bundle", !.result = NoResult, !.version = v,
         !.entries = <<Entry(0, "d0"), Entry(1, "d1"), Entry(2, e)>>,
         !.results = [p \in paths |-> IF p = 0 THEN [Good EXCEPT !.retained = kept] ELSE Child(IF p = 1 THEN "d1" ELSE d)]] :
        v \in {"0.1.0", "0.2.0"}, e \in {"d1", "d2"}, d \in {"d1", "d2"}, kept \in SUBSET {1, 2},
        paths \in {{0, 1, 2}, {0, 1}, {}}}

Jobs == StepJobs \cup DwgJobs \cup Bundles
=============================================================================
