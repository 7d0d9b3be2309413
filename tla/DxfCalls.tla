-------------------------------- MODULE DxfCalls --------------------------------
(* The calls of ingest_dxf that are model-checked. *)
EXTENDS Naturals, FiniteSets, Sequences
CONSTANTS Broken, Absent

Leaf(kind) == [kind |-> kind, block |-> "none", huge |-> FALSE]
Insert(b) == [kind |-> "INSERT", block |-> b, huge |-> FALSE]
Huge(b) == [Insert(b) EXCEPT !.huge = TRUE]
UpTo(n, S) == UNION {[1..k -> S] : k \in 0..n}

Doc(space, blocks, xrefs) == [space |-> space, blocks |-> blocks, xrefs |-> xrefs]
Content(doc) == [doc |-> doc, size |-> 1]
Linked(xrefs) == Content(Doc(<<Leaf("ACIS")>>, [b \in {} |-> <<>>], xrefs))
Corrupt == [doc |-> Broken, size |-> 1]
Large == [Linked({}) EXCEPT !.size = 3]

Job0(form, files) ==
    [form |-> form, version |-> "0.2.0", files |-> files, changes |-> 0, variants |-> {},
     maxFiles |-> 4, maxMember |-> 2, maxTotal |-> 4, maxDepth |-> 2, maxRecords |-> 40,
     manifest |-> [i \in 1..Cardinality(DOMAIN files) |->
        [path |-> i - 1, role |-> IF i = 1 THEN "root" ELSE "xref", digest |-> files[i - 1], bytes |-> files[i - 1].size]]]

(* Every graph of xrefs between a root and three members, at three depths. *)
Graphs ==
    {[Job0("bundle", [p \in 0..3 |-> Linked(g[p])]) EXCEPT !.maxDepth = d] :
        g \in [0..3 -> SUBSET (1..3)], d \in 1..2}
(* Defects of the files, of the manifest and of the limits, and files that change during the call. *)
Small(r, x) == Job0("bundle", [p \in 0..1 |-> IF p = 0 THEN r ELSE x])
Defects ==
    LET good == Small(Linked({1}), Linked({}))
    IN  {Small(Linked({1, x}), Linked({})) : x \in {0, 9}} \cup {Small(Linked({1}), Corrupt), Small(Corrupt, Linked({})),
         Small(Linked({1}), Large), Small(Large, Linked({}))}
        \cup {[good EXCEPT !.files[1] = Absent], [good EXCEPT !.files[1] = Linked({1})], [good EXCEPT !.files[1] = Large],
              [good EXCEPT !.maxFiles = 1], [good EXCEPT !.maxTotal = 1], [good EXCEPT !.maxRecords = 3],
              [good EXCEPT !.maxRecords = 0], [good EXCEPT !.version = "0.1.0"],
              [good EXCEPT !.manifest[2].role = "root"], [good EXCEPT !.manifest[2].path = 0],
              [Job0("file", [p \in {0} |-> Corrupt]) EXCEPT !.files[0] = Absent],
              Job0("file", [p \in {0} |-> Corrupt]), Job0("file", [p \in {0} |-> Large])}
Churning ==
    {[j EXCEPT !.changes = 1, !.variants = {Linked({}), Linked({1}), Linked({1, 2}), Linked({9}), Corrupt, Absent}] :
        j \in {Small(Linked({1}), Linked({})),
               Job0("bundle", [p \in 0..2 |-> IF p = 0 THEN Linked({1, 2}) ELSE IF p = 1 THEN Linked({2}) ELSE Linked({})])}}

(* Block references: every pair of blocks of two children over a third, in and out of cycles. *)
Children == {Leaf("FACE"), Insert("a"), Insert("b"), Insert("c"), Huge("b")}
Drawings ==
    {Job0("file", [p \in {0} |-> Content(Doc(s, [b \in {"a", "b", "c"} |-> IF b = "a" THEN x ELSE IF b = "b" THEN y ELSE <<Leaf("FACE"), Leaf("LINE")>>], {}))]) :
        s \in {<<Insert("a")>>, <<Leaf("FACE"), Insert("a"), Insert("b")>>, <<Huge("a"), Leaf("ACIS")>>},
        x \in UpTo(2, Children), y \in UpTo(2, Children)}
    \cup {[Job0("file", [p \in {0} |-> Linked({1})]) EXCEPT !.version = v] : v \in {"0.1.0", "0.2.0"}}

Jobs == Graphs \cup Defects \cup Churning \cup Drawings
=============================================================================
