------------------------------ MODULE DxfRecords ------------------------------
(***************************************************************************)
(* What adapters/dxf.py makes of a parsed DXF document: the walk through   *)
(* the block references that collects the faces of the 3D profile, and the *)
(* records of the root document and of the members of a source bundle.     *)
(*                                                                         *)
(* A document is its model space and its blocks, each a sequence of        *)
(* children: a face, a line, an ACIS body, or an INSERT of a block, whose  *)
(* scale may be so large that two of them overflow.  The handle of a child *)
(* is its place.                                                           *)
(* Coordinates, tags, layers and dictionaries are left out.                *)
(***************************************************************************)
EXTENDS Lists

CONSTANT MaxInsertDepth  \* 32 in the code

Child(doc, h) == IF h[1] = "space" THEN doc.space[h[2]] ELSE doc.blocks[h[1]][h[2]]
Handles(doc) ==
    {<<"space", i>> : i \in 1..Len(doc.space)}
    \cup UNION {{<<b, i>> : i \in 1..Len(doc.blocks[b])} : b \in DOMAIN doc.blocks}
Inserts(doc) == {h \in Handles(doc) : Child(doc, h).kind = "INSERT"}
ChildrenOf(doc, b) == [i \in 1..Len(doc.blocks[b]) |-> <<b, i>>]

(* The children and the xrefs of a document are lists and finite sets.  Its INSERTs name blocks *)
(* of it: document.audit() removes the others of the root, those of a member are not followed.  *)
IsDocument(doc) ==
    /\ doc.xrefs \subseteq Nat /\ IsFiniteSet(doc.xrefs)
    /\ IsList(doc.space) /\ IsFiniteSet(DOMAIN doc.blocks) /\ \A b \in DOMAIN doc.blocks : IsList(doc.blocks[b])
    /\ \A h \in Inserts(doc) : Child(doc, h).block \in DOMAIN doc.blocks

(***************************************************************************)
(* walk_insert: the faces an INSERT contributes to the mesh, in order, and *)
(* the issues of the INSERTs that are not followed.  The path is the       *)
(* blocks above the INSERT, all different; as many as are left may be      *)
(* added to it.                                                            *)
(***************************************************************************)
Nothing == [faces |-> <<>>, issues |-> {}]
Issue(code, h) == [faces |-> <<>>, issues |-> {<<code, h>>}]
Face(doc, h) == [faces |-> IF Child(doc, h).kind = "FACE" THEN <<h>> ELSE <<>>, issues |-> {}]
Joined(walks) ==
    [faces |-> Concat([i \in DOMAIN walks |-> walks[i].faces]),
     issues |-> UNION {walks[i].issues : i \in DOMAIN walks}]

Walks(doc) == Inserts(doc) \X (SUBSET DOMAIN doc.blocks) \X BOOLEAN  \* the INSERT, the path, and whether it is enlarged
Walked(doc, left, h, path, enlarged, deeper) ==
    LET insert == Child(doc, h)
        children == ChildrenOf(doc, insert.block)
    IN  CASE insert.block \in path -> Issue("INSERT_CYCLE", h)
          [] insert.block \notin path /\ left = 0 -> Issue("INSERT_DEPTH_LIMIT", h)
          [] insert.block \notin path /\ left # 0 /\ enlarged /\ insert.huge -> Issue("INSERT_TRANSFORM_UNSUPPORTED", h)
          [] OTHER -> Joined([i \in DOMAIN children |->
                 IF Child(doc, children[i]).kind = "INSERT"
                 THEN deeper[<<children[i], path \cup {insert.block}, enlarged \/ insert.huge>>]
                 ELSE Face(doc, children[i])])
WalkInsert(doc) ==
    LET walk[left \in 0..MaxInsertDepth] ==
        [w \in Walks(doc) |-> Walked(doc, left, w[1], w[2], w[3], walk[left - 1])]
    IN  walk[MaxInsertDepth]

(* The mesh of the model space. *)
Mesh(doc) ==
    Joined([i \in 1..Len(doc.space) |->
        IF doc.space[i].kind = "INSERT" THEN WalkInsert(doc)[<< <<"space", i>>, {}, FALSE >>] ELSE Face(doc, <<"space", i>>)])

(***************************************************************************)
(* Records: an identifier and the records it names.                        *)
(***************************************************************************)
Record(id, refs) == [id |-> id, refs |-> refs]

RootSource == <<"src">>
Prim(h) == <<"prim_dxf", h>>
Entity(h) == <<"entity_dxf", h>>
Block(b) == <<"entity_dxf_block", b>>

RootRecords(doc, version) ==
    LET faces == Range(Mesh(doc).faces)
    IN  ForEach([h \in Handles(doc) |-> Record(Prim(h), {RootSource})])
        \o ForEach([h \in Handles(doc) |-> Record(Entity(h), {Prim(h)})])
        \o (IF version = "0.2.0" /\ faces # {}
            THEN <<Record(<<"prim_dxf_tessellation">>, {Prim(h) : h \in faces})>> ELSE <<>>)
        \o ForEach([b \in DOMAIN doc.blocks |-> Record(Block(b), {RootSource})])
        \o ForEach([h \in Inserts(doc) |->
               Record(<<"relation_dxf_insert", h>>, {Entity(h), Block(Child(doc, h).block), Prim(h)})])
        \o ForEach([h \in Handles(doc) |-> Record(<<"assert_dxf_layer", h>>, {Prim(h), Entity(h)})])

(* The issues of the walk, of the ACIS bodies, and of the xrefs of a document without a bundle. *)
Solids(doc) == {h \in Handles(doc) : Child(doc, h).kind = "ACIS"}
Issues(doc, version, bundled) ==
    IF version = "0.1.0" THEN {}
    ELSE Mesh(doc).issues
         \cup {<<"ACIS_KERNEL_UNSUPPORTED", h>> : h \in Solids(doc)}
         \cup (IF bundled THEN {} ELSE {<<"XREF_NOT_TRAVERSED", x>> : x \in doc.xrefs})

RootDiagnostics(doc, version, bundled) ==
    ForEach([c \in {"3d_geometry"} \cup (IF Solids(doc) = {} THEN {} ELSE {"2d_geometry"}) |-> Record(<<"diag_dxf_loss", c>>, {RootSource})])
    \o ForEach([x \in Issues(doc, version, bundled) |-> Record(<<"diag_dxf_v02_3d", x>>, {RootSource})])

(* A member of a bundle: its source record, and its primitives; the ones of ACIS bodies have a diagnostic. *)
MemberSource(path, digest) == <<"src_dxf_bundle", digest, path>>
MemberRecords(path, digest, doc) ==
    <<Record(MemberSource(path, digest), {})>>
    \o ForEach([h \in Handles(doc) |-> Record(<<"prim_dxf_bundle", digest, path, h>>, {MemberSource(path, digest)})])
MemberDiagnostics(path, digest, doc) ==
    ForEach([h \in Solids(doc) |-> Record(<<"diag_dxf_bundle", digest, h>>, {MemberSource(path, digest)})])

=============================================================================
