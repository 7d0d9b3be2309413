------------------------------ MODULE ReadingCalls ------------------------------
(* The queries, diffs and contexts that are model-checked. *)
EXTENDS Naturals, Sequences, FiniteSets
CONSTANT Nothing

Record(id, type, value, size) == [id |-> id, type |-> type, value |-> value, size |-> size]
Artifact(digest, authoritative) == [digest |-> digest, authoritative |-> authoritative]
Manifest == [version |-> "0.2.0", capabilities |-> [text |-> "partial"], loss |-> "l1", identity |-> [package |-> "p1"],
             producer |-> [name |-> "aecctx"], artifacts |-> [sources |-> Artifact("s1", TRUE), entities |-> Artifact("e1", TRUE),
                                                             diagnostics |-> Artifact("d1", TRUE), mesh |-> Artifact("m1", TRUE),
                                                             preview |-> Artifact("v1", FALSE)]]
Content(manifest, files) == [valid |-> TRUE, manifest |-> manifest, files |-> files]

R1 == Record(1, "source", "1", 100)
R2 == Record(2, "entity", "true", 100)
R3 == Record(3, "entity", Nothing, 100)
R4 == Record(4, "diagnostic", "2", 100)
Base == Content(Manifest, <<<<R1>>, <<R2, R3>>, <<R4>>>>)
Damaged == [Base EXCEPT !.valid = FALSE]

Job(command, packages) ==
    [command |-> command, packages |-> packages, variants |-> {}, replacements |-> 0, profile |-> "agent", budget |-> 500,
     chunkBudget |-> 80, base |-> 300, parses |-> TRUE, type |-> "record", operator |-> "==", literal |-> "1"]

(* The budgets around every boundary of the selection; sections that do and do not fill a chunk. *)
Contexts ==
    LET sized(s) == Content(Manifest, <<<<[R1 EXCEPT !.size = s[1]]>>, <<[R2 EXCEPT !.size = s[2]], [R3 EXCEPT !.size = s[3]]>>, <<R4>>>>)
    IN  {[Job("context", <<sized(s)>>) EXCEPT !.budget = b, !.chunkBudget = c, !.profile = p] :
            s \in [1..3 -> {90, 200, 330}], b \in {1, 90, 105, 115, 120, 121, 122, 140, 170, 200, 300}, c \in {35, 60, 80, 100},
            p \in {"agent", "audit"}}
        \cup {[Job("context", <<Base>>) EXCEPT !.budget = b, !.chunkBudget = c, !.profile = p] :
                 b \in {0, 1, 200}, c \in {0, 80}, p \in {"compact", "brief"}}
        \cup {[Job("context", <<Content(Manifest, <<<<>>, <<>>, <<>>>>)>>) EXCEPT !.budget = b] : b \in {1, 200}}
        \cup {[Job("context", <<Content(Manifest, <<<<>>, [i \in 1..12 |-> Record(i, "entity", Nothing, 60)], <<>>>>)>>) EXCEPT !.budget = b, !.chunkBudget = c] :
                 b \in 150..460, c \in {22, 45}}

Queries ==
    {[Job("query", <<Base>>) EXCEPT !.type = t, !.operator = o, !.literal = l, !.parses = p] :
        t \in {"record", "entity", "relation"}, o \in {"==", "!="}, l \in {"1", "true", "2", "null"}, p \in BOOLEAN}

(* Packages that differ from the base in one thing each. *)
Revisions ==
    {Base, [Base EXCEPT !.files = <<<<R1>>, <<R2>>, <<R3, R4>>>>]}
    \cup {[Base EXCEPT !.files[2] = f] : f \in {<<>>, <<R3>>, <<[R2 EXCEPT !.value = "x"], R3>>, <<R2, R3, Record(5, "entity", "1", 40)>>}}
    \cup {[Base EXCEPT !.manifest = m] :
            m \in {[Manifest EXCEPT !.version = "0.1.0"], [Manifest EXCEPT !.capabilities.text = "full"],
                   [Manifest EXCEPT !.capabilities = [text |-> "partial", mesh |-> "full"]], [Manifest EXCEPT !.loss = "l2"],
                   [Manifest EXCEPT !.identity.package = "p2"], [Manifest EXCEPT !.producer.name = "other"],
                   [Manifest EXCEPT !.artifacts.mesh = Artifact("m2", TRUE)], [Manifest EXCEPT !.artifacts.mesh = Artifact("m1", FALSE)],
                   [Manifest EXCEPT !.artifacts.preview = Artifact("v2", FALSE)], [Manifest EXCEPT !.artifacts.preview = Artifact("v1", TRUE)],
                   [Manifest EXCEPT !.artifacts.entities = Artifact("e2", TRUE)],
                   [Manifest EXCEPT !.artifacts = [p \in DOMAIN Manifest.artifacts \ {"mesh"} |-> Manifest.artifacts[p]]]}}
Diffs == {Job("diff", <<a, b>>) : a \in Revisions, b \in Revisions} \cup {Job("diff", <<Damaged, Base>>), Job("diff", <<Base, Nothing>>)}

Replacing ==
    {[j EXCEPT !.replacements = 2,
               !.variants = {[Base EXCEPT !.files = <<<<R1>>, <<[R4 EXCEPT !.value = "1"]>>, <<R2>>>>, !.manifest.loss = "l2"], Damaged, Nothing}] :
        j \in {Job("query", <<Base>>), Job("context", <<Base>>), Job("diff", <<Base, Base>>)}}

Jobs == Contexts \cup Queries \cup Diffs \cup Replacing
=============================================================================
