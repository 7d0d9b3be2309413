-------------------------------- MODULE Reading --------------------------------
(***************************************************************************)
(* RecordStore.open and the commands that answer from it: `query`, `diff`  *)
(* and `context`.  A package is validated, and then its manifest and its   *)
(* record files are read again one by one from its path; the package there *)
(* may be replaced at any time.                                            *)
(*                                                                         *)
(* A content is whether it validates, its manifest and its record files; a *)
(* record is its identifier, its type, the value of the field that is      *)
(* queried and the bytes of its section in a context.  Sizes are bytes, as *)
(* in the code.                                                            *)
(***************************************************************************)
EXTENDS Lists

CONSTANTS
    ReadingJobs,  \* the calls
    RecordPaths,  \* the record files of a package, as artifact paths
    Nothing       \* no package, no answer, no value

VARIABLES
    job, pc,
    packages,  \* the content at each path now
    stores,    \* the packages opened so far: manifest and records
    position,  \* the record file that is read next
    seen,      \* for each path, what was there while it was opened
    answer, replaced, outcome

(***************************************************************************)
(* What the schemas and the validation of a package let through: every     *)
(* record file is there, no two records of a valid package have one        *)
(* identifier, and what its manifest maps a name to is not null.           *)
(***************************************************************************)
Ids(records) == {r.id : r \in records}
RecordsOf(content) == UNION {Range(content.files[k]) : k \in DOMAIN content.files}
IsMapping(f) == f = [key \in DOMAIN f |-> f[key]] /\ \A key \in DOMAIN f : f[key] # Nothing
IsContent(c) ==
    /\ c.valid \in BOOLEAN
    /\ DOMAIN c.files = 1..Cardinality(RecordPaths)
    /\ \A k \in DOMAIN c.files : c.files[k] \in Seq(Range(c.files[k]))
    /\ \A r \in RecordsOf(c) : r.id \in Nat /\ r.size \in Nat
    /\ c.valid => /\ \A r, s \in RecordsOf(c) : r.id = s.id => r = s
                  /\ IsMapping(c.manifest.capabilities) /\ IsMapping(c.manifest.identity) /\ IsMapping(c.manifest.producer)
IsReadingJob(j) ==
    /\ j.command \in {"context", "query", "diff"}
    /\ j.packages \in Seq(Range(j.packages)) /\ Len(j.packages) = IF j.command = "diff" THEN 2 ELSE 1
    /\ \A c \in Range(j.packages) \cup j.variants : c # Nothing => IsContent(c)
    /\ j.budget \in Nat /\ j.chunkBudget \in Nat /\ j.base \in Nat
    /\ j.operator \in {"==", "!="} /\ j.literal # Nothing

reading == <<packages, stores, position, seen, answer, replaced>>
vars == <<job, pc, reading, outcome>>

Side == Len(stores)

(***************************************************************************)
(* render_context.                                                         *)
(***************************************************************************)
estimate_tokens(bytes) == (bytes + 3) \div 4
Digits(n) == Cardinality({p \in {10, 100, 1000, 10000, 100000, 1000000, 10000000, 100000000} : p <= n}) + 1

Rank(type, profile) ==
    LET order == IF profile = "audit" THEN <<"source", "diagnostic", "primitive", "assertion", "entity", "relation">>
                 ELSE <<"source", "entity", "relation", "diagnostic", "assertion", "primitive">>
    IN  IF \E i \in 1..6 : order[i] = type THEN CHOOSE i \in 1..6 : order[i] = type ELSE 9
Before(a, b, profile) ==
    \/ Rank(a.type, profile) < Rank(b.type, profile)
    \/ Rank(a.type, profile) = Rank(b.type, profile) /\ a.id < b.id
Prioritised(records, profile) ==
    [k \in 1..Cardinality(records) |->
        CHOOSE r \in records : Cardinality({s \in records : Before(s, r, profile)}) = k - 1]

(* "# AECCTX context chunk N" and an empty line. *)
Header(number) == 25 + Digits(number)

(* _build_chunks: the bytes of each chunk, and of how many sections it is made. *)
AddSection(chunks, bytes, chunkBudget) ==
    IF chunks # <<>> /\ estimate_tokens(Last(chunks).bytes + bytes) <= chunkBudget
    THEN Append(Front(chunks), [bytes |-> Last(chunks).bytes + bytes, sections |-> Last(chunks).sections + 1])
    ELSE Append(chunks, [bytes |-> Header(Len(chunks) + 1) + bytes, sections |-> 1])
Chunks(sections, chunkBudget) ==
    LET built[k \in 0..Len(sections)] == IF k = 0 THEN <<>> ELSE AddSection(built[k - 1], sections[k], chunkBudget)
    IN  built[Len(sections)]

(* _index: a link per chunk, or a line that says there is none. *)
IndexBytes(base, budget, included, omitted, chunks, estimate) ==
    base + Digits(budget) + Digits(included) + Digits(omitted) + Digits(estimate)
    + (IF chunks = <<>> THEN 43 ELSE 31 * Len(chunks) - 1)

Sum(numbers) ==
    LET sum[k \in 0..Len(numbers)] == IF k = 0 THEN 0 ELSE sum[k - 1] + numbers[k]
    IN  sum[Len(numbers)]
Tokens(chunks) == Sum([k \in DOMAIN chunks |-> estimate_tokens(chunks[k].bytes)])
Sizes(records) == [k \in DOMAIN records |-> records[k].size]
TotalWithoutIndex(selected, all, estimate) == Tokens(Chunks(Sizes(selected), job.chunkBudget))
Total(selected, all, estimate) ==
    LET chunks == Chunks(Sizes(selected), job.chunkBudget)
    IN  estimate_tokens(IndexBytes(job.base, job.budget, Len(selected), all - Len(selected), chunks, estimate)) + Tokens(chunks)

Placeholder == 999999
Fits(selected, r, all) ==
    /\ estimate_tokens(r.size) <= job.chunkBudget
    /\ Total(Append(selected, r), all, Placeholder) <= job.budget
Consider(selected, r, all) == IF Fits(selected, r, all) THEN Append(selected, r) ELSE selected
Selected(ordered) ==
    LET selected[k \in 0..Len(ordered)] == IF k = 0 THEN <<>> ELSE Consider(selected[k - 1], ordered[k], Len(ordered))
    IN  selected[Len(ordered)]

ContextOf(store) ==
    LET ordered == Prioritised(store.records, job.profile)
        included == Selected(ordered)
        printed == Total(included, Len(ordered), Placeholder)
    IN  [included |-> included,
         omitted |-> Range(ordered) \ Range(included),
         chunks |-> Chunks(Sizes(included), job.chunkBudget),
         printed |-> printed,
         estimate |-> Total(included, Len(ordered), printed)]

(***************************************************************************)
(* query_package.  Python compares the JSON values: true equals 1.         *)
(***************************************************************************)
Equal(a, b) == a = b \/ {a, b} = {"true", "1"}
Matches(record, literal) == record.value # Nothing /\ Equal(record.value, literal)
Answering(records, operator) ==
    {r \in records : /\ job.type \in {"record", r.type}
                     /\ IF operator = "==" THEN Matches(r, job.literal) ELSE ~Matches(r, job.literal)}
QueryOf(store) == Answering(store.records, job.operator)

(***************************************************************************)
(* diff_packages.                                                          *)
(***************************************************************************)
Get(f, key) == IF key \in DOMAIN f THEN f[key] ELSE Nothing
Change(before, after) == [before |-> before, after |-> after]
MappingDiff(f, g) ==
    [k \in {key \in DOMAIN f \cup DOMAIN g : Get(f, key) # Get(g, key)} |-> Change(Get(f, k), Get(g, k))]

AuthoritativeChanges(before, after) ==
    LET authoritative(m, p) == p \in DOMAIN m /\ m[p].authoritative
        digest(m, p) == IF p \in DOMAIN m THEN m[p].digest ELSE Nothing
        paths == {p \in (DOMAIN before \cup DOMAIN after) \ RecordPaths : authoritative(before, p) \/ authoritative(after, p)}
        changed == {p \in paths : \/ digest(before, p) # digest(after, p)
                                  \/ authoritative(before, p) # authoritative(after, p)}
    IN  [p \in changed |-> Change(digest(before, p), digest(after, p))]

DiffOf(before, after) ==
    LET b == before.manifest
        a == after.manifest
        shared == Ids(before.records) \cap Ids(after.records)
    IN  [added |-> Ids(after.records) \ Ids(before.records),
         removed |-> Ids(before.records) \ Ids(after.records),
         changed |-> {i \in shared : {r \in before.records : r.id = i} # {r \in after.records : r.id = i}},
         artifacts |-> AuthoritativeChanges(b.artifacts, a.artifacts),
         capabilities |-> MappingDiff(b.capabilities, a.capabilities),
         loss |-> IF b.loss = a.loss THEN {} ELSE {Change(b.loss, a.loss)},
         identity |-> MappingDiff(b.identity, a.identity),
         producer |-> MappingDiff(b.producer, a.producer),
         version |-> IF b.version = a.version THEN {} ELSE {Change(b.version, a.version)}]

SemanticChange(diff) ==
    \/ diff.added \cup diff.removed \cup diff.changed # {}
    \/ DOMAIN diff.artifacts # {} \/ DOMAIN diff.capabilities # {}
    \/ diff.loss # {}
    \/ DOMAIN diff.identity # {} \/ DOMAIN diff.producer # {}
    \/ diff.version # {}

(***************************************************************************)
(* The call.                                                               *)
(***************************************************************************)
Init ==
    /\ job \in ReadingJobs
    /\ pc = "arguments"
    /\ packages = job.packages
    /\ stores = <<>> /\ position = 1 /\ seen = <<>>
    /\ answer = Nothing /\ replaced = 0
    /\ outcome = "running"

Stop(how) == pc' = "done" /\ outcome' = how

(* An unknown profile, a budget below one, a query that does not parse. *)
ArgumentDefect ==
    CASE job.command = "context" /\ (job.profile \notin {"agent", "audit", "compact"} \/ job.budget < 1 \/ job.chunkBudget < 1) -> "ValueError"
      [] job.command = "query" /\ ~job.parses -> "ValueError"
      [] OTHER -> "none"

CheckArguments ==
    /\ pc = "arguments"
    /\ IF ArgumentDefect = "none" THEN pc' = "validate" /\ UNCHANGED outcome ELSE Stop(ArgumentDefect)
    /\ UNCHANGED <<job, reading>>

Here == packages[Side + 1]

Validate ==
    /\ pc = "validate"
    /\ seen' = Append(seen, {Here})
    /\ IF Here # Nothing /\ Here.valid THEN pc' = "manifest" /\ UNCHANGED outcome ELSE Stop("ValueError")
    /\ UNCHANGED <<job, packages, stores, position, answer, replaced>>

(* A manifest that disappeared raises PackageReadError, which is no ValueError. *)
ReadManifest ==
    /\ pc = "manifest"
    /\ IF Here = Nothing THEN Stop("PackageReadError") /\ UNCHANGED <<stores, position>>
       ELSE /\ stores' = Append(stores, [manifest |-> Here.manifest, records |-> {}])
            /\ position' = 1 /\ pc' = "records" /\ UNCHANGED outcome
    /\ UNCHANGED <<job, packages, seen, answer, replaced>>

(* A line replaces an earlier one with its record_id. *)
LastOf(file) == {k \in DOMAIN file : \A l \in DOMAIN file : l > k => file[l].id # file[k].id}
Read(records, file) == {r \in records : r.id \notin Ids(Range(file))} \cup {file[k] : k \in LastOf(file)}
NextPc == IF Side < Len(packages) THEN "validate" ELSE "answer"

ReadRecords ==
    /\ pc = "records"
    /\ IF packages[Side] = Nothing THEN Stop("PackageReadError") /\ UNCHANGED <<stores, position>>
       ELSE /\ stores' = [stores EXCEPT ![Side].records = Read(@, packages[Side].files[position])]
            /\ position' = position + 1
            /\ pc' = IF position < Len(packages[Side].files) THEN "records" ELSE NextPc
            /\ UNCHANGED outcome
    /\ UNCHANGED <<job, packages, seen, answer, replaced>>

Answer ==
    /\ pc = "answer"
    /\ answer' = CASE job.command = "context" -> ContextOf(stores[1])
                   [] job.command = "query" -> QueryOf(stores[1])
                   [] job.command = "diff" -> DiffOf(stores[1], stores[2])
    /\ Stop("answered")
    /\ UNCHANGED <<job, packages, stores, position, seen, replaced>>

Opening(side) == (pc = "manifest" /\ side = Side + 1) \/ (pc = "records" /\ side = Side)
Replace(side, new) ==
    /\ pc # "done" /\ replaced < job.replacements
    /\ new # packages[side]
    /\ packages' = [packages EXCEPT ![side] = new]
    /\ seen' = IF Opening(side) THEN [seen EXCEPT ![side] = @ \cup {new}] ELSE seen
    /\ replaced' = replaced + 1
    /\ UNCHANGED <<job, pc, stores, position, answer, outcome>>

Next ==
    \/ CheckArguments \/ Validate \/ ReadManifest \/ ReadRecords \/ Answer
    \/ \E side \in DOMAIN packages, new \in job.variants : Replace(side, new)

Spec == Init /\ [][Next]_vars

----------------------------------------------------------------------------
Answered(command) == outcome = "answered" /\ job.command = command
(* The content a package had while it was opened, when there was only one. *)
Opened(side) == CHOOSE c \in seen[side] : TRUE
Undisturbed == \A side \in DOMAIN seen : Cardinality(seen[side]) = 1

(***************************************************************************)
(* A context says of every record of the package, in the order of its      *)
(* profile, whether it is in a chunk; a record is left out only if there   *)
(* was no room for it after those before it; a chunk of several records    *)
(* keeps to its budget; and the files that are written keep to the budget, *)
(* whatever estimate was put into the index while they were chosen, the    *)
(* printed estimate being at most two tokens above the real one.  Below a  *)
(* million tokens, the width of the placeholder, and unless nothing fits.  *)
(***************************************************************************)
ContextFits ==
    Answered("context") =>
        LET included == answer.included
            before(r, n) == \A k \in DOMAIN included : Before(included[k], r, job.profile) <=> k <= n
            all == Len(included) + Cardinality(answer.omitted)
            written == estimate_tokens(IndexBytes(job.base, job.budget, Len(included), Cardinality(answer.omitted), answer.chunks,
                                                  answer.printed)) + Tokens(answer.chunks)
        IN  /\ Undisturbed => Range(included) \cup answer.omitted = RecordsOf(Opened(1))
            /\ all = Cardinality(stores[1].records)
            /\ Sum([k \in DOMAIN answer.chunks |-> answer.chunks[k].sections]) = Len(included)
            /\ \A k \in 2..Len(included) : Before(included[k - 1], included[k], job.profile)
            /\ \A r \in answer.omitted :
                 \E n \in 0..Len(included) : before(r, n) /\ ~Fits(SubSeq(included, 1, n), r, all)
            /\ \A k \in DOMAIN answer.chunks :
                 answer.chunks[k].sections > 1 => estimate_tokens(answer.chunks[k].bytes) <= job.chunkBudget
            /\ answer.printed <= Placeholder /\ included # <<>> => written <= job.budget
            /\ answer.estimate = written
            /\ answer.printed <= Placeholder => answer.printed - answer.estimate \in 0..2

(* What a package asserts: its records and what its manifest says of them, and no more. *)
Asserted(content) ==
    LET m == content.manifest
        kept == {p \in DOMAIN m.artifacts \ RecordPaths : m.artifacts[p].authoritative}
    IN  <<RecordsOf(content), m.capabilities, m.loss, m.identity, m.producer, m.version, [p \in kept |-> m.artifacts[p].digest]>>

Swapped(diff) ==
    LET swap(c) == Change(c.after, c.before)
        swapAll(f) == [k \in DOMAIN f |-> swap(f[k])]
    IN  [added |-> diff.removed, removed |-> diff.added, changed |-> diff.changed, artifacts |-> swapAll(diff.artifacts),
         capabilities |-> swapAll(diff.capabilities), loss |-> {swap(c) : c \in diff.loss}, identity |-> swapAll(diff.identity),
         producer |-> swapAll(diff.producer), version |-> {swap(c) : c \in diff.version}]

(***************************************************************************)
(* A diff has no semantic change exactly when the two packages assert the  *)
(* same: repacking one, another derived artifact or another preview is no  *)
(* change, and anything else is.  The diff of the packages the other way   *)
(* round says the opposite.                                                *)
(***************************************************************************)
DiffIsExact ==
    Answered("diff") =>
        /\ Undisturbed => SemanticChange(answer) = (Asserted(Opened(1)) # Asserted(Opened(2)))
        /\ DiffOf(stores[2], stores[1]) = Swapped(answer)

(***************************************************************************)
(* The two operators of a query divide the records of its type: a record   *)
(* without the field answers `!=`; and what is opened without a            *)
(* replacement is the package that was validated, all of it.               *)
(***************************************************************************)
QueryDivides ==
    Answered("query") =>
        LET asked == {r \in stores[1].records : job.type \in {"record", r.type}}
            other == IF job.operator = "==" THEN "!=" ELSE "=="
        IN  /\ Undisturbed => stores[1].records = RecordsOf(Opened(1)) /\ Opened(1).valid
            /\ answer \cup Answering(stores[1].records, other) = asked
            /\ answer \cap Answering(stores[1].records, other) = {}
            /\ \A r \in asked : r.value = job.literal => (r \in answer) = (job.operator = "==")
            /\ \A r \in asked : r.value = Nothing => (r \in answer) = (job.operator = "!=")

(* Only a package that was taken away while it was opened ends a command with an unforeseen error. *)
Surprised == outcome = "PackageReadError"
SurpriseNeedsReplacement == Surprised => ~Undisturbed

=============================================================================
