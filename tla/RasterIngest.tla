---------------------------- MODULE RasterIngest ----------------------------
(***************************************************************************)
(* ingest_image and ingest_pdf with the OCR and vision results a caller    *)
(* may hand them: the baseline records of the pages and rasters, the two   *)
(* mappers that bind a provider result to one raster of the source, the    *)
(* losses, and the sort that precedes the writing of the package.          *)
(*                                                                         *)
(* A raster is its pixels (equal pixels have equal digests); texts are     *)
(* compared after normalisation; coordinates, confidences, metadata and    *)
(* the wording of diagnostics are left out.                                *)
(***************************************************************************)
EXTENDS Lists

CONSTANTS
    RasterJobs,  \* the calls
    None         \* no provider result, no native text

VARIABLES
    job,          \* the call in progress
    pc,           \* the next step of the call
    records,      \* the records other than diagnostics, in order
    diagnostics,  \* the diagnostics, in order
    verdicts,     \* what became of the OCR and of the vision result
    outcome       \* how the call ended

vars == <<job, pc, records, diagnostics, verdicts, outcome>>

(* An image is one raster; the schema of an OCR result is that of words or of a layout. *)
IsRasterJob(j) ==
    /\ j.format \in {"image", "pdf"}
    /\ IsList(j.pages) /\ \A i \in DOMAIN j.pages : IsList(j.pages[i].rasters)
    /\ j.format = "image" => Len(j.pages) = 1 /\ Len(j.pages[1].rasters) = 1
    /\ j.ocr # None => IsList(j.ocr.words) /\ IsList(j.ocr.lines) /\ IsList(j.ocr.blocks) /\ j.ocr.schema \in {"words", "layout"}
    /\ j.vision # None => IsList(j.vision.candidates) /\ IsList(j.vision.relations)

(***************************************************************************)
(* The baseline.  A record has an identifier, the records its provenance,  *)
(* evidence, subject or value names, and its evidence class; a raster also *)
(* has its pixels and a native text its value.                             *)
(***************************************************************************)
Source == <<"source">>
Observed(id, content) == [id |-> id, refs |-> {Source}, class |-> "observed", content |-> content]
Native(i) == <<"text", i>>
Raster(i, k) == <<"raster", i, k>>

PageRecords(j, i) ==
    LET page == j.pages[i]
    IN  (IF j.format = "pdf" THEN <<Observed(<<"page", i>>, None)>> ELSE <<>>)
        \o (IF page.text = None THEN <<>> ELSE <<Observed(Native(i), page.text)>>)
        \o [k \in 1..Len(page.rasters) |-> Observed(Raster(i, k), page.rasters[k])]

Baseline(j) ==
    <<[id |-> Source, refs |-> {}, class |-> "observed", content |-> None]>>
    \o Concat([i \in 1..Len(j.pages) |-> PageRecords(j, i)])

(* The rasters of the source with these pixels, as <<page, index>>. *)
Candidates(j, pixels) ==
    {c \in UNION {{i} \X DOMAIN j.pages[i].rasters : i \in DOMAIN j.pages} : j.pages[c[1]].rasters[c[2]] = pixels}

(* The first check of a sequence of <<holds, code>> that fails. *)
FirstFailure(checks) ==
    LET failed == {i \in 1..Len(checks) : ~checks[i][1]}
    IN  IF failed = {} THEN "accepted" ELSE checks[Min(failed)][2]

(***************************************************************************)
(* The raster a result is about.  A PDF looks for the one raster with the  *)
(* digest the result names; an image has one raster and leaves the         *)
(* comparison to the mapper.                                               *)
(***************************************************************************)
Located(j, result) ==
    IF j.format = "image"
    THEN << >>
    ELSE << <<result.events = 1 /\ result.locator # "malformed", "EVENT_PROFILE_INVALID">>,
            <<Cardinality(Candidates(j, result.locator)) = 1, "INPUT_ARTIFACT_AMBIGUOUS">> >>

Target(j, result) ==
    IF j.format = "image" THEN <<1, 1>> ELSE CHOOSE c \in Candidates(j, result.locator) : TRUE

Names(items) == {items[k].id : k \in 1..Len(items)}
DistinctNames(items) == Cardinality(Names(items)) = Len(items)

(* map_ocr_result: lines and blocks refer to words, lines and blocks created before them. *)
Regions(result) == result.lines \o result.blocks
RefsCreated(result) ==
    \A k \in 1..Len(Regions(result)) :
        Regions(result)[k].refs \subseteq Names(result.words) \cup {Regions(result)[m].id : m \in 1..(k - 1)}

OcrChecks(j, result) ==
    Located(j, result) \o
    << <<result.ok, "PROVIDER_FAILED">>,
       <<result.attested, "ATTESTATION_INVALID">>,
       <<result.events = 1, "EVENT_PROFILE_INVALID">>,
       <<result.fits, "EVENT_PROFILE_INVALID">>,
       <<result.ordered, "READING_ORDER_INVALID">>,
       <<Target(j, result) \in Candidates(j, result.locator), "INPUT_HASH_MISMATCH">>,
       <<\A k \in 1..Len(result.words) : result.words[k].sound, "WORD_INVALID">>,
       <<result.schema = "layout" => DistinctNames(result.words) /\ RefsCreated(result), "LAYOUT_INVALID">> >>

OcrVerdict(j) ==
    IF j.ocr = None THEN "absent"
    ELSE LET located == FirstFailure(Located(j, j.ocr))
         IN  IF located # "accepted" THEN located ELSE FirstFailure(OcrChecks(j, j.ocr))

Inferred(id, refs) == [id |-> id, refs |-> refs, class |-> "inferred", content |-> None]
Derived(id, refs, content) == [id |-> id, refs |-> refs, class |-> "derived", content |-> content]

OcrPrimitives(j) ==
    LET at == Target(j, j.ocr)
        word(k) == <<"ocr_word", at, k>>
        region(x) == <<"ocr_region", at, x>>
        record(x) == IF x \in Names(j.ocr.words)
                     THEN word(CHOOSE k \in 1..Len(j.ocr.words) : j.ocr.words[k].id = x)
                     ELSE region(x)
    IN  [k \in 1..Len(j.ocr.words) |-> Inferred(word(k), {Raster(at[1], at[2])})]
        \o (IF j.ocr.schema = "words" THEN <<>>
            ELSE [k \in 1..Len(Regions(j.ocr)) |->
                    Inferred(region(Regions(j.ocr)[k].id), {record(x) : x \in Regions(j.ocr)[k].refs})]
                 \o (IF j.ocr.table
                     THEN <<Inferred(<<"ocr_table", at>>, {word(k) : k \in 1..Len(j.ocr.words)})>>
                     ELSE <<>>))

(* The native text of the raster's page, compared with the text of the words. *)
NativeText(j) == IF j.format = "image" THEN None ELSE j.pages[Target(j, j.ocr)[1]].text
Comparison(j) ==
    LET at == Target(j, j.ocr)
        cited == {Native(at[1])} \cup Names(OcrPrimitives(j))
    IN  IF NativeText(j) = None THEN <<>>
        ELSE <<Derived(<<"assert_ocr_native", at>>, cited \cup {Raster(at[1], at[2])},
                       IF NativeText(j) = j.ocr.text THEN "equivalent" ELSE "conflicted")>>

Diagnostic(id, code, refs) == [id |-> id, code |-> code, refs |-> refs]
OcrDiagnostics(j) ==
    LET at == Target(j, j.ocr)
        diagnostic(code, refs) == Diagnostic(<<"diag_ocr", at, code>>, code, refs)
    IN  (IF OcrPrimitives(j) = <<>>
         THEN <<diagnostic("OCR_NO_TEXT_DETECTED", {Raster(at[1], at[2])})>> ELSE <<>>)
        \o (IF NativeText(j) \in {None, j.ocr.text} THEN <<>>
            ELSE <<diagnostic("OCR_NATIVE_TEXT_CONFLICT", {Native(at[1])} \cup Names(OcrPrimitives(j)))>>)

(***************************************************************************)
(* map_vision_result.                                                      *)
(***************************************************************************)
VisionChecks(j, result) ==
    << <<result.ok, "rejected">>, <<result.attested, "rejected">>, <<result.events = 1, "rejected">>,
       <<Target(j, result) \in Candidates(j, result.locator), "rejected">>,
       <<result.fits, "rejected">>,
       <<\A k \in 1..Len(result.candidates) : result.candidates[k].sound, "rejected">>,
       <<\A k \in 1..Len(result.relations) : result.relations[k].refs \subseteq Names(result.candidates), "rejected">> >>

VisionVerdict(j) ==
    IF j.vision = None THEN "absent"
    ELSE IF FirstFailure(Located(j, j.vision)) # "accepted" THEN "rejected"
    ELSE FirstFailure(VisionChecks(j, j.vision))

(* Candidates are primitives; containments and reconstructions are assertions about them. *)
VisionRecords(j) ==
    LET at == Target(j, j.vision)
        candidate(x) == <<"vision", at, x>>
    IN  [k \in 1..Len(j.vision.candidates) |-> Inferred(candidate(j.vision.candidates[k].id), {Raster(at[1], at[2])})]
        \o [k \in 1..Len(j.vision.relations) |->
              Inferred(<<"assert_vision", j.vision.relations[k].id>>,
                       {candidate(x) : x \in j.vision.relations[k].refs})]

(* The diagnostic of an empty result, and the adapters' one of a rejected result, have no record_id. *)
VisionDiagnostics(j, verdict) ==
    CASE verdict = "rejected" -> <<[code |-> "VISION_PROVIDER_RESULT_REJECTED", refs |-> {}]>>
      [] verdict = "accepted" /\ j.vision.candidates = <<>> -> <<[code |-> "VISION_NO_CANDIDATE", refs |-> {}]>>
      [] OTHER -> <<>>

(***************************************************************************)
(* Losses: the fixed ones of the format, and the one of the text.          *)
(***************************************************************************)
HasText(j) == \E i \in 1..Len(j.pages) : j.pages[i].text # None
TextLevel(j, ocr) ==
    CASE ocr = "accepted" -> "partial"
      [] ocr # "accepted" /\ j.format = "pdf" /\ HasText(j) -> "full"
      [] OTHER -> "unsupported"

TextReason(ocr) ==
    CASE ocr = "accepted" -> "OCR_INFERRED_UNVERIFIED"
      [] ocr = "absent" -> "OCR_PROVIDER_NOT_CONFIGURED"
      [] OTHER -> "OCR_PROVIDER_RESULT_REJECTED"

Loss(capability, reason) == Diagnostic(<<"diag_loss", capability>>, reason, {Source})
Losses(j, ocr) ==
    <<Loss("3d_geometry", "HIDDEN_GEOMETRY_UNSUPPORTED")>>
    \o (IF TextLevel(j, ocr) = "full" THEN <<>> ELSE <<Loss("text", TextReason(ocr))>>)

Rejection(code) == Diagnostic(<<"diag_ocr_rejected", code>>, code, {Source})

(***************************************************************************)
(* The call.                                                               *)
(***************************************************************************)
Init ==
    /\ job \in RasterJobs
    /\ pc = "arguments"
    /\ records = <<>>
    /\ diagnostics = <<>>
    /\ verdicts = [ocr |-> "absent", vision |-> "absent"]
    /\ outcome = "running"

Goto(from, to) == pc = from /\ pc' = to

Stop(how) == pc' = "done" /\ outcome' = how

Refuse ==
    /\ pc = "arguments"
    /\ \/ ~job.regular
       \/ job.version = "0.1.0" /\ {job.ocr, job.vision} # {None}
    /\ Stop("refused")
    /\ UNCHANGED <<job, records, diagnostics, verdicts>>

Extract ==
    /\ Goto("arguments", "ocr")
    /\ job.regular
    /\ job.version = "0.1.0" => {job.ocr, job.vision} = {None}
    /\ records' = Baseline(job)
    /\ UNCHANGED <<job, diagnostics, verdicts, outcome>>

MapOcr ==
    /\ Goto("ocr", "vision")
    /\ verdicts' = [verdicts EXCEPT !.ocr = OcrVerdict(job)]
    /\ IF OcrVerdict(job) = "accepted"
       THEN /\ records' = records \o OcrPrimitives(job) \o Comparison(job)
            /\ diagnostics' = diagnostics \o OcrDiagnostics(job)
       ELSE UNCHANGED <<records, diagnostics>>
    /\ UNCHANGED <<job, outcome>>

MapVision ==
    /\ Goto("vision", "losses")
    /\ verdicts' = [verdicts EXCEPT !.vision = VisionVerdict(job)]
    /\ records' = IF VisionVerdict(job) = "accepted" THEN records \o VisionRecords(job) ELSE records
    /\ diagnostics' = diagnostics \o VisionDiagnostics(job, VisionVerdict(job))
    /\ UNCHANGED <<job, outcome>>

Declare ==
    /\ Goto("losses", "sort")
    /\ diagnostics' = Losses(job, verdicts.ocr) \o diagnostics
                      \o (IF verdicts.ocr \in {"absent", "accepted"} THEN <<>> ELSE <<Rejection(verdicts.ocr)>>)
    /\ UNCHANGED <<job, records, verdicts, outcome>>

(* The sort key of every diagnostic is its record_id. *)
Sort ==
    /\ pc = "sort"
    /\ IF \E d \in Range(diagnostics) : "id" \notin DOMAIN d
       THEN Stop("KeyError")
       ELSE Stop("written")
    /\ UNCHANGED <<job, records, diagnostics, verdicts>>

Next == Refuse \/ Extract \/ MapOcr \/ MapVision \/ Declare \/ Sort

Spec == Init /\ [][Next]_vars

----------------------------------------------------------------------------
Written == outcome = "written"

Positions(S) == 1..Len(S)
All == records \o diagnostics

(* Providers number the lines, blocks and tables of a layout, the candidates and the relations of a
   vision result uniquely; neither schema nor mapper checks it. *)
UniquelyNumbered(j) ==
    /\ j.ocr # None => DistinctNames(Regions(j.ocr))
    /\ j.vision # None => DistinctNames(j.vision.candidates) /\ DistinctNames(j.vision.relations)

(***************************************************************************)
(* The package holds together: what image.py and pdf.py write has globally *)
(* unique record identifiers, and every record that a provenance, an       *)
(* evidence list, a subject or a diagnostic names is in the package,       *)
(* whichever result was mapped or rejected on the way.                     *)
(***************************************************************************)
WrittenIsClosed ==
    Written /\ UniquelyNumbered(job) =>
        /\ \A a, b \in Positions(All) : All[a].id = All[b].id => a = b
        /\ \A a \in Positions(All) : All[a].refs \subseteq Names(All)

(***************************************************************************)
(* Inference only adds.  Whatever result is supplied, the observed records *)
(* are those of an ingest without one; an inferred record rests on the one *)
(* raster of the source whose pixels its provider was given: it cites that *)
(* raster itself, or inferred records before it that were read from it (a  *)
(* line or a table without words cites nothing); and an OCR text that      *)
(* differs from the native text of its page is recorded as a conflict that *)
(* cites both, neither of which is dropped (inference-v02-profile          *)
(* section 4).                                                             *)
(***************************************************************************)
InferenceOnlyAdds ==
    Written =>
        /\ Filtered(records, {r \in Range(records) : r.class = "observed"}) = Baseline(job)
        /\ \A a \in Positions(records) : records[a].class = "inferred" =>
             \E result \in {job.ocr, job.vision} \ {None} : \E c \in Candidates(job, result.locator) :
                /\ Candidates(job, result.locator) = {c}
                /\ \E r \in Range(records) : r.id = Raster(c[1], c[2]) /\ r.content = result.locator
                /\ \A x \in records[a].refs :
                     \/ x = Raster(c[1], c[2]) /\ records[a].id[2] = c
                     \/ \E b \in 1..(a - 1) : records[b].id = x /\ records[b].class = "inferred" /\ x[2] = c
        /\ (verdicts.ocr = "accepted" /\ NativeText(job) \notin {None, job.ocr.text}) =>
             \E a \in Positions(records) :
                /\ records[a].content = "conflicted"
                /\ Names(OcrPrimitives(job)) \cup {Native(Target(job, job.ocr)[1])} \subseteq records[a].refs
                /\ \E d \in Range(diagnostics) : d.code = "OCR_NATIVE_TEXT_CONFLICT"

(***************************************************************************)
(* A result is never silently used or dropped: a written package says of   *)
(* a supplied OCR result either that the text is inferred or, by a         *)
(* diagnostic with the reason, that it was rejected, and a rejected result *)
(* leaves no inferred record.                                              *)
(***************************************************************************)
ResultsAreDeclared ==
    Written /\ job.ocr # None =>
        LET ocrRecords == {r \in Range(records) : r.id[1] \in {"ocr_word", "ocr_region", "ocr_table", "assert_ocr_native"}}
        IN  IF verdicts.ocr = "accepted"
            THEN <<"diag_loss", "text">> \in Names(diagnostics)
            ELSE ocrRecords = {} /\ \E d \in Range(diagnostics) : d.code = verdicts.ocr

=============================================================================
