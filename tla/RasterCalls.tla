-------------------------------- MODULE RasterCalls --------------------------------
(* The calls of ingest_image and ingest_pdf that are model-checked. *)
EXTENDS Naturals, Sequences
CONSTANTS None, p1, p2

Pages ==
    LET page == [text : {None, "same"}, rasters : {<<>>, <<p1>>, <<p1, p2>>, <<p1, p1>>}]
    IN  {<<a>> : a \in page} \cup {<<a, b>> : a \in page, b \in {c \in page : Len(c.rasters) <= 1}}

Word(x) == [id |-> x, sound |-> TRUE]
GoodOcr == [ok |-> TRUE, attested |-> TRUE, events |-> 1, locator |-> p1, schema |-> "words", fits |-> TRUE,
            ordered |-> TRUE, words |-> <<Word("w1"), Word("w2")>>, lines |-> <<>>, blocks |-> <<>>,
            table |-> FALSE, text |-> "same"]
Line(x, refs) == [id |-> x, refs |-> refs]
OcrResults ==
    LET layouts ==
          {[GoodOcr EXCEPT !.schema = "layout", !.words = w, !.lines = l, !.blocks = b, !.table = t] :
             w \in {<<Word("w1"), Word("w2")>>, <<Word("w1"), Word("w1")>>, <<>>},
             l \in {<<>>, <<Line("l1", {"w1", "w2"})>>, <<Line("l1", {"w1"}), Line("l1", {"w2"})>>,
                    <<Line("l1", {}), Line("l2", {"l1"})>>},
             b \in {<<>>, <<Line("b1", {"l1"})>>}, t \in BOOLEAN}
        words == {GoodOcr, [GoodOcr EXCEPT !.text = "other"], [GoodOcr EXCEPT !.words = <<>>, !.text = "none"],
                  [GoodOcr EXCEPT !.locator = p2], [GoodOcr EXCEPT !.locator = "malformed"],
                  [GoodOcr EXCEPT !.ok = FALSE, !.events = 0], [GoodOcr EXCEPT !.ok = FALSE],
                  [GoodOcr EXCEPT !.attested = FALSE], [GoodOcr EXCEPT !.events = 2],
                  [GoodOcr EXCEPT !.fits = FALSE], [GoodOcr EXCEPT !.ordered = FALSE],
                  [GoodOcr EXCEPT !.words[2].sound = FALSE]}
    IN  layouts \cup words

GoodVision == [ok |-> TRUE, attested |-> TRUE, events |-> 1, locator |-> p1, fits |-> TRUE,
               candidates |-> <<Word("c1"), Word("c2")>>, relations |-> <<Line("r1", {"c1", "c2"})>>]
VisionResults ==
    {GoodVision, [GoodVision EXCEPT !.locator = p2], [GoodVision EXCEPT !.ok = FALSE],
     [GoodVision EXCEPT !.attested = FALSE], [GoodVision EXCEPT !.events = 0], [GoodVision EXCEPT !.fits = FALSE],
     [GoodVision EXCEPT !.candidates[2].sound = FALSE], [GoodVision EXCEPT !.relations = <<Line("r1", {"c3"})>>],
     [GoodVision EXCEPT !.candidates = <<>>, !.relations = <<>>],
     [GoodVision EXCEPT !.candidates = <<Word("c1"), Word("c1")>>, !.relations = <<Line("r1", {"c1"})>>]}

Jobs ==
    LET job0(f, pages, o, v) == [format |-> f, regular |-> TRUE, version |-> "0.2.0", pages |-> pages, ocr |-> o, vision |-> v]
        results == {<<o, v>> : o \in OcrResults \cup {None}, v \in {None, GoodVision}}
                   \cup {<<None, v>> : v \in VisionResults} \cup {<<GoodOcr, v>> : v \in VisionResults}
        jobs == {job0("pdf", d, r[1], r[2]) : d \in Pages, r \in results}
                \cup {job0("image", <<[text |-> None, rasters |-> <<p1>>]>>, r[1], r[2]) : r \in results}
    IN  jobs \cup {[x EXCEPT !.regular = FALSE] : x \in {job0("pdf", <<[text |-> None, rasters |-> <<p1>>]>>, None, None)}}
        \cup {[x EXCEPT !.version = "0.1.0"] : x \in {y \in jobs : Len(y.pages) = 1 /\ y.ocr \in {None, GoodOcr}}}
=============================================================================
