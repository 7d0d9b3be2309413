------------------------------- MODULE MCCommands -------------------------------
(* The command lines of the program and the jobs of its components that are model-checked. *)
EXTENDS Commands

CONSTANTS p1, p2

RasterC == INSTANCE RasterCalls WITH None <- Nil
DxfC == INSTANCE DxfCalls WITH Absent <- Nil
IfcC == INSTANCE IfcCalls WITH Unset <- Nil
ExchangeC == INSTANCE ExchangeCalls WITH NoResult <- Nil
GeometryC == INSTANCE GeometryCalls WITH Undeclared <- Nil
SigningC == INSTANCE SigningCalls WITH NoStatement <- Nil
ReadingC == INSTANCE ReadingCalls WITH Nothing <- Nil

TriedRasters == RasterC!Jobs
TriedDrawings == DxfC!Jobs
TriedBuildings == IfcC!Jobs
TriedExchanges == ExchangeC!Jobs
TriedMeshes == GeometryC!Jobs
TriedSignings == SigningC!Jobs
TriedReadings == ReadingC!Jobs
TriedWorkers ==  \* all of them
    [runner : {"plugin", "ids"}, admitted : BOOLEAN, answer : {"ok", "failure"}, length : 1..MaxLength,
     hangs : BOOLEAN, deaf : BOOLEAN, mortal : BOOLEAN]

----------------------------------------------------------------------------
Replay(n) == [corpus |-> IF n = 0 THEN "none" ELSE "sound", entries |-> n, strays |-> 0]
Plain(adapter, isBundle, version) ==
    [adapter |-> "auto", source |-> [bundle |-> isBundle, readable |-> TRUE, probes |-> {adapter}, raises |-> FALSE],
     version |-> version, missing |-> {},
     coordinate |-> "none", crs |-> "none", inference |-> Replay(0), vision |-> Replay(0), provider |-> Replay(0)]
Count(value) == IF value = Nil THEN 0 ELSE 1

(* The command line that asks for a job. *)
Asking(c, j) ==
    CASE c = "raster" -> [Plain(j.format, FALSE, j.version) EXCEPT !.inference = Replay(Count(j.ocr)), !.vision = Replay(Count(j.vision))]
      [] c = "dxf" -> Plain("dxf", j.form = "bundle", j.version)
      [] c = "ifc" -> Plain("ifc", FALSE, j.version)
      [] c = "exchange" ->
           [Plain(IF j.adapter = "step" THEN "step-iges" ELSE "dwg", j.form = "bundle", j.version) EXCEPT
               !.adapter = IF j.form = "bundle" THEN "dwg" ELSE "auto",
               !.provider = Replay(IF j.form = "bundle" THEN Cardinality(DOMAIN j.results) ELSE Count(j.result))]
      [] c = "geometry" ->
           [Plain("geometry", FALSE, j.version) EXCEPT !.coordinate = IF j.profile = Nil THEN "none" ELSE "sound",
                                                       !.crs = IF j.registry = Nil THEN "none" ELSE "sound"]
      [] OTHER -> [Plain("pdf", FALSE, "0.1.0") EXCEPT !.source.probes = {}]

(* The defects of a command line, each on its own. *)
Wrong(c) ==
    {[c EXCEPT !.adapter = "auto", !.source.readable = FALSE], [c EXCEPT !.coordinate = "defective"], [c EXCEPT !.crs = "defective"],
     [c EXCEPT !.coordinate = "sound", !.crs = "sound"], [c EXCEPT !.provider = Replay(2), !.source.bundle = FALSE]}
    \cup {[c EXCEPT ![k] = [Replay(1) EXCEPT !.corpus = m]] : k \in {"inference", "vision", "provider"}, m \in {"none", "broken"}}
    \cup {[c EXCEPT ![k] = [Replay(0) EXCEPT !.corpus = "sound"]] : k \in {"inference", "vision", "provider"}}
    \cup {[c EXCEPT ![k].corpus = "foreign"] : k \in {"vision", "provider"}}

(* What can go wrong with the libraries, for an adapter that is named and for one that is found. *)
Lacking(c) ==
    {[c EXCEPT !.adapter = a, !.missing = {l}] : a \in {c.adapter, Adapter(c)}, l \in {"ifc", "dxf", "pdf", "geometry", "image"}}
    \cup {[c EXCEPT !.source.raises = TRUE]}

(* The entries of a DWG bundle with one more that is no member's. *)
Strayed(c) == {[c EXCEPT !.provider = [Replay(@.entries + 1) EXCEPT !.strays = 1]]}

(* Options of one adapter given to another. *)
Misplaced(c) ==
    {[c EXCEPT !.version = v, ![k] = Replay(1)] : v \in {"0.1.0", "0.2.0"}, k \in {"inference", "vision", "provider"}}
    \cup {[c EXCEPT !.version = v, ![k] = "sound"] : v \in {"0.1.0", "0.2.0"}, k \in {"coordinate", "crs"}}
    \cup {[c EXCEPT !.version = "0.2.0"]}

(* A replay given to an adapter that takes none. *)
Ignored(c) == {[c EXCEPT ![k] = Replay(1)] : k \in {"inference", "vision", "provider"}}

(* The drawings whose blocks a and b are empty. *)
Flat == {j \in DxfC!Drawings : LET blocks == j.files[0].doc.blocks IN {"a", "b"} \subseteq DOMAIN blocks /\ blocks["a"] = <<>> /\ blocks["b"] = <<>>}

(* An opaque file, and one that two formats claim, are tried with every defect. *)
TriedCalls(c, j) ==
    LET asked == Asking(c, j)
    IN  CASE c = "opaque" ->
               {asked, [asked EXCEPT !.adapter = "opaque", !.source.probes = {"pdf"}]} \cup Misplaced(asked) \cup Wrong(asked) \cup Lacking(asked)
          [] c = "geometry" -> {asked} \cup {w \in Wrong(asked) \cup Ignored(asked) \cup Lacking(asked) : w # asked}
          [] c = "raster" /\ j.ocr = RasterC!GoodOcr /\ j.vision = RasterC!GoodVision /\ j.version = "0.2.0" ->
               {asked, [asked EXCEPT !.source.probes = @ \cup {"image"}]} \cup Wrong(asked) \cup Lacking(asked)
          [] c = "exchange" /\ j.form = "file" /\ j.version = "0.2.0" /\ j.result # Nil -> {asked} \cup Wrong(asked) \cup Lacking(asked)
          [] c = "exchange" /\ j.form = "bundle" -> {asked} \cup Strayed(asked)
          [] c = "ifc" /\ j.file.schema = "IFC2X3" -> {asked} \cup Lacking(asked)
          [] c = "dxf" /\ j \in Flat -> {asked} \cup Lacking(asked)
          [] OTHER -> {asked}
=============================================================================
