------------------------- MODULE PackageStoreProofs -------------------------
(***************************************************************************)
(* Proofs about PackageStore for every set of invocations, every set of    *)
(* source contents and any number of edits of the source file.  The        *)
(* inductive invariant says what each program counter knows of the package *)
(* its invocation is writing, at the output path or in a temporary: the    *)
(* artifacts before position are as they should be, the one there is not   *)
(* yet, or torn.                                                           *)
(***************************************************************************)
EXTENDS PackageStore, TLAPS

\* Program points at which an invocation may have files somewhere.
Late == {"open", "copy", "publish", "done", "crashed"}
Places == {"idle", "hash", "hashed", "inventory", "create"} \cup Late
Embeddings == {"external", "embedded"}

Types ==
  /\ StoreTypeOK
  /\ source \in Sources /\ edits \in Nat
  /\ form \in [Writers -> Forms] /\ embedding \in [Writers -> Embeddings]
  /\ storePc \in [Writers -> Places]
  /\ DOMAIN temp = Writers
  /\ position \in [Writers -> Nat]

\* The digests p has taken; they are those of the source file if it held still.
Hashed(p) ==
  /\ storePc[p] \in {"hashed", "inventory", "create", "open", "copy", "publish"} => registered[p] \in Sources
  /\ storePc[p] \in {"create", "open", "copy", "publish"} /\ embedding[p] = "embedded" => inventory[p] \in Sources
  /\ storePc[p] \in {"idle", "hash", "hashed", "inventory", "create"} => position[p] = 1
  /\ edits = 0 => registered[p] \in {None, source} /\ inventory[p] \in {None, source}

\* The first n artifacts of p, and all of them.
UpTo(p, n) == {Order(embedding[p])[m] : m \in 1..n}
All(p) == UpTo(p, Len(Order(embedding[p])))

\* What determines the artifacts of p.
Writer(p) == [by |-> p, form |-> form[p], lists |-> All(p) \ {"manifest.json"},
              cites |-> registered[p], digest |-> inventory[p],
              bytes |-> IF edits = 0 THEN {source} ELSE Sources]

Kinds == [by : Writers, form : Forms, lists : SUBSET Artifacts, cites : Sources \cup {None},
            digest : Sources \cup {None}, bytes : SUBSET Sources]

\* c is what the writer w writes as artifact n.
Proper(w, n, c) ==
  CASE n = "embedded" -> c \in [bytes : w.bytes]
    [] n = "manifest.json" -> c = [by |-> w.by, lists |-> w.lists, digest |-> w.digest]
    [] OTHER -> c = [by |-> w.by, cites |-> w.cites]

\* The package holds exactly the artifacts of S, as w writes them.
Holds(x, w, S) ==
  /\ IsPackage(x) /\ x.form = w.form
  /\ DOMAIN x.files = S
  /\ \A n \in S : Proper(w, n, x.files[n])

\* Like Holds, and artifact n is there but not yet written.
HoldsTorn(x, w, S, n) ==
  /\ IsPackage(x) /\ x.form = w.form
  /\ DOMAIN x.files = S \cup {n}
  /\ x.files[n] = Torn
  /\ \A m \in S : Proper(w, m, x.files[m])

\* The package at the output path is whole, and its writer had both digests.
FinishedBy(p) ==
  /\ out # NoOutput /\ Holds(out, Writer(p), All(p)) /\ storePc[p] \in Late
  /\ registered[p] \in Sources /\ (embedding[p] = "embedded" => inventory[p] \in Sources)

Finished == \E p \in Writers : FinishedBy(p)

\* The package p is writing.
Package(p) == IF form[p] = "zip" THEN temp[p] ELSE out

\* What p has written so far of it.
Progress(p) ==
  /\ storePc[p] = "open" => Package(p) # NoOutput /\ Holds(Package(p), Writer(p), UpTo(p, position[p] - 1))
  /\ storePc[p] = "copy" => Package(p) # NoOutput /\ HoldsTorn(Package(p), Writer(p), UpTo(p, position[p] - 1), Artifact(p))
  /\ storePc[p] = "publish" => form[p] = "zip" /\ Package(p) # NoOutput /\ Holds(Package(p), Writer(p), All(p))

InDirectory(p) == form[p] = "directory" /\ storePc[p] \in {"open", "copy"}

Alone == \A p, q \in Writers : InDirectory(p) /\ InDirectory(q) => p = q

\* Every complete file of the package, except the embedded source, is of w.
Author(x, w) == \A n \in DOMAIN x.files \ {"embedded"} : x.files[n] = Torn \/ Proper(w, n, x.files[n])

Authored == out # NoOutput => \E p \in Writers : storePc[p] \in Late /\ Author(out, Writer(p))

Outcomes ==
  /\ out # NoOutput /\ out.form = "zip" => Finished
  /\ (\E p \in Writers : stored[p] = "ok") => Finished

Inv ==
  /\ Types
  /\ \A p \in Writers : Hashed(p) /\ Progress(p)
  /\ Alone /\ Authored /\ Outcomes

-----------------------------------------------------------------------------
(* The artifacts of a package.                                             *)

\* The artifacts are distinct; the manifest and the records are among them, the
\* records last, and the embedded source if and only if it is to be embedded.
LEMMA OrderFacts ==
  ASSUME NEW e \in Embeddings
  PROVE  /\ Len(Order(e)) \in {3, 4} /\ DOMAIN Order(e) = 1..Len(Order(e))
         /\ \A m \in DOMAIN Order(e) : Order(e)[m] \in Artifacts
         /\ \A m, n \in DOMAIN Order(e) : Order(e)[m] = Order(e)[n] => m = n
         /\ Order(e)[Len(Order(e))] = "records"
         /\ \E m \in DOMAIN Order(e) : Order(e)[m] = "manifest.json"
         /\ (\E m \in DOMAIN Order(e) : Order(e)[m] = "embedded") <=> e = "embedded"
         /\ ToSet(Order(e)) = {Order(e)[m] : m \in 1..Len(Order(e))}
<1>1. CASE e = "embedded"
  <2>1. Order(e) = <<"evidence", "manifest.json", "embedded", "records">>
    BY <1>1 DEF Order
  <2>2. /\ Len(Order(e)) = 4 /\ DOMAIN Order(e) = 1..4
        /\ Order(e)[1] = "evidence" /\ Order(e)[2] = "manifest.json"
        /\ Order(e)[3] = "embedded" /\ Order(e)[4] = "records"
    BY <2>1
  <2>3. ToSet(Order(e)) = {Order(e)[m] : m \in 1..Len(Order(e))}
    BY <2>2 DEF ToSet
  <2> QED BY <1>1, <2>2, <2>3 DEF Artifacts
<1>2. CASE e = "external"
  <2>1. Order(e) = <<"evidence", "manifest.json", "records">>
    BY <1>2 DEF Order
  <2>2. /\ Len(Order(e)) = 3 /\ DOMAIN Order(e) = 1..3
        /\ Order(e)[1] = "evidence" /\ Order(e)[2] = "manifest.json" /\ Order(e)[3] = "records"
    BY <2>1
  <2>3. ToSet(Order(e)) = {Order(e)[m] : m \in 1..Len(Order(e))}
    BY <2>2 DEF ToSet
  <2> QED BY <1>2, <2>2, <2>3 DEF Artifacts
<1> QED BY <1>1, <1>2 DEF Embeddings

\* What is known of the artifact p is at.
LEMMA ArtifactFacts ==
  ASSUME Types, NEW p \in Writers
  PROVE  /\ position[p] \in 1..Len(Order(embedding[p])) /\ Len(Order(embedding[p])) \in Nat
         /\ Artifact(p) \in Artifacts \ UpTo(p, position[p] - 1)
         /\ UpTo(p, position[p]) = UpTo(p, position[p] - 1) \cup {Artifact(p)}
         /\ UpTo(p, position[p] - 1) \subseteq Artifacts
         /\ UpTo(p, 0) = {}
         /\ "records" \notin UpTo(p, position[p] - 1)
         /\ All(p) \subseteq Artifacts /\ {"records", "manifest.json"} \subseteq All(p)
         /\ "embedded" \in All(p) <=> embedding[p] = "embedded"
         /\ ToSet(Order(embedding[p])) = All(p)
<1> DEFINE o == Order(embedding[p])
<1>1. embedding[p] \in Embeddings /\ position[p] \in DOMAIN o
  BY DEF Types, StoreTypeOK
<1>2. /\ Len(o) \in Nat /\ DOMAIN o = 1..Len(o)
      /\ \A m \in DOMAIN o : o[m] \in Artifacts
      /\ \A m, n \in DOMAIN o : o[m] = o[n] => m = n
      /\ Len(o) \in DOMAIN o /\ o[Len(o)] = "records"
      /\ \E m \in DOMAIN o : o[m] = "manifest.json"
      /\ (\E m \in DOMAIN o : o[m] = "embedded") <=> embedding[p] = "embedded"
      /\ ToSet(o) = {o[m] : m \in 1..Len(o)}
  BY <1>1, OrderFacts
<1>3. /\ Artifact(p) = o[position[p]] /\ All(p) = {o[m] : m \in 1..Len(o)}
      /\ \A n : UpTo(p, n) = {o[m] : m \in 1..n}
  BY DEF Artifact, All, UpTo
<1> HIDE DEF o
<1>4. position[p] \in 1..Len(o) /\ position[p] \in Nat /\ 1..position[p] = 1..(position[p] - 1) \cup {position[p]} /\ position[p] \notin 1..(position[p] - 1)
      /\ 1..(position[p] - 1) \subseteq DOMAIN o /\ Len(o) \notin 1..(position[p] - 1)
  BY <1>1, <1>2
<1>5. Artifact(p) \in Artifacts /\ Artifact(p) \notin UpTo(p, position[p] - 1)
  BY <1>1, <1>2, <1>3, <1>4
<1>6. UpTo(p, position[p]) = UpTo(p, position[p] - 1) \cup {Artifact(p)}
  BY <1>3, <1>4
<1>7. UpTo(p, position[p] - 1) \subseteq Artifacts /\ UpTo(p, 0) = {} /\ "records" \notin UpTo(p, position[p] - 1)
  BY <1>2, <1>3, <1>4
<1>8. /\ All(p) \subseteq Artifacts /\ {"records", "manifest.json"} \subseteq All(p)
      /\ "embedded" \in All(p) <=> embedding[p] = "embedded"
      /\ ToSet(o) = All(p)
  BY <1>2, <1>3
<1> QED BY <1>2, <1>4, <1>5, <1>6, <1>7, <1>8 DEF o

\* What a writer is about to write is well formed.
LEMMA WriterType ==
  ASSUME Types, NEW p \in Writers
  PROVE  Writer(p) \in Kinds
<1>1. All(p) \ {"manifest.json"} \in SUBSET Artifacts
  BY ArtifactFacts
<1> QED BY <1>1 DEF Writer, Kinds, Types, StoreTypeOK

\* What a writer writes is a content, and never torn.
LEMMA ProperType ==
  ASSUME NEW w \in Kinds, NEW n, NEW c, Proper(w, n, c)
  PROVE  c \in Contents /\ c # Torn
<1>1. c \in [bytes : Sources] \cup [by : Writers, cites : Sources \cup {None}]
              \cup [by : Writers, lists : SUBSET Artifacts, digest : Sources \cup {None}]
  BY DEF Proper, Kinds
<1> QED BY <1>1, StoreAssumption DEF Contents

\* Only the embedded source depends on the source file.
LEMMA ProperMonotone ==
  ASSUME NEW w, NEW v, v.by = w.by, v.lists = w.lists, v.cites = w.cites, v.digest = w.digest,
         w.bytes \subseteq v.bytes, NEW n, NEW c, Proper(w, n, c)
  PROVE  Proper(v, n, c)
BY DEF Proper

\* A package that holds what one writer has written holds what a writer with more sources has.
LEMMA HoldsMonotone ==
  ASSUME NEW w, NEW v, v.by = w.by, v.lists = w.lists, v.cites = w.cites, v.digest = w.digest,
         v.form = w.form, w.bytes \subseteq v.bytes, NEW x
  PROVE  /\ \A S : Holds(x, w, S) => Holds(x, v, S)
         /\ \A S, n : HoldsTorn(x, w, S, n) => HoldsTorn(x, v, S, n)
         /\ Author(x, w) => Author(x, v)
BY ProperMonotone DEF Holds, HoldsTorn, Author

\* A package is not the absence of one.
LEMMA PackageIsOutput == ASSUME NEW x, IsPackage(x) PROVE x # NoOutput
BY StoreAssumption DEF IsPackage

\* An empty package.
LEMMA EmptyHolds ==
  ASSUME NEW w \in Kinds
  PROVE  Holds(Empty(w.form), w, {})
<1>1. Empty(w.form) = [form |-> w.form, files |-> [n \in {} |-> Torn]]
  BY DEF Empty
<1>2. DOMAIN [n \in {} |-> Torn] = {} /\ [n \in {} |-> Torn] \in [{} -> Contents]
  OBVIOUS
<1>3. w.form \in Forms
  BY DEF Kinds
<1> QED BY <1>1, <1>2, <1>3 DEF Holds, IsPackage, Packages

\* Adding one artifact to a package.
LEMMA WithIs ==
  ASSUME NEW x, IsPackage(x), NEW n \in Artifacts, NEW c \in Contents
  PROVE  /\ IsPackage(With(x, n, c)) /\ With(x, n, c).form = x.form
         /\ DOMAIN With(x, n, c).files = DOMAIN x.files \cup {n}
         /\ \A m \in DOMAIN x.files \cup {n} : With(x, n, c).files[m] = IF m = n THEN c ELSE x.files[m]
<1> DEFINE f == [m \in DOMAIN x.files \cup {n} |-> IF m = n THEN c ELSE x.files[m]]
<1>1. With(x, n, c) = [x EXCEPT !.files = f]
  BY DEF With
<1>2. x \in [form : Forms, files : [DOMAIN x.files -> Contents]] /\ DOMAIN x.files \subseteq Artifacts
  BY DEF IsPackage, Packages
<1>3. f \in [DOMAIN x.files \cup {n} -> Contents] /\ DOMAIN f = DOMAIN x.files \cup {n}
  BY <1>2
<1>4. With(x, n, c).files = f /\ With(x, n, c).form = x.form
      /\ With(x, n, c) = [form |-> x.form, files |-> f]
  <2> HIDE DEF f
  <2> QED BY <1>1, <1>2
<1>5. IsPackage(With(x, n, c))
  <2> HIDE DEF f
  <2> QED BY <1>2, <1>3, <1>4 DEF IsPackage, Packages
<1> QED BY <1>3, <1>4, <1>5

\* target.open("wb") adds an empty file.
LEMMA OpenHolds ==
  ASSUME NEW w \in Kinds, NEW S, NEW x, Holds(x, w, S), NEW n \in Artifacts \ S
  PROVE  HoldsTorn(With(x, n, Torn), w, S, n)
<1>1. Torn \in Contents
  BY DEF Contents
<1> QED BY <1>1, WithIs DEF Holds, HoldsTorn

\* _copy_content fills it.
LEMMA CopyHolds ==
  ASSUME NEW w \in Kinds, NEW S, NEW n \in Artifacts \ S, NEW x, HoldsTorn(x, w, S, n),
         NEW c, Proper(w, n, c)
  PROVE  Holds(With(x, n, c), w, S \cup {n})
<1>1. c \in Contents
  BY ProperType
<1> QED BY <1>1, WithIs DEF Holds, HoldsTorn

\* Both have one author.
LEMMA HoldsAuthor ==
  ASSUME NEW w, NEW x, NEW S, NEW n
  PROVE  (Holds(x, w, S) => Author(x, w)) /\ (HoldsTorn(x, w, S, n) => Author(x, w))
BY DEF Holds, HoldsTorn, Author

\* What the copy writes is what it should.
LEMMA ContentProper ==
  ASSUME Types, NEW p \in Writers
  PROVE  Proper(Writer(p), Artifact(p), Content(p))
<1>1. ToSet(Order(embedding[p])) = All(p)
  BY ArtifactFacts
<1> QED BY <1>1 DEF Content, Proper, Writer, Types

-----------------------------------------------------------------------------
(* What a step of one invocation leaves alone.                             *)

\* The locals of q that the invariant reads.
Same(q) == /\ storePc'[q] = storePc[q] /\ registered'[q] = registered[q] /\ inventory'[q] = inventory[q]
           /\ temp'[q] = temp[q] /\ position'[q] = position[q]

SameWorld == UNCHANGED <<source, edits, form, embedding>>

\* The writer of a late invocation is not changed by its further steps.
KeepsLate(q) == storePc[q] \in Late => /\ storePc'[q] \in Late
                                       /\ registered'[q] = registered[q] /\ inventory'[q] = inventory[q]

\* What a writer writes depends only on its own locals.
LEMMA WriterSame ==
  ASSUME NEW q \in Writers, SameWorld
  PROVE  /\ All(q)' = All(q) /\ (position'[q] = position[q] => Artifact(q)' = Artifact(q))
         /\ position'[q] = position[q] => UpTo(q, position[q] - 1)' = UpTo(q, position[q] - 1)
         /\ registered'[q] = registered[q] /\ inventory'[q] = inventory[q] => Writer(q)' = Writer(q)
<1>1. All(q)' = All(q)
  BY DEF SameWorld, All, UpTo
<1> QED BY <1>1 DEF SameWorld, Writer, UpTo, Artifact

\* A step leaves the progress of the other writers alone.
LEMMA OtherKept ==
  ASSUME Inv, SameWorld, NEW q \in Writers, Same(q), out' = out \/ ~InDirectory(q)
  PROVE  Hashed(q)' /\ Progress(q)'
<1>1. Writer(q)' = Writer(q) /\ All(q)' = All(q) /\ UpTo(q, position[q] - 1)' = UpTo(q, position[q] - 1)
      /\ Artifact(q)' = Artifact(q)
  BY WriterSame DEF Same
<1>2. Hashed(q) /\ Progress(q)
  BY DEF Inv
<1>3. Hashed(q)'
  BY <1>2 DEF Hashed, Same, SameWorld
<1>4. Package(q)' = Package(q) \/ storePc[q] \notin {"open", "copy", "publish"} \/ (storePc[q] = "publish" /\ form[q] = "zip")
  BY <1>2 DEF Package, Same, SameWorld, InDirectory, Progress, Inv, Types, Forms
<1>5. form[q] = "zip" => Package(q)' = Package(q)
  BY DEF Package, Same, SameWorld
<1>6. Progress(q)'
  <2>1. CASE storePc[q] \notin {"open", "copy", "publish"}
    BY <2>1 DEF Progress, Same
  <2>2. CASE Package(q)' = Package(q)
    BY <1>1, <1>2, <2>2 DEF Progress, Same, SameWorld
  <2> QED BY <1>4, <1>5, <2>1, <2>2
<1> QED BY <1>3, <1>6

\* A finished package stays finished while the output path does not change.
LEMMA FinishedKept ==
  ASSUME SameWorld, out' = out, \A q \in Writers : KeepsLate(q), Finished
  PROVE  Finished'
<1>1. PICK q \in Writers : FinishedBy(q)
  BY DEF Finished
<1>2. Writer(q)' = Writer(q) /\ All(q)' = All(q)
  BY <1>1, WriterSame DEF FinishedBy, KeepsLate
<1> QED BY <1>1, <1>2 DEF Finished, FinishedBy, KeepsLate, SameWorld

\* A directory keeps its author while the output path does not change.
LEMMA AuthoredKept ==
  ASSUME SameWorld, out' = out, \A q \in Writers : KeepsLate(q), Authored
  PROVE  Authored'
<1> SUFFICES ASSUME out # NoOutput PROVE Authored'
  BY DEF Authored
<1>1. PICK q \in Writers : storePc[q] \in Late /\ Author(out, Writer(q))
  BY DEF Authored
<1>2. Writer(q)' = Writer(q)
  BY <1>1, WriterSame DEF KeepsLate
<1> QED BY <1>1, <1>2 DEF Authored, KeepsLate

\* A step of p that leaves the output path alone and establishes what is to be
\* known of p preserves the invariant.
LEMMA QuietStep ==
  ASSUME Inv, NEW p \in Writers, SameWorld, out' = out,
         \A q \in Writers : q # p => Same(q), KeepsLate(p),
         Types', Hashed(p)', Progress(p)', InDirectory(p)' => InDirectory(p),
         \A q \in Writers : stored'[q] = "ok" => stored[q] = "ok" \/ Finished
  PROVE  Inv'
<1>1. \A q \in Writers : KeepsLate(q)
  BY DEF Same, KeepsLate
<1>2. \A q \in Writers : Hashed(q)' /\ Progress(q)'
  BY OtherKept
<1>3. Alone'
  <2>1. \A q \in Writers : InDirectory(q)' => InDirectory(q)
    BY DEF Same, InDirectory, SameWorld
  <2> QED BY <2>1 DEF Inv, Alone
<1>4. Authored'
  BY <1>1, AuthoredKept DEF Inv
<1>5. Finished => Finished'
  BY <1>1, FinishedKept
<1>6. Outcomes'
  BY <1>5 DEF Inv, Outcomes
<1> QED BY <1>2, <1>3, <1>4, <1>6 DEF Inv

-----------------------------------------------------------------------------
(* The initial states and the steps.                                       *)

\* The invariant holds before the first call.
LEMMA InvInit == StoreInit => Inv
<1> SUFFICES ASSUME StoreInit PROVE Inv
  OBVIOUS
<1>1. \A p \in Writers : embedding[p] \in Embeddings
  BY DEF StoreInit, Embeddings
<1>2. \A p \in Writers : 1 \in DOMAIN Order(embedding[p])
  BY <1>1, OrderFacts
<1>3. Types
  BY <1>2 DEF StoreInit, Types, StoreTypeOK, Places, Embeddings
<1>4. \A p \in Writers : Hashed(p) /\ Progress(p)
  BY DEF StoreInit, Hashed, Progress
<1> QED BY <1>3, <1>4 DEF StoreInit, Inv, Alone, InDirectory, Authored, Outcomes

\* The existence check.
LEMMA CheckExistsInv == ASSUME Inv, NEW p \in Writers, CheckExists(p) PROVE Inv'
<1> USE DEF CheckExists, chosen, locals, End, GotoStage
<1>1. Types'
  BY DEF Inv, Types, StoreTypeOK, IsPackage, Places, Late
<1>2. /\ SameWorld /\ \A q \in Writers : q # p => Same(q)
      /\ KeepsLate(p) /\ storePc'[p] \in {"hash", "inventory", "done"}
      /\ \A q \in Writers : stored'[q] = "ok" => stored[q] = "ok"
  BY DEF SameWorld, Same, KeepsLate, Inv, Types, StoreTypeOK, Late
<1>3. Hashed(p)' /\ Progress(p)' /\ ~InDirectory(p)'
  BY <1>2 DEF Inv, Types, Hashed, Progress, InDirectory, SameWorld
<1> QED BY <1>1, <1>2, <1>3, QuietStep

\* The first hash of the source.
LEMMA HashSourceInv == ASSUME Inv, NEW p \in Writers, HashSource(p) PROVE Inv'
<1> USE DEF HashSource, chosen, GotoStage
<1>1. Types'
  BY DEF Inv, Types, StoreTypeOK, IsPackage, Places, Late
<1>2. /\ SameWorld /\ \A q \in Writers : q # p => Same(q)
      /\ KeepsLate(p) /\ storePc'[p] = "hashed" /\ registered'[p] = source /\ UNCHANGED stored
  BY DEF SameWorld, Same, KeepsLate, Inv, Types, StoreTypeOK, Late
<1>3. Hashed(p)' /\ Progress(p)' /\ ~InDirectory(p)'
  BY <1>2 DEF Inv, Types, Hashed, Progress, InDirectory, SameWorld
<1> QED BY <1>1, <1>2, <1>3, QuietStep

\* The manifest's hash of the source.
LEMMA InventoryInv == ASSUME Inv, NEW p \in Writers, Inventory(p) PROVE Inv'
<1> USE DEF Inventory, chosen, GotoStage
<1>1. Types'
  BY DEF Inv, Types, StoreTypeOK, IsPackage, Places, Late
<1>2. /\ SameWorld /\ \A q \in Writers : q # p => Same(q)
      /\ KeepsLate(p) /\ storePc'[p] = "create" /\ UNCHANGED stored
      /\ inventory'[p] = IF embedding[p] = "embedded" THEN source ELSE None
  BY DEF SameWorld, Same, KeepsLate, Inv, Types, StoreTypeOK, Late
<1>3. Hashed(p)' /\ Progress(p)' /\ ~InDirectory(p)'
  BY <1>2 DEF Inv, Types, Hashed, Progress, InDirectory, SameWorld
<1> QED BY <1>1, <1>2, <1>3, QuietStep

\* Nothing is at the output path: the new directory is the one being written.
LEMMA MakeDirectoryInv == ASSUME Inv, NEW p \in Writers, MakeDirectory(p) PROVE Inv'
<1> USE DEF MakeDirectory, chosen, locals, End, GotoStage
<1>1. CASE out # NoOutput
  <2>1. Types'
    BY <1>1 DEF Inv, Types, StoreTypeOK, IsPackage, Places, Late
  <2>2. /\ SameWorld /\ \A q \in Writers : q # p => Same(q)
        /\ KeepsLate(p) /\ storePc'[p] = "done" /\ out' = out
        /\ \A q \in Writers : stored'[q] = "ok" => stored[q] = "ok"
    BY <1>1 DEF SameWorld, Same, KeepsLate, Inv, Types, StoreTypeOK, Late
  <2>3. Hashed(p)' /\ Progress(p)' /\ ~InDirectory(p)'
    BY <1>1, <2>2 DEF Inv, Types, Hashed, Progress, InDirectory, SameWorld
  <2> QED BY <2>1, <2>2, <2>3, QuietStep
<1>2. CASE out = NoOutput
  <2>1. /\ SameWorld /\ \A q \in Writers : q # p => Same(q)
        /\ storePc'[p] = "open" /\ out' = Empty("directory") /\ form[p] = "directory" /\ position'[p] = 1
        /\ registered'[p] = registered[p] /\ inventory'[p] = inventory[p]
        /\ UNCHANGED stored
    BY <1>2 DEF SameWorld, Same, Inv, Types, Hashed
  <2>2. Holds(out', Writer(p), {}) /\ out' # NoOutput
    <3>1. Writer(p) \in Kinds /\ Writer(p).form = "directory"
      BY <2>1, WriterType DEF Inv, Writer
    <3>2. Holds(out', Writer(p), {})
      BY <2>1, <3>1, EmptyHolds
    <3> QED BY <3>2, PackageIsOutput DEF Holds
  <2>3. Types'
    BY <1>2, <2>2 DEF Inv, Types, StoreTypeOK, IsPackage, Places, Late, Holds
  <2>4. Writer(p)' = Writer(p) /\ UpTo(p, position[p] - 1)' = {}
    BY <2>1, WriterSame DEF UpTo
  <2>5. \A q \in Writers : ~InDirectory(q) /\ (InDirectory(q)' => q = p)
    BY <1>2, <2>1 DEF Inv, Progress, Package, InDirectory, Same, SameWorld, Forms
  <2>6. Hashed(p)'
    BY <1>2, <2>1 DEF Inv, Types, Hashed, SameWorld
  <2>7. Progress(p)'
    BY <2>1, <2>2, <2>4 DEF Progress, Package, SameWorld
  <2>8. \A q \in Writers : Hashed(q)' /\ Progress(q)'
    BY <2>1, <2>5, <2>6, <2>7, OtherKept
  <2>9. Authored'
    <3>1. Author(out', Writer(p)')
      BY <2>2, <2>4, HoldsAuthor
    <3> QED BY <2>1, <3>1 DEF Authored, Late
  <2>10. Outcomes'
    <3>1. ~Finished
      BY <1>2 DEF Finished, FinishedBy
    <3>2. out'.form = "directory"
      BY <2>1 DEF Empty
    <3> QED BY <2>1, <3>1, <3>2 DEF Inv, Outcomes
  <2> QED BY <2>3, <2>5, <2>8, <2>9, <2>10 DEF Inv, Alone
<1> QED BY <1>1, <1>2

\* The temporary ZIP.
LEMMA MakeTempInv == ASSUME Inv, NEW p \in Writers, MakeTempArchive(p) PROVE Inv'
<1> USE DEF MakeTempArchive, chosen, GotoStage
<1>1. /\ SameWorld /\ \A q \in Writers : q # p => Same(q)
      /\ KeepsLate(p) /\ storePc'[p] = "open" /\ temp'[p] = Empty("zip") /\ form[p] = "zip" /\ position'[p] = 1
      /\ registered'[p] = registered[p] /\ inventory'[p] = inventory[p]
      /\ UNCHANGED <<stored, out>>
  BY DEF SameWorld, Same, KeepsLate, Late, Inv, Types, Hashed
<1>2. Holds(temp'[p], Writer(p), {}) /\ temp'[p] # NoOutput
  <2>1. Writer(p) \in Kinds /\ Writer(p).form = "zip"
    BY <1>1, WriterType DEF Inv, Writer
  <2>2. Holds(temp'[p], Writer(p), {})
    BY <1>1, <2>1, EmptyHolds
  <2> QED BY <2>2, PackageIsOutput DEF Holds
<1>3. Types'
  <2>1. \A q \in Writers : temp'[q] # NoOutput => IsPackage(temp'[q]) /\ temp'[q].form = "zip" /\ form[q] = "zip"
    BY <1>1, <1>2 DEF Inv, Types, StoreTypeOK, Holds, Empty, Same
  <2> QED BY <2>1 DEF Inv, Types, StoreTypeOK, IsPackage, Places, Late
<1>4. Writer(p)' = Writer(p) /\ UpTo(p, position[p] - 1)' = {}
  BY <1>1, WriterSame DEF UpTo
<1>5. Hashed(p)' /\ ~InDirectory(p)'
  BY <1>1 DEF Inv, Types, Hashed, SameWorld, InDirectory
<1>6. Progress(p)'
  BY <1>1, <1>2, <1>4 DEF Progress, Package, SameWorld
<1> QED BY <1>1, <1>3, <1>5, <1>6, QuietStep

\* A package that is being written in place is not finished.
LEMMA WritingIsUnfinished ==
  ASSUME Inv, NEW p \in Writers, InDirectory(p)
  PROVE  ~Finished /\ out # NoOutput /\ out.form = "directory"
<1>1. Types /\ Progress(p) /\ Package(p) = out /\ Writer(p).form = "directory"
  BY DEF Inv, InDirectory, Package, Writer
<1>2. "records" \notin UpTo(p, position[p] - 1)
  BY <1>1, ArtifactFacts
<1>3. out # NoOutput /\ out.form = "directory"
  BY <1>1 DEF Progress, InDirectory, Holds, HoldsTorn
<1>4. "records" \in DOMAIN out.files => out.files["records"] = Torn
  BY <1>1, <1>2 DEF Progress, InDirectory, Holds, HoldsTorn
<1>5. ASSUME NEW q \in Writers, FinishedBy(q) PROVE FALSE
  <2>1. "records" \in All(q) /\ Writer(q) \in Kinds
    BY <1>1, <1>5, ArtifactFacts, WriterType
  <2>2. "records" \in DOMAIN out.files /\ Proper(Writer(q), "records", out.files["records"])
    BY <1>5, <2>1 DEF FinishedBy, Holds
  <2> QED BY <1>4, <2>1, <2>2, ProperType
<1> QED BY <1>3, <1>5 DEF Finished

\* A step of p in the package directory it is writing.
LEMMA InPlaceStep ==
  ASSUME Inv, NEW p \in Writers, InDirectory(p), SameWorld, \A q \in Writers : q # p => Same(q),
         registered'[p] = registered[p], inventory'[p] = inventory[p], storePc'[p] \in Late,
         Types', Progress(p)', out' # NoOutput, out'.form = "directory", Author(out', Writer(p)),
         \A q \in Writers : stored'[q] = "ok" => stored[q] = "ok" \/ Finished'
  PROVE  Inv'
<1>1. \A q \in Writers : q # p => ~InDirectory(q) /\ ~InDirectory(q)'
  BY DEF Inv, Alone, Same, InDirectory, SameWorld
<1>2. Writer(p)' = Writer(p)
  BY WriterSame
<1>3. Hashed(p)'
  BY DEF Inv, Hashed, InDirectory, SameWorld, Late
<1>4. \A q \in Writers : Hashed(q)' /\ Progress(q)'
  BY <1>1, <1>3, OtherKept
<1>5. Alone'
  BY <1>1 DEF Alone
<1>6. Authored'
  BY <1>2 DEF Authored
<1>7. Outcomes'
  BY WritingIsUnfinished DEF Inv, Outcomes
<1> QED BY <1>4, <1>5, <1>6, <1>7 DEF Inv

\* Opening the next artifact.
LEMMA OpenArtifactInv == ASSUME Inv, NEW p \in Writers, OpenArtifact(p) PROVE Inv'
<1> USE DEF OpenArtifact, chosen, GotoStage
<1> DEFINE new == With(Package(p), Artifact(p), Torn)
<1>1. /\ SameWorld /\ \A q \in Writers : q # p => Same(q)
      /\ storePc[p] = "open" /\ storePc'[p] = "copy" /\ position'[p] = position[p] /\ UNCHANGED stored
      /\ registered'[p] = registered[p] /\ inventory'[p] = inventory[p]
      /\ Types /\ Progress(p) /\ Hashed(p) /\ form[p] \in Forms
  BY DEF SameWorld, Same, Inv, Types, Put
<1>2. Writer(p) \in Kinds /\ Artifact(p) \in Artifacts \ UpTo(p, position[p] - 1) /\ Writer(p).form = form[p]
  BY <1>1, WriterType, ArtifactFacts DEF Writer
<1>3. HoldsTorn(new, Writer(p), UpTo(p, position[p] - 1), Artifact(p))
  <2> HIDE DEF GotoStage
  <2>1. Holds(Package(p), Writer(p), UpTo(p, position[p] - 1))
    BY <1>1 DEF Progress
  <2> QED BY <1>2, <2>1, OpenHolds
<1>4. Writer(p)' = Writer(p) /\ UpTo(p, position[p] - 1)' = UpTo(p, position[p] - 1) /\ Artifact(p)' = Artifact(p)
  BY <1>1, WriterSame
<1>5. IsPackage(new) /\ new # NoOutput /\ new.form = form[p]
  BY <1>2, <1>3, PackageIsOutput DEF HoldsTorn
<1>6. CASE form[p] = "directory"
  <2>1. out' = new /\ UNCHANGED temp
    BY <1>6 DEF Put, Package, Forms
  <2> HIDE DEF new
  <2>2. Types'
    BY <1>1, <1>5, <2>1 DEF Types, StoreTypeOK, IsPackage, Places, Late
  <2>3. Progress(p)' /\ InDirectory(p)
    BY <1>1, <1>3, <1>4, <1>5, <1>6, <2>1 DEF Progress, Package, SameWorld, InDirectory
  <2>4. Author(out', Writer(p))
    BY <1>3, <2>1, HoldsAuthor
  <2> QED BY <1>1, <1>5, <1>6, <2>1, <2>2, <2>3, <2>4, InPlaceStep DEF Late
<1>7. CASE form[p] = "zip"
  <2>1. temp' = [temp EXCEPT ![p] = new] /\ UNCHANGED out
    BY <1>7 DEF Put, Package
  <2> HIDE DEF new
  <2>2. Types'
    <3>1. \A q \in Writers : temp'[q] # NoOutput => IsPackage(temp'[q]) /\ temp'[q].form = "zip" /\ form[q] = "zip"
      BY <1>1, <1>5, <1>7, <2>1 DEF Types, StoreTypeOK
    <3> QED BY <1>1, <2>1, <3>1 DEF Types, StoreTypeOK, IsPackage, Places, Late
  <2>3. temp'[p] = new
    BY <1>1, <2>1 DEF Types
  <2>4. Progress(p)'
    BY <1>1, <1>3, <1>4, <1>5, <1>7, <2>3 DEF Progress, Package, SameWorld
  <2>5. Hashed(p)' /\ ~InDirectory(p)' /\ KeepsLate(p)
    BY <1>1, <1>7 DEF Hashed, InDirectory, SameWorld, KeepsLate, Late
  <2> QED BY <1>1, <2>1, <2>2, <2>4, <2>5, QuietStep
<1> QED BY <1>1, <1>6, <1>7 DEF Forms

\* Filling the open artifact.
LEMMA CopyArtifactInv == ASSUME Inv, NEW p \in Writers, CopyArtifact(p) PROVE Inv'
<1> USE DEF CopyArtifact, chosen, GotoStage, End
<1> DEFINE new == With(Package(p), Artifact(p), Content(p))
           last == AtLast(p)
<1>1. /\ SameWorld /\ \A q \in Writers : q # p => Same(q)
      /\ storePc[p] = "copy"
      /\ storePc'[p] = IF ~last THEN "open" ELSE IF form[p] = "zip" THEN "publish" ELSE "done"
      /\ position'[p] = IF last THEN position[p] ELSE position[p] + 1
      /\ \A q \in Writers : stored'[q] = "ok" => stored[q] = "ok" \/ (q = p /\ last /\ form[p] = "directory")
      /\ registered'[p] = registered[p] /\ inventory'[p] = inventory[p]
      /\ Types /\ Progress(p) /\ Hashed(p) /\ form[p] \in Forms
  BY DEF SameWorld, Same, Inv, Types, StoreTypeOK, Put, Forms
<1>2. /\ Writer(p) \in Kinds /\ Artifact(p) \in Artifacts \ UpTo(p, position[p] - 1) /\ Writer(p).form = form[p]
      /\ UpTo(p, position[p]) = UpTo(p, position[p] - 1) \cup {Artifact(p)}
      /\ position[p] \in 1..Len(Order(embedding[p])) /\ Len(Order(embedding[p])) \in Nat
  BY <1>1, WriterType, ArtifactFacts DEF Writer
<1>3. Holds(new, Writer(p), UpTo(p, position[p]))
  <2>1. HoldsTorn(Package(p), Writer(p), UpTo(p, position[p] - 1), Artifact(p))
    BY <1>1 DEF Progress
  <2>2. Proper(Writer(p), Artifact(p), Content(p))
    BY <1>1, ContentProper
  <2> QED BY <1>2, <2>1, <2>2, CopyHolds
<1>4. Writer(p)' = Writer(p) /\ All(p)' = All(p)
  BY <1>1, WriterSame
<1>5. IsPackage(new) /\ new # NoOutput /\ new.form = form[p]
  BY <1>2, <1>3, PackageIsOutput DEF Holds
<1>6. ~last => position'[p] - 1 = position[p] /\ UpTo(p, position[p] - 1)' = UpTo(p, position[p]) /\ position'[p] \in DOMAIN Order(embedding[p])
  <2>1. SUFFICES ASSUME ~last PROVE position'[p] - 1 = position[p] /\ UpTo(p, position[p] - 1)' = UpTo(p, position[p]) /\ position'[p] \in DOMAIN Order(embedding[p])
    OBVIOUS
  <2>2. position'[p] = position[p] + 1 /\ position[p] # Len(Order(embedding[p]))
    BY <1>1, <2>1 DEF AtLast
  <2>3. position'[p] - 1 = position[p]
    BY <1>2, <2>2
  <2>4. DOMAIN Order(embedding[p]) = 1..Len(Order(embedding[p]))
    BY <1>1, OrderFacts DEF Types
  <2>5. UpTo(p, position[p] - 1)' = UpTo(p, position[p])
    BY <1>1, <2>3 DEF UpTo, SameWorld
  <2> QED BY <1>2, <2>2, <2>3, <2>4, <2>5
<1>7. last => UpTo(p, position[p]) = All(p)
  BY DEF AtLast, All
<1>8. position' \in [Writers -> Nat] /\ \A q \in Writers : position'[q] \in DOMAIN Order(embedding[q])
  <2>1. position' = IF last THEN position ELSE [position EXCEPT ![p] = @ + 1]
    OBVIOUS
  <2> QED BY <1>1, <1>6, <2>1 DEF Types, StoreTypeOK
<1> HIDE DEF last
<1>9. CASE form[p] = "directory"
  <2>1. out' = new /\ UNCHANGED temp
    BY <1>9 DEF Put, Package, Forms
  <2> HIDE DEF new
  <2>2. Types'
    BY <1>1, <1>5, <1>8, <1>9, <2>1 DEF Types, StoreTypeOK, IsPackage, Places, Late
  <2>3. Progress(p)' /\ InDirectory(p) /\ storePc'[p] \in Late
    BY <1>1, <1>3, <1>4, <1>5, <1>6, <1>9, <2>1 DEF Progress, Package, SameWorld, InDirectory, Late
  <2>4. Author(out', Writer(p))
    BY <1>3, <2>1, HoldsAuthor
  <2>5. last => Finished'
    <3>1. registered[p] \in Sources /\ (embedding[p] = "embedded" => inventory[p] \in Sources)
      BY <1>1 DEF Hashed
    <3> QED BY <1>1, <1>3, <1>4, <1>5, <1>7, <2>1, <2>3, <3>1 DEF Finished, FinishedBy, SameWorld
  <2> QED BY <1>1, <1>5, <1>9, <2>1, <2>2, <2>3, <2>4, <2>5, InPlaceStep
<1>10. CASE form[p] = "zip"
  <2>1. temp' = [temp EXCEPT ![p] = new] /\ UNCHANGED out
    BY <1>10 DEF Put, Package
  <2> HIDE DEF new
  <2>2. Types'
    <3>1. \A q \in Writers : temp'[q] # NoOutput => IsPackage(temp'[q]) /\ temp'[q].form = "zip" /\ form[q] = "zip"
      BY <1>1, <1>5, <1>10, <2>1 DEF Types, StoreTypeOK
    <3> QED BY <1>1, <1>8, <2>1, <3>1 DEF Types, StoreTypeOK, IsPackage, Places, Late
  <2>3. temp'[p] = new
    BY <1>1, <2>1 DEF Types
  <2>4. Progress(p)'
    BY <1>1, <1>3, <1>4, <1>5, <1>6, <1>7, <1>10, <2>3 DEF Progress, Package, SameWorld
  <2>5. Hashed(p)' /\ ~InDirectory(p)' /\ KeepsLate(p)
    BY <1>1, <1>10 DEF Hashed, InDirectory, SameWorld, KeepsLate, Late
  <2>6. \A q \in Writers : stored'[q] = "ok" => stored[q] = "ok"
    BY <1>1, <1>10
  <2> QED BY <1>1, <2>1, <2>2, <2>4, <2>5, <2>6, QuietStep
<1> QED BY <1>1, <1>9, <1>10 DEF Forms

\* os.replace puts the whole archive at the output path.
LEMMA PublishInv == ASSUME Inv, NEW p \in Writers, Publish(p) PROVE Inv'
<1> USE DEF Publish, chosen, GotoStage, End
<1>1. /\ SameWorld /\ \A q \in Writers : q # p => Same(q)
      /\ storePc[p] = "publish" /\ storePc'[p] = "done" /\ position'[p] = position[p]
      /\ registered'[p] = registered[p] /\ inventory'[p] = inventory[p]
      /\ Types /\ Progress(p) /\ Hashed(p)
      /\ form[p] = "zip" /\ temp[p] # NoOutput /\ Holds(temp[p], Writer(p), All(p))
  BY DEF SameWorld, Same, Inv, Types, Progress, Package
<1>2. Hashed(p)' /\ Progress(p)' /\ ~InDirectory(p)' /\ KeepsLate(p)
  BY <1>1 DEF Hashed, Progress, InDirectory, SameWorld, KeepsLate, Late
<1>3. out' = out \/ out' = temp[p]
  OBVIOUS
<1>4. Types'
  BY <1>1, <1>3 DEF Types, StoreTypeOK, IsPackage, Places, Late
<1>5. CASE out # NoOutput /\ out.form = "directory"
  <2>1. out' = out /\ \A q \in Writers : stored'[q] = "ok" => stored[q] = "ok"
    BY <1>1, <1>5 DEF Types, StoreTypeOK
  <2> QED BY <1>1, <1>2, <1>4, <2>1, QuietStep
<1>6. CASE ~(out # NoOutput /\ out.form = "directory")
  <2>1. out' = temp[p]
    BY <1>6
  <2>2. \A q \in Writers : ~InDirectory(q) /\ ~InDirectory(q)'
    BY <1>1, <1>2, <1>6, WritingIsUnfinished DEF InDirectory, Same, SameWorld
  <2>3. \A q \in Writers : Hashed(q)' /\ Progress(q)'
    BY <1>1, <1>2, <2>2, OtherKept
  <2>4. Writer(p)' = Writer(p) /\ All(p)' = All(p)
    BY <1>1, WriterSame
  <2>5. FinishedBy(p)'
    <3>1. registered[p] \in Sources /\ (embedding[p] = "embedded" => inventory[p] \in Sources)
      BY <1>1 DEF Hashed
    <3> QED BY <1>1, <2>1, <2>4, <3>1 DEF FinishedBy, SameWorld, Late
  <2>6. Authored'
    <3>1. Author(out', Writer(p)')
      BY <1>1, <2>1, <2>4, HoldsAuthor
    <3> QED BY <1>1, <3>1 DEF Authored, Late
  <2>7. Outcomes'
    BY <2>5 DEF Outcomes, Finished
  <2> QED BY <1>4, <2>2, <2>3, <2>6, <2>7 DEF Inv, Alone
<1> QED BY <1>5, <1>6

\* An exception anywhere.
LEMMA WriteFailsInv == ASSUME Inv, NEW p \in Writers, WriteFails(p) PROVE Inv'
<1> USE DEF WriteFails, chosen, GotoStage, End
<1>1. Types'
  BY DEF Inv, Types, StoreTypeOK, IsPackage, Places, Late
<1>2. /\ SameWorld /\ \A q \in Writers : q # p => Same(q)
      /\ KeepsLate(p) /\ storePc'[p] = "done"
      /\ \A q \in Writers : stored'[q] = "ok" => stored[q] = "ok"
  BY DEF SameWorld, Same, KeepsLate, Inv, Types, StoreTypeOK, Late
<1>3. Hashed(p)' /\ Progress(p)' /\ ~InDirectory(p)'
  BY <1>2 DEF Inv, Types, Hashed, Progress, InDirectory, SameWorld
<1> QED BY <1>1, <1>2, <1>3, QuietStep

\* A kill anywhere.
LEMMA CrashInv == ASSUME Inv, NEW p \in Writers, CrashWriter(p) PROVE Inv'
<1> USE DEF CrashWriter, chosen, locals, GotoStage
<1>1. Types'
  BY DEF Inv, Types, StoreTypeOK, IsPackage, Places, Late
<1>2. /\ SameWorld /\ \A q \in Writers : q # p => Same(q)
      /\ KeepsLate(p) /\ storePc'[p] = "crashed" /\ UNCHANGED stored
  BY DEF SameWorld, Same, KeepsLate, Inv, Types, StoreTypeOK, Late
<1>3. Hashed(p)' /\ Progress(p)' /\ ~InDirectory(p)'
  BY <1>2 DEF Inv, Types, Hashed, Progress, InDirectory, SameWorld
<1> QED BY <1>1, <1>2, <1>3, QuietStep

\* An edit of the source file only weakens what is known of embedded bytes.
LEMMA ChangeSourceInv == ASSUME Inv, ChangeSource PROVE Inv'
<1> USE DEF ChangeSource, chosen, locals
<1>1. Types' /\ edits' # 0
  BY StoreAssumption DEF Inv, Types, StoreTypeOK, IsPackage
<1>2. ASSUME NEW q \in Writers
      PROVE  /\ All(q)' = All(q) /\ UpTo(q, position[q] - 1)' = UpTo(q, position[q] - 1)
             /\ Artifact(q)' = Artifact(q) /\ Package(q)' = Package(q)
             /\ \A x, S : Holds(x, Writer(q), S) => Holds(x, Writer(q)', S)
             /\ \A x, S, n : HoldsTorn(x, Writer(q), S, n) => HoldsTorn(x, Writer(q)', S, n)
             /\ \A x : Author(x, Writer(q)) => Author(x, Writer(q)')
  <2>1. All(q)' = All(q) /\ UpTo(q, position[q] - 1)' = UpTo(q, position[q] - 1)
        /\ Artifact(q)' = Artifact(q) /\ Package(q)' = Package(q)
    BY DEF All, UpTo, Artifact, Package
  <2>2. /\ Writer(q)'.by = Writer(q).by /\ Writer(q)'.lists = Writer(q).lists
        /\ Writer(q)'.cites = Writer(q).cites /\ Writer(q)'.digest = Writer(q).digest
        /\ Writer(q)'.form = Writer(q).form /\ Writer(q).bytes \subseteq Writer(q)'.bytes
    BY <1>1, <2>1 DEF Writer, Inv, Types
  <2> QED BY <2>1, <2>2, HoldsMonotone
<1>3. \A q \in Writers : Hashed(q)'
  BY <1>1 DEF Inv, Hashed
<1>4. ASSUME NEW q \in Writers PROVE Progress(q)'
  BY <1>2 DEF Inv, Progress
<1>5. Authored'
  BY <1>2 DEF Inv, Authored
<1>6. Finished => Finished'
  BY <1>2 DEF Finished, FinishedBy
<1> QED BY <1>1, <1>3, <1>4, <1>5, <1>6 DEF Inv, Alone, InDirectory, Outcomes

\* Every step keeps the invariant.
LEMMA InvStep == Inv /\ [StoreNext]_storeVars => Inv'
<1> SUFFICES ASSUME Inv, [StoreNext]_storeVars PROVE Inv'
  OBVIOUS
<1>1. CASE UNCHANGED storeVars
  <2>1. \A q \in Writers : Writer(q)' = Writer(q) /\ UpTo(q, position[q] - 1)' = UpTo(q, position[q] - 1) /\ All(q)' = All(q)
    BY <1>1 DEF storeVars, chosen, Writer, UpTo, All
  <2>2. Types' /\ \A q \in Writers : Hashed(q)'
    BY <1>1 DEF storeVars, Inv, Types, StoreTypeOK, IsPackage, Hashed
  <2>3. \A q \in Writers : Progress(q)'
    BY <1>1, <2>1 DEF storeVars, Inv, Progress, Package, Artifact
  <2>4. Authored' /\ Alone'
    BY <1>1, <2>1 DEF storeVars, Inv, Authored, Alone, InDirectory
  <2>5. Finished => Finished'
    BY <1>1, <2>1 DEF storeVars, Finished, FinishedBy
  <2> QED BY <1>1, <2>2, <2>3, <2>4, <2>5 DEF storeVars, Inv, Outcomes
<1>2. CASE ChangeSource
  BY <1>2, ChangeSourceInv
<1>3. ASSUME NEW p \in Writers, Step(p) \/ WriteFails(p) \/ CrashWriter(p) PROVE Inv'
  BY <1>3, CheckExistsInv, HashSourceInv, InventoryInv, MakeDirectoryInv, MakeTempInv,
     OpenArtifactInv, CopyArtifactInv, PublishInv, WriteFailsInv, CrashInv DEF Step
<1> QED BY <1>1, <1>2, <1>3 DEF StoreNext

-----------------------------------------------------------------------------
(* The theorems.                                                           *)

\* The inductive invariant holds of every reachable state.
THEOREM Invariant == StoreSpec => []Inv
BY InvInit, InvStep, PTL DEF StoreSpec

\* The output path and the locals of every invocation keep their types.
THEOREM TypeCorrect == StoreSpec => []StoreTypeOK
<1>1. Inv => StoreTypeOK
  BY DEF Inv, Types
<1> QED BY Invariant, <1>1, PTL

\* No package at the output path mixes files of two invocations.
THEOREM SingleAuthor == StoreSpec => []OneAuthor
<1>1. Inv => OneAuthor
  <2> SUFFICES ASSUME Inv, out # NoOutput,
                      NEW m \in DOMAIN out.files \ {"embedded"}, NEW n \in DOMAIN out.files \ {"embedded"},
                      out.files[m] # Torn, out.files[n] # Torn
               PROVE  out.files[m].by = out.files[n].by
    BY DEF OneAuthor, Authors, File
  <2>1. PICK p \in Writers : Author(out, Writer(p))
    BY DEF Inv, Authored
  <2>2. Proper(Writer(p), m, out.files[m]) /\ Proper(Writer(p), n, out.files[n])
    BY <2>1 DEF Author
  <2>3. out.files[m].by = p /\ out.files[n].by = p
    BY <2>2 DEF Proper, Writer
  <2> QED BY <2>3
<1> QED BY Invariant, <1>1, PTL

\* What a finished package is.
Complete(p) ==
  /\ DOMAIN out.files = All(p) /\ out # NoOutput
  /\ {"manifest.json", "records"} \subseteq All(p)
  /\ \A n \in All(p) : Proper(Writer(p), n, out.files[n]) /\ out.files[n] # Torn
  /\ out.files["manifest.json"] = [by |-> p, lists |-> All(p) \ {"manifest.json"}, digest |-> inventory[p]]
  /\ \A n \in All(p) \ {"manifest.json", "embedded"} : out.files[n] = [by |-> p, cites |-> registered[p]]
  /\ "embedded" \in All(p) => embedding[p] = "embedded" /\ inventory[p] \in Sources
  /\ registered[p] \in Sources

\* A finished package has every artifact of its writer.
LEMMA FinishedIs ==
  ASSUME Types, NEW p \in Writers, FinishedBy(p)
  PROVE  Complete(p)
<1>1. /\ {"records", "manifest.json"} \subseteq All(p) /\ Writer(p) \in Kinds
      /\ "embedded" \in All(p) <=> embedding[p] = "embedded"
  BY ArtifactFacts, WriterType
<1>2. \A n \in All(p) : Proper(Writer(p), n, out.files[n])
  BY DEF FinishedBy, Holds
<1>3. \A n \in All(p) : out.files[n] # Torn
  BY <1>1, <1>2, ProperType
<1>4. out.files["manifest.json"] = [by |-> p, lists |-> All(p) \ {"manifest.json"}, digest |-> inventory[p]]
  BY <1>1, <1>2 DEF Proper, Writer
<1>5. ASSUME NEW n \in All(p) \ {"manifest.json", "embedded"}
      PROVE  out.files[n] = [by |-> p, cites |-> registered[p]]
  BY <1>2 DEF Proper, Writer
<1> QED BY <1>1, <1>2, <1>3, <1>4, <1>5 DEF FinishedBy, Holds, Complete

\* A ZIP is seen complete or not at all.
THEOREM ZipsAreWhole == StoreSpec => []ZipIsWhole
<1>1. Inv => ZipIsWhole
  <2> SUFFICES ASSUME Inv, out # NoOutput, out.form = "zip" PROVE ZipIsWhole!2
    BY DEF ZipIsWhole
  <2>1. PICK p \in Writers : FinishedBy(p)
    BY DEF Inv, Outcomes, Finished
  <2>2. Complete(p)
    BY <2>1, FinishedIs DEF Inv
  <2> QED BY <2>2 DEF Complete, Whole, File
<1> QED BY Invariant, <1>1, PTL

\* While the source file holds still, a success leaves a valid package.
THEOREM SuccessIsValid == StoreSpec => []SuccessMeansValid
<1>1. Inv => SuccessMeansValid
  <2> SUFFICES ASSUME Inv, edits = 0, \E p \in Writers : stored[p] = "ok" PROVE SuccessMeansValid!2
    BY DEF SuccessMeansValid
  <2>1. PICK p \in Writers : FinishedBy(p)
    BY DEF Inv, Outcomes, Finished
  <2>2. Hashed(p) /\ Complete(p)
    BY <2>1, FinishedIs DEF Inv
  <2>3. registered[p] = source /\ ("embedded" \in All(p) => inventory[p] = source)
    BY <2>2, StoreAssumption DEF Hashed, Complete
  <2>4. "embedded" \in All(p) => out.files["embedded"].bytes = source
    <3> SUFFICES ASSUME "embedded" \in All(p) PROVE out.files["embedded"].bytes = source
      OBVIOUS
    <3>1. Proper(Writer(p), "embedded", out.files["embedded"])
      BY <2>2 DEF Complete
    <3> QED BY <3>1 DEF Proper, Writer
  <2>5. out.files["records"].cites = registered[p]
    BY <2>2 DEF Complete
  <2>6. Valid(out)
    <3>1. /\ out # NoOutput /\ "manifest.json" \in DOMAIN out.files /\ out.files["manifest.json"] # Torn
          /\ out.files["manifest.json"].lists = All(p) \ {"manifest.json"}
          /\ out.files["manifest.json"].digest = inventory[p] /\ out.files["manifest.json"].by = p
          /\ DOMAIN out.files = All(p)
      BY <2>2 DEF Complete
    <3>2. ASSUME NEW n \in All(p) \ {"manifest.json"}
          PROVE  /\ out.files[n] # Torn
                 /\ n = "embedded" => out.files[n].bytes = inventory[p]
                 /\ n # "embedded" => out.files[n].by = p
      BY <2>2, <2>3, <2>4 DEF Complete
    <3> QED BY <3>1, <3>2 DEF Valid, File
  <2> QED BY <2>2, <2>3, <2>4, <2>5, <2>6 DEF File, Complete
<1> QED BY Invariant, <1>1, PTL

\* A directory at the output path only grows.
THEOREM DirectoriesGrow == StoreSpec => DirectoryOnlyGrows
<1> DEFINE Grows == out # NoOutput /\ out.form = "directory" =>
                      /\ out' # NoOutput /\ out'.form = "directory"
                      /\ DOMAIN out.files \subseteq DOMAIN out'.files
                      /\ \A n \in DOMAIN out.files : out.files[n] # Torn => out'.files[n] = out.files[n]
<1>1. ASSUME Inv, NEW p \in Writers, Step(p), out # NoOutput, out.form = "directory" PROVE Grows
  <2>1. ASSUME NEW c \in Contents, out' = With(out, Artifact(p), c), InDirectory(p), storePc[p] = "open" \/ storePc[p] = "copy"
        PROVE  Grows
    <3>1. Types /\ Progress(p) /\ Package(p) = out /\ IsPackage(out)
      BY <1>1, <2>1 DEF Inv, Types, StoreTypeOK, InDirectory, Package
    <3>2. Artifact(p) \in Artifacts \ UpTo(p, position[p] - 1)
      BY <3>1, ArtifactFacts
    <3>3. Artifact(p) \in DOMAIN out.files => out.files[Artifact(p)] = Torn
      BY <2>1, <3>1, <3>2 DEF Progress, Holds, HoldsTorn
    <3>4. IsPackage(out') /\ out'.form = "directory" /\ out' # NoOutput
      BY <1>1, <2>1, <3>1, <3>2, WithIs, PackageIsOutput
    <3>5. /\ DOMAIN out.files \subseteq DOMAIN out'.files
          /\ \A n \in DOMAIN out.files : n # Artifact(p) => out'.files[n] = out.files[n]
      BY <2>1, <3>1, <3>2, WithIs
    <3> QED BY <3>3, <3>4, <3>5
  <2>2. CASE OpenArtifact(p)
    <3>1. form[p] = "zip" => out' = out
      BY <2>2 DEF OpenArtifact, Put
    <3>2. form[p] = "directory" => InDirectory(p) /\ storePc[p] = "open" /\ out' = With(out, Artifact(p), Torn) /\ Torn \in Contents
      BY <2>2 DEF OpenArtifact, Put, InDirectory, Contents
    <3> QED BY <1>1, <2>1, <3>1, <3>2 DEF Inv, Types, Forms
  <2>3. CASE CopyArtifact(p)
    <3>1. form[p] = "zip" => out' = out
      BY <2>3 DEF CopyArtifact, Put
    <3>2. form[p] = "directory" => InDirectory(p) /\ storePc[p] = "copy" /\ out' = With(out, Artifact(p), Content(p))
      BY <2>3 DEF CopyArtifact, Put, InDirectory
    <3>3. Content(p) \in Contents
      BY <1>1, ContentProper, WriterType, ProperType DEF Inv
    <3> QED BY <1>1, <2>1, <3>1, <3>2, <3>3 DEF Inv, Types, Forms
  <2>4. CASE CheckExists(p) \/ HashSource(p) \/ Inventory(p) \/ MakeDirectory(p) \/ MakeTempArchive(p) \/ Publish(p)
    BY <1>1, <2>4 DEF CheckExists, HashSource, Inventory, MakeDirectory, MakeTempArchive, Publish
  <2> QED BY <1>1, <2>2, <2>3, <2>4 DEF Step
<1>2. Inv /\ [StoreNext]_storeVars => [Grows]_storeVars
  BY <1>1 DEF StoreNext, WriteFails, CrashWriter, ChangeSource, storeVars
<1> QED BY Invariant, <1>2, PTL DEF StoreSpec, DirectoryOnlyGrows
=============================================================================
