---------------------------- MODULE ReadingProofs ----------------------------
(***************************************************************************)
(* Proofs about Commands, for every job, every command line and every      *)
(* limit: what all of them need, the queries, diffs and contexts, what the *)
(* raster and the IFC adapter write, and the visit of a DXF bundle.  A     *)
(* step of the program is a step of the component that its command runs,   *)
(* or none; so an invariant of a component, guarded by its command, is an  *)
(* invariant of the program.                                               *)
(***************************************************************************)
EXTENDS Commands, FiniteSetTheorems, SequenceTheorems, TLAPS

(***************************************************************************)
(* Numbers, lists and finite sets.                                         *)
(***************************************************************************)
\* Every non-empty set of naturals has a least element.
LEMMA Least == ASSUME NEW T \in SUBSET Nat, T # {} PROVE \E x \in T : \A y \in T : x <= y
<1>1. PICK r : r = OpToRel(<, Nat)
  OBVIOUS
<1>2. IsWellFoundedOn(r, Nat)
  BY <1>1, NatLessThanWellFounded
<1>3. \A x, y \in Nat : <<y, x>> \in r <=> y < x
  BY <1>1 DEF OpToRel
<1>4. PICK x \in T : \A y \in T : ~(<<y, x>> \in r)
  BY <1>2, WFMin
<1>5. x \in Nat
  BY <1>4
<1>6. \A y \in T : y \in Nat /\ ~(y < x)
  BY <1>3, <1>4, <1>5
<1>7. \A y \in T : x <= y
  BY <1>5, <1>6
<1> QED BY <1>4, <1>7

\* A set with 0 and the successor of each of its naturals has all of them.
LEMMA Induction == ASSUME NEW T, 0 \in T, \A n \in Nat : n \in T => n + 1 \in T PROVE Nat \subseteq T
<1> SUFFICES ASSUME Nat \ T # {} PROVE FALSE
  OBVIOUS
<1>1. PICK x \in Nat \ T : \A y \in Nat \ T : x <= y
  BY Least
<1>2. x # 0 /\ x - 1 \in Nat /\ x - 1 \in T
  BY <1>1
<1> QED BY <1>1, <1>2

\* The first naturals are as many as the last of them says.
LEMMA Counted == \A n \in Nat : IsFiniteSet(1..n) /\ Cardinality(1..n) = n
<1> TAKE n \in Nat
<1>1. 1 \in Int /\ n \in Int
  OBVIOUS
<1>2. IsFiniteSet(1..n) /\ Cardinality(1..n) = IF 1 > n THEN 0 ELSE n - 1 + 1
  BY ONLY <1>1, FS_Interval
<1> QED BY <1>2

\* A call is of one component from its beginning to its end, and a step of the program is one of the
\* component's or leaves the component where it is.
LEMMA StepIsOfComponent ==
  ASSUME [Next]_vars
  PROVE  /\ command' = command
         /\ command = "worker" => [W!Next]_(W!vars)
         /\ command = "sign" => [S!Next]_(S!vars)
         /\ command = "read" => [Q!Next]_(Q!vars)
         /\ command = "raster" => [R!Next]_(R!vars)
         /\ command = "dxf" => [D!Next]_(D!vars)
         /\ command = "ifc" => [I!Next]_(I!vars)
         /\ command = "exchange" => [E!Next]_(E!vars)
         /\ command = "geometry" => [G!Next]_(G!vars)
<1> USE DEF vars, main, written, own, dxf, ifc, signing, reading, process, Leave
<1> USE DEF W!vars, W!process, S!vars, S!ledger, Q!vars, Q!reading, R!vars, D!vars, I!vars, E!vars, G!vars, D!loading, D!visiting, I!drawing
<1>1. CASE UNCHANGED vars
  BY <1>1
<1>2. CASE Refuse \/ Run \/ Abort \/ Exit \/ IngestOpaque
  BY <1>2 DEF Refuse, Run, Abort, Exit, IngestOpaque, Running
<1>3. CASE Raster
  BY <1>3 DEF Raster, Running
<1>4. CASE Dxf
  BY <1>4 DEF Dxf, Running
<1>5. CASE Ifc
  BY <1>5 DEF Ifc, Running
<1>6. CASE Exchange
  BY <1>6 DEF Exchange, Running
<1>7. CASE Geometry
  BY <1>7 DEF Geometry, Running
<1>8. CASE SignOrVerify
  BY <1>8 DEF SignOrVerify, Running
<1>9. CASE Read
  BY <1>9 DEF Read, Running
<1>10. CASE Parent \/ Worker
  BY <1>10 DEF Parent, Worker, Elsewhere, Running, W!Next
<1> QED BY <1>1, <1>2, <1>3, <1>4, <1>5, <1>6, <1>7, <1>8, <1>9, <1>10 DEF Next

(***************************************************************************)
(* The commands that answer from packages: see Reading for the definitions *)
(* with the prefix Q!.                                                     *)
(***************************************************************************)
\* A set with 0 and, up to n, the successor of each of its members has 0..n.
LEMMA InductionTo ==
  ASSUME NEW n \in Nat, NEW T, 0 \in T, \A k \in 1..n : k - 1 \in T => k \in T
  PROVE  0..n \subseteq T
<1>1. PICK U : U = {k \in Nat : k <= n => k \in T}
  OBVIOUS
<1>2. 0 \in U
  BY <1>1
<1>3. ASSUME NEW m \in Nat, m \in U PROVE m + 1 \in U
  <2> SUFFICES ASSUME m + 1 <= n PROVE m + 1 \in T
    BY <1>1
  <2>1. PICK k \in 1..n : k = m + 1 /\ k - 1 = m
    OBVIOUS
  <2>2. k - 1 \in T
    BY <1>1, <1>3, <2>1
  <2>3. k \in T
    BY <2>2
  <2> QED BY <2>1, <2>3
<1>4. Nat \subseteq U
  BY <1>2, <1>3, Induction
<1> QED BY <1>1, <1>4

\* The functions on 0..n that begin with base and go on by the n steps.
Recursions(n, dom, base, step) == {f \in [0..n -> dom] : f[0] = base /\ \A k \in 1..n : f[k] = step[k][f[k - 1]]}

\* There is one.
LEMMA Recursion ==
  ASSUME NEW n \in Nat, NEW dom, NEW base \in dom, NEW step \in [1..n -> [dom -> dom]]
  PROVE  \E f : f \in Recursions(n, dom, base, step)
<1>1. PICK T : T = {m \in Nat : m <= n => \E f \in [0..m -> dom] : f[0] = base /\ \A k \in 1..m : f[k] = step[k][f[k - 1]]}
  OBVIOUS
<1>2. 0 \in T
  <2>1. PICK f : f = [k \in 0..0 |-> base]
    OBVIOUS
  <2>2. f \in [0..0 -> dom] /\ f[0] = base
    BY <2>1
  <2> QED BY <1>1, <2>2
<1>3. ASSUME NEW m \in Nat, m \in T PROVE m + 1 \in T
  <2> SUFFICES ASSUME m + 1 <= n PROVE \E f \in [0..m + 1 -> dom] : f[0] = base /\ \A k \in 1..m + 1 : f[k] = step[k][f[k - 1]]
    BY <1>1
  <2>1. PICK f \in [0..m -> dom] : f[0] = base /\ \A k \in 1..m : f[k] = step[k][f[k - 1]]
    BY <1>1, <1>3
  <2>2. PICK g : g = [k \in 0..m + 1 |-> IF k = m + 1 THEN step[m + 1][f[m]] ELSE f[k]]
    OBVIOUS
  <2>3. f[m] \in dom /\ m + 1 \in 1..n
    OBVIOUS
  <2>4. step[m + 1] \in [dom -> dom]
    BY <2>3
  <2>5. step[m + 1][f[m]] \in dom
    BY <2>3, <2>4
  <2>6. g \in [0..m + 1 -> dom]
    BY <2>1, <2>2, <2>5
  <2>7. \A k \in 0..m : g[k] = f[k]
    BY <2>2
  <2>8. g[m + 1] = step[m + 1][f[m]]
    BY <2>2
  <2>9. ASSUME NEW k \in 1..m + 1 PROVE g[k] = step[k][g[k - 1]]
    <3>1. CASE k = m + 1
      BY <2>7, <2>8, <3>1
    <3>2. CASE k # m + 1
      <4>1. k \in 1..m /\ k \in 0..m /\ k - 1 \in 0..m
        BY <3>2
      <4> QED BY <2>1, <2>7, <4>1
    <3> QED BY <3>1, <3>2
  <2>10. g[0] = base
    BY <2>1, <2>7
  <2> QED BY <2>6, <2>9, <2>10
<1>4. n \in T
  BY <1>2, <1>3, Induction
<1> QED BY <1>1, <1>4 DEF Recursions

\* The sum of n naturals is a recursion over 0..n.
LEMMA SumIs ==
  ASSUME NEW n \in Nat, NEW s \in [1..n -> Nat]
  PROVE  \E f \in [0..n -> Nat] : f[0] = 0 /\ (\A k \in 1..n : f[k] = f[k - 1] + s[k]) /\ Q!Sum(s) = f[n]
<1> PICK f : f = CHOOSE sum : sum = [k \in 0..n |-> IF k = 0 THEN 0 ELSE sum[k - 1] + s[k]]
  OBVIOUS
<1>1. PICK step : step = [k \in 1..n |-> [x \in Nat |-> x + s[k]]]
  OBVIOUS
<1>2. ASSUME NEW k \in 1..n, NEW x \in Nat PROVE step[k][x] = x + s[k]
  <2>2. step[k] = [y \in Nat |-> y + s[k]]
    BY <1>1
  <2> QED BY <2>2
<1>3. step \in [1..n -> [Nat -> Nat]]
  BY <1>1
<1>4. PICK g : g \in Recursions(n, Nat, 0, step)
  <2>1. 0 \in Nat
    OBVIOUS
  <2> QED BY <1>3, <2>1, Recursion
<1>5. g \in [0..n -> Nat] /\ g[0] = 0 /\ \A k \in 1..n : g[k] = step[k][g[k - 1]]
  BY <1>4 DEF Recursions
<1>6. ASSUME NEW k \in 1..n PROVE g[k] = g[k - 1] + s[k]
  <2>1. g[k - 1] \in Nat
    BY <1>5
  <2> QED BY <1>2, <1>5, <2>1
<1>7. \A k \in 0..n : g[k] = IF k = 0 THEN 0 ELSE g[k - 1] + s[k]
  BY <1>5, <1>6
<1>8. g = [k \in 0..n |-> IF k = 0 THEN 0 ELSE g[k - 1] + s[k]]
  BY <1>5, <1>7
<1>9. f = [k \in 0..n |-> IF k = 0 THEN 0 ELSE f[k - 1] + s[k]]
  BY <1>8
<1>10. DOMAIN f = 0..n /\ \A k \in 0..n : f[k] = IF k = 0 THEN 0 ELSE f[k - 1] + s[k]
  BY <1>9
<1>11. f[0] = 0 /\ \A k \in 1..n : f[k] = f[k - 1] + s[k]
  <2>1. 0 \in 0..n /\ \A k \in 1..n : k \in 0..n /\ k # 0
    OBVIOUS
  <2> QED BY <1>10, <2>1
<1>12. \A k \in 0..n : f[k] \in Nat
  <2>1. PICK T : T = {k \in 0..n : f[k] \in Nat}
    OBVIOUS
  <2>2. 0 \in T
    BY <1>11, <2>1
  <2>3. ASSUME NEW k \in 1..n, k - 1 \in T PROVE k \in T
    <3>1. f[k - 1] \in Nat /\ s[k] \in Nat
      BY <2>1, <2>3
    <3>2. f[k] \in Nat
      BY <1>11, <3>1
    <3> QED BY <2>1, <3>2
  <2> QED BY <2>1, <2>2, <2>3, InductionTo
<1>13. f \in [0..n -> Nat]
  BY <1>9, <1>12
<1>14. Len(s) = n
  OBVIOUS
<1>15. Q!Sum(s) = f[n]
  BY <1>14 DEF Q!Sum
<1> QED BY <1>11, <1>13, <1>15

\* One number more adds itself to the sum.
LEMMA SumAppend ==
  ASSUME NEW s \in Seq(Nat), NEW x \in Nat
  PROVE  /\ Q!Sum(<<>>) = 0
         /\ Q!Sum(s) \in Nat
         /\ Q!Sum(Append(s, x)) = Q!Sum(s) + x
<1>1. PICK n, t : n = Len(s) /\ t = Append(s, x)
  OBVIOUS
<1>2. n \in Nat /\ s \in [1..n -> Nat] /\ t \in [1..n + 1 -> Nat] /\ t[n + 1] = x /\ \A k \in 1..n : t[k] = s[k]
  <2>1. n \in Nat /\ s \in [1..n -> Nat] /\ Len(s) = n
    BY <1>1
  <2>2. t \in Seq(Nat) /\ Len(t) = n + 1
    BY <1>1, <2>1
  <2>3. t[n + 1] = x /\ \A k \in 1..n : t[k] = s[k]
    BY <1>1, <2>1
  <2> QED BY <2>1, <2>2, <2>3
<1>3. PICK f \in [0..n -> Nat] : f[0] = 0 /\ (\A k \in 1..n : f[k] = f[k - 1] + s[k]) /\ Q!Sum(s) = f[n]
  BY <1>2, SumIs
<1>4. PICK m \in Nat : m = n + 1 /\ m - 1 = n
  BY <1>2
<1>5. PICK g \in [0..m -> Nat] : g[0] = 0 /\ (\A k \in 1..m : g[k] = g[k - 1] + t[k]) /\ Q!Sum(t) = g[m]
  BY <1>2, <1>4, SumIs
<1>6. PICK T : T = {k \in 0..n : g[k] = f[k]}
  OBVIOUS
<1>7. 0 \in T
  BY <1>2, <1>3, <1>5, <1>6
<1>8. ASSUME NEW k \in 1..n, k - 1 \in T PROVE k \in T
  <2>1. k \in 1..m /\ t[k] = s[k] /\ g[k - 1] = f[k - 1]
    BY <1>2, <1>4, <1>6, <1>8
  <2>2. g[k] = f[k]
    BY <1>3, <1>5, <2>1
  <2> QED BY <1>6, <2>2
<1>9. n \in T
  <2>1. 0..n \subseteq T
    BY <1>2, <1>7, <1>8, InductionTo
  <2> QED BY <1>2, <2>1
<1>10. m \in 1..m /\ g[m] = g[m - 1] + t[m]
  BY <1>2, <1>4, <1>5
<1>11. Q!Sum(t) = f[n] + x
  BY <1>2, <1>4, <1>5, <1>6, <1>9, <1>10
<1>12. Q!Sum(<<>>) = 0
  <2>1. PICK e : e = <<>>
    OBVIOUS
  <2>2. e \in [1..0 -> Nat]
    BY <2>1
  <2>3. \E h \in [0..0 -> Nat] : h[0] = 0 /\ Q!Sum(e) = h[0]
    BY <2>2, SumIs
  <2> QED BY <2>1, <2>3
<1>13. Q!Sum(s) = f[n] /\ f[n] \in Nat
  BY <1>2, <1>3
<1>14. Q!Sum(t) = Q!Sum(s) + x
  BY <1>11, <1>13
<1> QED BY <1>1, <1>12, <1>13, <1>14

(***************************************************************************)
(* Sizes.                                                                  *)
(***************************************************************************)
Powers == {10, 100, 1000, 10000, 100000, 1000000, 10000000, 100000000}
Power == <<10, 100, 1000, 10000, 100000, 1000000, 10000000, 100000000>>

\* A number has between one and nine digits (up to the ninth), and a greater one no fewer.
LEMMA DigitsAre ==
  /\ \A n : Q!Digits(n) \in 1..9
  /\ \A m, n \in Nat : m <= n => Q!Digits(m) <= Q!Digits(n)
<1>1. PICK P, f : P = Powers /\ f = Power
  OBVIOUS
<1>2. P \subseteq Nat
  BY <1>1 DEF Powers
<1>3. DOMAIN f = 1..8 /\ \A i \in 1..8 : f[i] \in P
  BY <1>1 DEF Powers, Power
<1>4. f \in [1..8 -> P]
  BY <1>1, <1>3 DEF Power
<1>5. \A p \in P : \E i \in 1..8 : f[i] = p
  <2>1. /\ f[1] = 10 /\ f[2] = 100 /\ f[3] = 1000 /\ f[4] = 10000
        /\ f[5] = 100000 /\ f[6] = 1000000 /\ f[7] = 10000000 /\ f[8] = 100000000
    BY <1>1 DEF Power
  <2> QED BY <1>1, <2>1 DEF Powers
<1>6. f \in Surjection(1..8, P)
  BY <1>4, <1>5 DEF Surjection
<1>7. IsFiniteSet(1..8) /\ Cardinality(1..8) = 8
  BY Counted
<1>8. IsFiniteSet(P) /\ Cardinality(P) <= 8
  BY <1>6, <1>7, FS_Surjection
<1>9. \A n : Q!Digits(n) = Cardinality({p \in P : p <= n}) + 1
  BY <1>1 DEF Q!Digits, Q!Cardinality, Cardinality, Powers
<1>10. ASSUME NEW n PROVE Q!Digits(n) \in 1..9
  <2>1. PICK dom : dom = {p \in P : p <= n}
    OBVIOUS
  <2>2. IsFiniteSet(dom) /\ Cardinality(dom) <= Cardinality(P)
    BY <1>8, <2>1, FS_Subset
  <2>3. Cardinality(dom) \in Nat /\ Cardinality(P) \in Nat
    BY <1>8, <2>2, FS_CardinalityType
  <2> QED BY <1>8, <1>9, <2>1, <2>2, <2>3
<1>11. ASSUME NEW m \in Nat, NEW n \in Nat, m <= n PROVE Q!Digits(m) <= Q!Digits(n)
  <2>1. PICK C, dom : C = {p \in P : p <= m} /\ dom = {p \in P : p <= n}
    OBVIOUS
  <2>2. \A p \in P : p <= m => p <= n
    BY <1>2, <1>11
  <2>3. C \subseteq dom
    BY <2>1, <2>2
  <2>4. IsFiniteSet(dom)
    BY <1>8, <2>1, FS_Subset
  <2>5. IsFiniteSet(C) /\ Cardinality(C) <= Cardinality(dom)
    BY <2>3, <2>4, FS_Subset
  <2>6. Cardinality(C) \in Nat /\ Cardinality(dom) \in Nat
    BY <2>4, <2>5, FS_CardinalityType
  <2> QED BY <1>9, <2>1, <2>5, <2>6
<1> QED BY <1>10, <1>11

\* Bytes are counted in tokens of four, the last one perhaps not full.
LEMMA TokensAre ==
  /\ \A n \in Nat : Q!estimate_tokens(n) \in Nat
  /\ \A m, n \in Nat : m <= n => Q!estimate_tokens(m) <= Q!estimate_tokens(n)
  /\ \A m, n \in Nat : m <= n /\ n <= m + 8 => Q!estimate_tokens(n) <= Q!estimate_tokens(m) + 2
BY DEF Q!estimate_tokens

(***************************************************************************)
(* Chunks.                                                                 *)
(***************************************************************************)
ChunkLists == Seq([bytes : Nat, sections : Nat])
SectionsOf(chunks) == [k \in DOMAIN chunks |-> chunks[k].sections]
WithinBudget(chunks, budget) ==
  \A k \in DOMAIN chunks : chunks[k].sections > 1 => Q!estimate_tokens(chunks[k].bytes) <= budget

\* A list of chunks that is not empty is what comes before its last chunk, and that chunk.
LEMMA FrontAndLast ==
  ASSUME NEW c \in ChunkLists, c # <<>>
  PROVE  /\ Q!Front(c) \in ChunkLists /\ Q!Last(c) \in [bytes : Nat, sections : Nat]
         /\ c = Append(Q!Front(c), Q!Last(c))
         /\ Len(Q!Front(c)) = Len(c) - 1 /\ \A k \in 1..Len(c) - 1 : Q!Front(c)[k] = c[k]
<1>1. PICK C, n : C = [bytes : Nat, sections : Nat] /\ n = Len(c)
  OBVIOUS
<1>2. c \in Seq(C)
  BY <1>1 DEF ChunkLists
<1>3. n \in Nat /\ n # 0 /\ DOMAIN c = 1..n /\ n \in 1..n
  BY <1>1, <1>2
<1>4. PICK f : f = SubSeq(c, 1, n - 1)
  OBVIOUS
<1>5. f \in Seq(C) /\ Len(f) = n - 1 /\ \A k \in 1..n - 1 : f[k] = c[k]
  BY <1>2, <1>3, <1>4
<1>6. c[n] \in C
  BY <1>2, <1>3
<1>7. c = Append(f, c[n])
  <2>1. Append(f, c[n]) \in Seq(C) /\ Len(Append(f, c[n])) = n
    BY <1>3, <1>5, <1>6
  <2>2. ASSUME NEW k \in 1..n PROVE Append(f, c[n])[k] = c[k]
    <3>1. /\ k = Len(f) + 1 => Append(f, c[n])[k] = c[n]
          /\ k \in 1..Len(f) => Append(f, c[n])[k] = f[k]
      BY <1>5, <1>6
    <3>2. k \in 1..n - 1 \/ k = n
      BY <1>3
    <3>3. Len(f) = n - 1 /\ Len(f) + 1 = n
      BY <1>3, <1>5
    <3>4. CASE k = n
      BY <3>1, <3>3, <3>4
    <3>5. CASE k \in 1..n - 1
      <4>1. k \in 1..Len(f) /\ f[k] = c[k]
        BY <1>5, <3>3, <3>5
      <4> QED BY <3>1, <4>1
    <3> QED BY <3>2, <3>4, <3>5
  <2>3. DOMAIN Append(f, c[n]) = 1..n /\ DOMAIN c = 1..n
    BY <1>3, <2>1
  <2> QED BY <1>2, <2>1, <2>2, <2>3
<1>8. Q!Front(c) = f /\ Q!Last(c) = c[n]
  BY <1>1, <1>4 DEF Q!Front, Q!Last
<1> QED BY <1>1, <1>5, <1>6, <1>7, <1>8 DEF ChunkLists

\* The sections of a list with one more chunk.
LEMMA SectionsAppend ==
  ASSUME NEW c \in ChunkLists, NEW chunk \in [bytes : Nat, sections : Nat]
  PROVE  /\ SectionsOf(c) \in Seq(Nat)
         /\ SectionsOf(Append(c, chunk)) = Append(SectionsOf(c), chunk.sections)
<1>0. PICK C : C = [bytes : Nat, sections : Nat]
  OBVIOUS
<1>1. PICK n, d : n = Len(c) /\ d = Append(c, chunk)
  OBVIOUS
<1>2. n \in Nat /\ c \in [1..n -> [bytes : Nat, sections : Nat]]
  <2>1. c \in Seq(C)
    BY <1>0 DEF ChunkLists
  <2>2. n \in Nat /\ c \in [1..n -> C]
    BY <1>1, <2>1
  <2> QED BY <1>0, <2>2
<1>3. DOMAIN d = 1..n + 1 /\ d[n + 1] = chunk /\ \A k \in 1..n : d[k] = c[k]
  BY <1>1, <1>2
<1>4. SectionsOf(c) \in [1..n -> Nat]
  BY <1>2 DEF SectionsOf
<1>5. SectionsOf(c) \in Seq(Nat) /\ Len(SectionsOf(c)) = n
  BY <1>2, <1>4
<1>6. SectionsOf(d) = [k \in 1..n + 1 |-> IF k = n + 1 THEN chunk.sections ELSE SectionsOf(c)[k]]
  BY <1>2, <1>3 DEF SectionsOf
<1>7. Append(SectionsOf(c), chunk.sections) = [k \in 1..n + 1 |-> IF k = n + 1 THEN chunk.sections ELSE SectionsOf(c)[k]]
  BY <1>2, <1>4, <1>5
<1> QED BY <1>1, <1>5, <1>6, <1>7

\* One more section is in the last chunk, or in a new one if it would exceed the budget of the last.
LEMMA AddSectionIs ==
  ASSUME NEW c \in ChunkLists, NEW bytes \in Nat, NEW budget \in Nat, WithinBudget(c, budget)
  PROVE  /\ Q!AddSection(c, bytes, budget) \in ChunkLists
         /\ WithinBudget(Q!AddSection(c, bytes, budget), budget)
         /\ Q!Sum(SectionsOf(Q!AddSection(c, bytes, budget))) = Q!Sum(SectionsOf(c)) + 1
<1>1. CASE c # <<>> /\ Q!estimate_tokens(Q!Last(c).bytes + bytes) <= budget
  <2>1. PICK f, l : f = Q!Front(c) /\ l = Q!Last(c)
    OBVIOUS
  <2>2. PICK m : m = [bytes |-> l.bytes + bytes, sections |-> l.sections + 1]
    OBVIOUS
  <2>3. /\ f \in ChunkLists /\ l \in [bytes : Nat, sections : Nat] /\ m \in [bytes : Nat, sections : Nat]
        /\ c = Append(f, l)
    BY <1>1, <2>1, <2>2, FrontAndLast
  <2>4. Q!AddSection(c, bytes, budget) = Append(f, m)
    BY <1>1, <2>1, <2>2 DEF Q!AddSection
  <2>5. Append(f, m) \in ChunkLists
    BY <2>3 DEF ChunkLists
  <2>6. WithinBudget(Append(f, m), budget)
    <3>1. Len(f) \in Nat /\ DOMAIN c = 1..Len(f) + 1 /\ DOMAIN Append(f, m) = 1..Len(f) + 1
      BY <2>3 DEF ChunkLists
    <3>2. \A k \in 1..Len(f) : c[k] = f[k] /\ Append(f, m)[k] = f[k]
      BY <2>3 DEF ChunkLists
    <3>3. Append(f, m)[Len(f) + 1] = m
      BY <2>3 DEF ChunkLists
    <3>4. Q!estimate_tokens(m.bytes) <= budget
      BY <1>1, <2>1, <2>2
    <3> QED BY <3>1, <3>2, <3>3, <3>4 DEF WithinBudget
  <2>7. /\ SectionsOf(f) \in Seq(Nat) /\ SectionsOf(c) = Append(SectionsOf(f), l.sections)
        /\ SectionsOf(Append(f, m)) = Append(SectionsOf(f), l.sections + 1)
    BY <2>2, <2>3, SectionsAppend
  <2>8. l.sections \in Nat /\ l.sections + 1 \in Nat
    BY <2>3
  <2>9. Q!Sum(SectionsOf(f)) \in Nat /\ Q!Sum(SectionsOf(c)) = Q!Sum(SectionsOf(f)) + l.sections
    BY <2>7, <2>8, SumAppend
  <2>10. Q!Sum(SectionsOf(Append(f, m))) = Q!Sum(SectionsOf(f)) + (l.sections + 1)
    BY <2>7, <2>8, SumAppend
  <2> QED BY <2>4, <2>5, <2>6, <2>8, <2>9, <2>10
<1>2. CASE ~(c # <<>> /\ Q!estimate_tokens(Q!Last(c).bytes + bytes) <= budget)
  <2>1. PICK m : m = [bytes |-> Q!Header(Len(c) + 1) + bytes, sections |-> 1]
    OBVIOUS
  <2>2. m \in [bytes : Nat, sections : Nat] /\ m.sections = 1
    <3>1. Q!Header(Len(c) + 1) \in Nat
      BY DigitsAre DEF Q!Header
    <3> QED BY <2>1, <3>1
  <2>3. Q!AddSection(c, bytes, budget) = Append(c, m)
    BY <1>2, <2>1 DEF Q!AddSection
  <2>4. Append(c, m) \in ChunkLists
    BY <2>2 DEF ChunkLists
  <2>5. WithinBudget(Append(c, m), budget)
    <3>1. Len(c) \in Nat /\ DOMAIN c = 1..Len(c) /\ DOMAIN Append(c, m) = 1..Len(c) + 1
      BY DEF ChunkLists
    <3>2. Append(c, m)[Len(c) + 1] = m /\ \A k \in 1..Len(c) : Append(c, m)[k] = c[k]
      BY DEF ChunkLists
    <3> QED BY <2>2, <3>1, <3>2 DEF WithinBudget
  <2>6. SectionsOf(c) \in Seq(Nat) /\ SectionsOf(Append(c, m)) = Append(SectionsOf(c), 1)
    BY <2>2, SectionsAppend
  <2>7. Q!Sum(SectionsOf(Append(c, m))) = Q!Sum(SectionsOf(c)) + 1
    BY <2>6, SumAppend
  <2> QED BY <2>3, <2>4, <2>5, <2>7
<1> QED BY <1>1, <1>2

\* The chunks of n sections keep to their budget and are of n sections together.
LEMMA ChunksAre ==
  ASSUME NEW n \in Nat, NEW s \in [1..n -> Nat], NEW budget \in Nat
  PROVE  /\ Q!Chunks(s, budget) \in ChunkLists /\ WithinBudget(Q!Chunks(s, budget), budget)
         /\ Q!Sum(SectionsOf(Q!Chunks(s, budget))) = n
<1> PICK f : f = CHOOSE built : built = [k \in 0..n |-> IF k = 0 THEN <<>> ELSE Q!AddSection(built[k - 1], s[k], budget)]
  OBVIOUS
<1>1. PICK dom : dom = {c \in ChunkLists : WithinBudget(c, budget)}
  OBVIOUS
<1>2. PICK step : step = [k \in 1..n |-> [c \in dom |-> Q!AddSection(c, s[k], budget)]]
  OBVIOUS
<1>3. ASSUME NEW k \in 1..n, NEW c \in dom PROVE Q!AddSection(c, s[k], budget) \in dom
  BY <1>1, AddSectionIs
<1>4. step \in [1..n -> [dom -> dom]] /\ \A k \in 1..n : \A c \in dom : step[k][c] = Q!AddSection(c, s[k], budget)
  BY <1>2, <1>3
<1>5. <<>> \in dom
  BY <1>1 DEF ChunkLists, WithinBudget
<1>6. PICK g : g \in Recursions(n, dom, <<>>, step)
  BY <1>4, <1>5, Recursion
<1>7. g \in [0..n -> dom] /\ g[0] = <<>> /\ \A k \in 1..n : g[k] = step[k][g[k - 1]]
  BY <1>6 DEF Recursions
<1>8. ASSUME NEW k \in 1..n PROVE g[k] = Q!AddSection(g[k - 1], s[k], budget)
  <2>1. g[k - 1] \in dom
    BY <1>7
  <2> QED BY <1>4, <1>7, <2>1
<1>9. \A k \in 0..n : g[k] = IF k = 0 THEN <<>> ELSE Q!AddSection(g[k - 1], s[k], budget)
  BY <1>7, <1>8
<1>10. g = [k \in 0..n |-> IF k = 0 THEN <<>> ELSE Q!AddSection(g[k - 1], s[k], budget)]
  BY <1>7, <1>9
<1>11. f = [k \in 0..n |-> IF k = 0 THEN <<>> ELSE Q!AddSection(f[k - 1], s[k], budget)]
  BY <1>10
<1>12. f[0] = <<>> /\ \A k \in 1..n : f[k] = Q!AddSection(f[k - 1], s[k], budget)
  <2>1. \A k \in 0..n : f[k] = IF k = 0 THEN <<>> ELSE Q!AddSection(f[k - 1], s[k], budget)
    BY <1>11
  <2>2. 0 \in 0..n /\ \A k \in 1..n : k \in 0..n /\ k # 0
    OBVIOUS
  <2> QED BY <2>1, <2>2
<1>13. PICK T : T = {k \in 0..n : f[k] \in dom /\ Q!Sum(SectionsOf(f[k])) = k}
  OBVIOUS
<1>14. 0 \in T
  <2>1. SectionsOf(<<>>) = <<>>
    BY DEF SectionsOf
  <2>2. Q!Sum(<<>>) = 0
    <3>1. <<>> \in Seq(Nat) /\ 0 \in Nat
      OBVIOUS
    <3> QED BY <3>1, SumAppend
  <2> QED BY <1>5, <1>12, <1>13, <2>1, <2>2
<1>15. ASSUME NEW k \in 1..n, k - 1 \in T PROVE k \in T
  <2>1. f[k - 1] \in dom /\ Q!Sum(SectionsOf(f[k - 1])) = k - 1
    BY <1>13, <1>15
  <2>2. f[k] = Q!AddSection(f[k - 1], s[k], budget) /\ s[k] \in Nat
    BY <1>12
  <2>3. f[k] \in dom
    BY <1>3, <2>1, <2>2
  <2>4. Q!Sum(SectionsOf(f[k])) = Q!Sum(SectionsOf(f[k - 1])) + 1
    BY <1>1, <2>1, <2>2, AddSectionIs
  <2> QED BY <1>13, <2>1, <2>3, <2>4
<1>16. n \in T
  <2>1. 0..n \subseteq T
    BY <1>14, <1>15, InductionTo
  <2> QED BY <2>1
<1>17. Len(s) = n
  OBVIOUS
<1>18. Q!Chunks(s, budget) = f[n]
  BY <1>17 DEF Q!Chunks
<1> QED BY <1>1, <1>13, <1>16, <1>18

(***************************************************************************)
(* The order of a profile.                                                 *)
(***************************************************************************)
\* What the records of a store are: finitely many, numbered, no two with one identifier.
AreRecords(rs) ==
  /\ IsFiniteSet(rs)
  /\ \A r \in rs : r.id \in Nat /\ r.size \in Nat
  /\ \A r, s \in rs : r.id = s.id => r = s

\* A type has a rank.
LEMMA RankIs == ASSUME NEW type, NEW profile PROVE Q!Rank(type, profile) \in Nat
<1>1. PICK order : order = IF profile = "audit" THEN <<"source", "diagnostic", "primitive", "assertion", "entity", "relation">>
                           ELSE <<"source", "entity", "relation", "diagnostic", "assertion", "primitive">>
  OBVIOUS
<1>2. Q!Rank(type, profile) = IF \E i \in 1..6 : order[i] = type THEN CHOOSE i \in 1..6 : order[i] = type ELSE 9
  BY <1>1 DEF Q!Rank
<1> QED BY <1>2

\* A profile orders the records of a store: strictly, and any two of them.
LEMMA BeforeOrders ==
  ASSUME NEW rs, AreRecords(rs), NEW p
  PROVE  /\ \A a \in rs : ~Q!Before(a, a, p)
         /\ \A a, b, c \in rs : Q!Before(a, b, p) /\ Q!Before(b, c, p) => Q!Before(a, c, p)
         /\ \A a, b \in rs : a # b => Q!Before(a, b, p) \/ Q!Before(b, a, p)
<1>1. PICK rank : rank = [r \in rs |-> Q!Rank(r.type, p)]
  OBVIOUS
<1>2. \A r \in rs : rank[r] \in Nat /\ rank[r] = Q!Rank(r.type, p)
  BY <1>1, RankIs
<1>3. \A a, b \in rs : Q!Before(a, b, p) <=> rank[a] < rank[b] \/ (rank[a] = rank[b] /\ a.id < b.id)
  BY <1>2 DEF Q!Before
<1>4. \A r \in rs : r.id \in Nat
  BY DEF AreRecords
<1>5. \A a \in rs : ~Q!Before(a, a, p)
  BY <1>2, <1>3, <1>4
<1>6. \A a, b, c \in rs : Q!Before(a, b, p) /\ Q!Before(b, c, p) => Q!Before(a, c, p)
  BY <1>2, <1>3, <1>4
<1>7. ASSUME NEW a \in rs, NEW b \in rs, a # b PROVE Q!Before(a, b, p) \/ Q!Before(b, a, p)
  <2>1. a.id # b.id
    BY <1>7 DEF AreRecords
  <2> QED BY <1>2, <1>3, <1>4, <2>1
<1> QED BY <1>5, <1>6, <1>7

\* The records of a store in the order of a profile: each of them once, and an earlier one before a later.
LEMMA PrioritisedIs ==
  ASSUME NEW rs, AreRecords(rs), NEW p, NEW o, o = Q!Prioritised(rs, p)
  PROVE  /\ Cardinality(rs) \in Nat /\ o \in [1..Cardinality(rs) -> rs] /\ Len(o) = Cardinality(rs)
         /\ \A r \in rs : \E k \in 1..Cardinality(rs) : o[k] = r
         /\ \A j, k \in 1..Cardinality(rs) : j < k => Q!Before(o[j], o[k], p)
<1>1. PICK n : n = Cardinality(rs)
  OBVIOUS
<1>2. n \in Nat /\ IsFiniteSet(rs)
  BY <1>1, FS_CardinalityType DEF AreRecords
<1>3. PICK below : below = [r \in rs |-> {s \in rs : Q!Before(s, r, p)}]
  OBVIOUS
<1>4. PICK place : place = [r \in rs |-> Cardinality(below[r]) + 1]
  OBVIOUS
<1>5. ASSUME NEW r \in rs PROVE IsFiniteSet(below[r]) /\ place[r] \in 1..n
  <2>1. below[r] \in SUBSET (rs \ {r})
    BY <1>3, BeforeOrders
  <2>2. IsFiniteSet(rs \ {r}) /\ Cardinality(rs \ {r}) = n - 1
    BY <1>1, <1>2, FS_RemoveElement
  <2>3. IsFiniteSet(below[r]) /\ Cardinality(below[r]) <= n - 1
    BY <2>1, <2>2, FS_Subset
  <2>4. Cardinality(below[r]) \in Nat
    BY <2>3, FS_CardinalityType
  <2> QED BY <1>2, <1>4, <2>3, <2>4
<1>6. ASSUME NEW r \in rs, NEW t \in rs, Q!Before(r, t, p) PROVE place[r] < place[t]
  <2>1. below[r] \in SUBSET below[t]
    BY <1>3, <1>6, BeforeOrders
  <2>2. r \in below[t] /\ r \notin below[r]
    BY <1>3, <1>6, BeforeOrders
  <2>3. Cardinality(below[r]) <= Cardinality(below[t]) /\ Cardinality(below[r]) # Cardinality(below[t])
    BY <1>5, <2>1, <2>2, FS_Subset
  <2>4. Cardinality(below[r]) \in Nat /\ Cardinality(below[t]) \in Nat
    BY <1>5, FS_CardinalityType
  <2> QED BY <1>4, <2>3, <2>4
<1>7. \A r, t \in rs : place[r] = place[t] => r = t
  <2> SUFFICES ASSUME NEW r \in rs, NEW t \in rs, r # t PROVE place[r] # place[t]
    OBVIOUS
  <2>1. Q!Before(r, t, p) \/ Q!Before(t, r, p)
    BY BeforeOrders
  <2>2. place[r] < place[t] \/ place[t] < place[r]
    BY <1>6, <2>1
  <2>3. place[r] \in Nat /\ place[t] \in Nat
    BY <1>2, <1>5
  <2> QED BY <2>2, <2>3
<1>8. place \in Injection(rs, 1..n)
  <2>1. place \in [rs -> 1..n]
    BY <1>4, <1>5
  <2> QED BY <1>7, <2>1 DEF Injection, IsInjective
<1>9. place \in Surjection(rs, 1..n)
  <2>1. IsFiniteSet(1..n) /\ Cardinality(1..n) = n
    BY <1>2, Counted
  <2> QED BY <1>1, <1>8, <2>1, FS_Injection
<1>10. \A k \in 1..n : \E r \in rs : place[r] = k
  BY <1>9 DEF Surjection
<1>11. \A r \in rs : \A k \in 1..n : place[r] = k <=> Q!Cardinality({s \in rs : Q!Before(s, r, p)}) = k - 1
  <2> SUFFICES ASSUME NEW r \in rs, NEW k \in 1..n PROVE place[r] = k <=> Q!Cardinality({s \in rs : Q!Before(s, r, p)}) = k - 1
    OBVIOUS
  <2>1. Q!Cardinality({s \in rs : Q!Before(s, r, p)}) = Cardinality(below[r])
    BY <1>3 DEF Q!Cardinality, Cardinality
  <2>2. Cardinality(below[r]) \in Nat /\ place[r] = Cardinality(below[r]) + 1
    BY <1>4, <1>5, FS_CardinalityType
  <2> QED BY <1>2, <2>1, <2>2
<1>12. o = [k \in 1..n |-> CHOOSE r \in rs : Q!Cardinality({s \in rs : Q!Before(s, r, p)}) = k - 1]
  BY <1>1 DEF Q!Prioritised, Q!Cardinality, Cardinality
<1>13. ASSUME NEW k \in 1..n PROVE o[k] \in rs /\ place[o[k]] = k
  <2>1. \E r \in rs : Q!Cardinality({s \in rs : Q!Before(s, r, p)}) = k - 1
    BY <1>10, <1>11
  <2>2. o[k] \in rs /\ Q!Cardinality({s \in rs : Q!Before(s, o[k], p)}) = k - 1
    BY <1>12, <2>1
  <2> QED BY <1>11, <2>2
<1>14. o \in [1..n -> rs] /\ Len(o) = n
  <2>1. DOMAIN o = 1..n
    BY <1>12
  <2>2. o = [k \in 1..n |-> o[k]]
    BY <1>12
  <2>3. o \in [1..n -> rs]
    BY <1>13, <2>2
  <2> QED BY <1>2, <2>3
<1>15. \A r \in rs : \E k \in 1..n : o[k] = r
  <2> SUFFICES ASSUME NEW r \in rs PROVE o[place[r]] = r
    BY <1>5
  <2> QED BY <1>5, <1>7, <1>13
<1>16. ASSUME NEW j \in 1..n, NEW k \in 1..n, j < k PROVE Q!Before(o[j], o[k], p)
  <2>1. o[j] \in rs /\ o[k] \in rs /\ place[o[j]] = j /\ place[o[k]] = k
    BY <1>13
  <2>2. o[j] # o[k] /\ ~(place[o[k]] < place[o[j]])
    BY <1>2, <1>16, <2>1
  <2> QED BY <1>6, <2>1, <2>2, BeforeOrders
<1> QED BY <1>1, <1>2, <1>14, <1>15, <1>16

(***************************************************************************)
(* The selection.                                                          *)
(***************************************************************************)
\* The records chosen among the first k of o: in order, each fitting in when it was chosen; and what was not
\* chosen did not fit after those chosen before it.
ChosenInOrder(c, k, o, p) ==
  /\ \A i \in 1..Len(c) : \E j \in 1..k : c[i] = o[j]
  /\ \A i, j \in 1..Len(c) : i < j => Q!Before(c[i], c[j], p)
LeftOut(c, r, all, p) ==
  \E m \in 0..Len(c) :
    /\ \A i \in 1..Len(c) : Q!Before(c[i], r, p) <=> i <= m
    /\ ~Q!Fits(SubSeq(c, 1, m), r, all)
Chosen(c, k, o, all, p) ==
  /\ ChosenInOrder(c, k, o, p)
  /\ c # <<>> => Q!Total(c, all, Q!Placeholder) <= job.budget
  /\ \A j \in 1..k : (\E i \in 1..Len(c) : c[i] = o[j]) \/ LeftOut(c, o[j], all, p)

\* The next record of o is chosen or left out.
LEMMA ConsiderIs ==
  ASSUME NEW rs, AreRecords(rs), NEW p, NEW n \in Nat, NEW o \in [1..n -> rs],
         \A i, j \in 1..n : i < j => Q!Before(o[i], o[j], p),
         NEW c \in Seq(rs), NEW k \in 1..n, Chosen(c, k - 1, o, n, p)
  PROVE  Q!Consider(c, o[k], n) \in Seq(rs) /\ Chosen(Q!Consider(c, o[k], n), k, o, n, p)
<1>1. PICK r : r = o[k] /\ r \in rs
  OBVIOUS
<1>2. PICK m \in Nat : m = Len(c)
  OBVIOUS
<1>3. \A i \in 1..m : c[i] \in rs /\ Q!Before(c[i], r, p)
  <2> SUFFICES ASSUME NEW i \in 1..m PROVE c[i] \in rs /\ Q!Before(c[i], r, p)
    OBVIOUS
  <2>1. PICK j \in 1..k - 1 : c[i] = o[j]
    BY <1>2 DEF Chosen, ChosenInOrder
  <2>2. j \in 1..n /\ j < k
    BY <2>1
  <2> QED BY <1>1, <2>1, <2>2
<1>4. CASE Q!Fits(c, r, n)
  <2>1. PICK d : d = Append(c, r)
    OBVIOUS
  <2>2. Q!Consider(c, o[k], n) = d
    BY <1>1, <1>4, <2>1 DEF Q!Consider
  <2>3. /\ d \in Seq(rs) /\ Len(d) = m + 1 /\ d[m + 1] = r
        /\ \A i \in 1..m : d[i] = c[i]
    BY <1>1, <1>2, <2>1
  <2>4. ChosenInOrder(d, k, o, p)
    <3>1. ASSUME NEW i \in 1..m + 1 PROVE \E j \in 1..k : d[i] = o[j]
      <4>1. CASE i = m + 1
        BY <1>1, <2>3, <4>1
      <4>2. CASE i # m + 1
        <5>1. i \in 1..m /\ d[i] = c[i]
          BY <2>3, <4>2
        <5>2. PICK j \in 1..k - 1 : c[i] = o[j]
          BY <1>2, <5>1 DEF Chosen, ChosenInOrder
        <5> QED BY <5>1, <5>2
      <4> QED BY <4>1, <4>2
    <3>2. ASSUME NEW i \in 1..m + 1, NEW j \in 1..m + 1, i < j PROVE Q!Before(d[i], d[j], p)
      <4>1. i \in 1..m /\ d[i] = c[i]
        BY <2>3, <3>2
      <4>2. CASE j = m + 1
        BY <1>3, <2>3, <4>1, <4>2
      <4>3. CASE j # m + 1
        <5>1. j \in 1..m /\ d[j] = c[j]
          BY <2>3, <4>3
        <5> QED BY <1>2, <3>2, <4>1, <5>1 DEF Chosen, ChosenInOrder
      <4> QED BY <4>2, <4>3
    <3> QED BY <2>3, <3>1, <3>2 DEF ChosenInOrder
  <2>5. Q!Total(d, n, Q!Placeholder) <= job.budget
    BY <1>4, <2>1 DEF Q!Fits
  <2>6. ASSUME NEW j \in 1..k PROVE (\E i \in 1..Len(d) : d[i] = o[j]) \/ LeftOut(d, o[j], n, p)
    <3>1. CASE j = k
      BY <1>1, <2>3, <3>1
    <3>2. CASE j # k /\ \E i \in 1..Len(c) : c[i] = o[j]
      <4>1. PICK i \in 1..m : c[i] = o[j]
        BY <1>2, <3>2
      <4>2. i \in 1..m + 1 /\ d[i] = o[j]
        BY <2>3, <4>1
      <4> QED BY <2>3, <4>2
    <3>3. CASE j # k /\ LeftOut(c, o[j], n, p)
      <4>1. PICK h \in 0..m : /\ \A i \in 1..m : Q!Before(c[i], o[j], p) <=> i <= h
                              /\ ~Q!Fits(SubSeq(c, 1, h), o[j], n)
        BY <1>2, <3>3 DEF LeftOut
      <4>2. h \in 0..m + 1 /\ j \in 1..n /\ j < k /\ o[j] \in rs
        BY <3>3
      <4>3. SubSeq(d, 1, h) = SubSeq(c, 1, h)
        BY <1>1, <1>2, <2>1, <4>1
      <4>4. ASSUME NEW i \in 1..m + 1 PROVE Q!Before(d[i], o[j], p) <=> i <= h
        <5>1. CASE i = m + 1
          <6>1. Q!Before(o[j], r, p)
            BY <1>1, <4>2
          <6>2. ~Q!Before(r, o[j], p)
            BY <1>1, <4>2, <6>1, BeforeOrders
          <6> QED BY <2>3, <5>1, <6>2
        <5>2. CASE i # m + 1
          BY <2>3, <4>1, <5>2
        <5> QED BY <5>1, <5>2
      <4> QED BY <2>3, <4>1, <4>2, <4>3, <4>4 DEF LeftOut
    <3>4. j # k => j \in 1..k - 1
      OBVIOUS
    <3> QED BY <3>1, <3>2, <3>3, <3>4 DEF Chosen
  <2> QED BY <2>2, <2>3, <2>4, <2>5, <2>6 DEF Chosen
<1>5. CASE ~Q!Fits(c, r, n)
  <2>1. Q!Consider(c, o[k], n) = c
    BY <1>1, <1>5 DEF Q!Consider
  <2>2. ChosenInOrder(c, k, o, p)
    <3>1. ASSUME NEW i \in 1..m PROVE \E j \in 1..k : c[i] = o[j]
      <4>1. PICK j \in 1..k - 1 : c[i] = o[j]
        BY <1>2 DEF Chosen, ChosenInOrder
      <4> QED BY <4>1
    <3> QED BY <1>2, <3>1 DEF Chosen, ChosenInOrder
  <2>3. SubSeq(c, 1, m) = c
    BY <1>2
  <2>4. LeftOut(c, r, n, p)
    <3>1. m \in 0..Len(c) /\ \A i \in 1..Len(c) : Q!Before(c[i], r, p) <=> i <= m
      BY <1>2, <1>3
    <3>2. ~Q!Fits(SubSeq(c, 1, m), r, n)
      BY <1>5, <2>3
    <3> QED BY <3>1, <3>2 DEF LeftOut
  <2>5. ASSUME NEW j \in 1..k PROVE (\E i \in 1..Len(c) : c[i] = o[j]) \/ LeftOut(c, o[j], n, p)
    <3>1. CASE j = k
      BY <1>1, <2>4, <3>1
    <3>2. CASE j # k
      <4>1. j \in 1..k - 1
        BY <3>2
      <4> QED BY <4>1 DEF Chosen
    <3> QED BY <3>1, <3>2
  <2> QED BY <2>1, <2>2, <2>5 DEF Chosen
<1> QED BY <1>4, <1>5

\* The selection goes through all the records in their order.
LEMMA SelectedIs ==
  ASSUME NEW rs, AreRecords(rs), NEW p, NEW n \in Nat, NEW o \in [1..n -> rs],
         \A i, j \in 1..n : i < j => Q!Before(o[i], o[j], p)
  PROVE  Q!Selected(o) \in Seq(rs) /\ Chosen(Q!Selected(o), n, o, n, p)
<1> PICK f : f = CHOOSE chosen : chosen = [k \in 0..n |-> IF k = 0 THEN <<>> ELSE Q!Consider(chosen[k - 1], o[k], n)]
  OBVIOUS
<1>1. PICK dom : dom = Seq(rs)
  OBVIOUS
<1>2. PICK step : step = [k \in 1..n |-> [c \in dom |-> Q!Consider(c, o[k], n)]]
  OBVIOUS
<1>3. ASSUME NEW k \in 1..n, NEW c \in dom PROVE Q!Consider(c, o[k], n) \in dom
  BY <1>1 DEF Q!Consider
<1>4. step \in [1..n -> [dom -> dom]] /\ \A k \in 1..n : \A c \in dom : step[k][c] = Q!Consider(c, o[k], n)
  BY <1>2, <1>3
<1>5. <<>> \in dom
  BY <1>1
<1>6. PICK g : g \in Recursions(n, dom, <<>>, step)
  BY <1>4, <1>5, Recursion
<1>7. g \in [0..n -> dom] /\ g[0] = <<>> /\ \A k \in 1..n : g[k] = step[k][g[k - 1]]
  BY <1>6 DEF Recursions
<1>8. ASSUME NEW k \in 1..n PROVE g[k] = Q!Consider(g[k - 1], o[k], n)
  <2>1. g[k - 1] \in dom
    BY <1>7
  <2> QED BY <1>4, <1>7, <2>1
<1>9. \A k \in 0..n : g[k] = IF k = 0 THEN <<>> ELSE Q!Consider(g[k - 1], o[k], n)
  BY <1>7, <1>8
<1>10. g = [k \in 0..n |-> IF k = 0 THEN <<>> ELSE Q!Consider(g[k - 1], o[k], n)]
  BY <1>7, <1>9
<1>11. f = [k \in 0..n |-> IF k = 0 THEN <<>> ELSE Q!Consider(f[k - 1], o[k], n)]
  BY <1>10
<1>12. f[0] = <<>> /\ \A k \in 1..n : f[k] = Q!Consider(f[k - 1], o[k], n)
  <2>1. \A k \in 0..n : f[k] = IF k = 0 THEN <<>> ELSE Q!Consider(f[k - 1], o[k], n)
    BY <1>11
  <2>2. 0 \in 0..n /\ \A k \in 1..n : k \in 0..n /\ k # 0
    OBVIOUS
  <2> QED BY <2>1, <2>2
<1>13. PICK T : T = {k \in 0..n : f[k] \in Seq(rs) /\ Chosen(f[k], k, o, n, p)}
  OBVIOUS
<1>14. 0 \in T
  <2>1. <<>> \in Seq(rs) /\ Chosen(<<>>, 0, o, n, p)
    BY DEF Chosen, ChosenInOrder
  <2>2. f[0] \in Seq(rs) /\ Chosen(f[0], 0, o, n, p)
    BY <1>12, <2>1
  <2>3. 0 \in 0..n
    OBVIOUS
  <2> QED BY <1>13, <2>2, <2>3
<1>15. ASSUME NEW k \in 1..n, k - 1 \in T PROVE k \in T
  <2>1. f[k - 1] \in Seq(rs) /\ Chosen(f[k - 1], k - 1, o, n, p) /\ f[k] = Q!Consider(f[k - 1], o[k], n)
    BY <1>12, <1>13, <1>15
  <2>2. f[k] \in Seq(rs) /\ Chosen(f[k], k, o, n, p)
    BY <2>1, ConsiderIs
  <2> QED BY <1>13, <2>2
<1>16. n \in T
  <2>1. 0..n \subseteq T
    BY <1>14, <1>15, InductionTo
  <2> QED BY <2>1
<1>17. Len(o) = n
  OBVIOUS
<1>18. Q!Selected(o) = f[n]
  BY <1>17 DEF Q!Selected
<1> QED BY <1>13, <1>16, <1>18

(***************************************************************************)
(* The context.                                                            *)
(***************************************************************************)
\* The sizes of the index and of the chunks, whatever the estimate that is printed.
LEMMA TotalIs ==
  ASSUME NEW rs, AreRecords(rs), NEW c \in Seq(rs), NEW all \in Nat, Len(c) <= all,
         job.base \in Nat, job.budget \in Nat, job.chunkBudget \in Nat,
         NEW chunks, chunks = Q!Chunks(Q!Sizes(c), job.chunkBudget)
  PROVE  /\ chunks \in ChunkLists /\ WithinBudget(chunks, job.chunkBudget) /\ Q!Sum(SectionsOf(chunks)) = Len(c)
         /\ Q!Tokens(chunks) \in Nat
         /\ \E bytes \in Nat : \A estimate :
              Q!Total(c, all, estimate) = Q!estimate_tokens(bytes + Q!Digits(estimate)) + Q!Tokens(chunks)
<1>1. PICK n \in Nat : n = Len(c)
  OBVIOUS
<1>2. c \in [1..n -> rs]
  BY <1>1
<1>3. Q!Sizes(c) \in [1..n -> Nat]
  BY <1>2 DEF Q!Sizes, AreRecords
<1>4. chunks \in ChunkLists /\ WithinBudget(chunks, job.chunkBudget) /\ Q!Sum(SectionsOf(chunks)) = Len(c)
  BY <1>1, <1>3, ChunksAre
<1>5. PICK C : C = [bytes : Nat, sections : Nat]
  OBVIOUS
<1>6. chunks \in Seq(C)
  BY <1>4, <1>5 DEF ChunkLists
<1>7. PICK m \in Nat : m = Len(chunks) /\ DOMAIN chunks = 1..m /\ \A k \in 1..m : chunks[k] \in C
  BY <1>6
<1>8. Q!Tokens(chunks) \in Nat
  <2>1. PICK s : s = [k \in 1..m |-> Q!estimate_tokens(chunks[k].bytes)]
    OBVIOUS
  <2>2. \A k \in 1..m : chunks[k].bytes \in Nat
    BY <1>5, <1>7
  <2>3. s \in [1..m -> Nat]
    BY <2>1, <2>2, TokensAre
  <2>4. PICK f \in [0..m -> Nat] : Q!Sum(s) = f[m]
    BY <1>7, <2>3, SumIs
  <2>5. Q!Sum(s) \in Nat
    BY <2>4
  <2> QED BY <1>7, <2>1, <2>5 DEF Q!Tokens
<1>9. PICK links : links = IF chunks = <<>> THEN 43 ELSE 31 * Len(chunks) - 1
  OBVIOUS
<1>10. links \in Nat
  <2>1. CASE chunks = <<>>
    BY <1>9, <2>1
  <2>2. CASE chunks # <<>>
    <3>1. m # 0
      BY <1>6, <1>7, <2>2
    <3> QED BY <1>7, <1>9, <2>2, <3>1
  <2> QED BY <2>1, <2>2
<1>11. PICK a \in Nat, b \in Nat, d \in Nat : a = Q!Digits(job.budget) /\ b = Q!Digits(Len(c)) /\ d = Q!Digits(all - Len(c))
  <2>1. \A number : Q!Digits(number) \in Nat
    BY DigitsAre
  <2> QED BY <2>1
<1>12. PICK bytes \in Nat : bytes = job.base + a + b + d + links
  BY <1>10
<1>13. ASSUME NEW estimate
       PROVE  Q!Total(c, all, estimate) = Q!estimate_tokens(bytes + Q!Digits(estimate)) + Q!Tokens(chunks)
  <2>1. Q!IndexBytes(job.base, job.budget, Len(c), all - Len(c), chunks, estimate)
        = job.base + a + b + d + Q!Digits(estimate) + links
    BY <1>9, <1>11 DEF Q!IndexBytes
  <2>2. Q!Digits(estimate) \in Nat
    BY DigitsAre
  <2>3. PICK e \in Nat : e = Q!Digits(estimate)
    BY <2>2
  <2>4. PICK fixed \in Nat : fixed = job.base + a + b + d
    OBVIOUS
  <2>5. fixed + e + links = bytes + e
    BY <1>10, <1>12, <2>4
  <2>6. Q!IndexBytes(job.base, job.budget, Len(c), all - Len(c), chunks, estimate) = bytes + Q!Digits(estimate)
    BY <2>1, <2>3, <2>4, <2>5
  <2> QED BY <2>6 DEF Q!Total
<1>14. \E b2 \in Nat : \A estimate : Q!Total(c, all, estimate) = Q!estimate_tokens(b2 + Q!Digits(estimate)) + Q!Tokens(chunks)
  <2>1. \A estimate : Q!Total(c, all, estimate) = Q!estimate_tokens(bytes + Q!Digits(estimate)) + Q!Tokens(chunks)
    BY <1>13
  <2> WITNESS bytes \in Nat
  <2> QED BY <2>1
<1> QED BY <1>4, <1>8, <1>14

\* The estimate that is printed is at most two tokens above the real one: it was made with a wider number in its place.
LEMMA PrintedIs ==
  ASSUME NEW rs, AreRecords(rs), NEW c \in Seq(rs), NEW all \in Nat, Len(c) <= all,
         job.base \in Nat, job.budget \in Nat, job.chunkBudget \in Nat,
         NEW printed, printed = Q!Total(c, all, Q!Placeholder),
         NEW estimate, estimate = Q!Total(c, all, printed)
  PROVE  /\ printed \in Nat /\ estimate \in Nat
         /\ printed <= Q!Placeholder => printed - estimate \in 0..2
<1>1. PICK tokens \in Nat, bytes \in Nat : \A number :
         Q!Total(c, all, number) = Q!estimate_tokens(bytes + Q!Digits(number)) + tokens
  <2>1. PICK chunks : chunks = Q!Chunks(Q!Sizes(c), job.chunkBudget)
    OBVIOUS
  <2>2. /\ Q!Tokens(chunks) \in Nat
        /\ \E bytes \in Nat : \A number :
             Q!Total(c, all, number) = Q!estimate_tokens(bytes + Q!Digits(number)) + Q!Tokens(chunks)
    BY <2>1, TotalIs
  <2> QED BY <2>2
<1>2. PICK wide \in 1..9, narrow \in 1..9 : wide = Q!Digits(Q!Placeholder) /\ narrow = Q!Digits(printed)
  BY DigitsAre
<1>3. PICK x \in Nat, y \in Nat : x = Q!estimate_tokens(bytes + narrow) /\ y = Q!estimate_tokens(bytes + wide)
  <2>1. bytes + narrow \in Nat /\ bytes + wide \in Nat
    OBVIOUS
  <2> QED BY <2>1, TokensAre
<1>4. printed = y + tokens /\ estimate = x + tokens
  BY <1>1, <1>2, <1>3
<1>5. printed \in Nat /\ estimate \in Nat
  BY <1>4
<1>6. ASSUME printed <= Q!Placeholder PROVE printed - estimate \in 0..2
  <2>1. narrow <= wide
    BY <1>2, <1>5, <1>6, DigitsAre DEF Q!Placeholder
  <2>2. PICK m \in Nat, n \in Nat : m = bytes + narrow /\ n = bytes + wide
    OBVIOUS
  <2>3. m <= n /\ n <= m + 8
    BY <2>1, <2>2
  <2>4. x <= y /\ y <= x + 2
    BY <1>3, <2>2, <2>3, TokensAre
  <2> QED BY <1>4, <2>4
<1> QED BY <1>5, <1>6

\* What ContextFits says of a context, of the store that it was made from.
ContextFitsStore(context, store) ==
  LET included == context.included
      before(r, n) == \A k \in DOMAIN included : Q!Before(included[k], r, job.profile) <=> k <= n
      all == Len(included) + Q!Cardinality(context.omitted)
      size == Q!estimate_tokens(Q!IndexBytes(job.base, job.budget, Len(included), Q!Cardinality(context.omitted), context.chunks,
                                             context.printed)) + Q!Tokens(context.chunks)
  IN  /\ Q!Range(included) \cup context.omitted = store.records
      /\ all = Q!Cardinality(store.records)
      /\ Q!Sum([k \in DOMAIN context.chunks |-> context.chunks[k].sections]) = Len(included)
      /\ \A k \in 2..Len(included) : Q!Before(included[k - 1], included[k], job.profile)
      /\ \A r \in context.omitted :
           \E n \in 0..Len(included) : before(r, n) /\ ~Q!Fits(SubSeq(included, 1, n), r, all)
      /\ \A k \in DOMAIN context.chunks :
           context.chunks[k].sections > 1 => Q!estimate_tokens(context.chunks[k].bytes) <= job.chunkBudget
      /\ context.printed <= Q!Placeholder /\ included # <<>> => size <= job.budget
      /\ context.estimate = size
      /\ context.printed <= Q!Placeholder => context.printed - context.estimate \in 0..2

\* A context fits its store.
LEMMA ContextIs ==
  ASSUME NEW store, AreRecords(store.records), Q!IsReadingJob(job)
  PROVE  ContextFitsStore(Q!ContextOf(store), store)
<1> PICK context : context = Q!ContextOf(store)
  OBVIOUS
<1> PICK included, chunks, all : included = context.included /\ chunks = context.chunks /\ all = Cardinality(store.records)
  OBVIOUS
<1>1. PICK rs, p, o : rs = store.records /\ p = job.profile /\ o = Q!Prioritised(rs, p)
  OBVIOUS
<1>2. /\ all \in Nat /\ o \in [1..all -> rs] /\ Len(o) = all
      /\ \A r \in rs : \E k \in 1..all : o[k] = r
      /\ \A j, k \in 1..all : j < k => Q!Before(o[j], o[k], p)
  BY <1>1, PrioritisedIs
<1>3. included = Q!Selected(o)
  BY <1>1 DEF Q!ContextOf
<1>4. included \in Seq(rs) /\ Chosen(included, all, o, all, p)
  <2>1. AreRecords(rs) /\ \A j, k \in 1..all : j < k => Q!Before(o[j], o[k], p)
    BY <1>1, <1>2
  <2> QED BY <1>2, <1>3, <2>1, SelectedIs
<1>5. PICK n \in Nat : n = Len(included)
  BY <1>4
<1>6. included \in [1..n -> rs] /\ DOMAIN included = 1..n
  BY <1>4, <1>5
<1>7. \A i, j \in 1..n : i < j => Q!Before(included[i], included[j], p)
  BY <1>4, <1>5 DEF Chosen, ChosenInOrder
<1>8. PICK T : T = Q!Range(included)
  OBVIOUS
<1>9. T = {included[i] : i \in 1..n} /\ T \in SUBSET rs
  BY <1>6, <1>8 DEF Q!Range
<1>10. Q!Range(o) = rs
  <2>1. DOMAIN o = 1..all /\ \A k \in 1..all : o[k] \in rs
    BY <1>2
  <2> QED BY <1>2, <2>1 DEF Q!Range
<1>11. context.omitted = rs \ T
  BY <1>1, <1>3, <1>8, <1>10 DEF Q!ContextOf
<1>12. Cardinality(T) = n /\ IsFiniteSet(T)
  <2>1. included \in Surjection(1..n, T)
    BY <1>6, <1>9 DEF Surjection
  <2>2. \A i, j \in 1..n : included[i] = included[j] => i = j
    <3> SUFFICES ASSUME NEW i \in 1..n, NEW j \in 1..n, i < j PROVE included[i] # included[j]
      OBVIOUS
    <3>1. Q!Before(included[i], included[j], p)
      BY <1>7
    <3> QED BY <1>1, <1>6, <3>1, BeforeOrders
  <2>3. included \in Injection(1..n, T)
    BY <1>6, <1>9, <2>2 DEF Injection, IsInjective
  <2>4. IsFiniteSet(1..n) /\ Cardinality(1..n) = n
    BY Counted
  <2> QED BY <2>1, <2>3, <2>4, FS_Surjection
<1>13. Len(included) + Cardinality(context.omitted) = all /\ n <= all
  <2>1. IsFiniteSet(rs)
    BY <1>1 DEF AreRecords
  <2>2. Cardinality(rs \ T) = Cardinality(rs) - Cardinality(rs \cap T) /\ rs \cap T = T
    BY <1>9, <2>1, FS_Difference
  <2>3. Cardinality(T) <= Cardinality(rs)
    BY <1>9, <2>1, FS_Subset
  <2>4. Cardinality(rs) = all /\ Cardinality(context.omitted) = all - n
    BY <1>1, <1>11, <1>12, <2>2
  <2> QED BY <1>2, <1>5, <1>12, <2>3, <2>4
<1>14. \A r \in context.omitted :
         \E m \in 0..n :
            /\ \A k \in 1..n : Q!Before(included[k], r, p) <=> k <= m
            /\ ~Q!Fits(SubSeq(included, 1, m), r, all)
  <2> SUFFICES ASSUME NEW r \in rs \ T PROVE LeftOut(included, r, all, p)
    BY <1>5, <1>11 DEF LeftOut
  <2>1. PICK j \in 1..all : o[j] = r
    BY <1>2
  <2>2. ~\E i \in 1..n : included[i] = r
    BY <1>9
  <2> QED BY <1>4, <1>5, <2>1, <2>2 DEF Chosen
<1>15. job.base \in Nat /\ job.budget \in Nat /\ job.chunkBudget \in Nat
  BY DEF Q!IsReadingJob
<1>16. chunks = Q!Chunks(Q!Sizes(included), job.chunkBudget)
  BY <1>1, <1>3 DEF Q!ContextOf
<1>17. chunks \in ChunkLists /\ WithinBudget(chunks, job.chunkBudget) /\ Q!Sum(SectionsOf(chunks)) = n
  BY <1>1, <1>2, <1>4, <1>5, <1>13, <1>15, <1>16, TotalIs
<1>18. context.printed = Q!Total(included, all, Q!Placeholder) /\ context.estimate = Q!Total(included, all, context.printed)
  BY <1>1, <1>2, <1>3 DEF Q!ContextOf
<1>19. included # <<>> => context.printed <= job.budget
  BY <1>4, <1>18 DEF Chosen
<1>20. \A k \in 2..n : Q!Before(included[k - 1], included[k], p)
  <2> SUFFICES ASSUME NEW k \in 2..n PROVE Q!Before(included[k - 1], included[k], p)
    OBVIOUS
  <2>1. PICK j \in 1..n : j = k - 1 /\ j < k /\ k \in 1..n
    OBVIOUS
  <2> QED BY <1>7, <2>1
<1>21. Q!Sum([k \in DOMAIN chunks |-> chunks[k].sections]) = n
  BY <1>17 DEF SectionsOf
<1>22. \A k \in DOMAIN chunks : chunks[k].sections > 1 => Q!estimate_tokens(chunks[k].bytes) <= job.chunkBudget
  BY <1>17 DEF WithinBudget
<1>23. Q!Range(included) \cup context.omitted = rs
  BY <1>8, <1>9, <1>11
<1>24. PICK left : left = Cardinality(context.omitted)
  OBVIOUS
<1>25. left \in Nat /\ n + left = all /\ all - n = left
  <2>1. IsFiniteSet(context.omitted)
    <3>1. context.omitted \in SUBSET rs /\ IsFiniteSet(rs)
      BY <1>1, <1>11 DEF AreRecords
    <3> QED BY <3>1, FS_Subset
  <2>2. left \in Nat
    BY <1>24, <2>1, FS_CardinalityType
  <2> QED BY <1>2, <1>5, <1>13, <1>24, <2>2
<1>26. Q!Cardinality(context.omitted) = left /\ Q!Cardinality(store.records) = all
  BY <1>24 DEF Q!Cardinality, Cardinality
<1>27. PICK printed, estimate : printed = context.printed /\ estimate = context.estimate
  OBVIOUS
<1>28. /\ printed \in Nat /\ estimate \in Nat
       /\ printed <= Q!Placeholder => printed - estimate \in 0..2
  BY <1>1, <1>2, <1>4, <1>5, <1>13, <1>15, <1>18, <1>27, PrintedIs
<1>29. estimate = Q!estimate_tokens(Q!IndexBytes(job.base, job.budget, n, left, chunks, printed)) + Q!Tokens(chunks)
  BY <1>5, <1>16, <1>18, <1>25, <1>27 DEF Q!Total
<1>30. ASSUME printed <= Q!Placeholder, included # <<>> PROVE estimate <= job.budget
  <2>1. printed <= job.budget /\ job.budget \in Nat
    BY <1>15, <1>19, <1>27, <1>30
  <2> QED BY <1>28, <1>30, <2>1
<1>31. /\ Q!Sum([k \in DOMAIN context.chunks |-> context.chunks[k].sections]) = n
       /\ \A k \in DOMAIN context.chunks :
            context.chunks[k].sections > 1 => Q!estimate_tokens(context.chunks[k].bytes) <= job.chunkBudget
  BY <1>21, <1>22
<1>32. /\ Q!Range(context.included) \cup context.omitted = store.records
       /\ Len(context.included) = n /\ DOMAIN context.included = 1..n /\ n + left = Q!Cardinality(store.records)
       /\ \A k \in 2..n : Q!Before(context.included[k - 1], context.included[k], job.profile)
       /\ \A r \in context.omitted :
            \E m \in 0..n :
               /\ \A k \in 1..n : Q!Before(context.included[k], r, job.profile) <=> k <= m
               /\ ~Q!Fits(SubSeq(context.included, 1, m), r, n + left)
  BY <1>1, <1>5, <1>6, <1>14, <1>20, <1>23, <1>25, <1>26
<1> QED BY <1>26, <1>27, <1>28, <1>29, <1>30, <1>31, <1>32 DEF ContextFitsStore

(***************************************************************************)
(* The diff and the query.                                                 *)
(***************************************************************************)
\* The diff of two mappings is empty exactly when they are one; the other way round it is swapped.
LEMMA MappingDiffIs ==
  ASSUME NEW f, NEW g, Q!IsMapping(f), Q!IsMapping(g)
  PROVE  DOMAIN Q!MappingDiff(f, g) = {} <=> f = g
<1>1. DOMAIN Q!MappingDiff(f, g) = {key \in DOMAIN f \cup DOMAIN g : Q!Get(f, key) # Q!Get(g, key)}
  BY DEF Q!MappingDiff
<1>2. f = g => DOMAIN Q!MappingDiff(f, g) = {}
  BY <1>1
<1>3. ASSUME DOMAIN Q!MappingDiff(f, g) = {} PROVE f = g
  <2>1. \A key \in DOMAIN f \cup DOMAIN g : Q!Get(f, key) = Q!Get(g, key)
    BY <1>1, <1>3
  <2>2. \A key \in DOMAIN f : key \in DOMAIN g /\ f[key] = g[key]
    BY <2>1 DEF Q!Get, Q!IsMapping
  <2>3. \A key \in DOMAIN g : key \in DOMAIN f
    BY <2>1 DEF Q!Get, Q!IsMapping
  <2>4. DOMAIN f = DOMAIN g
    BY <2>2, <2>3
  <2> QED BY <2>2, <2>4 DEF Q!IsMapping
<1> QED BY <1>2, <1>3

SwapAll(f) == [k \in DOMAIN f |-> Q!Change(f[k].after, f[k].before)]

\* The diff of two mappings the other way round is swapped.
LEMMA MappingDiffSwaps ==
  ASSUME NEW f, NEW g
  PROVE  Q!MappingDiff(g, f) = SwapAll(Q!MappingDiff(f, g))
<1>1. PICK dom : dom = {key \in DOMAIN f \cup DOMAIN g : Q!Get(f, key) # Q!Get(g, key)}
  OBVIOUS
<1>2. dom = {key \in DOMAIN g \cup DOMAIN f : Q!Get(g, key) # Q!Get(f, key)}
  BY <1>1
<1>3. Q!MappingDiff(f, g) = [k \in dom |-> Q!Change(Q!Get(f, k), Q!Get(g, k))]
  BY <1>1 DEF Q!MappingDiff
<1>4. Q!MappingDiff(g, f) = [k \in dom |-> Q!Change(Q!Get(g, k), Q!Get(f, k))]
  BY <1>2 DEF Q!MappingDiff
<1> QED BY <1>3, <1>4 DEF SwapAll, Q!Change

Kept(listed) == {p \in DOMAIN listed \ RecordPaths : listed[p].authoritative}
Digests(listed) == [p \in Kept(listed) |-> listed[p].digest]

\* No authoritative artifact changed exactly when both packages have the same ones, with the same digests.
LEMMA ArtifactDiffIs ==
  ASSUME NEW b, NEW a
  PROVE  /\ DOMAIN Q!AuthoritativeChanges(b, a) = {} <=> Digests(b) = Digests(a)
         /\ Q!AuthoritativeChanges(a, b) = SwapAll(Q!AuthoritativeChanges(b, a))
<1> DEFINE authoritative(m, p) == p \in DOMAIN m /\ m[p].authoritative
<1> DEFINE sum(m, p) == IF p \in DOMAIN m THEN m[p].digest ELSE Nil
<1>1. PICK dom : dom = {p \in (DOMAIN b \cup DOMAIN a) \ RecordPaths :
                      /\ authoritative(b, p) \/ authoritative(a, p)
                      /\ sum(b, p) # sum(a, p) \/ authoritative(b, p) # authoritative(a, p)}
  OBVIOUS
<1>2. dom = {p \in (DOMAIN a \cup DOMAIN b) \ RecordPaths :
             /\ authoritative(a, p) \/ authoritative(b, p)
             /\ sum(a, p) # sum(b, p) \/ authoritative(a, p) # authoritative(b, p)}
  BY <1>1
<1>3. Q!AuthoritativeChanges(b, a) = [p \in dom |-> Q!Change(sum(b, p), sum(a, p))]
  BY <1>1 DEF Q!AuthoritativeChanges
<1>4. Q!AuthoritativeChanges(a, b) = [p \in dom |-> Q!Change(sum(a, p), sum(b, p))]
  BY <1>2 DEF Q!AuthoritativeChanges
<1>5. Q!AuthoritativeChanges(a, b) = SwapAll(Q!AuthoritativeChanges(b, a))
  BY <1>3, <1>4 DEF SwapAll, Q!Change
<1>6. ASSUME dom = {} PROVE Digests(b) = Digests(a)
  <2>1. \A p : p \notin RecordPaths /\ (authoritative(b, p) \/ authoritative(a, p)) =>
                 authoritative(b, p) /\ authoritative(a, p) /\ b[p].digest = a[p].digest
    BY <1>1, <1>6
  <2>2. Kept(b) = Kept(a)
    BY <2>1 DEF Kept
  <2>3. \A p \in Kept(b) : b[p].digest = a[p].digest
    BY <2>1 DEF Kept
  <2> QED BY <2>2, <2>3 DEF Digests
<1>7. ASSUME Digests(b) = Digests(a) PROVE dom = {}
  <2>1. Kept(b) = Kept(a) /\ \A p \in Kept(b) : b[p].digest = a[p].digest
    BY <1>7 DEF Digests
  <2>2. \A p : p \notin RecordPaths => (authoritative(b, p) <=> p \in Kept(b)) /\ (authoritative(a, p) <=> p \in Kept(a))
    BY DEF Kept
  <2>3. \A p \in Kept(b) : p \in DOMAIN b /\ p \in DOMAIN a
    BY <2>1 DEF Kept
  <2> QED BY <1>1, <2>1, <2>2, <2>3
<1> QED BY <1>3, <1>5, <1>6, <1>7

\* What a store asserts, as Asserted says it of a package.
AssertedBy(store) ==
  LET m == store.manifest
  IN  <<store.records, m.capabilities, m.loss, m.identity, m.producer, m.version, Digests(m.artifacts)>>
HasMappings(manifest) ==
  Q!IsMapping(manifest.capabilities) /\ Q!IsMapping(manifest.identity) /\ Q!IsMapping(manifest.producer)

\* A diff has no semantic change exactly when both stores assert the same.
LEMMA DiffIs ==
  ASSUME NEW b, NEW a, HasMappings(b.manifest), HasMappings(a.manifest)
  PROVE  Q!SemanticChange(Q!DiffOf(b, a)) <=> AssertedBy(b) # AssertedBy(a)
<1>1. PICK diff : diff = Q!DiffOf(b, a)
  OBVIOUS
<1>2. DOMAIN diff.artifacts = {} <=> Digests(b.manifest.artifacts) = Digests(a.manifest.artifacts)
  BY <1>1, ArtifactDiffIs DEF Q!DiffOf
<1>3. /\ DOMAIN diff.capabilities = {} <=> b.manifest.capabilities = a.manifest.capabilities
      /\ DOMAIN diff.identity = {} <=> b.manifest.identity = a.manifest.identity
      /\ DOMAIN diff.producer = {} <=> b.manifest.producer = a.manifest.producer
  BY <1>1, MappingDiffIs DEF Q!DiffOf, HasMappings
<1>4. /\ diff.loss = {} <=> b.manifest.loss = a.manifest.loss
      /\ diff.version = {} <=> b.manifest.version = a.manifest.version
  BY <1>1 DEF Q!DiffOf
<1>5. diff.added \cup diff.removed \cup diff.changed = {} <=> b.records = a.records
  <2>1. /\ diff.added = Q!Ids(a.records) \ Q!Ids(b.records)
        /\ diff.removed = Q!Ids(b.records) \ Q!Ids(a.records)
        /\ diff.changed = {i \in Q!Ids(b.records) \cap Q!Ids(a.records) :
                             {r \in b.records : r.id = i} # {r \in a.records : r.id = i}}
    BY <1>1 DEF Q!DiffOf
  <2>2. b.records = a.records => diff.added = {} /\ diff.removed = {} /\ diff.changed = {}
    BY <2>1
  <2>3. ASSUME diff.added = {}, diff.removed = {}, diff.changed = {} PROVE b.records = a.records
    <3>1. \A i \in Q!Ids(b.records) \cup Q!Ids(a.records) : {r \in b.records : r.id = i} = {r \in a.records : r.id = i}
      BY <2>1, <2>3
    <3>2. \A r \in b.records \cup a.records : r.id \in Q!Ids(b.records) \cup Q!Ids(a.records)
      BY DEF Q!Ids
    <3>3. \A r \in b.records \cup a.records : r \in {s \in b.records : s.id = r.id} <=> r \in {s \in a.records : s.id = r.id}
      BY <3>1, <3>2
    <3> QED BY <3>3
  <2> QED BY <2>2, <2>3
<1>6. AssertedBy(b) = AssertedBy(a) <=>
        /\ b.records = a.records /\ b.manifest.capabilities = a.manifest.capabilities /\ b.manifest.loss = a.manifest.loss
        /\ b.manifest.identity = a.manifest.identity /\ b.manifest.producer = a.manifest.producer
        /\ b.manifest.version = a.manifest.version /\ Digests(b.manifest.artifacts) = Digests(a.manifest.artifacts)
  BY DEF AssertedBy
<1> QED BY <1>1, <1>2, <1>3, <1>4, <1>5, <1>6 DEF Q!SemanticChange

\* The diff of two stores the other way round says the opposite.
LEMMA DiffSwaps == ASSUME NEW b, NEW a PROVE Q!DiffOf(a, b) = Q!Swapped(Q!DiffOf(b, a))
<1>1. PICK d, e : d = Q!DiffOf(b, a) /\ e = Q!DiffOf(a, b)
  OBVIOUS
<1>2. /\ e.artifacts = SwapAll(d.artifacts) /\ e.capabilities = SwapAll(d.capabilities)
      /\ e.identity = SwapAll(d.identity) /\ e.producer = SwapAll(d.producer)
  BY <1>1, ArtifactDiffIs, MappingDiffSwaps DEF Q!DiffOf
<1>3. /\ e.loss = {Q!Change(c.after, c.before) : c \in d.loss}
      /\ e.version = {Q!Change(c.after, c.before) : c \in d.version}
  <2>1. ASSUME NEW x, NEW y
        PROVE  (IF y = x THEN {} ELSE {Q!Change(y, x)}) = {Q!Change(c.after, c.before) : c \in IF x = y THEN {} ELSE {Q!Change(x, y)}}
    <3>1. CASE x = y
      BY <3>1
    <3>2. CASE x # y
      <4>1. {Q!Change(c.after, c.before) : c \in {Q!Change(x, y)}} = {Q!Change(y, x)}
        BY DEF Q!Change
      <4> QED BY <3>2, <4>1
    <3> QED BY <3>1, <3>2
  <2> QED BY <1>1, <2>1 DEF Q!DiffOf
<1>4. e.added = d.removed /\ e.removed = d.added /\ e.changed = d.changed
  <2>1. Q!Ids(a.records) \cap Q!Ids(b.records) = Q!Ids(b.records) \cap Q!Ids(a.records)
    OBVIOUS
  <2> QED BY <1>1, <2>1 DEF Q!DiffOf
<1>5. e = [added |-> e.added, removed |-> e.removed, changed |-> e.changed, artifacts |-> e.artifacts,
           capabilities |-> e.capabilities, loss |-> e.loss, identity |-> e.identity, producer |-> e.producer,
           version |-> e.version]
  BY <1>1 DEF Q!DiffOf
<1>6. Q!Swapped(d) = [added |-> d.removed, removed |-> d.added, changed |-> d.changed, artifacts |-> SwapAll(d.artifacts),
           capabilities |-> SwapAll(d.capabilities), loss |-> {Q!Change(c.after, c.before) : c \in d.loss},
           identity |-> SwapAll(d.identity), producer |-> SwapAll(d.producer),
           version |-> {Q!Change(c.after, c.before) : c \in d.version}]
  BY DEF Q!Swapped, SwapAll
<1> QED BY <1>1, <1>2, <1>3, <1>4, <1>5, <1>6

\* What QueryDivides says of an answer, of the records that it was made from.
Divides(found, rs) ==
  LET asked == {r \in rs : job.type \in {"record", r.type}}
      other == IF job.operator = "==" THEN "!=" ELSE "=="
  IN  /\ found \cup Q!Answering(rs, other) = asked
      /\ found \cap Q!Answering(rs, other) = {}
      /\ \A r \in asked : r.value = job.literal => (r \in found) = (job.operator = "==")
      /\ \A r \in asked : r.value = Nil => (r \in found) = (job.operator = "!=")

\* The answers to == and to != divide the records of the type that is asked for.
LEMMA QueryIs == ASSUME NEW rs, Q!IsReadingJob(job) PROVE Divides(Q!Answering(rs, job.operator), rs)
<1> PICK asked, found : asked = {r \in rs : job.type \in {"record", r.type}} /\ found = Q!Answering(rs, job.operator)
  OBVIOUS
<1>1. job.operator \in {"==", "!="} /\ job.literal # Nil
  BY DEF Q!IsReadingJob
<1>2. PICK equal : equal = {r \in asked : Q!Matches(r, job.literal)}
  OBVIOUS
<1>3. Q!Answering(rs, "==") = equal /\ Q!Answering(rs, "!=") = asked \ equal
  BY <1>2 DEF Q!Answering
<1>4. \A r \in asked : (r.value = job.literal => r \in equal) /\ (r.value = Nil => r \notin equal)
  BY <1>1, <1>2 DEF Q!Matches, Q!Equal
<1>5. CASE job.operator = "=="
  <2>1. found = equal /\ equal \cup (asked \ equal) = asked /\ equal \cap (asked \ equal) = {}
    BY <1>2, <1>3, <1>5
  <2> QED BY <1>3, <1>4, <1>5, <2>1 DEF Divides
<1>6. CASE job.operator = "!="
  <2>1. found = asked \ equal /\ (asked \ equal) \cup equal = asked /\ (asked \ equal) \cap equal = {}
    BY <1>2, <1>3, <1>6
  <2>2. \A r \in asked : (r \in found <=> r \notin equal)
    BY <2>1
  <2> QED BY <1>3, <1>4, <1>6, <2>1, <2>2 DEF Divides
<1> QED BY <1>1, <1>5, <1>6

(***************************************************************************)
(* Reading the record files.                                               *)
(***************************************************************************)
\* A non-empty set of numbers up to n has a greatest.
LEMMA Greatest ==
  ASSUME NEW n \in Nat, NEW T \in SUBSET (1..n), T # {} PROVE \E x \in T : \A y \in T : y <= x
<1>1. PICK U : U = {m \in Nat : \E x \in T : m = n - x}
  OBVIOUS
<1>2. \A x \in T : n - x \in U
  BY <1>1
<1>3. PICK m \in U : \A k \in U : m <= k
  BY <1>1, <1>2, Least
<1>4. PICK x \in T : m = n - x
  BY <1>1
<1>5. ASSUME NEW y \in T PROVE y <= x
  <2>1. n - y \in U /\ m <= n - y
    BY <1>2, <1>3
  <2> QED BY <1>4, <2>1
<1> QED BY <1>5

\* A record file: a list of records with numbers for identifiers and sizes.
IsFile(file) ==
  /\ \E n \in Nat : DOMAIN file = 1..n
  /\ \A r \in Q!Range(file) : r.id \in Nat /\ r.size \in Nat

\* The records of a store stay records, each identifier once, when a file is read.
LEMMA ReadKeeps ==
  ASSUME NEW rs, AreRecords(rs), NEW file, IsFile(file)
  PROVE  AreRecords(Q!Read(rs, file))
<1>1. PICK n \in Nat : DOMAIN file = 1..n
  BY DEF IsFile
<1>2. PICK L : L = Q!LastOf(file)
  OBVIOUS
<1>3. L \in SUBSET (1..n) /\ \A k, l \in L : file[k].id = file[l].id => k = l
  <2>1. L \in SUBSET (1..n) /\ \A k \in L : \A l \in 1..n : l > k => file[l].id # file[k].id
    BY <1>1, <1>2 DEF Q!LastOf
  <2>2. \A k, l \in L : k \in Int /\ l \in Int
    BY <2>1
  <2> QED BY <2>1, <2>2
<1>4. PICK old, new : old = {r \in rs : r.id \notin Q!Ids(Q!Range(file))} /\ new = {file[k] : k \in L}
  OBVIOUS
<1>5. Q!Read(rs, file) = old \cup new
  BY <1>2, <1>4 DEF Q!Read
<1>6. \A r \in new : r \in Q!Range(file)
  BY <1>1, <1>3, <1>4 DEF Q!Range
<1>7. IsFiniteSet(old \cup new)
  <2>1. IsFiniteSet(old)
    <3>1. old \in SUBSET rs /\ IsFiniteSet(rs)
      BY <1>4 DEF AreRecords
    <3> QED BY <3>1, FS_Subset
  <2>2. IsFiniteSet(new)
    <3>1. IsFiniteSet(1..n)
      BY Counted
    <3>2. IsFiniteSet(L)
      BY <1>3, <3>1, FS_Subset
    <3>3. PICK f : f = [k \in L |-> file[k]]
      OBVIOUS
    <3>4. f \in Surjection(L, new)
      BY <1>4, <3>3 DEF Surjection
    <3> QED BY <3>2, <3>4, FS_Surjection
  <2> QED BY <2>1, <2>2, FS_Union
<1>8. \A r \in old \cup new : r.id \in Nat /\ r.size \in Nat
  BY <1>4, <1>6 DEF AreRecords, IsFile
<1>9. \A r, s \in old \cup new : r.id = s.id => r = s
  <2> SUFFICES ASSUME NEW r \in old \cup new, NEW s \in old \cup new, r.id = s.id PROVE r = s
    OBVIOUS
  <2>1. \A t \in new : t.id \in Q!Ids(Q!Range(file))
    BY <1>6 DEF Q!Ids
  <2>2. CASE r \in old /\ s \in old
    BY <1>4, <2>2 DEF AreRecords
  <2>3. CASE r \in new /\ s \in new
    <3>1. PICK k \in L, l \in L : r = file[k] /\ s = file[l]
      BY <1>4, <2>3
    <3> QED BY <1>3, <3>1
  <2> QED BY <1>4, <2>1, <2>2, <2>3
<1> QED BY <1>5, <1>7, <1>8, <1>9 DEF AreRecords

\* The records of the first n files of a package.
PartOf(c, n) == UNION {Q!Range(c.files[k]) : k \in 1..n}

\* When no two records of the package have one identifier, nothing that was read is replaced, and all of the file is read.
LEMMA ReadAdds ==
  ASSUME NEW c, NEW n \in Nat, n + 1 \in DOMAIN c.files, 1..n \subseteq DOMAIN c.files,
         IsFile(c.files[n + 1]),
         \A r, s \in Q!RecordsOf(c) : r.id = s.id => r = s
  PROVE  Q!Read(PartOf(c, n), c.files[n + 1]) = PartOf(c, n + 1)
<1>1. PICK file, F, old, next : file = c.files[n + 1] /\ F = Q!Range(file) /\ old = PartOf(c, n) /\ next = n + 1
  OBVIOUS
<1>2. F \subseteq Q!RecordsOf(c) /\ old \subseteq Q!RecordsOf(c)
  BY <1>1 DEF Q!RecordsOf, PartOf
<1>3. PICK m \in Nat : DOMAIN file = 1..m
  BY <1>1 DEF IsFile
<1>4. F = {file[k] : k \in 1..m}
  BY <1>1, <1>3 DEF Q!Range
<1>5. {r \in old : r.id \notin Q!Ids(F)} \cup F = old \cup F
  <2>1. \A r \in old : r.id \in Q!Ids(F) => r \in F
    BY <1>2 DEF Q!Ids
  <2> QED BY <2>1
<1>6. {file[k] : k \in Q!LastOf(file)} = F
  <2>1. Q!LastOf(file) = {k \in 1..m : \A l \in 1..m : l > k => file[l].id # file[k].id}
    BY <1>3 DEF Q!LastOf
  <2>2. ASSUME NEW r \in F PROVE \E k \in Q!LastOf(file) : file[k] = r
    <3>1. PICK T : T = {k \in 1..m : file[k].id = r.id}
      OBVIOUS
    <3>2. T \in SUBSET (1..m) /\ T # {}
      BY <1>4, <3>1
    <3>3. PICK k \in T : \A l \in T : l <= k
      BY <3>2, Greatest
    <3>4. k \in 1..m /\ file[k].id = r.id
      BY <3>1
    <3>5. \A l \in 1..m : l > k => file[l].id # file[k].id
      BY <3>1, <3>3, <3>4
    <3>6. file[k] = r
      BY <1>2, <1>4, <3>4
    <3> QED BY <2>1, <3>4, <3>5, <3>6
  <2> QED BY <1>4, <2>1, <2>2
<1>7. PartOf(c, n + 1) = old \cup F
  <2>1. 1..n + 1 = 1..n \cup {n + 1}
    OBVIOUS
  <2> QED BY <1>1, <2>1 DEF PartOf
<1> QED BY <1>1, <1>5, <1>6, <1>7 DEF Q!Read

(***************************************************************************)
(* The invariant of a call: it ties the stores to what was seen at the     *)
(* paths.  As long as one content was there while a package was opened,    *)
(* it is a valid one, and the store has its manifest and as many of its    *)
(* record files as were read.                                              *)
(***************************************************************************)
Contents == Q!Range(job.packages) \cup job.variants
Files == Cardinality(RecordPaths)
Sound(c) == c # Nil /\ c.valid
AllRecords == UNION {Q!RecordsOf(c) : c \in Contents \ {Nil}}
StoreSet == [manifest : {c.manifest : c \in Contents \ {Nil}}, records : {rs \in SUBSET AllRecords : AreRecords(rs)}]

ReadingTypeOK ==
  /\ job \in ReadingJobs
  /\ pc \in {"arguments", "validate", "manifest", "records", "answer", "done"}
  /\ outcome \in {"running", "ValueError", "PackageReadError", "answered"}
  /\ packages \in [1..Len(job.packages) -> Contents]
  /\ seen \in Seq({T \in SUBSET Contents : IsFiniteSet(T)})
  /\ stores \in Seq(StoreSet)
  /\ position \in Nat \ {0}

\* How many packages were validated and opened.
OpenedSoFar ==
  /\ pc # "done" => outcome = "running"
  /\ Len(seen) = IF pc = "manifest" THEN Len(stores) + 1 ELSE IF pc = "done" THEN Len(seen) ELSE Len(stores)
  /\ pc = "arguments" => stores = <<>>
  /\ pc \in {"validate", "manifest"} => Len(stores) < Len(job.packages)
  /\ pc = "records" => Len(stores) \in 1..Len(job.packages)
  /\ pc = "answer" => Len(stores) = Len(job.packages)
  /\ outcome = "answered" => Len(stores) = Len(job.packages) /\ Len(seen) = Len(stores)

\* The package that is being opened was valid when there was only one.
BeingOpened ==
  /\ pc = "manifest" =>
       /\ packages[Len(stores) + 1] \in seen[Len(stores) + 1]
       /\ \A c \in seen[Len(stores) + 1] : seen[Len(stores) + 1] = {c} => Sound(c)
  /\ pc = "records" =>
       /\ packages[Len(stores)] \in seen[Len(stores)]
       /\ position <= Files
       /\ \A c \in seen[Len(stores)] : seen[Len(stores)] = {c} =>
            /\ Sound(c) /\ stores[Len(stores)].manifest = c.manifest
            /\ stores[Len(stores)].records = PartOf(c, position - 1)

\* A store that was opened without a replacement is the package that was validated, all of it.
IsWhole(k) ==
  \A c \in seen[k] : seen[k] = {c} =>
    Sound(c) /\ stores[k].manifest = c.manifest /\ stores[k].records = Q!RecordsOf(c)
WholeStores ==
  /\ pc \in {"validate", "manifest", "answer"} \/ outcome = "answered" => \A k \in 1..Len(stores) : IsWhole(k)
  /\ pc = "records" => \A k \in 1..Len(stores) - 1 : IsWhole(k)

\* How a call ends.
Ends ==
  /\ outcome = "PackageReadError" => \E k \in DOMAIN seen : \A c \in seen[k] : seen[k] # {c}
  /\ outcome = "ValueError" /\ job.command = "diff" => \E k \in DOMAIN seen : \E c \in seen[k] : ~Sound(c)
  /\ outcome = "answered" =>
       answer = CASE job.command = "context" -> Q!ContextOf(stores[1])
                  [] job.command = "query" -> Q!QueryOf(stores[1])
                  [] job.command = "diff" -> Q!DiffOf(stores[1], stores[2])

ReadingInv == ReadingTypeOK /\ OpenedSoFar /\ BeingOpened /\ WholeStores /\ Ends

\* Of the jobs: the number of packages, and what is at their paths.
LEMMA ReadingJobIs ==
  ASSUME job \in ReadingJobs
  PROVE  /\ Q!IsReadingJob(job)
         /\ Len(job.packages) = IF job.command = "diff" THEN 2 ELSE 1
         /\ job.command \in {"context", "query", "diff"}
         /\ job.packages \in [1..Len(job.packages) -> Contents]
         /\ Files \in Nat /\ Files # 0
         /\ \A c \in Contents : c # Nil => Q!IsContent(c) /\ DOMAIN c.files = 1..Files
<1>1. Q!IsReadingJob(job)
  BY ReadingAssumption
<1>2. job.packages \in [1..Len(job.packages) -> Contents]
  <2>1. job.packages \in Seq(Q!Range(job.packages))
    BY <1>1 DEF Q!IsReadingJob
  <2> QED BY <2>1 DEF Contents
<1>3. Files \in Nat /\ Files # 0
  BY ReadingAssumption, FS_CardinalityType, FS_EmptySet DEF Files
<1>4. \A c \in Contents : c # Nil => Q!IsContent(c)
  BY <1>1 DEF Q!IsReadingJob, Contents
<1>5. Files = Q!Cardinality(RecordPaths)
  BY DEF Files, Q!Cardinality, Cardinality
<1> QED BY <1>1, <1>2, <1>3, <1>4, <1>5 DEF Q!IsReadingJob, Q!IsContent

\* Of the contents: their files, the identifiers and the mappings of a valid one, and what a store of one is.
LEMMA ContentIs ==
  ASSUME job \in ReadingJobs, NEW c \in Contents, c # Nil
  PROVE  /\ \A k \in 1..Files : IsFile(c.files[k]) /\ Q!Range(c.files[k]) \subseteq Q!RecordsOf(c)
         /\ Q!RecordsOf(c) = PartOf(c, Files) /\ Q!RecordsOf(c) \subseteq AllRecords
         /\ c.valid => HasMappings(c.manifest) /\ \A r, s \in Q!RecordsOf(c) : r.id = s.id => r = s
<1>1. Q!IsContent(c) /\ DOMAIN c.files = 1..Files
  BY ReadingJobIs
<1>2. Q!RecordsOf(c) = PartOf(c, Files)
  BY <1>1 DEF Q!RecordsOf, PartOf
<1>3. ASSUME NEW k \in 1..Files PROVE IsFile(c.files[k]) /\ Q!Range(c.files[k]) \subseteq Q!RecordsOf(c)
  <2>1. PICK file : file = c.files[k]
    OBVIOUS
  <2>2. file \in Seq(Q!Range(file))
    BY <1>1, <2>1 DEF Q!IsContent
  <2>3. \E n \in Nat : DOMAIN file = 1..n
    BY <2>2
  <2>4. Q!Range(file) \subseteq Q!RecordsOf(c)
    BY <1>2, <2>1 DEF PartOf
  <2>5. \A r \in Q!RecordsOf(c) : r.id \in Nat /\ r.size \in Nat
    BY <1>1 DEF Q!IsContent
  <2> QED BY <2>1, <2>3, <2>4, <2>5 DEF IsFile
<1>4. Q!RecordsOf(c) \subseteq AllRecords
  BY DEF AllRecords
<1> QED BY <1>1, <1>2, <1>3, <1>4 DEF Q!IsContent, HasMappings

\* The invariant holds at the start of a call.
LEMMA ReadingInvInit == ASSUME Q!Init PROVE ReadingInv
<1>1. /\ job \in ReadingJobs /\ pc = "arguments" /\ outcome = "running"
      /\ packages = job.packages /\ stores = <<>> /\ seen = <<>> /\ position = 1
  BY DEF Q!Init
<1>2. ReadingTypeOK
  <2>1. packages \in [1..Len(job.packages) -> Contents]
    BY <1>1, ReadingJobIs
  <2>2. seen \in Seq({T \in SUBSET Contents : IsFiniteSet(T)}) /\ stores \in Seq(StoreSet)
    BY <1>1
  <2> QED BY <1>1, <2>1, <2>2 DEF ReadingTypeOK
<1>3. OpenedSoFar /\ BeingOpened /\ WholeStores /\ Ends
  <2>1. Len(stores) = 0 /\ Len(seen) = 0
    BY <1>1
  <2> QED BY <1>1, <2>1 DEF OpenedSoFar, BeingOpened, WholeStores, Ends
<1> QED BY <1>2, <1>3 DEF ReadingInv

\* A call whose arguments are wrong ends before anything is read; a diff has none that could be.
LEMMA CheckArgumentsKeeps == ASSUME ReadingInv, Q!CheckArguments PROVE ReadingInv'
<1>1. /\ UNCHANGED <<job, packages, stores, position, seen, answer>> /\ pc = "arguments"
      /\ \/ pc' = "validate" /\ outcome' = outcome
         \/ pc' = "done" /\ outcome' = Q!ArgumentDefect /\ Q!ArgumentDefect # "none"
  BY DEF Q!CheckArguments, Q!Stop, Q!reading
<1>2. Q!ArgumentDefect # "none" => Q!ArgumentDefect = "ValueError" /\ job.command # "diff"
  BY DEF Q!ArgumentDefect
<1>3. ReadingTypeOK'
  BY <1>1, <1>2 DEF ReadingInv, ReadingTypeOK, Contents, StoreSet, AllRecords
<1>4. /\ job \in ReadingJobs /\ stores = <<>> /\ Len(seen) = Len(stores) /\ outcome = "running"
      /\ Len(job.packages) \in {1, 2}
  BY <1>1, ReadingJobIs DEF ReadingInv, ReadingTypeOK, OpenedSoFar
<1>5. Len(stores) = 0
  BY <1>4
<1>6. stores' = <<>> /\ Len(seen)' = 0 /\ Len(stores)' = 0 /\ Len(job.packages)' \in {1, 2}
  BY <1>1, <1>4, <1>5
<1>7. OpenedSoFar'
  BY <1>1, <1>2, <1>4, <1>6 DEF OpenedSoFar
<1>8. BeingOpened'
  BY <1>1 DEF BeingOpened
<1>9. WholeStores'
  BY <1>1, <1>6 DEF WholeStores
<1>10. Ends'
  BY <1>1, <1>2, <1>4 DEF Ends
<1> QED BY <1>3, <1>7, <1>8, <1>9, <1>10 DEF ReadingInv

\* What the invariant says of the types, with the numbers of the packages, of the stores and of the contents seen.
LEMMA ReadingTypes ==
  ASSUME ReadingInv
  PROVE  /\ job \in ReadingJobs /\ Len(job.packages) \in {1, 2} /\ Files \in Nat /\ Files # 0
         /\ packages \in [1..Len(job.packages) -> Contents] /\ stores \in Seq(StoreSet)
         /\ seen \in Seq({T \in SUBSET Contents : IsFiniteSet(T)})
         /\ Len(stores) \in Nat /\ Len(seen) \in Nat /\ DOMAIN seen = 1..Len(seen)
         /\ position \in Nat \ {0}
<1>1. ReadingTypeOK
  BY DEF ReadingInv
<1>2. job \in ReadingJobs /\ packages \in [1..Len(job.packages) -> Contents] /\ position \in Nat \ {0}
  BY <1>1 DEF ReadingTypeOK
<1>3. stores \in Seq(StoreSet) /\ seen \in Seq({T \in SUBSET Contents : IsFiniteSet(T)})
  BY <1>1 DEF ReadingTypeOK
<1>4. Len(stores) \in Nat /\ Len(seen) \in Nat /\ DOMAIN seen = 1..Len(seen)
  BY <1>3
<1>5. Len(job.packages) \in {1, 2} /\ Files \in Nat /\ Files # 0
  BY <1>2, ReadingJobIs
<1> QED BY <1>2, <1>3, <1>4, <1>5

\* A package is validated: what was there is the first content that is seen of it.
LEMMA ValidateKeeps == ASSUME ReadingInv, Q!Validate PROVE ReadingInv'
<1> PICK n, here : n = Len(stores) /\ here = packages[n + 1]
  OBVIOUS
<1>1. /\ UNCHANGED <<job, packages, stores, position, answer>> /\ pc = "validate" /\ seen' = Append(seen, {here})
      /\ \/ Sound(here) /\ pc' = "manifest" /\ outcome' = outcome
         \/ ~Sound(here) /\ pc' = "done" /\ outcome' = "ValueError"
  BY DEF Q!Validate, Q!Stop, Q!Here, Q!Side, Sound
<1>2. /\ n \in Nat /\ n = Len(seen) /\ n < Len(job.packages) /\ Len(job.packages) \in {1, 2}
      /\ seen \in Seq({T \in SUBSET Contents : IsFiniteSet(T)}) /\ outcome = "running" /\ packages \in [1..Len(job.packages) -> Contents]
  BY <1>1, ReadingTypes DEF ReadingInv, OpenedSoFar
<1>3. here \in Contents
  BY <1>2
<1>4. {here} \in {T \in SUBSET Contents : IsFiniteSet(T)}
  BY <1>3, FS_Singleton
<1>5. /\ seen' \in Seq({T \in SUBSET Contents : IsFiniteSet(T)})
      /\ Len(seen') = n + 1 /\ seen'[n + 1] = {here} /\ \A k \in 1..n : seen'[k] = seen[k]
      /\ DOMAIN seen' = 1..n + 1
  BY <1>1, <1>2, <1>4
<1>6. ReadingTypeOK'
  BY <1>1, <1>5 DEF ReadingInv, ReadingTypeOK, Contents, StoreSet, AllRecords
<1>7. OpenedSoFar'
  BY <1>1, <1>2, <1>5 DEF OpenedSoFar
<1>8. BeingOpened'
  <2>1. CASE pc' = "manifest"
    BY <1>1, <1>5, <2>1 DEF BeingOpened, Sound
  <2>2. CASE pc' # "manifest"
    BY <1>1, <2>2 DEF BeingOpened
  <2> QED BY <2>1, <2>2
<1>9. WholeStores'
  <2>1. \A k \in 1..n : IsWhole(k)
    BY <1>1 DEF ReadingInv, WholeStores
  <2>2. \A k \in 1..n : IsWhole(k)'
    BY <1>1, <1>5, <2>1 DEF IsWhole, Sound
  <2> QED BY <1>1, <2>2 DEF WholeStores
<1>10. Ends'
  <2>1. ~Sound(here) => \E k \in DOMAIN seen' : \E c \in seen'[k] : ~Sound(c)
    BY <1>2, <1>5
  <2> QED BY <1>1, <1>2, <2>1 DEF Ends, Sound
<1> QED BY <1>6, <1>7, <1>8, <1>9, <1>10 DEF ReadingInv

\* The manifest of the package is read, or is no longer there.
LEMMA ReadManifestKeeps == ASSUME ReadingInv, Q!ReadManifest PROVE ReadingInv'
<1> PICK n, here : n = Len(stores) /\ here = packages[n + 1]
  OBVIOUS
<1>1. /\ n \in Nat /\ Len(seen) = n + 1 /\ n + 1 \in 1..Len(job.packages) /\ Len(job.packages) \in {1, 2}
      /\ seen \in Seq({T \in SUBSET Contents : IsFiniteSet(T)}) /\ outcome = "running" /\ packages \in [1..Len(job.packages) -> Contents]
      /\ stores \in Seq(StoreSet) /\ DOMAIN seen = 1..n + 1 /\ pc = "manifest" /\ Files \in Nat /\ Files # 0 /\ job \in ReadingJobs
  <2>1. pc = "manifest"
    BY DEF Q!ReadManifest
  <2> QED BY <2>1, ReadingTypes DEF ReadingInv, OpenedSoFar
<1>2. UNCHANGED <<job, packages, seen, answer>>
  BY DEF Q!ReadManifest
<1>3. here \in Contents /\ here \in seen[n + 1] /\ \A c \in seen[n + 1] : seen[n + 1] = {c} => Sound(c)
  BY <1>1 DEF ReadingInv, BeingOpened
<1>4. \A k \in 1..n : IsWhole(k)
  BY <1>1 DEF ReadingInv, WholeStores
<1>5. CASE here = Nil
  <2>1. pc' = "done" /\ outcome' = "PackageReadError" /\ UNCHANGED <<stores, position>>
    BY <1>5 DEF Q!ReadManifest, Q!Stop, Q!Here, Q!Side
  <2>2. \A c \in seen[n + 1] : seen[n + 1] # {c}
    BY <1>3, <1>5 DEF Sound
  <2>3. ReadingTypeOK'
    BY <1>2, <2>1 DEF ReadingInv, ReadingTypeOK, Contents, StoreSet, AllRecords
  <2>4. OpenedSoFar' /\ BeingOpened' /\ WholeStores'
    BY <1>2, <2>1 DEF OpenedSoFar, BeingOpened, WholeStores
  <2>5. \E k \in DOMAIN seen' : \A c \in seen'[k] : seen'[k] # {c}
    BY <1>1, <1>2, <2>2
  <2>6. Ends'
    BY <1>2, <2>1, <2>5 DEF Ends
  <2> QED BY <2>3, <2>4, <2>6 DEF ReadingInv
<1>6. CASE here # Nil
  <2>1. PICK store : store = [manifest |-> here.manifest, records |-> {}]
    OBVIOUS
  <2>2. pc' = "records" /\ outcome' = outcome /\ position' = 1 /\ stores' = Append(stores, store)
    BY <1>6, <2>1 DEF Q!ReadManifest, Q!Here, Q!Side
  <2>3. store \in StoreSet
    <3>1. {} \in {rs \in SUBSET AllRecords : AreRecords(rs)}
      BY FS_EmptySet DEF AreRecords
    <3> QED BY <1>3, <1>6, <2>1, <3>1 DEF StoreSet
  <2>4. /\ stores' \in Seq(StoreSet) /\ Len(stores') = n + 1 /\ stores'[n + 1] = store
        /\ \A k \in 1..n : stores'[k] = stores[k]
    BY <1>1, <2>2, <2>3
  <2>5. ReadingTypeOK'
    BY <1>2, <2>2, <2>4 DEF ReadingInv, ReadingTypeOK, Contents, StoreSet, AllRecords
  <2>6. OpenedSoFar'
    BY <1>1, <1>2, <2>2, <2>4 DEF OpenedSoFar
  <2>7. BeingOpened'
    <3>1. packages'[n + 1] \in seen'[n + 1]
      BY <1>2, <1>3
    <3>2. position' <= Files
      BY <1>1, <2>2
    <3>3. ASSUME NEW c \in seen[n + 1], seen[n + 1] = {c}
          PROVE  Sound(c) /\ store.manifest = c.manifest /\ store.records = PartOf(c, 0)
      <4>1. c = here
        BY <1>3, <3>3
      <4>2. PartOf(c, 0) = {}
        BY DEF PartOf
      <4> QED BY <1>3, <2>1, <3>3, <4>1, <4>2
    <3>4. /\ pc' = "records" /\ Len(stores)' = n + 1 /\ position' - 1 = 0 /\ seen' = seen /\ stores'[n + 1] = store
          /\ Files' = Files
      BY <1>2, <2>2, <2>4 DEF Files
    <3> QED BY <3>1, <3>2, <3>3, <3>4 DEF BeingOpened, Sound, PartOf
  <2>8. WholeStores'
    <3>1. \A k \in 1..n : IsWhole(k)'
      BY <1>2, <1>4, <2>4 DEF IsWhole, Sound
    <3>2. Len(stores)' - 1 = n /\ pc' = "records" /\ outcome' = "running"
      BY <1>1, <2>2, <2>4
    <3> QED BY <3>1, <3>2 DEF WholeStores
  <2>9. Ends'
    BY <1>1, <2>2 DEF Ends
  <2> QED BY <2>5, <2>6, <2>7, <2>8, <2>9 DEF ReadingInv
<1> QED BY <1>5, <1>6

\* The next record file is read, or the package is no longer there.
LEMMA ReadRecordsKeeps == ASSUME ReadingInv, Q!ReadRecords PROVE ReadingInv'
<1> PICK n, here : n = Len(stores) /\ here = packages[n]
  OBVIOUS
<1> PICK store, file : store = stores[n] /\ file = here.files[position]
  OBVIOUS
<1>1. /\ Len(seen) = n /\ n \in 1..Len(job.packages) /\ Len(job.packages) \in {1, 2} /\ outcome = "running"
      /\ packages \in [1..Len(job.packages) -> Contents] /\ stores \in Seq(StoreSet) /\ DOMAIN seen = 1..n /\ pc = "records"
      /\ Files \in Nat /\ job \in ReadingJobs /\ position \in Nat \ {0}
  <2>1. pc = "records"
    BY DEF Q!ReadRecords
  <2> QED BY <2>1, ReadingTypes DEF ReadingInv, OpenedSoFar
<1>2. UNCHANGED <<job, packages, seen, answer>>
  BY DEF Q!ReadRecords
<1>3. /\ here \in Contents /\ here \in seen[n] /\ position \in 1..Files
      /\ \A c \in seen[n] : seen[n] = {c} =>
           Sound(c) /\ store.manifest = c.manifest /\ store.records = PartOf(c, position - 1)
  BY <1>1 DEF ReadingInv, BeingOpened
<1>4. \A k \in 1..n - 1 : IsWhole(k)
  BY <1>1 DEF ReadingInv, WholeStores
<1>5. CASE here = Nil
  <2>1. pc' = "done" /\ outcome' = "PackageReadError" /\ UNCHANGED <<stores, position>>
    BY <1>5 DEF Q!ReadRecords, Q!Stop, Q!Side
  <2>2. \A c \in seen[n] : seen[n] # {c}
    BY <1>3, <1>5 DEF Sound
  <2>3. ReadingTypeOK'
    BY <1>2, <2>1 DEF ReadingInv, ReadingTypeOK, Contents, StoreSet, AllRecords
  <2>4. OpenedSoFar' /\ BeingOpened' /\ WholeStores'
    BY <1>2, <2>1 DEF OpenedSoFar, BeingOpened, WholeStores
  <2>5. \E k \in DOMAIN seen' : \A c \in seen'[k] : seen'[k] # {c}
    BY <1>1, <1>2, <2>2
  <2>6. Ends'
    BY <1>2, <2>1, <2>5 DEF Ends
  <2> QED BY <2>3, <2>4, <2>6 DEF ReadingInv
<1>6. CASE here # Nil
  <2>1. DOMAIN here.files = 1..Files /\ Len(here.files) = Files
    <3>1. DOMAIN here.files = 1..Files
      BY <1>1, <1>3, <1>6, ReadingJobIs
    <3> QED BY <1>1, <3>1
  <2>2. /\ stores' = [stores EXCEPT ![n].records = Q!Read(store.records, file)]
        /\ position' = position + 1 /\ outcome' = outcome
        /\ pc' = IF position < Files THEN "records" ELSE IF n < Len(job.packages) THEN "validate" ELSE "answer"
    BY <1>1, <1>6, <2>1 DEF Q!ReadRecords, Q!Side, Q!NextPc
  <2>3. PICK new : new = [store EXCEPT !.records = Q!Read(store.records, file)]
    OBVIOUS
  <2>4. IsFile(file) /\ Q!Range(file) \subseteq AllRecords
    BY <1>1, <1>3, <1>6, ContentIs
  <2>5. store \in StoreSet
    BY <1>1
  <2>6. new \in StoreSet
    <3>1. Q!Read(store.records, file) \subseteq AllRecords
      <4>1. store.records \subseteq AllRecords
        BY <2>5 DEF StoreSet
      <4>2. \A k \in Q!LastOf(file) : file[k] \in Q!Range(file)
        BY DEF Q!LastOf, Q!Range
      <4> QED BY <2>4, <4>1, <4>2 DEF Q!Read
    <3>2. AreRecords(Q!Read(store.records, file))
      BY <2>4, <2>5, ReadKeeps DEF StoreSet
    <3> QED BY <2>3, <2>5, <3>1, <3>2 DEF StoreSet
  <2>7. /\ stores' \in Seq(StoreSet) /\ Len(stores') = n /\ stores'[n] = new /\ \A k \in 1..n - 1 : stores'[k] = stores[k]
    <3>1. stores' = [stores EXCEPT ![n] = new]
      BY <2>2, <2>3
    <3> QED BY <1>1, <2>6, <3>1
  <2>8. ReadingTypeOK'
    BY <1>1, <1>2, <2>2, <2>7 DEF ReadingInv, ReadingTypeOK, Contents, StoreSet, AllRecords
  <2>9. OpenedSoFar'
    BY <1>1, <1>2, <2>2, <2>7 DEF OpenedSoFar
  <2>10. ASSUME NEW c \in seen[n], seen[n] = {c}
         PROVE  Sound(c) /\ new.manifest = c.manifest /\ new.records = PartOf(c, position)
    <3>1. c = here /\ Sound(c) /\ store.manifest = c.manifest /\ store.records = PartOf(c, position - 1)
      BY <1>3, <2>10
    <3>2. new.manifest = store.manifest /\ new.records = Q!Read(store.records, file)
      BY <2>3, <2>5 DEF StoreSet
    <3>3. PICK m \in Nat : m = position - 1 /\ m + 1 = position
      BY <1>1
    <3>4. \A r, s \in Q!RecordsOf(c) : r.id = s.id => r = s
      BY <1>1, <1>3, <3>1, ContentIs DEF Sound
    <3>5. m + 1 \in DOMAIN c.files /\ 1..m \subseteq DOMAIN c.files /\ IsFile(c.files[m + 1])
      BY <1>1, <1>3, <2>1, <2>4, <3>1, <3>3
    <3>6. Q!Read(PartOf(c, m), c.files[m + 1]) = PartOf(c, m + 1)
      BY <3>4, <3>5, ReadAdds
    <3> QED BY <3>1, <3>2, <3>3, <3>6
  <2>11. BeingOpened'
    <3>1. CASE pc' = "records"
      <4>1. packages'[n] \in seen'[n] /\ position' <= Files
        BY <1>1, <1>2, <1>3, <2>2, <3>1
      <4>2. position' - 1 = position /\ Len(stores)' = n /\ stores'[n] = new /\ Files' = Files
        BY <1>1, <2>2, <2>7 DEF Files
      <4> QED BY <1>2, <2>10, <3>1, <4>1, <4>2 DEF BeingOpened, Sound, PartOf
    <3>2. CASE pc' # "records"
      BY <2>2, <3>2 DEF BeingOpened
    <3> QED BY <3>1, <3>2
  <2>12. \A k \in 1..n - 1 : IsWhole(k)'
    BY <1>2, <1>4, <2>7 DEF IsWhole, Sound
  <2>13. pc' # "records" => IsWhole(n)'
    <3> SUFFICES ASSUME pc' # "records", NEW c \in seen[n], seen[n] = {c}
                 PROVE  Sound(c) /\ new.manifest = c.manifest /\ new.records = Q!RecordsOf(c)
      BY <1>2, <2>7 DEF IsWhole, Sound
    <3>1. position = Files
      BY <1>1, <1>3, <2>2
    <3>2. c # Nil /\ c \in Contents
      BY <1>3, <1>6
    <3> QED BY <1>1, <2>10, <3>1, <3>2, ContentIs
  <2>14. WholeStores'
    <3>1. Len(stores)' = n /\ n \in Nat /\ n # 0 /\ outcome' = "running"
      BY <1>1, <2>2, <2>7
    <3>2. pc' # "records" => \A k \in 1..n : IsWhole(k)'
      <4>1. \A k \in 1..n : k = n \/ k \in 1..n - 1
        BY <3>1
      <4> QED BY <2>12, <2>13, <4>1
    <3> QED BY <2>12, <3>1, <3>2 DEF WholeStores
  <2>15. Ends'
    BY <1>1, <2>2 DEF Ends
  <2> QED BY <2>8, <2>9, <2>11, <2>14, <2>15 DEF ReadingInv
<1> QED BY <1>5, <1>6

\* The answer is made from the stores.
LEMMA AnswerKeeps == ASSUME ReadingInv, Q!Answer PROVE ReadingInv'
<1>1. /\ UNCHANGED <<job, packages, stores, position, seen>> /\ pc = "answer" /\ pc' = "done" /\ outcome' = "answered"
      /\ answer' = CASE job.command = "context" -> Q!ContextOf(stores[1])
                     [] job.command = "query" -> Q!QueryOf(stores[1])
                     [] job.command = "diff" -> Q!DiffOf(stores[1], stores[2])
  BY DEF Q!Answer, Q!Stop
<1>2. Len(stores) = Len(job.packages) /\ Len(seen) = Len(stores) /\ \A k \in 1..Len(stores) : IsWhole(k)
  BY <1>1 DEF ReadingInv, OpenedSoFar, WholeStores
<1>3. ReadingTypeOK'
  BY <1>1 DEF ReadingInv, ReadingTypeOK, Contents, StoreSet, AllRecords
<1>4. OpenedSoFar'
  BY <1>1, <1>2 DEF OpenedSoFar
<1>5. BeingOpened'
  BY <1>1 DEF BeingOpened
<1>6. WholeStores'
  BY <1>1, <1>2 DEF WholeStores, IsWhole, Sound
<1>7. answer' = CASE job'.command = "context" -> (Q!ContextOf(stores[1]))'
                  [] job'.command = "query" -> (Q!QueryOf(stores[1]))'
                  [] job'.command = "diff" -> (Q!DiffOf(stores[1], stores[2]))'
  <2>0. UNCHANGED <<job, stores>>
    BY <1>1
  <2>1. (Q!ContextOf(stores[1]))' = Q!ContextOf(stores[1])
    BY <2>0 DEF Q!ContextOf, Q!Selected, Q!Consider, Q!Fits, Q!Total
  <2>2. (Q!QueryOf(stores[1]))' = Q!QueryOf(stores[1])
    BY <1>1 DEF Q!QueryOf, Q!Answering
  <2>3. (Q!DiffOf(stores[1], stores[2]))' = Q!DiffOf(stores[1], stores[2])
    BY <1>1
  <2> QED BY <1>1, <2>1, <2>2, <2>3
<1>8. Ends'
  BY <1>1, <1>7 DEF Ends
<1> QED BY <1>3, <1>4, <1>5, <1>6, <1>8 DEF ReadingInv

\* Another content is put at a path: it is seen if the package there is being opened.
LEMMA ReplaceKeeps ==
  ASSUME ReadingInv, NEW side \in DOMAIN packages, NEW new \in job.variants, Q!Replace(side, new)
  PROVE  ReadingInv'
<1> PICK n : n = Len(stores)
  OBVIOUS
<1>1. /\ UNCHANGED <<job, pc, stores, position, answer, outcome>> /\ pc # "done"
      /\ packages' = [packages EXCEPT ![side] = new]
      /\ seen' = IF (pc = "manifest" /\ side = n + 1) \/ (pc = "records" /\ side = n)
                 THEN [seen EXCEPT ![side] = seen[side] \cup {new}] ELSE seen
  BY DEF Q!Replace, Q!Opening, Q!Side
<1>2. /\ job \in ReadingJobs /\ n \in Nat /\ Len(seen) \in Nat /\ DOMAIN seen = 1..Len(seen)
      /\ seen \in Seq({T \in SUBSET Contents : IsFiniteSet(T)}) /\ packages \in [1..Len(job.packages) -> Contents]
      /\ new \in Contents
  BY ReadingTypes DEF Contents
<1>3. outcome = "running" /\ Len(seen) = IF pc = "manifest" THEN n + 1 ELSE n
  BY <1>1 DEF ReadingInv, OpenedSoFar
<1>4. /\ seen' \in Seq({T \in SUBSET Contents : IsFiniteSet(T)}) /\ Len(seen') = Len(seen)
      /\ \A k \in 1..Len(seen) : k # side \/ pc \notin {"manifest", "records"} => seen'[k] = seen[k]
      /\ pc \in {"manifest", "records"} => seen'[Len(seen)] = IF side = Len(seen) THEN seen[side] \cup {new} ELSE seen[Len(seen)]
      /\ \A k \in 1..Len(seen) : k # Len(seen) => seen'[k] = seen[k]
  <2>1. CASE (pc = "manifest" /\ side = n + 1) \/ (pc = "records" /\ side = n /\ n # 0)
    <3>1. side = Len(seen) /\ side \in 1..Len(seen) /\ seen' = [seen EXCEPT ![side] = seen[side] \cup {new}]
      BY <1>1, <1>2, <1>3, <2>1
    <3>2. seen[side] \cup {new} \in {T \in SUBSET Contents : IsFiniteSet(T)}
      <4>1. seen[side] \in {T \in SUBSET Contents : IsFiniteSet(T)}
        BY <1>2, <3>1
      <4>2. IsFiniteSet(seen[side] \cup {new})
        BY <4>1, FS_AddElement
      <4> QED BY <1>2, <4>1, <4>2
    <3>3. PICK sets, both : sets = {T \in SUBSET Contents : IsFiniteSet(T)} /\ both = seen[side] \cup {new}
      OBVIOUS
    <3>4. seen \in Seq(sets) /\ both \in sets /\ seen' = [seen EXCEPT ![side] = both]
      BY <1>2, <3>1, <3>2, <3>3
    <3>5. seen' \in Seq(sets) /\ Len(seen') = Len(seen)
      <4>1. side \in 1..Len(seen) /\ seen \in Seq(sets) /\ both \in sets
        BY <3>1, <3>4
      <4>2. [seen EXCEPT ![side] = both] \in Seq(sets) /\ Len([seen EXCEPT ![side] = both]) = Len(seen)
        BY ONLY <4>1, ExceptSeq
      <4> QED BY <3>4, <4>2
    <3>6. seen'[side] = both /\ \A k \in 1..Len(seen) : k # side => seen'[k] = seen[k]
      BY <1>2, <3>1, <3>4, Zenon
    <3> QED BY <2>1, <3>1, <3>3, <3>5, <3>6
  <2>2. CASE ~((pc = "manifest" /\ side = n + 1) \/ (pc = "records" /\ side = n))
    <3>1. seen' = seen /\ (pc \in {"manifest", "records"} => side # Len(seen))
      BY <1>1, <1>3, <2>2
    <3> QED BY <1>2, <3>1
  <2>3. pc = "records" => n # 0
    BY <1>2 DEF ReadingInv, OpenedSoFar
  <2> QED BY <2>1, <2>2, <2>3
<1>5. packages' \in [1..Len(job.packages) -> Contents]
  BY <1>1, <1>2
<1>6. ReadingTypeOK'
  BY <1>1, <1>4, <1>5, Zenon DEF ReadingInv, ReadingTypeOK, Contents, StoreSet, AllRecords
<1>7. OpenedSoFar'
  BY <1>1, <1>4, Zenon DEF ReadingInv, OpenedSoFar
<1>8. ASSUME pc \in {"manifest", "records"}, NEW l, l = Len(seen), packages[l] \in seen[l], l \in DOMAIN packages
      PROVE  /\ packages'[l] \in seen'[l]
             /\ \A c \in seen'[l] : seen'[l] = {c} => seen[l] = {c}
  <2>1. CASE side = l
    <3>1. packages'[l] = new /\ seen'[l] = seen[l] \cup {new}
      BY <1>1, <1>4, <1>8, <2>1, Zenon
    <3> QED BY <1>8, <3>1
  <2>2. CASE side # l
    <3>1. packages'[l] = packages[l] /\ seen'[l] = seen[l]
      BY <1>1, <1>2, <1>4, <1>8, <2>2
    <3> QED BY <1>8, <3>1
  <2> QED BY <2>1, <2>2
<1>9. BeingOpened'
  <2>1. CASE pc = "manifest"
    <3>1. n + 1 = Len(seen) /\ packages[n + 1] \in seen[n + 1] /\ \A c \in seen[n + 1] : seen[n + 1] = {c} => Sound(c)
      BY <1>3, <2>1 DEF ReadingInv, BeingOpened
    <3>2. n + 1 \in DOMAIN packages
      BY <1>2, <2>1 DEF ReadingInv, OpenedSoFar
    <3>3. packages'[n + 1] \in seen'[n + 1] /\ \A c \in seen'[n + 1] : seen'[n + 1] = {c} => Sound(c)
      BY <1>8, <2>1, <3>1, <3>2
    <3> QED BY <1>1, <2>1, <3>3 DEF BeingOpened, Sound
  <2>2. CASE pc = "records"
    <3>1. /\ n = Len(seen) /\ packages[n] \in seen[n] /\ position <= Files
          /\ \A c \in seen[n] : seen[n] = {c} =>
               Sound(c) /\ stores[n].manifest = c.manifest /\ stores[n].records = PartOf(c, position - 1)
      BY <1>3, <2>2 DEF ReadingInv, BeingOpened
    <3>2. n \in DOMAIN packages
      BY <1>2, <2>2 DEF ReadingInv, OpenedSoFar
    <3>3. /\ packages'[n] \in seen'[n]
          /\ \A c \in seen'[n] : seen'[n] = {c} =>
               Sound(c) /\ stores[n].manifest = c.manifest /\ stores[n].records = PartOf(c, position - 1)
      BY <1>8, <2>2, <3>1, <3>2
    <3> QED BY <1>1, <2>2, <3>1, <3>3 DEF BeingOpened, Sound, PartOf, Files
  <2>3. CASE pc \notin {"manifest", "records"}
    BY <1>1, <2>3 DEF BeingOpened
  <2> QED BY <2>1, <2>2, <2>3
<1>10. WholeStores'
  <2>1. \A k \in 1..Len(seen) : IsWhole(k) /\ seen'[k] = seen[k] => IsWhole(k)'
    BY <1>1 DEF IsWhole, Sound
  <2>2. CASE pc \in {"validate", "answer"}
    <3>1. \A k \in 1..n : k \in 1..Len(seen) /\ IsWhole(k) /\ seen'[k] = seen[k]
      BY <1>2, <1>3, <1>4, <2>2 DEF ReadingInv, WholeStores
    <3> QED BY <1>1, <2>1, <2>2, <3>1 DEF WholeStores
  <2>3. CASE pc = "manifest"
    <3>1. \A k \in 1..n : k \in 1..Len(seen) /\ k # Len(seen) /\ IsWhole(k)
      BY <1>2, <1>3, <2>3 DEF ReadingInv, WholeStores
    <3> QED BY <1>1, <1>4, <2>1, <2>3, <3>1 DEF WholeStores
  <2>4. CASE pc = "records"
    <3>1. \A k \in 1..n - 1 : k \in 1..Len(seen) /\ k # Len(seen) /\ IsWhole(k)
      BY <1>2, <1>3, <2>4 DEF ReadingInv, WholeStores
    <3> QED BY <1>1, <1>3, <1>4, <2>1, <2>4, <3>1 DEF WholeStores
  <2> QED BY <1>1, <1>3, <2>2, <2>3, <2>4 DEF WholeStores
<1>11. Ends'
  BY <1>1, <1>3 DEF Ends
<1> QED BY <1>6, <1>7, <1>9, <1>10, <1>11 DEF ReadingInv

\* In every reachable state of a query, a diff or a context its invariant holds.
THEOREM ReadingInvariant == Spec => [](command = "read" => ReadingInv)
<1>1. Init => (command = "read" => ReadingInv)
  BY ReadingInvInit DEF Init, Component
<1>2. (command = "read" => ReadingInv) /\ [Next]_vars => (command = "read" => ReadingInv)'
  <2> SUFFICES ASSUME command = "read" => ReadingInv, [Next]_vars, command' = "read" PROVE ReadingInv'
    OBVIOUS
  <2>1. ReadingInv /\ [Q!Next]_(Q!vars)
    BY StepIsOfComponent
  <2>2. CASE UNCHANGED Q!vars
    <3>1. UNCHANGED <<job, pc, packages, stores, position, seen, answer, outcome>>
      BY <2>2 DEF Q!vars, Q!reading
    <3>2. ReadingTypeOK' /\ OpenedSoFar' /\ BeingOpened' /\ WholeStores'
      BY <2>1, <3>1 DEF ReadingInv, ReadingTypeOK, OpenedSoFar, BeingOpened, WholeStores, IsWhole, Sound, PartOf, Files, Contents,
                        StoreSet, AllRecords
    <3>3. Ends'
      <4>1. UNCHANGED <<Q!ContextOf(stores[1]), Q!QueryOf(stores[1]), Q!DiffOf(stores[1], stores[2])>>
        BY <3>1 DEF Q!ContextOf, Q!Selected, Q!Consider, Q!Fits, Q!Total, Q!QueryOf, Q!Answering
      <4> QED BY <2>1, <3>1, <4>1 DEF ReadingInv, Ends, Sound
    <3> QED BY <3>2, <3>3 DEF ReadingInv
  <2>3. CASE Q!Next
    BY <2>1, <2>3, CheckArgumentsKeeps, ValidateKeeps, ReadManifestKeeps, ReadRecordsKeeps, AnswerKeeps, ReplaceKeeps DEF Q!Next
  <2> QED BY <2>1, <2>2, <2>3
<1> QED BY <1>1, <1>2, PTL DEF Spec

\* When nothing was replaced while the packages were opened, each store is the package that was validated.
LEMMA UndisturbedIs ==
  ASSUME ReadingInv, Q!Undisturbed, outcome = "answered", NEW k \in 1..Len(stores)
  PROVE  /\ Sound(Q!Opened(k)) /\ Q!Opened(k) \in Contents
         /\ stores[k].manifest = Q!Opened(k).manifest /\ stores[k].records = Q!RecordsOf(Q!Opened(k))
<1>1. k \in DOMAIN seen /\ seen[k] \in {T \in SUBSET Contents : IsFiniteSet(T)}
  BY ReadingTypes DEF ReadingInv, OpenedSoFar
<1>2. Cardinality(seen[k]) = 1
  BY <1>1 DEF Q!Undisturbed, Q!Cardinality, Cardinality
<1>3. PICK c : seen[k] = {c}
  BY <1>1, <1>2, FS_Singleton
<1>4. Q!Opened(k) = c /\ c \in seen[k] /\ c \in Contents
  BY <1>1, <1>3 DEF Q!Opened
<1> QED BY <1>3, <1>4 DEF ReadingInv, WholeStores, IsWhole

\* The stores have records, each identifier once.
LEMMA StoresAreRecords == ASSUME ReadingInv, NEW k \in 1..Len(stores) PROVE AreRecords(stores[k].records)
<1>1. stores[k] \in StoreSet
  BY ReadingTypes
<1> QED BY <1>1 DEF StoreSet

\* A context, a diff and a query say what the package says, within the limits they were given.
THEOREM Projections == Spec => []ProjectionsAreExact
<1>1. (command = "read" => ReadingInv) => ProjectionsAreExact
  <2> SUFFICES ASSUME ReadingInv PROVE Q!ContextFits /\ Q!DiffIsExact /\ Q!QueryDivides
    BY DEF ProjectionsAreExact
  <2>1. Q!IsReadingJob(job) /\ Len(job.packages) = IF job.command = "diff" THEN 2 ELSE 1
    BY ReadingTypes, ReadingJobIs
  <2>2. ASSUME outcome = "answered"
        PROVE  /\ Len(stores) = IF job.command = "diff" THEN 2 ELSE 1
               /\ answer = CASE job.command = "context" -> Q!ContextOf(stores[1])
                             [] job.command = "query" -> Q!QueryOf(stores[1])
                             [] job.command = "diff" -> Q!DiffOf(stores[1], stores[2])
    BY <2>1, <2>2 DEF ReadingInv, OpenedSoFar, Ends
  <2>3. Q!ContextFits
    <3> SUFFICES ASSUME Q!Answered("context") PROVE Q!ContextFits
      BY DEF Q!ContextFits
    <3>1. outcome = "answered" /\ job.command = "context"
      BY DEF Q!Answered
    <3>2. Len(stores) = 1 /\ answer = Q!ContextOf(stores[1])
      BY <2>2, <3>1
    <3>3. 1 \in 1..Len(stores)
      BY <3>2
    <3>4. ContextFitsStore(answer, stores[1])
      BY <2>1, <3>2, <3>3, StoresAreRecords, ContextIs
    <3>5. Q!Undisturbed => stores[1].records = Q!RecordsOf(Q!Opened(1))
      BY <3>1, <3>3, UndisturbedIs
    <3> QED BY <3>4, <3>5 DEF ContextFitsStore, Q!ContextFits
  <2>4. Q!DiffIsExact
    <3> SUFFICES ASSUME Q!Answered("diff") PROVE Q!DiffIsExact
      BY DEF Q!DiffIsExact
    <3>1. outcome = "answered" /\ job.command = "diff"
      BY DEF Q!Answered
    <3>2. Len(stores) = 2 /\ answer = Q!DiffOf(stores[1], stores[2])
      BY <2>2, <3>1
    <3>3. 1 \in 1..Len(stores) /\ 2 \in 1..Len(stores)
      BY <3>2
    <3>4. ASSUME Q!Undisturbed PROVE Q!SemanticChange(answer) = (Q!Asserted(Q!Opened(1)) # Q!Asserted(Q!Opened(2)))
      <4>1. ASSUME NEW k \in {1, 2} PROVE HasMappings(stores[k].manifest) /\ AssertedBy(stores[k]) = Q!Asserted(Q!Opened(k))
        <5>1. PICK c : c = Q!Opened(k)
          OBVIOUS
        <5>2. Sound(c) /\ c \in Contents /\ stores[k].manifest = c.manifest /\ stores[k].records = Q!RecordsOf(c)
          BY <3>1, <3>3, <3>4, <5>1, UndisturbedIs
        <5>3. HasMappings(c.manifest)
          BY <5>2, ReadingTypes, ContentIs DEF Sound
        <5> QED BY <5>1, <5>2, <5>3 DEF AssertedBy, Q!Asserted, Digests, Kept
      <4>2. Q!SemanticChange(answer) <=> AssertedBy(stores[1]) # AssertedBy(stores[2])
        BY <3>2, <4>1, DiffIs
      <4>3. Q!SemanticChange(answer) \in BOOLEAN
        BY DEF Q!SemanticChange
      <4> QED BY <4>1, <4>2, <4>3
    <3> QED BY <3>2, <3>4, DiffSwaps DEF Q!DiffIsExact
  <2>5. Q!QueryDivides
    <3> SUFFICES ASSUME Q!Answered("query") PROVE Q!QueryDivides
      BY DEF Q!QueryDivides
    <3>1. outcome = "answered" /\ job.command = "query"
      BY DEF Q!Answered
    <3>2. Len(stores) = 1 /\ answer = Q!Answering(stores[1].records, job.operator)
      BY <2>2, <3>1 DEF Q!QueryOf
    <3>3. Q!Undisturbed => stores[1].records = Q!RecordsOf(Q!Opened(1)) /\ Q!Opened(1).valid
      BY <3>1, <3>2, UndisturbedIs DEF Sound
    <3>4. Divides(answer, stores[1].records)
      BY <2>1, <3>2, QueryIs
    <3> QED BY <3>3, <3>4 DEF Divides, Q!QueryDivides
  <2> QED BY <2>3, <2>4, <2>5
<1> QED BY ReadingInvariant, <1>1, PTL

(***************************************************************************)
(* Lists.                                                                  *)
(***************************************************************************)

\* Of a list: its indices; and a sequence of members of a set is one.
LEMMA ListIs ==
  /\ \A s : IsList(s) => Len(s) \in Nat /\ DOMAIN s = 1..Len(s)
  /\ \A T, s : s \in Seq(T) => IsList(s) /\ Items(s) \subseteq T
<1>1. ASSUME NEW s, IsList(s) PROVE Len(s) \in Nat /\ DOMAIN s = 1..Len(s)
  BY <1>1, LenProperties DEF IsList
<1>2. ASSUME NEW T, NEW s \in Seq(T) PROVE IsList(s) /\ Items(s) \subseteq T
  <2>1. Len(s) \in Nat /\ DOMAIN s = 1..Len(s) /\ s \in [1..Len(s) -> T]
    BY LenProperties
  <2>2. s \in [1..Len(s) -> Items(s)]
    BY <2>1 DEF Items
  <2>3. s \in Seq(Items(s))
    BY <2>1, <2>2
  <2> QED BY <2>1, <2>3 DEF IsList, Items
<1> QED BY <1>1, <1>2

\* Two lists make one, of what is in either.
LEMMA Joined ==
  ASSUME NEW s, NEW t, IsList(s), IsList(t)
  PROVE  IsList(s \o t) /\ Items(s \o t) = Items(s) \cup Items(t)
<1>1. PICK T : T = Items(s) \cup Items(t)
  OBVIOUS
<1>2. s \in Seq(T) /\ t \in Seq(T)
  BY <1>1, SeqMonotonic DEF IsList
<1>3. /\ s \o t \in Seq(T)
      /\ Len(s \o t) = Len(s) + Len(t)
      /\ \A i \in 1..Len(s) + Len(t) : (s \o t)[i] = IF i <= Len(s) THEN s[i] ELSE t[i - Len(s)]
  BY <1>2, ConcatProperties
<1>4. IsList(s \o t) /\ Items(s \o t) \subseteq T /\ DOMAIN (s \o t) = 1..Len(s \o t)
  BY <1>3, ListIs
<1>5. ASSUME NEW i \in DOMAIN s PROVE s[i] \in Items(s \o t)
  <2>1. i \in 1..Len(s) /\ Len(s) \in Nat /\ Len(t) \in Nat
    BY ListIs
  <2>2. i \in DOMAIN (s \o t) /\ (s \o t)[i] = s[i]
    BY <1>3, <1>4, <2>1
  <2> QED BY <2>2 DEF Items
<1>6. ASSUME NEW i \in DOMAIN t PROVE t[i] \in Items(s \o t)
  <2>1. i \in 1..Len(t) /\ Len(s) \in Nat /\ Len(t) \in Nat
    BY ListIs
  <2>2. PICK j : j = Len(s) + i
    OBVIOUS
  <2>3. j \in DOMAIN (s \o t) /\ (s \o t)[j] = t[i]
    BY <1>3, <1>4, <2>1, <2>2
  <2> QED BY <2>3 DEF Items
<1>7. Items(s) \subseteq Items(s \o t) /\ Items(t) \subseteq Items(s \o t)
  BY <1>5, <1>6 DEF Items
<1> QED BY <1>1, <1>4, <1>7

\* The least of the failed checks is one of them.
LEMMA LeastFails ==
  ASSUME NEW n \in Nat, NEW failed \in SUBSET (1..n), failed # {}
  PROVE  \E k \in failed : k = (CHOOSE x \in failed : \A y \in failed : x <= y)
<1>1. \E x \in failed : \A y \in failed : x <= y
  BY Least
<1> QED BY <1>1

\* A list of checks gives the code of one of them, or all are passed.
LEMMA FailureIs ==
  ASSUME NEW checks, IsList(checks), NEW codes, \A c \in Items(checks) : c[2] \in codes
  PROVE  /\ E!FirstFailure(checks) \in codes \cup {"accepted"}
         /\ G!FirstFailure(checks) \in codes \cup {"accepted"}
<1>1. PICK failed : failed = {k \in 1..Len(checks) : ~checks[k][1]}
  OBVIOUS
<1>2. Len(checks) \in Nat /\ DOMAIN checks = 1..Len(checks)
  BY ListIs
<1>3. CASE failed = {}
  BY <1>1, <1>3 DEF E!FirstFailure, G!FirstFailure
<1>4. CASE failed # {}
  <2>1. PICK k \in failed : k = (CHOOSE x \in failed : \A y \in failed : x <= y)
    BY <1>1, <1>2, <1>4, LeastFails
  <2>2. checks[k][2] \in codes
    BY <1>1, <1>2, <2>1 DEF Items
  <2> QED BY <1>1, <1>4, <2>1, <2>2 DEF E!FirstFailure, G!FirstFailure, E!Min, G!Min
<1> QED BY <1>3, <1>4

\* Short lists, and what is in them.
LEMMA Short ==
  /\ IsList(<<>>) /\ Items(<<>>) = {}
  /\ \A a : IsList(<<a>>) /\ Items(<<a>>) = {a}
  /\ \A a, b : IsList(<<a, b>>) /\ Items(<<a, b>>) = {a, b}
  /\ \A a, b, c : IsList(<<a, b, c>>) /\ Items(<<a, b, c>>) = {a, b, c}
  /\ \A a, b, c, d : IsList(<<a, b, c, d>>) /\ Items(<<a, b, c, d>>) = {a, b, c, d}
  /\ \A a, b, c, d, e : IsList(<<a, b, c, d, e>>) /\ Items(<<a, b, c, d, e>>) = {a, b, c, d, e}
  /\ \A a, b, c, d, e, f : IsList(<<a, b, c, d, e, f>>) /\ Items(<<a, b, c, d, e, f>>) = {a, b, c, d, e, f}
  /\ \A a, b, c, d, e, f, g, h : IsList(<<a, b, c, d, e, f, g, h>>) /\ Items(<<a, b, c, d, e, f, g, h>>) = {a, b, c, d, e, f, g, h}
  /\ \A a, b, c, d, e, f, g, h, i : IsList(<<a, b, c, d, e, f, g, h, i>>) /\ Items(<<a, b, c, d, e, f, g, h, i>>) = {a, b, c, d, e, f, g, h, i}
<1>1. ASSUME NEW a PROVE IsList(<<a>>) /\ Items(<<a>>) = {a}
  <2>1. Items(<<a>>) = {a}
    BY DEF Items
  <2>2. <<a>> \in Seq({a})
    OBVIOUS
  <2> QED BY <2>1, <2>2 DEF IsList
<1>2. ASSUME NEW a, NEW b PROVE IsList(<<a, b>>) /\ Items(<<a, b>>) = {a, b}
  <2>1. Items(<<a, b>>) = {a, b}
    BY DEF Items
  <2>2. <<a, b>> \in Seq({a, b})
    OBVIOUS
  <2> QED BY <2>1, <2>2 DEF IsList
<1>3. ASSUME NEW a, NEW b, NEW c PROVE IsList(<<a, b, c>>) /\ Items(<<a, b, c>>) = {a, b, c}
  <2>1. Items(<<a, b, c>>) = {a, b, c}
    BY DEF Items
  <2>2. <<a, b, c>> \in Seq({a, b, c})
    OBVIOUS
  <2> QED BY <2>1, <2>2 DEF IsList
<1>4. ASSUME NEW a, NEW b, NEW c, NEW d PROVE IsList(<<a, b, c, d>>) /\ Items(<<a, b, c, d>>) = {a, b, c, d}
  <2>1. Items(<<a, b, c, d>>) = {a, b, c, d}
    BY DEF Items
  <2>2. <<a, b, c, d>> \in Seq({a, b, c, d})
    OBVIOUS
  <2> QED BY <2>1, <2>2 DEF IsList
<1>5. ASSUME NEW a, NEW b, NEW c, NEW d, NEW e PROVE IsList(<<a, b, c, d, e>>) /\ Items(<<a, b, c, d, e>>) = {a, b, c, d, e}
  <2>1. Items(<<a, b, c, d, e>>) = {a, b, c, d, e}
    BY DEF Items
  <2>2. <<a, b, c, d, e>> \in Seq({a, b, c, d, e})
    OBVIOUS
  <2> QED BY <2>1, <2>2 DEF IsList
<1>6. ASSUME NEW a, NEW b, NEW c, NEW d, NEW e, NEW f PROVE IsList(<<a, b, c, d, e, f>>) /\ Items(<<a, b, c, d, e, f>>) = {a, b, c, d, e, f}
  <2>1. Items(<<a, b, c, d, e, f>>) = {a, b, c, d, e, f}
    BY DEF Items
  <2>2. <<a, b, c, d, e, f>> \in Seq({a, b, c, d, e, f})
    OBVIOUS
  <2> QED BY <2>1, <2>2 DEF IsList
<1>7. ASSUME NEW a, NEW b, NEW c, NEW d, NEW e, NEW f, NEW g, NEW h PROVE IsList(<<a, b, c, d, e, f, g, h>>) /\ Items(<<a, b, c, d, e, f, g, h>>) = {a, b, c, d, e, f, g, h}
  <2>1. Items(<<a, b, c, d, e, f, g, h>>) = {a, b, c, d, e, f, g, h}
    BY DEF Items
  <2>2. <<a, b, c, d, e, f, g, h>> \in Seq({a, b, c, d, e, f, g, h})
    OBVIOUS
  <2> QED BY <2>1, <2>2 DEF IsList
<1>8. ASSUME NEW a, NEW b, NEW c, NEW d, NEW e, NEW f, NEW g, NEW h, NEW i PROVE IsList(<<a, b, c, d, e, f, g, h, i>>) /\ Items(<<a, b, c, d, e, f, g, h, i>>) = {a, b, c, d, e, f, g, h, i}
  <2>1. Items(<<a, b, c, d, e, f, g, h, i>>) = {a, b, c, d, e, f, g, h, i}
    BY DEF Items
  <2>2. <<a, b, c, d, e, f, g, h, i>> \in Seq({a, b, c, d, e, f, g, h, i})
    OBVIOUS
  <2> QED BY <2>1, <2>2 DEF IsList
<1> QED BY <1>1, <1>2, <1>3, <1>4, <1>5, <1>6, <1>7, <1>8 DEF IsList, Items

\* A document more.
LEMMA AppendIs ==
  ASSUME NEW s, IsList(s), NEW x
  PROVE  /\ IsList(Append(s, x)) /\ DOMAIN Append(s, x) = 1..Len(s) + 1 /\ Len(s) \in Nat /\ DOMAIN s = 1..Len(s)
         /\ \A k \in 1..Len(s) : Append(s, x)[k] = s[k]
         /\ Append(s, x)[Len(s) + 1] = x
<1>1. PICK T : T = Items(s) \cup {x}
  OBVIOUS
<1>2. s \in Seq(T) /\ x \in T
  BY <1>1, SeqMonotonic DEF IsList
<1>3. Len(s) \in Nat /\ DOMAIN s = 1..Len(s)
  BY ListIs
<1>4. /\ Append(s, x) \in Seq(T) /\ Len(Append(s, x)) = Len(s) + 1
      /\ \A k \in 1..Len(s) : Append(s, x)[k] = s[k]
      /\ Append(s, x)[Len(s) + 1] = x
  BY <1>2, <1>3
<1> QED BY <1>3, <1>4, ListIs

(***************************************************************************)
(* Lists that are put together: in some order, in ascending order, of the  *)
(* items in a set, of the items of several lists; and lists of records,    *)
(* whose identifiers are distinct.                                         *)
(***************************************************************************)
\* A finite set in some order has each of its members once.
LEMMA EnumerationIs ==
  ASSUME NEW T, IsFiniteSet(T)
  PROVE  Enumeration(T) \in Bijection(1..Cardinality(T), T)
<1>1. PICK n : n = Cardinality(T)
  OBVIOUS
<1>2. n \in Nat
  BY <1>1, FS_CardinalityType
<1>0. PICK taken : taken = CHOOSE t : t = [k \in 0..n |-> IF k = 0 THEN {} ELSE t[k - 1] \cup {Some(T \ t[k - 1])}]
  OBVIOUS
<1>3. PICK any : any = SUBSET (T \cup {Some({})})
  OBVIOUS
<1>4. PICK step : step = [k \in 1..n |-> [b \in any |-> b \cup {Some(T \ b)}]]
  OBVIOUS
<1>5. ASSUME NEW b \in any PROVE b \cup {Some(T \ b)} \in any
  <2>1. CASE T \ b = {}
    <3>1. Some(T \ b) = Some({})
      BY <2>1
    <3> QED BY <1>3, <3>1
  <2>2. CASE T \ b # {}
    <3>1. Some(T \ b) \in T
      BY <2>2 DEF Some
    <3> QED BY <1>3, <3>1
  <2> QED BY <2>1, <2>2
<1>6. step \in [1..n -> [any -> any]]
  BY <1>4, <1>5
<1>7. PICK g : g \in Recursions(n, any, {}, step)
  <2>1. {} \in any
    BY <1>3
  <2> QED BY <1>2, <1>6, <2>1, Recursion
<1>8. g \in [0..n -> any] /\ g[0] = {} /\ \A k \in 1..n : g[k] = step[k][g[k - 1]]
  BY <1>7 DEF Recursions
<1>9. ASSUME NEW k \in 1..n PROVE g[k] = g[k - 1] \cup {Some(T \ g[k - 1])}
  <2>1. g[k - 1] \in any
    BY <1>2, <1>8
  <2>2. step[k] = [b \in any |-> b \cup {Some(T \ b)}]
    BY <1>4
  <2> QED BY <1>8, <2>1, <2>2
<1>10. g = [k \in 0..n |-> IF k = 0 THEN {} ELSE g[k - 1] \cup {Some(T \ g[k - 1])}]
  <2>1. \A k \in 0..n : g[k] = IF k = 0 THEN {} ELSE g[k - 1] \cup {Some(T \ g[k - 1])}
    <3> SUFFICES ASSUME NEW k \in 0..n, k # 0 PROVE g[k] = g[k - 1] \cup {Some(T \ g[k - 1])}
      BY <1>8
    <3>1. k \in 1..n
      BY <1>2
    <3> QED BY <1>9, <3>1
  <2> QED BY <1>8, <2>1
<1>11. taken = [k \in 0..n |-> IF k = 0 THEN {} ELSE taken[k - 1] \cup {Some(T \ taken[k - 1])}]
  BY <1>0, <1>10
<1>12. taken[0] = {} /\ \A k \in 1..n : taken[k] = taken[k - 1] \cup {Some(T \ taken[k - 1])}
  <2>1. 0 \in 0..n /\ \A k \in 1..n : k \in 0..n /\ k # 0
    BY <1>2
  <2> QED BY <1>11, <2>1
<1>13. PICK e : e = [k \in 1..n |-> Some(T \ taken[k - 1])]
  OBVIOUS
<1>14. Enumeration(T) = e
  BY <1>0, <1>1, <1>13 DEF Enumeration
<1>15. \A k \in 0..n : taken[k] \subseteq T /\ Cardinality(taken[k]) = k
  <2>1. PICK U : U = {k \in 0..n : taken[k] \subseteq T /\ Cardinality(taken[k]) = k}
    OBVIOUS
  <2>2. 0 \in U
    BY <1>2, <1>12, <2>1, FS_EmptySet
  <2>3. ASSUME NEW k \in 1..n, k - 1 \in U PROVE k \in U
    <3>1. taken[k - 1] \subseteq T /\ Cardinality(taken[k - 1]) = k - 1
      BY <2>1, <2>3
    <3>2. T \ taken[k - 1] # {}
      <4>1. k - 1 # n
        BY <1>2
      <4>2. taken[k - 1] # T
        BY <1>1, <3>1, <4>1
      <4> QED BY <3>1, <4>2
    <3>3. PICK x \in T \ taken[k - 1] : taken[k] = taken[k - 1] \cup {x}
      BY <1>12, <3>2 DEF Some
    <3>4. IsFiniteSet(taken[k - 1])
      BY <3>1, FS_Subset
    <3>5. Cardinality(taken[k]) = k - 1 + 1
      BY <3>1, <3>3, <3>4, FS_AddElement
    <3>6. k \in 0..n /\ k - 1 + 1 = k
      BY <1>2
    <3> QED BY <2>1, <3>1, <3>3, <3>5, <3>6
  <2>4. 0..n \subseteq U
    BY <1>2, <2>2, <2>3, InductionTo
  <2> QED BY <2>1, <2>4
<1>16. ASSUME NEW k \in 1..n PROVE e[k] \in T /\ e[k] \notin taken[k - 1] /\ taken[k] = taken[k - 1] \cup {e[k]}
  <2>1. k - 1 \in 0..n /\ k - 1 # n
    BY <1>2
  <2>2. T \ taken[k - 1] # {}
    BY <1>1, <1>15, <2>1
  <2> QED BY <1>12, <1>13, <2>2 DEF Some
<1>17. \A m \in 0..n : \A k \in 1..n : k <= m => e[k] \in taken[m]
  <2>1. PICK U : U = {m \in 0..n : \A k \in 1..n : k <= m => e[k] \in taken[m]}
    OBVIOUS
  <2>2. 0 \in U
    BY <1>2, <2>1
  <2>3. ASSUME NEW m \in 1..n, m - 1 \in U PROVE m \in U
    <3>1. ASSUME NEW k \in 1..n, k <= m PROVE e[k] \in taken[m]
      <4>1. CASE k = m
        BY <1>16, <4>1
      <4>2. CASE k # m
        <5>1. k <= m - 1
          BY <1>2, <3>1, <4>2
        <5> QED BY <1>16, <2>1, <2>3, <5>1
      <4> QED BY <4>1, <4>2
    <3> QED BY <1>2, <2>1, <3>1
  <2>4. 0..n \subseteq U
    BY <1>2, <2>2, <2>3, InductionTo
  <2> QED BY <2>1, <2>4
<1>18. ASSUME NEW j \in 1..n, NEW k \in 1..n, j < k PROVE e[j] # e[k]
  <2>1. k - 1 \in 0..n /\ j <= k - 1
    BY <1>2, <1>18
  <2> QED BY <1>16, <1>17, <2>1
<1>19. e \in [1..n -> T]
  BY <1>13, <1>16
<1>20. e \in Injection(1..n, T)
  <2>1. \A j, k \in 1..n : e[j] = e[k] => j = k
    BY <1>2, <1>18
  <2> QED BY <1>19, <2>1 DEF Injection, IsInjective
<1>21. \A x \in T : \E k \in 1..n : e[k] = x
  <2>1. taken[n] \subseteq T /\ Cardinality(taken[n]) = Cardinality(T)
    BY <1>1, <1>2, <1>15
  <2>2. taken[n] = T
    BY <2>1, FS_Subset
  <2>3. \A m \in 0..n : \A x \in taken[m] : \E k \in 1..n : e[k] = x
    <3>1. PICK U : U = {m \in 0..n : \A x \in taken[m] : \E k \in 1..n : e[k] = x}
      OBVIOUS
    <3>2. 0 \in U
      BY <1>2, <1>12, <3>1
    <3>3. ASSUME NEW m \in 1..n, m - 1 \in U PROVE m \in U
      BY <1>2, <1>16, <3>1, <3>3
    <3>4. 0..n \subseteq U
      BY <1>2, <3>2, <3>3, InductionTo
    <3> QED BY <3>1, <3>4
  <2> QED BY <1>2, <2>2, <2>3
<1>22. e \in Surjection(1..n, T)
  BY <1>19, <1>21 DEF Surjection
<1> QED BY <1>1, <1>14, <1>20, <1>22 DEF Bijection

\* A function on 1..n is a list.
LEMMA FunctionIsList ==
  ASSUME NEW n \in Nat, NEW m, m = [k \in 1..n |-> m[k]]
  PROVE  IsList(m) /\ Len(m) = n /\ DOMAIN m = 1..n
<1>1. DOMAIN m = 1..n /\ \A k \in 1..n : m[k] \in Items(m)
  BY DEF Items
<1>2. m \in [1..n -> Items(m)]
  BY <1>1
<1>3. m \in Seq(Items(m))
  BY <1>2
<1> QED BY <1>1, <1>3 DEF IsList

\* The values of a function on a finite set: all of them, one for each.
LEMMA ForEachIs ==
  ASSUME NEW f, IsFiniteSet(DOMAIN f)
  PROVE  /\ IsList(ForEach(f)) /\ Items(ForEach(f)) = {f[x] : x \in DOMAIN f}
         /\ Len(ForEach(f)) = Cardinality(DOMAIN f)
         /\ \E order \in Bijection(DOMAIN ForEach(f), DOMAIN f) : \A k \in DOMAIN ForEach(f) : ForEach(f)[k] = f[order[k]]
<1>1. PICK n, order : n = Cardinality(DOMAIN f) /\ order = Enumeration(DOMAIN f)
  OBVIOUS
<1>2. n \in Nat /\ order \in Bijection(1..n, DOMAIN f)
  BY <1>1, FS_CardinalityType, EnumerationIs
<1>3. order \in [1..n -> DOMAIN f] /\ \A x \in DOMAIN f : \E k \in 1..n : order[k] = x
  BY <1>2 DEF Bijection, Surjection
<1>4. PICK m : m = [k \in 1..n |-> f[order[k]]]
  OBVIOUS
<1>5. ForEach(f) = m
  BY <1>1, <1>3, <1>4 DEF ForEach
<1>6. DOMAIN m = 1..n /\ \A k \in 1..n : m[k] = f[order[k]]
  BY <1>4
<1>7. IsList(m) /\ Len(m) = n
  <2>1. m = [k \in 1..n |-> m[k]]
    BY <1>4
  <2> QED BY <1>2, <2>1, FunctionIsList
<1>8. Items(m) = {f[x] : x \in DOMAIN f}
  BY <1>3, <1>6 DEF Items
<1> QED BY <1>1, <1>2, <1>5, <1>6, <1>7, <1>8

(* The identifiers of a list of records, and that they are distinct. *)
Ids(s) == {s[i].id : i \in DOMAIN s}
Distinct(s) == IsList(s) /\ \A i, j \in DOMAIN s : s[i].id = s[j].id => i = j

\* The records made for each of a finite set are distinct when their identifiers tell what they are for.
LEMMA DistinctEach ==
  ASSUME NEW f, IsFiniteSet(DOMAIN f), \A x, y \in DOMAIN f : f[x].id = f[y].id => x = y
  PROVE  Distinct(ForEach(f)) /\ Ids(ForEach(f)) = {f[x].id : x \in DOMAIN f}
<1>1. PICK s : s = ForEach(f)
  OBVIOUS
<1>2. IsList(s) /\ Items(s) = {f[x] : x \in DOMAIN f}
  BY <1>1, ForEachIs
<1>3. PICK order \in Bijection(DOMAIN s, DOMAIN f) : \A k \in DOMAIN s : s[k] = f[order[k]]
  BY <1>1, ForEachIs
<1>4. \A j, k \in DOMAIN s : order[j] \in DOMAIN f /\ order[k] \in DOMAIN f /\ (order[j] = order[k] => j = k)
  BY <1>3 DEF Bijection, Injection, IsInjective
<1>5. \A x \in DOMAIN f : \E k \in DOMAIN s : order[k] = x
  BY <1>3 DEF Bijection, Surjection
<1>6. Ids(s) = {f[x].id : x \in DOMAIN f}
  BY <1>3, <1>4, <1>5 DEF Ids
<1> QED BY <1>1, <1>2, <1>3, <1>4, <1>6 DEF Distinct

\* The places of two lists in the one they make.
LEMMA JoinedPlaces ==
  ASSUME NEW s, NEW t, IsList(s), IsList(t)
  PROVE  /\ Len(s \o t) = Len(s) + Len(t) /\ DOMAIN (s \o t) = 1..Len(s) + Len(t)
         /\ \A i \in 1..Len(s) : (s \o t)[i] = s[i]
         /\ \A i \in 1..Len(s) + Len(t) : i > Len(s) => i - Len(s) \in 1..Len(t) /\ (s \o t)[i] = t[i - Len(s)]
<1>1. PICK T : T = Items(s) \cup Items(t)
  OBVIOUS
<1>2. s \in Seq(T) /\ t \in Seq(T)
  BY <1>1, SeqMonotonic DEF IsList
<1>3. /\ s \o t \in Seq(T) /\ Len(s \o t) = Len(s) + Len(t)
      /\ \A i \in 1..Len(s) + Len(t) : (s \o t)[i] = IF i <= Len(s) THEN s[i] ELSE t[i - Len(s)]
  BY <1>2, ConcatProperties
<1>4. Len(s) \in Nat /\ Len(t) \in Nat /\ DOMAIN (s \o t) = 1..Len(s \o t)
  BY <1>3, ListIs, Joined
<1>5. PICK m \in Nat, n \in Nat : m = Len(s) /\ n = Len(t)
  BY <1>4
<1>6. \A i \in 1..m : i \in 1..m + n /\ i <= m
  BY <1>5
<1>7. \A i \in 1..m + n : i > m => ~(i <= m) /\ i - m \in 1..n
  BY <1>5
<1> QED BY <1>3, <1>4, <1>5, <1>6, <1>7

\* Two lists of distinct records that share none make one.
LEMMA DistinctJoined ==
  ASSUME NEW s, NEW t, Distinct(s), Distinct(t), \A x \in Ids(s) : x \notin Ids(t)
  PROVE  Distinct(s \o t)
<1>1. IsList(s) /\ IsList(t) /\ IsList(s \o t)
  BY Joined DEF Distinct
<1>2. PICK m \in Nat, n \in Nat : m = Len(s) /\ n = Len(t)
  BY <1>1, ListIs
<1>3. PICK both : both = s \o t
  OBVIOUS
<1>4. /\ DOMAIN s = 1..m /\ DOMAIN t = 1..n /\ DOMAIN both = 1..m + n
      /\ \A i \in 1..m : both[i] = s[i]
      /\ \A i \in 1..m + n : i > m => i - m \in 1..n /\ both[i] = t[i - m]
  BY <1>1, <1>2, <1>3, ListIs, JoinedPlaces
<1>5. ASSUME NEW i \in 1..m + n, NEW j \in 1..m + n, i <= m, j > m PROVE both[i].id # both[j].id
  <2>1. i \in 1..m /\ j - m \in 1..n /\ both[i] = s[i] /\ both[j] = t[j - m]
    BY <1>2, <1>4, <1>5
  <2>2. both[i].id \in Ids(s) /\ both[j].id \in Ids(t)
    BY <1>4, <2>1 DEF Ids
  <2> QED BY <2>2
<1>6. ASSUME NEW i \in 1..m + n, NEW j \in 1..m + n, both[i].id = both[j].id PROVE i = j
  <2>1. CASE i <= m /\ j <= m
    <3>1. i \in 1..m /\ j \in 1..m
      BY <1>2, <2>1
    <3> QED BY <1>4, <1>6, <3>1 DEF Distinct
  <2>2. CASE i > m /\ j > m
    <3>1. i - m \in 1..n /\ j - m \in 1..n /\ both[i] = t[i - m] /\ both[j] = t[j - m]
      BY <1>4, <2>2
    <3>2. i - m = j - m
      BY <1>4, <1>6, <3>1 DEF Distinct
    <3> QED BY <1>2, <3>2
  <2>3. CASE i <= m /\ j > m
    BY <1>5, <1>6, <2>3
  <2>4. CASE j <= m /\ i > m
    BY <1>5, <1>6, <2>4
  <2> QED BY <1>2, <2>1, <2>2, <2>3, <2>4
<1> QED BY <1>1, <1>3, <1>4, <1>6 DEF Distinct

\* The identifiers are those of the items.
LEMMA IdsAre ==
  /\ \A s : Ids(s) = {x.id : x \in Items(s)}
  /\ \A s, t : IsList(s) /\ IsList(t) => Ids(s \o t) = Ids(s) \cup Ids(t)
<1>1. \A s : Ids(s) = {x.id : x \in Items(s)}
  BY DEF Ids, Items
<1>2. ASSUME NEW s, NEW t, IsList(s) /\ IsList(t) PROVE Ids(s \o t) = Ids(s) \cup Ids(t)
  <2>1. Items(s \o t) = Items(s) \cup Items(t)
    BY <1>2, Joined
  <2> QED BY <1>1, <2>1
<1> QED BY <1>1, <1>2

\* Distinct records are as many as their identifiers.
LEMMA DistinctCounted ==
  ASSUME NEW s, Distinct(s) PROVE IsFiniteSet(Ids(s)) /\ Cardinality(Ids(s)) = Len(s)
<1>1. Len(s) \in Nat /\ DOMAIN s = 1..Len(s)
  BY ListIs DEF Distinct
<1>2. PICK id : id = [i \in DOMAIN s |-> s[i].id]
  OBVIOUS
<1>3. id \in [1..Len(s) -> Ids(s)] /\ \A i, j \in 1..Len(s) : id[i] = id[j] => i = j
  BY <1>1, <1>2 DEF Ids, Distinct
<1>4. \A x \in Ids(s) : \E i \in 1..Len(s) : id[i] = x
  BY <1>1, <1>2 DEF Ids
<1>5. id \in Surjection(1..Len(s), Ids(s)) /\ id \in Injection(1..Len(s), Ids(s))
  BY <1>3, <1>4 DEF Injection, Surjection, IsInjective
<1>6. IsFiniteSet(1..Len(s)) /\ Cardinality(1..Len(s)) = Len(s)
  BY <1>1, Counted
<1> QED BY <1>5, <1>6, FS_Surjection

(* What is filtered of the first items of a list. *)
Filterings(s, T) ==
  {f \in [0..Len(s) -> Seq(Items(s))] :
     f[0] = <<>> /\ \A k \in 1..Len(s) : f[k] = IF s[k] \in T THEN Append(f[k - 1], s[k]) ELSE f[k - 1]}

\* A list is filtered item by item.
LEMMA FilteredBy ==
  ASSUME NEW s, IsList(s), NEW T
  PROVE  \E f : f \in Filterings(s, T) /\ Filtered(s, T) = f[Len(s)]
<1>0. PICK n : n = Len(s)
  OBVIOUS
<1>1. n \in Nat /\ DOMAIN s = 1..n
  BY <1>0, ListIs
<1>2. PICK lists : lists = Seq(Items(s))
  OBVIOUS
<1>3. PICK step : step = [k \in 1..n |-> [b \in lists |-> IF s[k] \in T THEN Append(b, s[k]) ELSE b]]
  OBVIOUS
<1>4. ASSUME NEW k \in 1..n, NEW b \in lists PROVE (IF s[k] \in T THEN Append(b, s[k]) ELSE b) \in lists
  <2>1. s[k] \in Items(s)
    BY <1>1 DEF Items
  <2> QED BY <1>2, <2>1, AppendProperties
<1>5. step \in [1..n -> [lists -> lists]]
  BY <1>3, <1>4
<1>6. PICK g : g \in Recursions(n, lists, <<>>, step)
  <2>1. <<>> \in lists
    BY <1>2
  <2> QED BY <1>1, <1>5, <2>1, Recursion
<1>7. g \in [0..n -> lists] /\ g[0] = <<>> /\ \A k \in 1..n : g[k] = step[k][g[k - 1]]
  BY <1>6 DEF Recursions
<1>8. ASSUME NEW k \in 1..n PROVE g[k] = IF s[k] \in T THEN Append(g[k - 1], s[k]) ELSE g[k - 1]
  <2>1. g[k - 1] \in lists
    BY <1>1, <1>7
  <2>2. step[k] = [b \in lists |-> IF s[k] \in T THEN Append(b, s[k]) ELSE b]
    BY <1>3
  <2> QED BY <1>7, <2>1, <2>2
<1>9. PICK f : f = CHOOSE h : h = [k \in 0..n |-> IF k = 0 THEN <<>> ELSE IF s[k] \in T THEN Append(h[k - 1], s[k]) ELSE h[k - 1]]
  OBVIOUS
<1>10. g = [k \in 0..n |-> IF k = 0 THEN <<>> ELSE IF s[k] \in T THEN Append(g[k - 1], s[k]) ELSE g[k - 1]]
  <2>1. \A k \in 0..n : g[k] = IF k = 0 THEN <<>> ELSE IF s[k] \in T THEN Append(g[k - 1], s[k]) ELSE g[k - 1]
    <3> SUFFICES ASSUME NEW k \in 0..n, k # 0 PROVE g[k] = IF s[k] \in T THEN Append(g[k - 1], s[k]) ELSE g[k - 1]
      BY <1>7
    <3>1. k \in 1..n
      BY <1>1
    <3> QED BY <1>8, <3>1
  <2> QED BY <1>7, <2>1
<1>11. f = [k \in 0..n |-> IF k = 0 THEN <<>> ELSE IF s[k] \in T THEN Append(f[k - 1], s[k]) ELSE f[k - 1]]
  BY <1>9, <1>10, Zenon
<1>12. f[0] = <<>> /\ \A k \in 1..n : f[k] = IF s[k] \in T THEN Append(f[k - 1], s[k]) ELSE f[k - 1]
  <2>1. 0 \in 0..n /\ \A k \in 1..n : k \in 0..n /\ k # 0
    BY <1>1
  <2> QED BY <1>11, <2>1
<1>13. \A k \in 0..n : f[k] \in lists
  <2>1. PICK U : U = {k \in 0..n : f[k] \in lists}
    OBVIOUS
  <2>2. 0 \in U
    <3>1. 0 \in 0..n /\ <<>> \in lists
      BY <1>1, <1>2
    <3> QED BY <1>12, <2>1, <3>1
  <2>3. ASSUME NEW k \in 1..n, k - 1 \in U PROVE k \in U
    <3>1. f[k - 1] \in lists /\ k \in 0..n
      BY <1>1, <2>1, <2>3
    <3> QED BY <1>4, <1>12, <2>1, <3>1
  <2> QED BY <1>1, <2>1, <2>2, <2>3, InductionTo
<1>14. f \in [0..n -> Seq(Items(s))]
  BY <1>2, <1>11, <1>13
<1>15. Filtered(s, T) = f[n]
  BY <1>0, <1>9 DEF Filtered
<1>16. f \in Filterings(s, T)
  BY <1>0, <1>12, <1>14 DEF Filterings
<1> QED BY <1>0, <1>15, <1>16

(* The places in the first k items of s of the items of t, which are those in T. *)
PlacesOf(t, s, T, k) ==
  {place \in [1..Len(t) -> 1..k] :
     /\ \A i, j \in 1..Len(t) : place[i] = place[j] => i = j
     /\ \A i \in 1..Len(t) : t[i] = s[place[i]] /\ s[place[i]] \in T
     /\ \A m \in 1..k : s[m] \in T => \E i \in 1..Len(t) : place[i] = m}

\* What is filtered is what is in the set, once for each place in the list.
LEMMA FilteredIs ==
  ASSUME NEW s, IsList(s), NEW T
  PROVE  /\ IsList(Filtered(s, T)) /\ Items(Filtered(s, T)) = Items(s) \cap T
         /\ \E place \in Bijection(DOMAIN Filtered(s, T), {k \in DOMAIN s : s[k] \in T}) :
              \A i \in DOMAIN Filtered(s, T) : Filtered(s, T)[i] = s[place[i]]
<1>1. PICK n : n = Len(s)
  OBVIOUS
<1>2. n \in Nat /\ DOMAIN s = 1..n
  BY <1>1, ListIs
<1>3. PICK f \in [0..n -> Seq(Items(s))] :
            /\ f[0] = <<>> /\ Filtered(s, T) = f[n]
            /\ \A k \in 1..n : f[k] = IF s[k] \in T THEN Append(f[k - 1], s[k]) ELSE f[k - 1]
  <2>1. PICK f : f \in Filterings(s, T) /\ Filtered(s, T) = f[Len(s)]
    BY FilteredBy
  <2> QED BY <1>1, <2>1 DEF Filterings
<1>4. PICK U : U = {k \in 0..n : \E place : place \in PlacesOf(f[k], s, T, k)}
  OBVIOUS
<1>5. 0 \in U
  <2>1. PICK none : none = [i \in 1..0 |-> i]
    OBVIOUS
  <2>2. Len(f[0]) = 0 /\ none \in [1..0 -> 1..0] /\ 1..0 = {}
    BY <1>3, <2>1
  <2>3. none \in PlacesOf(f[0], s, T, 0)
    BY <2>2 DEF PlacesOf
  <2> QED BY <1>2, <1>4, <2>3
<1>6. ASSUME NEW k \in 1..n, k - 1 \in U PROVE k \in U
  <2>1. PICK before, after, m : before = f[k - 1] /\ after = f[k] /\ m = Len(before)
    OBVIOUS
  <2>2. before \in Seq(Items(s)) /\ m \in Nat /\ k \in 0..n
    BY <1>2, <1>3, <2>1
  <2>3. PICK place \in [1..m -> 1..k - 1] :
            /\ \A i, j \in 1..m : place[i] = place[j] => i = j
            /\ \A i \in 1..m : before[i] = s[place[i]] /\ s[place[i]] \in T
            /\ \A h \in 1..k - 1 : s[h] \in T => \E i \in 1..m : place[i] = h
    <3>1. \E place : place \in PlacesOf(before, s, T, k - 1)
      BY <1>4, <1>6, <2>1
    <3>2. PICK place : place \in PlacesOf(before, s, T, k - 1)
      BY <3>1
    <3>3. /\ place \in [1..Len(before) -> 1..k - 1] /\ \A i, j \in 1..Len(before) : place[i] = place[j] => i = j
          /\ \A i \in 1..Len(before) : before[i] = s[place[i]] /\ s[place[i]] \in T
          /\ \A h \in 1..k - 1 : s[h] \in T => \E i \in 1..Len(before) : place[i] = h
      BY <3>2 DEF PlacesOf
    <3> QED BY <2>1, <3>3
  <2>4. CASE s[k] \notin T
    <3>1. after = before /\ Len(after) = m
      BY <1>3, <2>1, <2>4
    <3>2. place \in [1..m -> 1..k]
      BY <1>2, <2>3
    <3>3. \A h \in 1..k : s[h] \in T => h \in 1..k - 1
      BY <1>2, <2>4
    <3>4. \A h \in 1..k : s[h] \in T => \E i \in 1..m : place[i] = h
      BY <2>3, <3>3
    <3>5. place \in PlacesOf(after, s, T, k)
      BY <2>3, <3>1, <3>2, <3>4 DEF PlacesOf
    <3> QED BY <1>4, <2>1, <2>2, <3>5
  <2>5. CASE s[k] \in T
    <3>1. after = Append(before, s[k])
      BY <1>3, <2>1, <2>5
    <3>2. Len(after) = m + 1 /\ after[m + 1] = s[k] /\ \A i \in 1..m : after[i] = before[i]
      <4>1. s[k] \in Items(s)
        BY <1>2 DEF Items
      <4> QED BY <2>1, <2>2, <3>1, <4>1, AppendProperties
    <3>3. PICK more : more = [i \in 1..m + 1 |-> IF i = m + 1 THEN k ELSE place[i]]
      OBVIOUS
    <3>4. more[m + 1] = k /\ \A i \in 1..m : more[i] = place[i] /\ place[i] # k
      <4>1. \A i \in 1..m : i \in 1..m + 1 /\ i # m + 1 /\ place[i] \in 1..k - 1
        BY <2>2, <2>3
      <4>2. m + 1 \in 1..m + 1 /\ \A h \in 1..k - 1 : h # k
        BY <1>2, <2>2
      <4> QED BY <3>3, <4>1, <4>2
    <3>5. \A i \in 1..m + 1 : i = m + 1 \/ i \in 1..m
      BY <2>2
    <3>6. more \in [1..m + 1 -> 1..k]
      <4>1. k \in 1..k /\ \A h \in 1..k - 1 : h \in 1..k
        BY <1>2
      <4> QED BY <3>3, <3>4, <3>5, <4>1
    <3>7. \A i, j \in 1..m + 1 : more[i] = more[j] => i = j
      BY <2>3, <3>4, <3>5
    <3>8. \A i \in 1..m + 1 : after[i] = s[more[i]] /\ s[more[i]] \in T
      BY <2>3, <2>5, <3>2, <3>4, <3>5
    <3>9. ASSUME NEW h \in 1..k, s[h] \in T PROVE \E i \in 1..m + 1 : more[i] = h
      <4>1. CASE h = k
        <5>1. m + 1 \in 1..m + 1
          BY <2>2
        <5> QED BY <3>4, <4>1, <5>1
      <4>2. CASE h # k
        <5>1. h \in 1..k - 1
          BY <1>2, <4>2
        <5>2. PICK i \in 1..m : place[i] = h
          BY <2>3, <3>9, <5>1
        <5>3. i \in 1..m + 1
          BY <2>2
        <5> QED BY <3>4, <5>2, <5>3
      <4> QED BY <4>1, <4>2
    <3>10. more \in PlacesOf(after, s, T, k)
      BY <3>2, <3>6, <3>7, <3>8, <3>9 DEF PlacesOf
    <3> QED BY <1>4, <2>1, <2>2, <3>10
  <2> QED BY <2>4, <2>5
<1>7. n \in U
  <2>1. 0..n \subseteq U
    BY <1>2, <1>5, <1>6, InductionTo
  <2> QED BY <1>2, <2>1
<1>8. PICK r : r = Filtered(s, T)
  OBVIOUS
<1>9. r = f[n] /\ IsList(r) /\ DOMAIN r = 1..Len(r)
  <2>1. f[n] \in Seq(Items(s))
    BY <1>2, <1>3
  <2> QED BY <1>3, <1>8, <2>1, ListIs
<1>10. PICK place \in [DOMAIN r -> DOMAIN s] :
                       /\ \A i, j \in DOMAIN r : place[i] = place[j] => i = j
                       /\ \A i \in DOMAIN r : r[i] = s[place[i]] /\ s[place[i]] \in T
                       /\ \A m \in DOMAIN s : s[m] \in T => \E i \in DOMAIN r : place[i] = m
  <2>1. PICK p : p \in PlacesOf(r, s, T, n)
    BY <1>4, <1>7, <1>9
  <2>2. /\ p \in [DOMAIN r -> DOMAIN s]
        /\ \A i, j \in DOMAIN r : p[i] = p[j] => i = j
        /\ \A i \in DOMAIN r : r[i] = s[p[i]] /\ s[p[i]] \in T
        /\ \A m \in DOMAIN s : s[m] \in T => \E i \in DOMAIN r : p[i] = m
    BY <1>2, <1>9, <2>1 DEF PlacesOf
  <2> QED BY <2>2
<1>11. Items(r) = Items(s) \cap T
  BY <1>10 DEF Items
<1>12. place \in Bijection(DOMAIN r, {k \in DOMAIN s : s[k] \in T})
  BY <1>10 DEF Bijection, Injection, Surjection, IsInjective
<1>13. \E p \in Bijection(DOMAIN r, {k \in DOMAIN s : s[k] \in T}) : \A i \in DOMAIN r : r[i] = s[p[i]]
  BY <1>10, <1>12
<1> QED BY <1>8, <1>9, <1>11, <1>13

\* Distinct records stay distinct when they are filtered.
LEMMA DistinctFiltered == ASSUME NEW s, Distinct(s), NEW T PROVE Distinct(Filtered(s, T))
<1>1. PICK r : r = Filtered(s, T)
  OBVIOUS
<1>2. IsList(r) /\ \E place \in Bijection(DOMAIN r, {k \in DOMAIN s : s[k] \in T}) : \A i \in DOMAIN r : r[i] = s[place[i]]
  BY <1>1, FilteredIs DEF Distinct
<1>3. PICK place \in Bijection(DOMAIN r, {k \in DOMAIN s : s[k] \in T}) : \A i \in DOMAIN r : r[i] = s[place[i]]
  BY <1>2
<1>4. \A i, j \in DOMAIN r : place[i] \in DOMAIN s /\ place[j] \in DOMAIN s /\ (place[i] = place[j] => i = j)
  BY <1>3 DEF Bijection, Injection, IsInjective
<1> QED BY <1>1, <1>2, <1>3, <1>4 DEF Distinct

\* What is filtered is as much as the places that have it.
LEMMA FilteredCounted ==
  ASSUME NEW s, IsList(s), NEW T
  PROVE  Len(Filtered(s, T)) = Cardinality({k \in DOMAIN s : s[k] \in T})
<1>1. PICK r, at : r = Filtered(s, T) /\ at = {k \in DOMAIN s : s[k] \in T}
  OBVIOUS
<1>2. IsList(r) /\ \E place : place \in Bijection(DOMAIN r, at)
  BY <1>1, FilteredIs
<1>3. PICK place : place \in Surjection(DOMAIN r, at) /\ place \in Injection(DOMAIN r, at)
  BY <1>2 DEF Bijection
<1>4. IsFiniteSet(DOMAIN r) /\ Cardinality(DOMAIN r) = Len(r)
  BY <1>2, ListIs, Counted
<1> QED BY <1>1, <1>3, <1>4, FS_Surjection

\* Filtering a list by what has all of its first part and nothing of the rest gives the first part.
LEMMA FilteredPrefix ==
  ASSUME NEW s, NEW t, IsList(s), IsList(t), NEW T, Items(s) \subseteq T, \A x \in Items(t) : x \notin T
  PROVE  Filtered(s \o t, T) = s
<1>0. PICK both : both = s \o t
  OBVIOUS
<1>1. PICK m \in Nat, n \in Nat : m = Len(s) /\ n = Len(t)
  BY ListIs
<1>2. /\ IsList(both) /\ DOMAIN s = 1..m /\ DOMAIN t = 1..n /\ Len(both) = m + n /\ DOMAIN both = 1..m + n
      /\ \A i \in 1..m : both[i] = s[i]
      /\ \A i \in 1..m + n : i > m => i - m \in 1..n /\ both[i] = t[i - m]
  BY <1>0, <1>1, ListIs, Joined, JoinedPlaces
<1>3. PICK f : f \in Filterings(both, T) /\ Filtered(both, T) = f[m + n]
  BY <1>2, FilteredBy
<1>4. /\ f \in [0..m + n -> Seq(Items(both))] /\ f[0] = <<>>
      /\ \A k \in 1..m + n : f[k] = IF both[k] \in T THEN Append(f[k - 1], both[k]) ELSE f[k - 1]
  BY <1>2, <1>3 DEF Filterings
<1>5. \A i \in 1..m : both[i] \in T
  BY <1>2 DEF Items
<1>6. \A i \in 1..m + n : i > m => both[i] \notin T
  BY <1>2 DEF Items
<1>7. \A k \in 0..m : Len(f[k]) = k /\ \A i \in 1..k : f[k][i] = s[i]
  <2>1. PICK U : U = {k \in 0..m : Len(f[k]) = k /\ \A i \in 1..k : f[k][i] = s[i]}
    OBVIOUS
  <2>2. 0 \in U
    BY <1>4, <2>1
  <2>3. ASSUME NEW k \in 1..m, k - 1 \in U PROVE k \in U
    <3>1. PICK before : before = f[k - 1]
      OBVIOUS
    <3>2. k \in 1..m + n /\ k - 1 \in 0..m + n /\ k \in 0..m /\ k - 1 \in Nat /\ k - 1 + 1 = k
      OBVIOUS
    <3>3. before \in Seq(Items(both)) /\ Len(before) = k - 1 /\ \A i \in 1..k - 1 : before[i] = s[i]
      BY <1>4, <2>1, <2>3, <3>1, <3>2
    <3>4. f[k] = Append(before, s[k]) /\ s[k] \in Items(both)
      BY <1>2, <1>4, <1>5, <3>1, <3>2 DEF Items
    <3>5. Len(f[k]) = k /\ f[k][k] = s[k] /\ \A i \in 1..k - 1 : f[k][i] = before[i]
      BY <3>2, <3>3, <3>4, AppendProperties
    <3>6. \A i \in 1..k : i = k \/ i \in 1..k - 1
      OBVIOUS
    <3> QED BY <2>1, <3>2, <3>3, <3>5, <3>6
  <2>4. 0..m \subseteq U
    BY <2>2, <2>3, InductionTo
  <2> QED BY <2>1, <2>4
<1>8. f[m] = s
  <2>1. f[m] \in Seq(Items(both)) /\ Len(f[m]) = m /\ \A i \in 1..m : f[m][i] = s[i]
    BY <1>4, <1>7
  <2>2. s \in Seq(Items(s))
    BY DEF IsList
  <2>3. s \in Seq(Items(both))
    BY <1>2, <2>2, SeqDef DEF Items
  <2> QED BY <1>1, <2>1, <2>3, SeqEqual
<1>9. \A k \in 0..n : f[m + k] = s
  <2>1. PICK U : U = {k \in 0..n : f[m + k] = s}
    OBVIOUS
  <2>2. 0 \in U
    BY <1>8, <2>1
  <2>3. ASSUME NEW k \in 1..n, k - 1 \in U PROVE k \in U
    <3>1. m + k \in 1..m + n /\ m + k > m /\ m + k - 1 = m + (k - 1)
      OBVIOUS
    <3>2. f[m + k] = f[m + (k - 1)]
      BY <1>4, <1>6, <3>1
    <3> QED BY <2>1, <2>3, <3>2
  <2>4. 0..n \subseteq U
    BY <2>2, <2>3, InductionTo
  <2> QED BY <2>1, <2>4
<1> QED BY <1>0, <1>1, <1>3, <1>9

(* What the first of some lists make. *)
Joins(lists) == UNION {Items(lists[k]) : k \in DOMAIN lists}
Concatenations(lists) ==
  {f \in [0..Len(lists) -> Seq(Joins(lists))] : f[0] = <<>> /\ \A k \in 1..Len(lists) : f[k] = f[k - 1] \o lists[k]}

\* Lists are joined one by one.
LEMMA ConcatBy ==
  ASSUME NEW lists, IsList(lists), \A k \in DOMAIN lists : IsList(lists[k])
  PROVE  \E f : f \in Concatenations(lists) /\ Concat(lists) = f[Len(lists)]
<1>0. PICK n : n = Len(lists)
  OBVIOUS
<1>1. n \in Nat /\ DOMAIN lists = 1..n
  BY <1>0, ListIs
<1>2. PICK any : any = Seq(Joins(lists))
  OBVIOUS
<1>3. PICK step : step = [k \in 1..n |-> [b \in any |-> b \o lists[k]]]
  OBVIOUS
<1>4. ASSUME NEW k \in 1..n, NEW b \in any PROVE b \o lists[k] \in any
  <2>1. IsList(lists[k]) /\ Items(lists[k]) \subseteq Joins(lists)
    BY <1>1 DEF Joins
  <2>2. lists[k] \in any
    BY <1>2, <2>1, SeqMonotonic DEF IsList
  <2> QED BY <1>2, <2>2, ConcatProperties
<1>5. step \in [1..n -> [any -> any]]
  BY <1>3, <1>4
<1>6. PICK g : g \in Recursions(n, any, <<>>, step)
  <2>1. <<>> \in any
    BY <1>2
  <2> QED BY <1>1, <1>5, <2>1, Recursion
<1>7. g \in [0..n -> any] /\ g[0] = <<>> /\ \A k \in 1..n : g[k] = step[k][g[k - 1]]
  BY <1>6 DEF Recursions
<1>8. ASSUME NEW k \in 1..n PROVE g[k] = g[k - 1] \o lists[k]
  <2>1. g[k - 1] \in any
    BY <1>1, <1>7
  <2>2. step[k] = [b \in any |-> b \o lists[k]]
    BY <1>3
  <2> QED BY <1>7, <2>1, <2>2
<1>9. PICK f : f = CHOOSE h : h = [k \in 0..n |-> IF k = 0 THEN <<>> ELSE h[k - 1] \o lists[k]]
  OBVIOUS
<1>10. g = [k \in 0..n |-> IF k = 0 THEN <<>> ELSE g[k - 1] \o lists[k]]
  <2>1. \A k \in 0..n : g[k] = IF k = 0 THEN <<>> ELSE g[k - 1] \o lists[k]
    <3> SUFFICES ASSUME NEW k \in 0..n, k # 0 PROVE g[k] = g[k - 1] \o lists[k]
      BY <1>7
    <3>1. k \in 1..n
      BY <1>1
    <3> QED BY <1>8, <3>1
  <2> QED BY <1>7, <2>1
<1>11. f = [k \in 0..n |-> IF k = 0 THEN <<>> ELSE f[k - 1] \o lists[k]]
  BY <1>9, <1>10, Zenon
<1>12. f[0] = <<>> /\ \A k \in 1..n : f[k] = f[k - 1] \o lists[k]
  <2>1. 0 \in 0..n /\ \A k \in 1..n : k \in 0..n /\ k # 0
    BY <1>1
  <2> QED BY <1>11, <2>1
<1>13. \A k \in 0..n : f[k] \in any
  <2>1. PICK U : U = {k \in 0..n : f[k] \in any}
    OBVIOUS
  <2>2. 0 \in U
    <3>1. 0 \in 0..n /\ <<>> \in any
      BY <1>1, <1>2
    <3> QED BY <1>12, <2>1, <3>1
  <2>3. ASSUME NEW k \in 1..n, k - 1 \in U PROVE k \in U
    <3>1. f[k - 1] \in any /\ k \in 0..n
      BY <1>1, <2>1, <2>3
    <3> QED BY <1>4, <1>12, <2>1, <3>1
  <2> QED BY <1>1, <2>1, <2>2, <2>3, InductionTo
<1>14. f \in [0..n -> Seq(Joins(lists))]
  BY <1>2, <1>11, <1>13
<1>15. Concat(lists) = f[n]
  BY <1>0, <1>9 DEF Concat
<1>16. f \in Concatenations(lists)
  BY <1>0, <1>12, <1>14 DEF Concatenations
<1> QED BY <1>0, <1>15, <1>16

\* What several lists make has the items of all of them; if each has distinct records and no two share one, it
\* has distinct records.
LEMMA ConcatIs ==
  ASSUME NEW lists, IsList(lists), \A k \in DOMAIN lists : IsList(lists[k])
  PROVE  /\ IsList(Concat(lists)) /\ Items(Concat(lists)) = Joins(lists)
         /\ (\A k \in DOMAIN lists : Distinct(lists[k]))
            /\ (\A j, k \in DOMAIN lists : \A x \in Ids(lists[j]) : x \in Ids(lists[k]) => j = k)
            => Distinct(Concat(lists))
<1>1. PICK n : n = Len(lists)
  OBVIOUS
<1>2. n \in Nat /\ DOMAIN lists = 1..n
  BY <1>1, ListIs
<1>3. PICK f : f \in Concatenations(lists) /\ Concat(lists) = f[n]
  BY <1>1, ConcatBy
<1>4. f \in [0..n -> Seq(Joins(lists))] /\ f[0] = <<>> /\ \A k \in 1..n : f[k] = f[k - 1] \o lists[k]
  BY <1>1, <1>3 DEF Concatenations
<1>5. \A k \in 0..n : IsList(f[k])
  BY <1>4, ListIs
<1>6. \A k \in 1..n : k \in 0..n /\ k - 1 \in 0..n /\ IsList(f[k - 1])
  BY <1>2, <1>5
<1>7. ASSUME NEW k \in 1..n PROVE Items(f[k]) = Items(f[k - 1]) \cup Items(lists[k])
  BY <1>2, <1>4, <1>6, Joined
<1>8. \A k \in 0..n : Items(f[k]) = UNION {Items(lists[j]) : j \in 1..k}
  <2>1. PICK U : U = {k \in 0..n : Items(f[k]) = UNION {Items(lists[j]) : j \in 1..k}}
    OBVIOUS
  <2>2. 0 \in U
    <3>1. 1..0 = {} /\ 0 \in 0..n
      BY <1>2
    <3>2. Items(f[0]) = {}
      BY <1>4, Short
    <3> QED BY <2>1, <3>1, <3>2
  <2>3. ASSUME NEW k \in 1..n, k - 1 \in U PROVE k \in U
    <3>1. 1..k = (1..k - 1) \cup {k}
      BY <1>2
    <3>2. Items(f[k - 1]) = UNION {Items(lists[j]) : j \in 1..k - 1}
      BY <2>1, <2>3
    <3> QED BY <1>6, <1>7, <2>1, <3>1, <3>2
  <2>4. 0..n \subseteq U
    BY <1>2, <2>2, <2>3, InductionTo
  <2> QED BY <2>1, <2>4
<1>9. IsList(Concat(lists)) /\ Items(Concat(lists)) = Joins(lists)
  <2>1. n \in 0..n
    BY <1>2
  <2> QED BY <1>2, <1>3, <1>5, <1>8, <2>1 DEF Joins
<1>10. ASSUME \A k \in DOMAIN lists : Distinct(lists[k]),
              \A j, k \in DOMAIN lists : \A x \in Ids(lists[j]) : x \in Ids(lists[k]) => j = k
       PROVE  Distinct(Concat(lists))
  <2>1. PICK U : U = {k \in 0..n : Distinct(f[k])}
    OBVIOUS
  <2>2. 0 \in U
    <3>1. 0 \in 0..n
      BY <1>2
    <3>2. Distinct(<<>>)
      BY Short DEF Distinct
    <3> QED BY <1>4, <2>1, <3>1, <3>2
  <2>3. ASSUME NEW k \in 1..n, k - 1 \in U PROVE k \in U
    <3>1. Distinct(f[k - 1]) /\ Distinct(lists[k])
      BY <1>2, <1>10, <2>1, <2>3
    <3>2. ASSUME NEW x \in Ids(f[k - 1]) PROVE x \notin Ids(lists[k])
      <4>1. PICK r \in Items(f[k - 1]) : x = r.id
        BY IdsAre
      <4>2. PICK j \in 1..k - 1 : r \in Items(lists[j])
        BY <1>6, <1>8
      <4>3. x \in Ids(lists[j])
        BY <4>1, <4>2, IdsAre
      <4>4. j \in 1..n /\ j # k
        BY <1>2
      <4> QED BY <1>2, <1>10, <4>3, <4>4
    <3>3. Distinct(f[k - 1] \o lists[k])
      BY <3>1, <3>2, DistinctJoined
    <3> QED BY <1>4, <1>6, <2>1, <3>3
  <2>4. n \in U
    <3>1. 0..n \subseteq U
      BY <1>2, <2>2, <2>3, InductionTo
    <3> QED BY <1>2, <3>1
  <2> QED BY <1>3, <2>1, <2>4
<1> QED BY <1>9, <1>10

\* A finite set of naturals in ascending order has each of its members once.
LEMMA AscendingIs ==
  ASSUME NEW T \in SUBSET Nat, IsFiniteSet(T)
  PROVE  /\ IsList(Ascending(T)) /\ Items(Ascending(T)) = T /\ Len(Ascending(T)) = Cardinality(T)
         /\ \A i, j \in DOMAIN Ascending(T) : Ascending(T)[i] = Ascending(T)[j] => i = j
<1>1. PICK n, below : n = Cardinality(T) /\ below = [x \in T |-> {y \in T : y < x}]
  OBVIOUS
<1>2. n \in Nat
  BY <1>1, FS_CardinalityType
<1>3. ASSUME NEW x \in T
      PROVE  IsFiniteSet(below[x]) /\ Cardinality(below[x]) \in Nat /\ Cardinality(below[x]) < n
  <2>1. below[x] \subseteq T /\ x \notin below[x]
    BY <1>1
  <2>2. IsFiniteSet(below[x]) /\ Cardinality(below[x]) <= n
    BY <1>1, <2>1, FS_Subset
  <2>3. Cardinality(below[x]) # n
    BY <1>1, <2>1, FS_Subset
  <2>4. Cardinality(below[x]) \in Nat
    BY <2>2, FS_CardinalityType
  <2> QED BY <1>2, <2>2, <2>3, <2>4
<1>4. ASSUME NEW x \in T, NEW y \in T, x < y PROVE Cardinality(below[x]) < Cardinality(below[y])
  <2>1. below[x] \subseteq below[y] /\ x \in below[y] /\ x \notin below[x]
    <3>1. \A z \in T : z \in Nat
      OBVIOUS
    <3>2. ~(x < x) /\ \A z \in T : z < x => z < y
      BY <1>4, <3>1
    <3> QED BY <1>1, <1>4, <3>2
  <2>2. Cardinality(below[x]) <= Cardinality(below[y]) /\ Cardinality(below[x]) # Cardinality(below[y])
    BY <1>3, <2>1, FS_Subset
  <2> QED BY <1>3, <2>2
<1>5. PICK rank : rank = [x \in T |-> Cardinality(below[x]) + 1]
  OBVIOUS
<1>6. rank \in [T -> 1..n]
  BY <1>2, <1>3, <1>5
<1>7. \A x, y \in T : rank[x] = rank[y] => x = y
  <2> SUFFICES ASSUME NEW x \in T, NEW y \in T, rank[x] = rank[y] PROVE x = y
    OBVIOUS
  <2>1. Cardinality(below[x]) = Cardinality(below[y])
    BY <1>3, <1>5
  <2>2. ~(x < y) /\ ~(y < x)
    BY <1>3, <1>4, <2>1
  <2> QED BY <2>2
<1>8. rank \in Surjection(T, 1..n)
  <2>1. rank \in Injection(T, 1..n)
    BY <1>6, <1>7 DEF Injection, IsInjective
  <2> QED BY <1>1, <1>2, <2>1, Counted, FS_Injection
<1>9. PICK a : a = Ascending(T)
  OBVIOUS
<1>10. a = [k \in 1..n |-> CHOOSE x \in T : Cardinality({y \in T : y < x}) = k - 1]
  BY <1>1, <1>9 DEF Ascending
<1>11. ASSUME NEW k \in 1..n PROVE a[k] \in T /\ rank[a[k]] = k
  <2>1. PICK x \in T : rank[x] = k
    BY <1>8 DEF Surjection
  <2>2. Cardinality({y \in T : y < x}) = k - 1
    <3>1. Cardinality(below[x]) + 1 = k /\ Cardinality(below[x]) \in Nat
      BY <1>3, <1>5, <2>1
    <3> QED BY <1>1, <3>1
  <2>3. a[k] \in T /\ Cardinality({y \in T : y < a[k]}) = k - 1
    BY <1>10, <2>2
  <2>4. rank[a[k]] = k - 1 + 1
    BY <1>1, <1>5, <2>3
  <2> QED BY <1>2, <2>3, <2>4
<1>12. IsList(a) /\ Len(a) = n /\ DOMAIN a = 1..n
  <2>1. a = [k \in 1..n |-> a[k]]
    BY <1>10
  <2> QED BY <1>2, <2>1, FunctionIsList
<1>13. \A x \in T : a[rank[x]] = x
  BY <1>6, <1>7, <1>11
<1>14. Items(a) = T
  <2>1. \A x \in T : rank[x] \in 1..n /\ x = a[rank[x]]
    BY <1>6, <1>13
  <2>2. \A x : x \in Items(a) <=> \E i \in 1..n : x = a[i]
    BY <1>12 DEF Items
  <2>3. \A x \in T : x \in Items(a)
    BY <2>1, <2>2
  <2>4. \A x \in Items(a) : x \in T
    BY <1>11, <2>2
  <2> QED BY <2>3, <2>4
<1>15. \A i, j \in DOMAIN a : a[i] = a[j] => i = j
  BY <1>11, <1>12
<1> QED BY <1>1, <1>9, <1>12, <1>14, <1>15

(***************************************************************************)
(* What the adapters call lists, and what they check.                      *)
(***************************************************************************)

\* What the components call lists, filters and numbers of members.
LEMMA SameLists ==
  /\ \A s : E!Range(s) = Items(s) /\ G!Range(s) = Items(s) /\ R!Range(s) = Items(s)
  /\ \A s, T : E!Filtered(s, T) = Filtered(s, T) /\ G!Filtered(s, T) = Filtered(s, T) /\ R!Filtered(s, T) = Filtered(s, T)
  /\ \A T : E!Cardinality(T) = Cardinality(T) /\ G!Cardinality(T) = Cardinality(T) /\ R!Cardinality(T) = Cardinality(T)
  /\ \A f : E!ForEach(f) = ForEach(f) /\ \A lists : E!Concat(lists) = Concat(lists) /\ R!Concat(lists) = Concat(lists)
<1>1. \A s : E!Range(s) = Items(s) /\ G!Range(s) = Items(s) /\ R!Range(s) = Items(s)
  BY DEF E!Range, G!Range, R!Range, Items
<1>2. \A s, T : E!Filtered(s, T) = Filtered(s, T) /\ G!Filtered(s, T) = Filtered(s, T) /\ R!Filtered(s, T) = Filtered(s, T)
  BY DEF E!Filtered, G!Filtered, R!Filtered, Filtered
<1>3. \A T : E!Cardinality(T) = Cardinality(T) /\ G!Cardinality(T) = Cardinality(T) /\ R!Cardinality(T) = Cardinality(T)
  BY DEF E!Cardinality, G!Cardinality, R!Cardinality, Cardinality
<1>4. \A f : E!ForEach(f) = ForEach(f)
  BY DEF E!ForEach, ForEach, E!Enumeration, Enumeration, E!Some, Some, E!Cardinality, Cardinality
<1>5. \A lists : E!Concat(lists) = Concat(lists) /\ R!Concat(lists) = Concat(lists)
  BY DEF E!Concat, R!Concat, Concat
<1> QED BY <1>1, <1>2, <1>3, <1>4, <1>5

(* A list of checks none of which fails with what is no failure. *)
NoFailures == {"accepted", "none", "conflicted", "written", "running"}
Refusals(s) == IsList(s) /\ \A c \in Items(s) : c[2] \notin NoFailures

\* Two such lists make one.
LEMMA RefusalsJoined == ASSUME NEW s, NEW t, Refusals(s), Refusals(t) PROVE Refusals(s \o t)
BY Joined DEF Refusals

\* The first failure of such a list is one, unless there is none.
LEMMA RefusalsFail ==
  ASSUME NEW s, Refusals(s)
  PROVE  /\ E!FirstFailure(s) \notin NoFailures \/ (E!FirstFailure(s) = "accepted" /\ \A c \in Items(s) : c[1])
         /\ G!FirstFailure(s) \notin NoFailures \/ (G!FirstFailure(s) = "accepted" /\ \A c \in Items(s) : c[1])
<1>1. PICK failed : failed = {k \in 1..Len(s) : ~s[k][1]}
  OBVIOUS
<1>2. Len(s) \in Nat /\ DOMAIN s = 1..Len(s)
  BY ListIs DEF Refusals
<1>3. CASE failed = {}
  <2>1. \A c \in Items(s) : c[1]
    BY <1>1, <1>2, <1>3 DEF Items
  <2> QED BY <1>1, <1>3, <2>1 DEF E!FirstFailure, G!FirstFailure
<1>4. CASE failed # {}
  <2>1. PICK k \in failed : k = (CHOOSE x \in failed : \A y \in failed : x <= y)
    BY <1>1, <1>2, <1>4, LeastFails
  <2>2. s[k][2] \notin NoFailures
    BY <1>1, <1>2, <2>1 DEF Items, Refusals
  <2> QED BY <1>1, <1>4, <2>1, <2>2 DEF E!FirstFailure, G!FirstFailure, E!Min, G!Min
<1> QED BY <1>3, <1>4

\* A list of records, one for each number, whose identifiers tell the number.
LEMMA DistinctFunction ==
  ASSUME NEW n \in Nat, NEW s, s = [k \in 1..n |-> s[k]], \A i, j \in 1..n : s[i].id = s[j].id => i = j
  PROVE  Distinct(s) /\ Ids(s) = {s[k].id : k \in 1..n} /\ Items(s) = {s[k] : k \in 1..n} /\ Len(s) = n
BY FunctionIsList DEF Distinct, Ids, Items

DistinctOver(s, n) == s = [k \in 1..n |-> s[k]] /\ \A i, j \in 1..n : s[i].id = s[j].id => i = j
LEMMA DistinctTable ==
  ASSUME NEW n \in Nat, NEW s, DistinctOver(s, n)
  PROVE  Distinct(s) /\ Ids(s) = {s[k].id : k \in 1..n} /\ Items(s) = {s[k] : k \in 1..n} /\ Len(s) = n
BY DistinctFunction DEF DistinctOver

\* One record or none, and two lists of records without an identifier in common.
LEMMA DistinctTogether ==
  /\ \A r : Distinct(<<r>>) /\ Ids(<<r>>) = {r.id} /\ Items(<<r>>) = {r}
  /\ Distinct(<<>>) /\ Ids(<<>>) = {} /\ Items(<<>>) = {}
<1>1. ASSUME NEW r PROVE Distinct(<<r>>) /\ Ids(<<r>>) = {r.id} /\ Items(<<r>>) = {r}
  <2>1. IsList(<<r>>) /\ Items(<<r>>) = {r} /\ DOMAIN <<r>> = {1}
    BY Short
  <2> QED BY <2>1 DEF Distinct, Ids
<1>2. Distinct(<<>>) /\ Ids(<<>>) = {} /\ Items(<<>>) = {}
  <2>1. IsList(<<>>) /\ Items(<<>>) = {} /\ DOMAIN <<>> = {}
    BY Short
  <2> QED BY <2>1 DEF Distinct, Ids
<1> QED BY <1>1, <1>2

LEMMA DistinctPair ==
  ASSUME NEW s, NEW t, Distinct(s), Distinct(t), \A x \in Ids(s) : x \notin Ids(t)
  PROVE  Distinct(s \o t) /\ Ids(s \o t) = Ids(s) \cup Ids(t) /\ Items(s \o t) = Items(s) \cup Items(t)
<1>1. IsList(s) /\ IsList(t)
  BY DEF Distinct
<1> QED BY <1>1, DistinctJoined, IdsAre, Joined

(***************************************************************************)
(* Rasters and the results about them.                                     *)
(***************************************************************************)
RasterFinds(j) == R!OcrVerdict(j) = "accepted"
RasterSees(j) == R!VisionVerdict(j) = "accepted"
RasterRead(j) == IF RasterFinds(j) THEN R!Baseline(j) \o R!OcrPrimitives(j) \o R!Comparison(j) ELSE R!Baseline(j)
RasterRecords(j) == IF RasterSees(j) THEN RasterRead(j) \o R!VisionRecords(j) ELSE RasterRead(j)
RasterReadSaid(j) == IF RasterFinds(j) THEN <<>> \o R!OcrDiagnostics(j) ELSE <<>>
RasterSaid(j) == RasterReadSaid(j) \o R!VisionDiagnostics(j, R!VisionVerdict(j))
RasterDiagnostics(j) ==
  R!Losses(j, R!OcrVerdict(j)) \o RasterSaid(j)
  \o (IF R!OcrVerdict(j) \in {"absent", "accepted"} THEN <<>> ELSE <<R!Rejection(R!OcrVerdict(j))>>)
RasterBuilt ==
  /\ job \in RasterJobs
  /\ verdicts = [ocr |-> verdicts.ocr, vision |-> verdicts.vision]
  /\ pc # "done" => outcome = "running"
  /\ pc = "ocr" => records = R!Baseline(job) /\ diagnostics = <<>>
  /\ pc = "arguments" => diagnostics = <<>>
  /\ pc = "vision" => verdicts.ocr = R!OcrVerdict(job) /\ records = RasterRead(job) /\ diagnostics = RasterReadSaid(job)
  /\ pc = "losses" => verdicts.ocr = R!OcrVerdict(job) /\ records = RasterRecords(job) /\ diagnostics = RasterSaid(job)
  /\ pc = "sort" \/ outcome = "written" =>
       verdicts.ocr = R!OcrVerdict(job) /\ records = RasterRecords(job) /\ diagnostics = RasterDiagnostics(job)
  /\ outcome = "written" => \A d \in Items(diagnostics) : "id" \in DOMAIN d

\* A step of the raster adapters keeps this.
LEMMA RasterBuiltKeeps == ASSUME RasterBuilt, [R!Next]_(R!vars) PROVE RasterBuilt'
<1> USE DEF RasterBuilt
<1>1. CASE UNCHANGED R!vars
  BY <1>1 DEF R!vars
<1>2. CASE R!Refuse
  BY <1>2 DEF R!Refuse, R!Stop
<1>3. CASE R!Extract
  BY <1>3 DEF R!Extract, R!Goto
<1>4. CASE R!MapOcr
  <2>1. /\ pc = "ocr" /\ pc' = "vision" /\ UNCHANGED <<job, outcome>> /\ outcome = "running"
        /\ verdicts' = [verdicts EXCEPT !.ocr = R!OcrVerdict(job)]
    BY <1>4 DEF R!MapOcr, R!Goto
  <2>2. records' = RasterRead(job) /\ diagnostics' = RasterReadSaid(job)
    BY <1>4, <2>1 DEF R!MapOcr, RasterRead, RasterReadSaid, RasterFinds
  <2>3. verdicts'.ocr = R!OcrVerdict(job) /\ verdicts' = [ocr |-> verdicts'.ocr, vision |-> verdicts'.vision]
    BY <2>1
  <2> QED BY <2>1, <2>2, <2>3
<1>5. CASE R!MapVision
  <2>1. /\ pc = "vision" /\ pc' = "losses" /\ UNCHANGED <<job, outcome>> /\ outcome = "running"
        /\ verdicts' = [verdicts EXCEPT !.vision = R!VisionVerdict(job)]
    BY <1>5 DEF R!MapVision, R!Goto
  <2>2. records' = RasterRecords(job) /\ diagnostics' = RasterSaid(job)
    BY <1>5, <2>1 DEF R!MapVision, RasterRecords, RasterSaid, RasterSees
  <2>3. verdicts'.ocr = R!OcrVerdict(job) /\ verdicts' = [ocr |-> verdicts'.ocr, vision |-> verdicts'.vision]
    BY <2>1
  <2> QED BY <2>1, <2>2, <2>3
<1>6. CASE R!Declare
  <2>1. pc = "losses" /\ pc' = "sort" /\ UNCHANGED <<job, records, verdicts, outcome>> /\ outcome = "running"
    BY <1>6 DEF R!Declare, R!Goto
  <2>2. diagnostics' = RasterDiagnostics(job)
    BY <1>6, <2>1 DEF R!Declare, RasterDiagnostics
  <2> QED BY <2>1, <2>2
<1>7. CASE R!Sort
  <2>1. R!Range(diagnostics) = Items(diagnostics)
    BY DEF R!Range, Items
  <2> QED BY <1>7, <2>1 DEF R!Sort, R!Stop
<1> QED BY <1>1, <1>2, <1>3, <1>4, <1>5, <1>6, <1>7 DEF R!Next

\* The first failure of the checks of a result.
LEMMA RasterFails ==
  ASSUME NEW s, Refusals(s)
  PROVE  \/ \E c \in Items(s) : R!FirstFailure(s) = c[2]
         \/ R!FirstFailure(s) = "accepted" /\ \A c \in Items(s) : c[1]
<1>1. PICK failed : failed = {k \in 1..Len(s) : ~s[k][1]}
  OBVIOUS
<1>2. Len(s) \in Nat /\ DOMAIN s = 1..Len(s)
  BY ListIs DEF Refusals
<1>3. CASE failed = {}
  <2>1. \A c \in Items(s) : c[1]
    BY <1>1, <1>2, <1>3 DEF Items
  <2> QED BY <1>1, <1>3, <2>1 DEF R!FirstFailure
<1>4. CASE failed # {}
  <2>1. PICK k \in failed : k = (CHOOSE x \in failed : \A y \in failed : x <= y)
    BY <1>1, <1>2, <1>4, LeastFails
  <2>2. k \in DOMAIN s
    BY <1>1, <1>2, <2>1
  <2>3. s[k] \in Items(s)
    BY <2>2 DEF Items
  <2> QED BY <1>1, <1>4, <2>1, <2>3 DEF R!FirstFailure, R!Min
<1> QED BY <1>3, <1>4

\* Of seven checks.
LEMMA ShortSeven == \A a, b, c, d, e, f, g : IsList(<<a, b, c, d, e, f, g>>) /\ Items(<<a, b, c, d, e, f, g>>) = {a, b, c, d, e, f, g}
<1>1. ASSUME NEW a, NEW b, NEW c, NEW d, NEW e, NEW f, NEW g
      PROVE  IsList(<<a, b, c, d, e, f, g>>) /\ Items(<<a, b, c, d, e, f, g>>) = {a, b, c, d, e, f, g}
  <2>1. Items(<<a, b, c, d, e, f, g>>) = {a, b, c, d, e, f, g}
    BY DEF Items
  <2>2. <<a, b, c, d, e, f, g>> \in Seq({a, b, c, d, e, f, g})
    OBVIOUS
  <2> QED BY <2>1, <2>2 DEF IsList
<1> QED BY <1>1

\* What is looked for in a source is found in finitely many places.
LEMMA CandidatesFinite == ASSUME NEW j, R!IsRasterJob(j), NEW pixels PROVE IsFiniteSet(R!Candidates(j, pixels))
<1>1. PICK pages : pages = DOMAIN j.pages
  OBVIOUS
<1>2. PICK on : on = [i \in pages |-> {i} \X DOMAIN j.pages[i].rasters]
  OBVIOUS
<1>3. \A s : R!IsList(s) => IsList(s)
  BY DEF R!IsList, R!Items, IsList, Items
<1>4. IsFiniteSet(pages) /\ \A i \in pages : IsFiniteSet(DOMAIN j.pages[i].rasters)
  <2>1. IsList(j.pages) /\ \A i \in pages : IsList(j.pages[i].rasters)
    BY <1>1, <1>3 DEF R!IsRasterJob
  <2> QED BY <1>1, <2>1, ListIs, Counted
<1>5. \A i \in pages : IsFiniteSet(on[i])
  BY <1>2, <1>4, FS_Singleton, FS_Product
<1>6. PICK all : all = {on[i] : i \in pages}
  OBVIOUS
<1>7. IsFiniteSet(all)
  <2>1. on \in Surjection(pages, all)
    BY <1>2, <1>6 DEF Surjection
  <2> QED BY <1>4, <2>1, FS_Surjection
<1>8. IsFiniteSet(UNION all)
  BY <1>5, <1>6, <1>7, FS_UNION
<1>9. R!Candidates(j, pixels) \subseteq UNION all
  BY <1>1, <1>2, <1>6 DEF R!Candidates
<1> QED BY <1>8, <1>9, FS_Subset

\* The raster that is looked for in a document is the only one of its digest.
LEMMA LocatedIs ==
  ASSUME NEW j, R!IsRasterJob(j), NEW res
  PROVE  /\ Refusals(R!Located(j, res)) /\ \A c \in Items(R!Located(j, res)) : c[2] # "absent"
         /\ R!FirstFailure(R!Located(j, res)) = "accepted" /\ R!Target(j, res) \in R!Candidates(j, res.locator)
            => R!Candidates(j, res.locator) = {R!Target(j, res)}
<1>1. PICK once, single : /\ once = (res.events = 1 /\ res.locator # "malformed")
                          /\ single = (R!Cardinality(R!Candidates(j, res.locator)) = 1)
  OBVIOUS
<1>2. PICK a, b : a = <<once, "EVENT_PROFILE_INVALID">> /\ b = <<single, "INPUT_ARTIFACT_AMBIGUOUS">>
  OBVIOUS
<1>3. R!Located(j, res) = IF j.format = "image" THEN <<>> ELSE <<a, b>>
  BY <1>1, <1>2 DEF R!Located
<1>4. Refusals(R!Located(j, res)) /\ Items(R!Located(j, res)) = IF j.format = "image" THEN {} ELSE {a, b}
  <2>1. IsList(R!Located(j, res)) /\ Items(R!Located(j, res)) = IF j.format = "image" THEN {} ELSE {a, b}
    <3>1. CASE j.format = "image"
      <4>1. R!Located(j, res) = <<>>
        BY <1>3, <3>1
      <4> QED BY <3>1, <4>1, Short
    <3>2. CASE j.format # "image"
      <4>1. R!Located(j, res) = <<a, b>>
        BY <1>3, <3>2
      <4> QED BY <3>2, <4>1, Short
    <3> QED BY <3>1, <3>2
  <2>2. \A c \in {a, b} : c[2] \notin NoFailures
    BY <1>2 DEF NoFailures
  <2> QED BY <2>1, <2>2 DEF Refusals
<1>5. \A c \in Items(R!Located(j, res)) : c[2] # "absent" /\ c[2] # "accepted"
  BY <1>2, <1>4
<1>6. ASSUME R!FirstFailure(R!Located(j, res)) = "accepted", R!Target(j, res) \in R!Candidates(j, res.locator)
      PROVE  R!Candidates(j, res.locator) = {R!Target(j, res)}
  <2>1. CASE j.format = "image"
    <3>1. R!Target(j, res) = <<1, 1>>
      BY <2>1 DEF R!Target
    <3>2. \A c \in R!Candidates(j, res.locator) : c = <<1, 1>>
      <4>1. IsList(j.pages) /\ IsList(j.pages[1].rasters) /\ Len(j.pages) = 1 /\ Len(j.pages[1].rasters) = 1
        <5>1. \A s : R!IsList(s) => IsList(s)
          BY DEF R!IsList, R!Items, IsList, Items
        <5>2. IsList(j.pages) /\ Len(j.pages) = 1 /\ Len(j.pages[1].rasters) = 1 /\ \A i \in DOMAIN j.pages : IsList(j.pages[i].rasters)
          BY <2>1, <5>1 DEF R!IsRasterJob
        <5>3. 1 \in DOMAIN j.pages
          BY <5>2, ListIs
        <5> QED BY <5>2, <5>3
      <4>2. DOMAIN j.pages = {1} /\ DOMAIN j.pages[1].rasters = {1}
        BY <4>1, ListIs
      <4> QED BY <4>2 DEF R!Candidates
    <3> QED BY <1>6, <3>1, <3>2
  <2>2. CASE j.format # "image"
    <3>1. single
      <4>1. b[1]
        BY <1>4, <1>5, <1>6, <2>2, RasterFails
      <4> QED BY <1>2, <4>1
    <3>2. PICK x : R!Candidates(j, res.locator) = {x}
      BY <1>1, <3>1, CandidatesFinite, FS_Singleton, SameLists
    <3> QED BY <1>6, <3>2
  <2> QED BY <2>1, <2>2
<1> QED BY <1>4, <1>5, <1>6

(* What is known of an OCR result that is mapped. *)
OcrSound(j) ==
  /\ j.ocr # Nil /\ R!Candidates(j, j.ocr.locator) = {R!Target(j, j.ocr)}
  /\ j.ocr.schema # "words" => R!RefsCreated(j.ocr)
  /\ IsList(j.ocr.words) /\ IsList(R!Regions(j.ocr))

\* What becomes of an OCR result.
LEMMA OcrIs ==
  ASSUME NEW j, R!IsRasterJob(j), j.ocr # Nil
  PROVE  R!OcrVerdict(j) # "absent" /\ (RasterFinds(j) => OcrSound(j))
<1>1. PICK found : found = (R!Target(j, j.ocr) \in R!Candidates(j, j.ocr.locator))
  OBVIOUS
<1>2. PICK sound : sound = \A k \in 1..Len(j.ocr.words) : j.ocr.words[k].sound
  OBVIOUS
<1>3. PICK layout : layout = (j.ocr.schema = "layout" => R!DistinctNames(j.ocr.words) /\ R!RefsCreated(j.ocr))
  OBVIOUS
<1>4. PICK once : once = (j.ocr.events = 1)
  OBVIOUS
<1>5. PICK a, b, c, d, e, f, g, h :
        /\ a = <<j.ocr.ok, "PROVIDER_FAILED">> /\ b = <<j.ocr.attested, "ATTESTATION_INVALID">>
        /\ c = <<once, "EVENT_PROFILE_INVALID">> /\ d = <<j.ocr.fits, "EVENT_PROFILE_INVALID">>
        /\ e = <<j.ocr.ordered, "READING_ORDER_INVALID">> /\ f = <<found, "INPUT_HASH_MISMATCH">>
        /\ g = <<sound, "WORD_INVALID">> /\ h = <<layout, "LAYOUT_INVALID">>
  OBVIOUS
<1>6. PICK rest : rest = <<a, b, c, d, e, f, g, h>>
  OBVIOUS
<1>7. R!OcrChecks(j, j.ocr) = R!Located(j, j.ocr) \o rest
  BY <1>1, <1>2, <1>3, <1>4, <1>5, <1>6 DEF R!OcrChecks
<1>8. IsList(rest) /\ Items(rest) = {a, b, c, d, e, f, g, h}
  BY <1>6, Short
<1>9. \A x \in {"PROVIDER_FAILED", "ATTESTATION_INVALID", "EVENT_PROFILE_INVALID", "READING_ORDER_INVALID", "INPUT_HASH_MISMATCH",
               "WORD_INVALID", "LAYOUT_INVALID"} : x \notin NoFailures /\ x # "absent"
  BY DEF NoFailures
<1>10. Refusals(rest) /\ \A x \in Items(rest) : x[2] # "absent"
  BY <1>5, <1>8, <1>9 DEF Refusals
<1>11. PICK all : all = R!Located(j, j.ocr) \o rest
  OBVIOUS
<1>12. Refusals(all) /\ Items(all) = Items(R!Located(j, j.ocr)) \cup Items(rest)
  BY <1>10, <1>11, LocatedIs, RefusalsJoined, Joined DEF Refusals
<1>13. \A x \in Items(all) : x[2] # "absent" /\ x[2] # "accepted"
  BY <1>10, <1>12, LocatedIs DEF Refusals, NoFailures
<1>14. R!OcrVerdict(j) = IF R!FirstFailure(R!Located(j, j.ocr)) # "accepted" THEN R!FirstFailure(R!Located(j, j.ocr)) ELSE R!FirstFailure(all)
  BY <1>7, <1>11 DEF R!OcrVerdict
<1>15. R!FirstFailure(all) # "absent" /\ R!FirstFailure(R!Located(j, j.ocr)) # "absent"
  BY <1>12, <1>13, LocatedIs, RasterFails
<1>16. ASSUME RasterFinds(j) PROVE OcrSound(j)
  <2>1. R!FirstFailure(R!Located(j, j.ocr)) = "accepted" /\ R!FirstFailure(all) = "accepted"
    BY <1>14, <1>16 DEF RasterFinds
  <2>2. \A x \in Items(all) : x[1]
    BY <1>12, <1>13, <2>1, RasterFails
  <2>3. f[1] /\ h[1]
    BY <1>8, <1>12, <2>2
  <2>4. found /\ layout
    BY <1>5, <2>3
  <2>5. R!Candidates(j, j.ocr.locator) = {R!Target(j, j.ocr)}
    BY <1>1, <2>1, <2>4, LocatedIs
  <2>6. \A s : R!IsList(s) => IsList(s)
    BY DEF R!IsList, R!Items, IsList, Items
  <2>7. IsList(j.ocr.words) /\ IsList(j.ocr.lines) /\ IsList(j.ocr.blocks) /\ j.ocr.schema \in {"words", "layout"}
    BY <2>6 DEF R!IsRasterJob
  <2>8. IsList(R!Regions(j.ocr))
    BY <2>7, Joined DEF R!Regions
  <2> QED BY <1>3, <2>4, <2>5, <2>7, <2>8 DEF OcrSound
<1> QED BY <1>14, <1>15, <1>16

(* What is known of a vision result that is mapped. *)
VisionSound(j) ==
  /\ j.vision # Nil /\ R!Candidates(j, j.vision.locator) = {R!Target(j, j.vision)}
  /\ \A k \in DOMAIN j.vision.relations : j.vision.relations[k].refs \subseteq R!Names(j.vision.candidates)
  /\ IsList(j.vision.candidates) /\ IsList(j.vision.relations)

\* What becomes of a vision result.
LEMMA VisionIs == ASSUME NEW j, R!IsRasterJob(j), RasterSees(j) PROVE VisionSound(j)
<1>0. /\ j.vision # Nil /\ R!FirstFailure(R!Located(j, j.vision)) = "accepted"
      /\ R!FirstFailure(R!VisionChecks(j, j.vision)) = "accepted"
  BY DEF RasterSees, R!VisionVerdict
<1>1. PICK found : found = (R!Target(j, j.vision) \in R!Candidates(j, j.vision.locator))
  OBVIOUS
<1>2. PICK sound : sound = \A k \in 1..Len(j.vision.candidates) : j.vision.candidates[k].sound
  OBVIOUS
<1>3. PICK named : named = \A k \in 1..Len(j.vision.relations) : j.vision.relations[k].refs \subseteq R!Names(j.vision.candidates)
  OBVIOUS
<1>4. PICK once : once = (j.vision.events = 1)
  OBVIOUS
<1>5. PICK a, b, c, d, e, f, g :
        /\ a = <<j.vision.ok, "rejected">> /\ b = <<j.vision.attested, "rejected">> /\ c = <<once, "rejected">>
        /\ d = <<found, "rejected">> /\ e = <<j.vision.fits, "rejected">> /\ f = <<sound, "rejected">> /\ g = <<named, "rejected">>
  OBVIOUS
<1>6. R!VisionChecks(j, j.vision) = <<a, b, c, d, e, f, g>>
  BY <1>1, <1>2, <1>3, <1>4, <1>5 DEF R!VisionChecks
<1>7. IsList(R!VisionChecks(j, j.vision)) /\ Items(R!VisionChecks(j, j.vision)) = {a, b, c, d, e, f, g}
  BY <1>6, ShortSeven
<1>8. Refusals(R!VisionChecks(j, j.vision)) /\ \A x \in Items(R!VisionChecks(j, j.vision)) : x[2] = "rejected"
  BY <1>5, <1>7 DEF Refusals, NoFailures
<1>9. d[1] /\ g[1]
  BY <1>0, <1>7, <1>8, RasterFails
<1>10. found /\ named
  BY <1>5, <1>9
<1>11. R!Candidates(j, j.vision.locator) = {R!Target(j, j.vision)}
  BY <1>0, <1>1, <1>10, LocatedIs
<1>12. \A s : R!IsList(s) => IsList(s)
  BY DEF R!IsList, R!Items, IsList, Items
<1>13. IsList(j.vision.candidates) /\ IsList(j.vision.relations)
  BY <1>0, <1>12 DEF R!IsRasterJob
<1>14. DOMAIN j.vision.relations = 1..Len(j.vision.relations)
  BY <1>13, ListIs
<1> QED BY <1>0, <1>3, <1>10, <1>11, <1>13, <1>14 DEF VisionSound

\* What the records of a raster's package are.
LEMMA RasterRecordIs ==
  /\ \A id, shown : R!Observed(id, shown).id = id /\ R!Observed(id, shown).class = "observed" /\ R!Observed(id, shown).content = shown
  /\ \A id, refs : R!Inferred(id, refs).id = id /\ R!Inferred(id, refs).refs = refs /\ R!Inferred(id, refs).class = "inferred"
  /\ \A id, refs, shown : /\ R!Derived(id, refs, shown).id = id /\ R!Derived(id, refs, shown).refs = refs
                          /\ R!Derived(id, refs, shown).class = "derived" /\ R!Derived(id, refs, shown).content = shown
  /\ \A id, why, refs : R!Diagnostic(id, why, refs).id = id /\ R!Diagnostic(id, why, refs).code = why /\ R!Diagnostic(id, why, refs).refs = refs
BY DEF R!Observed, R!Inferred, R!Derived, R!Diagnostic

(* A record of the source itself. *)
OfSource(x) == x.class = "observed" /\ x.id[1] \in {"source", "page", "text", "raster"}

\* The records of a page.
LEMMA PageRecordsAre ==
  ASSUME NEW j, R!IsRasterJob(j), NEW i \in DOMAIN j.pages
  PROVE  /\ IsList(R!PageRecords(j, i)) /\ \A x \in Items(R!PageRecords(j, i)) : OfSource(x)
         /\ \A k \in DOMAIN j.pages[i].rasters :
              \E x \in Items(R!PageRecords(j, i)) : x.id = R!Raster(i, k) /\ x.content = j.pages[i].rasters[k]
<1>1. IsList(j.pages[i].rasters)
  <2>1. \A s : R!IsList(s) => IsList(s)
    BY DEF R!IsList, R!Items, IsList, Items
  <2> QED BY <2>1 DEF R!IsRasterJob
<1>2. PICK n \in Nat : n = Len(j.pages[i].rasters) /\ DOMAIN j.pages[i].rasters = 1..n
  BY <1>1, ListIs
<1>3. PICK p, t : /\ p = R!Observed(<<"page", i>>, Nil) /\ t = R!Observed(R!Native(i), j.pages[i].text)
  OBVIOUS
<1>4. PICK first, second : /\ first = (IF j.format = "pdf" THEN <<p>> ELSE <<>>)
                           /\ second = (IF j.pages[i].text = Nil THEN <<>> ELSE <<t>>)
  OBVIOUS
<1>5. PICK third : third = [k \in 1..n |-> R!Observed(R!Raster(i, k), j.pages[i].rasters[k])]
  OBVIOUS
<1>6. R!PageRecords(j, i) = first \o second \o third
  BY <1>2, <1>3, <1>4, <1>5 DEF R!PageRecords
<1>7. IsList(third) /\ DOMAIN third = 1..n
  BY <1>5, FunctionIsList
<1>8. IsList(first) /\ Items(first) \subseteq {p} /\ IsList(second) /\ Items(second) \subseteq {t}
  BY <1>4, Short
<1>9. IsList(R!PageRecords(j, i)) /\ Items(R!PageRecords(j, i)) = Items(first) \cup Items(second) \cup Items(third)
  BY <1>6, <1>7, <1>8, Joined
<1>10. OfSource(p) /\ OfSource(t)
  BY <1>3, RasterRecordIs DEF OfSource, R!Native
<1>11. \A k \in 1..n : third[k].id = R!Raster(i, k) /\ third[k].content = j.pages[i].rasters[k] /\ third[k].class = "observed"
  BY <1>5, RasterRecordIs
<1>12. \A x \in Items(third) : OfSource(x)
  BY <1>7, <1>11 DEF OfSource, R!Raster, Items
<1>13. ASSUME NEW k \in 1..n
       PROVE  \E x \in Items(R!PageRecords(j, i)) : x.id = R!Raster(i, k) /\ x.content = j.pages[i].rasters[k]
  <2>1. third[k] \in Items(third)
    BY <1>7 DEF Items
  <2> QED BY <1>9, <1>11, <2>1
<1> QED BY <1>2, <1>8, <1>9, <1>10, <1>12, <1>13

\* The records of the source.
LEMMA RasterBaselineIs ==
  ASSUME NEW j, R!IsRasterJob(j)
  PROVE  /\ IsList(R!Baseline(j)) /\ \A x \in Items(R!Baseline(j)) : OfSource(x)
         /\ \A pixels : \A c \in R!Candidates(j, pixels) :
              \E x \in Items(R!Baseline(j)) : x.id = R!Raster(c[1], c[2]) /\ x.content = pixels
<1>1. IsList(j.pages)
  <2>1. \A s : R!IsList(s) => IsList(s)
    BY DEF R!IsList, R!Items, IsList, Items
  <2> QED BY <2>1 DEF R!IsRasterJob
<1>2. PICK n \in Nat : n = Len(j.pages) /\ DOMAIN j.pages = 1..n
  BY <1>1, ListIs
<1>3. PICK lists : lists = [i \in 1..n |-> R!PageRecords(j, i)]
  OBVIOUS
<1>4. IsList(lists) /\ DOMAIN lists = 1..n /\ \A k \in 1..n : lists[k] = R!PageRecords(j, k)
  BY <1>3, FunctionIsList
<1>5. PICK s : s = [id |-> R!Source, refs |-> {}, class |-> "observed", content |-> Nil]
  OBVIOUS
<1>6. PICK first : first = <<s>>
  OBVIOUS
<1>7. R!Baseline(j) = first \o Concat(lists)
  BY <1>2, <1>3, <1>5, <1>6, SameLists DEF R!Baseline
<1>8. \A k \in DOMAIN lists : IsList(lists[k])
  BY <1>2, <1>4, PageRecordsAre
<1>9. IsList(Concat(lists)) /\ Items(Concat(lists)) = Joins(lists)
  BY <1>4, <1>8, ConcatIs
<1>10. IsList(first) /\ Items(first) = {s}
  BY <1>6, Short
<1>11. IsList(R!Baseline(j)) /\ Items(R!Baseline(j)) = {s} \cup Joins(lists)
  BY <1>7, <1>9, <1>10, Joined
<1>12. OfSource(s)
  BY <1>5 DEF OfSource, R!Source
<1>13. ASSUME NEW x \in Joins(lists) PROVE OfSource(x)
  <2>1. PICK k \in 1..n : x \in Items(lists[k])
    BY <1>4 DEF Joins
  <2> QED BY <1>2, <1>4, <2>1, PageRecordsAre
<1>14. ASSUME NEW pixels, NEW c \in R!Candidates(j, pixels)
       PROVE  \E x \in Items(R!Baseline(j)) : x.id = R!Raster(c[1], c[2]) /\ x.content = pixels
  <2>1. PICK i, k : i \in DOMAIN j.pages /\ k \in DOMAIN j.pages[i].rasters /\ c = <<i, k>> /\ j.pages[i].rasters[k] = pixels
    BY DEF R!Candidates
  <2>2. PICK x \in Items(R!PageRecords(j, i)) : x.id = R!Raster(i, k) /\ x.content = pixels
    BY <2>1, PageRecordsAre
  <2>3. x \in Joins(lists)
    BY <1>2, <1>4, <2>1, <2>2 DEF Joins
  <2> QED BY <1>11, <2>1, <2>2, <2>3
<1> QED BY <1>11, <1>12, <1>13, <1>14

(* Record a of s rests on the raster at c: it cites the raster, or inferred records before it that are about it. *)
ReadFrom(s, a, c) ==
  \A x \in s[a].refs :
    \/ x = R!Raster(c[1], c[2]) /\ s[a].id[2] = c
    \/ \E b \in 1..(a - 1) : s[b].id = x /\ s[b].class = "inferred" /\ x[2] = c

OcrWord(j, k) == <<"ocr_word", R!Target(j, j.ocr), k>>
OcrRegion(j, x) == <<"ocr_region", R!Target(j, j.ocr), x>>
OcrName(j, x) ==
  IF x \in R!Names(j.ocr.words) THEN OcrWord(j, CHOOSE k \in 1..Len(j.ocr.words) : j.ocr.words[k].id = x) ELSE OcrRegion(j, x)

\* What an OCR result adds rests on its raster.
LEMMA OcrPrimitivesAre ==
  ASSUME NEW j, OcrSound(j), NEW c, c = R!Target(j, j.ocr)
  PROVE  /\ IsList(R!OcrPrimitives(j))
         /\ \A a \in DOMAIN R!OcrPrimitives(j) :
              /\ R!OcrPrimitives(j)[a].class = "inferred" /\ R!OcrPrimitives(j)[a].id[1] \in {"ocr_word", "ocr_region", "ocr_table"}
              /\ ReadFrom(R!OcrPrimitives(j), a, c)
<1>1. PICK n \in Nat : n = Len(j.ocr.words)
  BY ListIs DEF OcrSound
<1>2. PICK regs : regs = R!Regions(j.ocr)
  OBVIOUS
<1>3. PICK m \in Nat : m = Len(regs)
  BY <1>2, ListIs DEF OcrSound
<1>4. PICK words : words = [k \in 1..n |-> R!Inferred(OcrWord(j, k), {R!Raster(c[1], c[2])})]
  OBVIOUS
<1>5. PICK regions : regions = [k \in 1..m |-> R!Inferred(OcrRegion(j, regs[k].id), {OcrName(j, x) : x \in regs[k].refs})]
  OBVIOUS
<1>6. PICK t : t = R!Inferred(<<"ocr_table", c>>, {OcrWord(j, k) : k \in 1..n})
  OBVIOUS
<1>7. PICK table : table = IF j.ocr.table THEN <<t>> ELSE <<>>
  OBVIOUS
<1>8. PICK rest : rest = IF j.ocr.schema = "words" THEN <<>> ELSE regions \o table
  OBVIOUS
<1>9. PICK p : p = R!OcrPrimitives(j)
  OBVIOUS
<1>10. p = words \o rest
  BY <1>1, <1>2, <1>3, <1>4, <1>5, <1>6, <1>7, <1>8, <1>9 DEF R!OcrPrimitives, OcrWord, OcrRegion, OcrName
<1>11. /\ IsList(words) /\ DOMAIN words = 1..n /\ Len(words) = n
       /\ IsList(regions) /\ DOMAIN regions = 1..m /\ Len(regions) = m
  BY <1>4, <1>5, FunctionIsList
<1>12. /\ \A k \in 1..n : words[k].id = OcrWord(j, k) /\ words[k].refs = {R!Raster(c[1], c[2])} /\ words[k].class = "inferred"
       /\ \A k \in 1..m : /\ regions[k].id = OcrRegion(j, regs[k].id) /\ regions[k].refs = {OcrName(j, x) : x \in regs[k].refs}
                          /\ regions[k].class = "inferred"
       /\ t.id = <<"ocr_table", c>> /\ t.refs = {OcrWord(j, k) : k \in 1..n} /\ t.class = "inferred"
  BY <1>4, <1>5, <1>6, RasterRecordIs
<1>13. IsList(table) /\ Items(table) \subseteq {t} /\ Len(table) \in Nat /\ DOMAIN table = 1..Len(table) /\ Len(table) <= 1
  <2>1. CASE j.ocr.table
    <3>1. table = <<t>> /\ Len(<<t>>) = 1
      BY <1>7, <2>1
    <3>2. IsList(table) /\ Items(table) = {t} /\ Len(table) = 1
      BY <3>1, Short
    <3> QED BY <3>2, ListIs
  <2>2. CASE ~j.ocr.table
    <3>1. table = <<>> /\ Len(<<>>) = 0
      BY <1>7, <2>2
    <3>2. IsList(table) /\ Items(table) = {} /\ Len(table) = 0
      BY <3>1, Short
    <3> QED BY <3>2, ListIs
  <2> QED BY <2>1, <2>2
<1>14. /\ IsList(rest) /\ Len(rest) \in Nat /\ DOMAIN rest = 1..Len(rest)
       /\ \A k \in DOMAIN rest : /\ j.ocr.schema # "words"
                                 /\ (k \in 1..m /\ rest[k] = regions[k]) \/ (k > m /\ rest[k] = t)
       /\ j.ocr.schema # "words" => \A k \in 1..m : k \in DOMAIN rest /\ rest[k] = regions[k]
  <2>1. CASE j.ocr.schema = "words"
    <3>1. rest = <<>> /\ Len(<<>>) = 0
      BY <1>8, <2>1
    <3> QED BY <2>1, <3>1, Short, ListIs
  <2>2. CASE j.ocr.schema # "words"
    <3>1. rest = regions \o table
      BY <1>8, <2>2
    <3>2. /\ IsList(rest) /\ DOMAIN rest = 1..m + Len(table) /\ Len(rest) = m + Len(table)
          /\ \A k \in 1..m : rest[k] = regions[k]
          /\ \A k \in 1..m + Len(table) : k > m => k - m \in 1..Len(table) /\ rest[k] = table[k - m]
      BY <1>11, <1>13, <3>1, JoinedPlaces, Joined
    <3>3. \A k \in DOMAIN table : table[k] = t
      BY <1>13 DEF Items
    <3> QED BY <1>3, <1>13, <2>2, <3>2, <3>3
  <2> QED BY <2>1, <2>2
<1>19. PICK l \in Nat : l = Len(rest) /\ DOMAIN rest = 1..l /\ IsList(rest)
  BY <1>14, Zenon
<1>15. /\ IsList(p) /\ DOMAIN p = 1..n + l /\ \A a \in 1..n : p[a] = words[a]
       /\ \A a \in 1..n + l : a > n => a - n \in 1..l /\ p[a] = rest[a - n]
  <2>1. IsList(words) /\ IsList(rest) /\ Len(words) = n /\ Len(rest) = l
    BY <1>11, <1>19
  <2>2. IsList(p)
    BY <1>10, <2>1, Joined
  <2> QED BY <1>10, <2>1, <2>2, JoinedPlaces
<1>16. \A a \in 1..n : p[a].class = "inferred" /\ p[a].id = OcrWord(j, a)
  BY <1>12, <1>15
<1>17. ASSUME NEW a \in 1..n
       PROVE  p[a].class = "inferred" /\ p[a].id[1] \in {"ocr_word", "ocr_region", "ocr_table"} /\ ReadFrom(p, a, c)
  <2>1. p[a].id = <<"ocr_word", c, a>> /\ p[a].refs = {R!Raster(c[1], c[2])}
    BY <1>12, <1>15 DEF OcrWord
  <2> QED BY <1>16, <2>1 DEF ReadFrom
<1>18. ASSUME NEW a \in DOMAIN p, a > n
       PROVE  p[a].class = "inferred" /\ p[a].id[1] \in {"ocr_word", "ocr_region", "ocr_table"} /\ ReadFrom(p, a, c)
  <2>1. PICK k \in DOMAIN rest : k = a - n /\ p[a] = rest[k] /\ a = n + k
    <3>1. a \in 1..n + l /\ a - n \in 1..l /\ p[a] = rest[a - n] /\ a = n + (a - n)
      BY <1>15, <1>18
    <3> QED BY <1>19, <3>1
  <2>2. k \in 1..l /\ a \in 1..n + l
    BY <1>15, <1>19, <2>1
  <2>3. \A h \in 1..n : h \in 1..(a - 1) /\ p[h].id = OcrWord(j, h) /\ p[h].class = "inferred" /\ OcrWord(j, h)[2] = c
    BY <1>16, <2>1, <2>2 DEF OcrWord
  <2>4. CASE k \in 1..m /\ rest[k] = regions[k]
    <3>1. p[a].id = OcrRegion(j, regs[k].id) /\ p[a].refs = {OcrName(j, x) : x \in regs[k].refs} /\ p[a].class = "inferred"
      BY <1>12, <2>1, <2>4
    <3>2. ASSUME NEW x \in regs[k].refs
          PROVE  \E b \in 1..(a - 1) : p[b].id = OcrName(j, x) /\ p[b].class = "inferred" /\ OcrName(j, x)[2] = c
      <4>1. x \in R!Names(j.ocr.words) \cup {regs[h].id : h \in 1..(k - 1)}
        BY <1>2, <1>3, <1>14, <2>1, <2>4 DEF OcrSound, R!RefsCreated
      <4>2. CASE x \in R!Names(j.ocr.words)
        <5>1. PICK h : h = CHOOSE y \in 1..Len(j.ocr.words) : j.ocr.words[y].id = x
          OBVIOUS
        <5>2. h \in 1..n
          BY <1>1, <4>2, <5>1 DEF R!Names
        <5>3. OcrName(j, x) = OcrWord(j, h)
          BY <4>2, <5>1 DEF OcrName
        <5> QED BY <2>3, <5>2, <5>3
      <4>3. CASE x \notin R!Names(j.ocr.words)
        <5>1. PICK h \in 1..(k - 1) : x = regs[h].id
          BY <4>1, <4>3
        <5>2. h \in 1..m /\ n + h \in 1..(a - 1) /\ n + h \in 1..n + l /\ n + h > n /\ (n + h) - n = h
          BY <2>1, <2>2, <2>4, <5>1
        <5>3. p[n + h] = regions[h]
          <6>1. p[n + h] = rest[h]
            BY <1>15, <5>2
          <6>2. rest[h] = regions[h]
            BY <1>14, <2>1, <5>2
          <6> QED BY <6>1, <6>2
        <5>4. OcrName(j, x) = OcrRegion(j, x)
          BY <4>3 DEF OcrName
        <5>5. p[n + h].id = OcrRegion(j, x) /\ p[n + h].class = "inferred"
          BY <1>12, <5>1, <5>2, <5>3
        <5> QED BY <5>2, <5>4, <5>5 DEF OcrRegion
      <4> QED BY <4>2, <4>3
    <3> QED BY <3>1, <3>2 DEF ReadFrom, OcrRegion
  <2>5. CASE rest[k] = t
    <3>1. p[a].id = <<"ocr_table", c>> /\ p[a].refs = {OcrWord(j, h) : h \in 1..n} /\ p[a].class = "inferred"
      BY <1>12, <2>1, <2>5
    <3> QED BY <2>3, <3>1 DEF ReadFrom
  <2> QED BY <1>14, <2>4, <2>5
<1> QED BY <1>9, <1>15, <1>17, <1>18

\* The comparison of the native text with that of the words.
LEMMA ComparisonIs ==
  ASSUME NEW j, NEW c, c = R!Target(j, j.ocr)
  PROVE  /\ IsList(R!Comparison(j)) /\ \A x \in Items(R!Comparison(j)) : x.class = "derived" /\ x.id[1] = "assert_ocr_native"
         /\ R!NativeText(j) \notin {Nil, j.ocr.text} =>
              \E x \in Items(R!Comparison(j)) : x.content = "conflicted" /\ R!Names(R!OcrPrimitives(j)) \cup {R!Native(c[1])} \subseteq x.refs
<1>1. PICK cited : cited = {R!Native(c[1])} \cup R!Names(R!OcrPrimitives(j))
  OBVIOUS
<1>2. PICK shown : shown = IF R!NativeText(j) = j.ocr.text THEN "equivalent" ELSE "conflicted"
  OBVIOUS
<1>3. PICK x : x = R!Derived(<<"assert_ocr_native", c>>, cited \cup {R!Raster(c[1], c[2])}, shown)
  OBVIOUS
<1>4. R!Comparison(j) = IF R!NativeText(j) = Nil THEN <<>> ELSE <<x>>
  BY <1>1, <1>2, <1>3 DEF R!Comparison
<1>5. x.id = <<"assert_ocr_native", c>> /\ x.class = "derived" /\ x.content = shown /\ cited \subseteq x.refs
  BY <1>3, RasterRecordIs
<1>6. CASE R!NativeText(j) = Nil
  <2>1. R!Comparison(j) = <<>>
    BY <1>4, <1>6
  <2> QED BY <1>6, <2>1, Short
<1>7. CASE R!NativeText(j) # Nil
  <2>1. R!Comparison(j) = <<x>>
    BY <1>4, <1>7
  <2> QED BY <1>1, <1>2, <1>5, <2>1, Short
<1> QED BY <1>6, <1>7

\* A record rests on what it rests on in a longer list as well.
LEMMA ReadLater ==
  ASSUME NEW s, NEW t, IsList(s), IsList(t), NEW c
  PROVE  /\ \A a \in DOMAIN s : ReadFrom(s, a, c) => ReadFrom(s \o t, a, c)
         /\ \A a \in DOMAIN t : ReadFrom(t, a, c) => ReadFrom(s \o t, Len(s) + a, c)
<1>1. PICK m \in Nat, n \in Nat : m = Len(s) /\ n = Len(t) /\ DOMAIN s = 1..m /\ DOMAIN t = 1..n
  BY ListIs
<1>2. PICK both : both = s \o t
  OBVIOUS
<1>3. /\ \A i \in 1..m : both[i] = s[i]
      /\ \A i \in 1..m + n : i > m => i - m \in 1..n /\ both[i] = t[i - m]
  BY <1>1, <1>2, JoinedPlaces
<1>4. \A i \in 1..n : both[m + i] = t[i]
  <2>1. ASSUME NEW i \in 1..n PROVE both[m + i] = t[i]
    <3>1. m + i \in 1..m + n /\ m + i > m /\ (m + i) - m = i
      OBVIOUS
    <3> QED BY <1>3, <3>1
  <2> QED BY <2>1
<1>5. ASSUME NEW a \in 1..m, ReadFrom(s, a, c) PROVE ReadFrom(both, a, c)
  <2>1. both[a] = s[a] /\ \A b \in 1..(a - 1) : both[b] = s[b]
    BY <1>3
  <2> QED BY <1>5, <2>1 DEF ReadFrom
<1>6. ASSUME NEW a \in 1..n, ReadFrom(t, a, c) PROVE ReadFrom(both, m + a, c)
  <2>1. both[m + a] = t[a] /\ \A b \in 1..(a - 1) : both[m + b] = t[b] /\ m + b \in 1..((m + a) - 1)
    BY <1>4
  <2> QED BY <1>6, <2>1 DEF ReadFrom
<1> QED BY <1>1, <1>2, <1>5, <1>6

VisionName(j, x) == <<"vision", R!Target(j, j.vision), x>>

\* What a vision result adds rests on its raster.
LEMMA VisionRecordsAre ==
  ASSUME NEW j, VisionSound(j), NEW c, c = R!Target(j, j.vision)
  PROVE  /\ IsList(R!VisionRecords(j))
         /\ \A a \in DOMAIN R!VisionRecords(j) :
              /\ R!VisionRecords(j)[a].class = "inferred" /\ R!VisionRecords(j)[a].id[1] \in {"vision", "assert_vision"}
              /\ ReadFrom(R!VisionRecords(j), a, c)
<1>1. PICK candidates, relations : candidates = j.vision.candidates /\ relations = j.vision.relations
  OBVIOUS
<1>2. PICK n \in Nat, m \in Nat : n = Len(candidates) /\ m = Len(relations) /\ DOMAIN relations = 1..m
  BY <1>1, ListIs DEF VisionSound
<1>3. PICK found : found = [k \in 1..n |-> R!Inferred(VisionName(j, candidates[k].id), {R!Raster(c[1], c[2])})]
  OBVIOUS
<1>4. PICK told : told = [k \in 1..m |-> R!Inferred(<<"assert_vision", relations[k].id>>, {VisionName(j, x) : x \in relations[k].refs})]
  OBVIOUS
<1>5. PICK v : v = R!VisionRecords(j)
  OBVIOUS
<1>6. v = found \o told
  BY <1>1, <1>2, <1>3, <1>4, <1>5 DEF R!VisionRecords, VisionName
<1>7. IsList(found) /\ DOMAIN found = 1..n /\ Len(found) = n /\ IsList(told) /\ DOMAIN told = 1..m /\ Len(told) = m
  BY <1>3, <1>4, FunctionIsList
<1>8. /\ \A k \in 1..n : found[k].id = VisionName(j, candidates[k].id) /\ found[k].refs = {R!Raster(c[1], c[2])} /\ found[k].class = "inferred"
      /\ \A k \in 1..m : /\ told[k].id = <<"assert_vision", relations[k].id>> /\ told[k].refs = {VisionName(j, x) : x \in relations[k].refs}
                         /\ told[k].class = "inferred"
  BY <1>3, <1>4, RasterRecordIs
<1>9. /\ IsList(v) /\ DOMAIN v = 1..n + m /\ \A a \in 1..n : v[a] = found[a]
      /\ \A a \in 1..n + m : a > n => a - n \in 1..m /\ v[a] = told[a - n]
  BY <1>6, <1>7, JoinedPlaces, Joined
<1>10. ASSUME NEW a \in 1..n
       PROVE  v[a].class = "inferred" /\ v[a].id[1] \in {"vision", "assert_vision"} /\ ReadFrom(v, a, c)
  <2>1. v[a].id = <<"vision", c, candidates[a].id>> /\ v[a].refs = {R!Raster(c[1], c[2])} /\ v[a].class = "inferred"
    BY <1>8, <1>9 DEF VisionName
  <2> QED BY <2>1 DEF ReadFrom
<1>11. ASSUME NEW a \in 1..n + m, a > n
       PROVE  v[a].class = "inferred" /\ v[a].id[1] \in {"vision", "assert_vision"} /\ ReadFrom(v, a, c)
  <2>1. PICK k \in 1..m : k = a - n /\ v[a] = told[k]
    BY <1>9, <1>11
  <2>2. v[a].id = <<"assert_vision", relations[k].id>> /\ v[a].refs = {VisionName(j, x) : x \in relations[k].refs} /\ v[a].class = "inferred"
    BY <1>8, <2>1
  <2>3. ASSUME NEW x \in relations[k].refs
        PROVE  \E b \in 1..(a - 1) : v[b].id = VisionName(j, x) /\ v[b].class = "inferred" /\ VisionName(j, x)[2] = c
    <3>1. x \in R!Names(candidates)
      BY <1>1, <1>2 DEF VisionSound
    <3>2. PICK h \in 1..n : x = candidates[h].id
      BY <1>2, <3>1 DEF R!Names
    <3>3. h \in 1..(a - 1) /\ v[h].id = VisionName(j, x) /\ v[h].class = "inferred"
      BY <1>8, <1>9, <1>11, <3>2
    <3> QED BY <3>3 DEF VisionName
  <2> QED BY <2>2, <2>3 DEF ReadFrom
<1> QED BY <1>5, <1>9, <1>10, <1>11

(* What an accepted OCR result adds, and what an accepted vision result adds. *)
OcrAdds(j) == IF RasterFinds(j) THEN R!OcrPrimitives(j) \o R!Comparison(j) ELSE <<>>
VisionAdds(j) == IF RasterSees(j) THEN R!VisionRecords(j) ELSE <<>>

\* Lists are joined in any grouping.
LEMMA JoinedInTurn ==
  ASSUME NEW s, NEW t, NEW u, IsList(s), IsList(t), IsList(u) PROVE (s \o t) \o u = s \o (t \o u) /\ s \o <<>> = s
<1>1. PICK T : T = Items(s) \cup Items(t) \cup Items(u)
  OBVIOUS
<1>2. s \in Seq(T) /\ t \in Seq(T) /\ u \in Seq(T)
  BY <1>1, SeqMonotonic DEF IsList
<1> QED BY <1>2, ConcatAssociative, ConcatEmptySeq

\* The records of a package are those of the source, those read from it and those seen in it.
LEMMA RasterRecordsAre ==
  ASSUME NEW j, R!IsRasterJob(j)
  PROVE  /\ RasterRecords(j) = (R!Baseline(j) \o OcrAdds(j)) \o VisionAdds(j)
         /\ IsList(OcrAdds(j)) /\ IsList(VisionAdds(j))
         /\ \A a \in DOMAIN OcrAdds(j) :
              /\ RasterFinds(j) /\ OcrAdds(j)[a].class # "observed"
              /\ OcrAdds(j)[a].id[1] \in {"ocr_word", "ocr_region", "ocr_table", "assert_ocr_native"}
              /\ OcrAdds(j)[a].class = "inferred" => ReadFrom(OcrAdds(j), a, R!Target(j, j.ocr))
         /\ \A a \in DOMAIN VisionAdds(j) :
              /\ RasterSees(j) /\ VisionAdds(j)[a].class # "observed" /\ VisionAdds(j)[a].id[1] \in {"vision", "assert_vision"}
              /\ ReadFrom(VisionAdds(j), a, R!Target(j, j.vision))
<1>1. PICK base, p, q, v : base = R!Baseline(j) /\ p = R!OcrPrimitives(j) /\ q = R!Comparison(j) /\ v = R!VisionRecords(j)
  OBVIOUS
<1>2. IsList(base)
  BY <1>1, RasterBaselineIs
<1>3. /\ RasterRead(j) = base \o OcrAdds(j) /\ IsList(OcrAdds(j))
      /\ \A a \in DOMAIN OcrAdds(j) :
           /\ RasterFinds(j) /\ OcrAdds(j)[a].class # "observed"
           /\ OcrAdds(j)[a].id[1] \in {"ocr_word", "ocr_region", "ocr_table", "assert_ocr_native"}
           /\ OcrAdds(j)[a].class = "inferred" => ReadFrom(OcrAdds(j), a, R!Target(j, j.ocr))
  <2>1. CASE RasterFinds(j)
    <3>1. OcrSound(j)
      BY <2>1, OcrIs DEF RasterFinds, R!OcrVerdict
    <3>2. IsList(p) /\ IsList(q) /\ \A x \in Items(q) : x.class = "derived" /\ x.id[1] = "assert_ocr_native"
      BY <1>1, <3>1, OcrPrimitivesAre, ComparisonIs
    <3>3. PICK both : both = p \o q
      OBVIOUS
    <3>4. OcrAdds(j) = both /\ IsList(both)
      BY <1>1, <2>1, <3>2, <3>3, Joined DEF OcrAdds
    <3>5. RasterRead(j) = base \o both
      BY <1>1, <1>2, <2>1, <3>2, <3>3, JoinedInTurn DEF RasterRead
    <3>6. PICK m \in Nat, n \in Nat : m = Len(p) /\ n = Len(q) /\ DOMAIN p = 1..m /\ DOMAIN q = 1..n
      BY <3>2, ListIs
    <3>7. /\ DOMAIN both = 1..m + n /\ \A i \in 1..m : both[i] = p[i]
          /\ \A i \in 1..m + n : i > m => i - m \in 1..n /\ both[i] = q[i - m]
      BY <3>2, <3>3, <3>6, JoinedPlaces
    <3>8. ASSUME NEW a \in 1..m
          PROVE  /\ both[a].class = "inferred" /\ both[a].id[1] \in {"ocr_word", "ocr_region", "ocr_table"}
                 /\ ReadFrom(both, a, R!Target(j, j.ocr))
      <4>1. p[a].class = "inferred" /\ p[a].id[1] \in {"ocr_word", "ocr_region", "ocr_table"} /\ ReadFrom(p, a, R!Target(j, j.ocr))
        BY <1>1, <3>1, <3>6, OcrPrimitivesAre
      <4> QED BY <3>2, <3>3, <3>6, <3>7, <4>1, ReadLater
    <3>9. ASSUME NEW a \in 1..m + n, a > m PROVE both[a].class = "derived" /\ both[a].id[1] = "assert_ocr_native"
      <4>1. a - m \in DOMAIN q /\ both[a] = q[a - m]
        BY <3>6, <3>7, <3>9
      <4>2. both[a] \in Items(q)
        BY <4>1 DEF Items
      <4> QED BY <3>2, <4>2
    <3>10. \A a \in DOMAIN both : both[a].class # "observed"
      BY <3>7, <3>8, <3>9
    <3>11. \A a \in DOMAIN both : a \in 1..m \/ a > m
      BY <3>7
    <3> QED BY <2>1, <3>4, <3>5, <3>7, <3>8, <3>9, <3>10, <3>11
  <2>2. CASE ~RasterFinds(j)
    <3>1. OcrAdds(j) = <<>> /\ RasterRead(j) = base
      BY <1>1, <2>2 DEF OcrAdds, RasterRead
    <3>2. IsList(<<>>) /\ DOMAIN <<>> = {} /\ base \o <<>> = base
      BY <1>2, Short, JoinedInTurn
    <3> QED BY <3>1, <3>2
  <2> QED BY <2>1, <2>2
<1>4. /\ RasterRecords(j) = RasterRead(j) \o VisionAdds(j) /\ IsList(VisionAdds(j))
      /\ \A a \in DOMAIN VisionAdds(j) :
           /\ RasterSees(j) /\ VisionAdds(j)[a].class # "observed" /\ VisionAdds(j)[a].id[1] \in {"vision", "assert_vision"}
           /\ ReadFrom(VisionAdds(j), a, R!Target(j, j.vision))
  <2>1. CASE RasterSees(j)
    <3>1. VisionAdds(j) = v /\ RasterRecords(j) = RasterRead(j) \o v
      BY <1>1, <2>1 DEF VisionAdds, RasterRecords
    <3>2. VisionSound(j)
      BY <2>1, VisionIs
    <3>3. IsList(v) /\ \A a \in DOMAIN v : /\ v[a].class = "inferred" /\ v[a].id[1] \in {"vision", "assert_vision"}
                                           /\ ReadFrom(v, a, R!Target(j, j.vision))
      BY <1>1, <3>2, VisionRecordsAre
    <3> QED BY <2>1, <3>1, <3>3
  <2>2. CASE ~RasterSees(j)
    <3>1. VisionAdds(j) = <<>> /\ RasterRecords(j) = RasterRead(j)
      BY <2>2 DEF VisionAdds, RasterRecords
    <3>2. IsList(RasterRead(j))
      BY <1>2, <1>3, Joined
    <3>3. IsList(<<>>) /\ DOMAIN <<>> = {} /\ RasterRead(j) \o <<>> = RasterRead(j)
      BY <3>2, Short, JoinedInTurn
    <3> QED BY <3>1, <3>3
  <2> QED BY <2>1, <2>2
<1> QED BY <1>1, <1>3, <1>4

\* What the diagnostics say of an OCR result.
LEMMA RasterDiagnosticsAre ==
  ASSUME NEW j
  PROVE  /\ IsList(RasterDiagnostics(j))
         /\ RasterFinds(j) => \E d \in Items(RasterDiagnostics(j)) : d.id = <<"diag_loss", "text">>
         /\ RasterFinds(j) /\ R!NativeText(j) \notin {Nil, j.ocr.text} =>
              \E d \in Items(RasterDiagnostics(j)) : d.code = "OCR_NATIVE_TEXT_CONFLICT"
         /\ R!OcrVerdict(j) \notin {"absent", "accepted"} => \E d \in Items(RasterDiagnostics(j)) : d.code = R!OcrVerdict(j)
<1>1. PICK fixed, text, none, differs, refused :
        /\ fixed = R!Loss("3d_geometry", "HIDDEN_GEOMETRY_UNSUPPORTED") /\ text = R!Loss("text", R!TextReason(R!OcrVerdict(j)))
        /\ none = R!Diagnostic(<<"diag_ocr", R!Target(j, j.ocr), "OCR_NO_TEXT_DETECTED">>, "OCR_NO_TEXT_DETECTED",
                               {R!Raster(R!Target(j, j.ocr)[1], R!Target(j, j.ocr)[2])})
        /\ differs = R!Diagnostic(<<"diag_ocr", R!Target(j, j.ocr), "OCR_NATIVE_TEXT_CONFLICT">>, "OCR_NATIVE_TEXT_CONFLICT",
                                  {R!Native(R!Target(j, j.ocr)[1])} \cup R!Names(R!OcrPrimitives(j)))
        /\ refused = R!Rejection(R!OcrVerdict(j))
  OBVIOUS
<1>2. PICK losses, lost, unread, conflict, rejected :
        /\ losses = <<fixed>> /\ lost = (IF R!TextLevel(j, R!OcrVerdict(j)) = "full" THEN <<>> ELSE <<text>>)
        /\ unread = (IF R!OcrPrimitives(j) = <<>> THEN <<none>> ELSE <<>>)
        /\ conflict = (IF R!NativeText(j) \in {Nil, j.ocr.text} THEN <<>> ELSE <<differs>>)
        /\ rejected = (IF R!OcrVerdict(j) \in {"absent", "accepted"} THEN <<>> ELSE <<refused>>)
  OBVIOUS
<1>3. R!Losses(j, R!OcrVerdict(j)) = losses \o lost /\ R!OcrDiagnostics(j) = unread \o conflict
  BY <1>1, <1>2 DEF R!Losses, R!OcrDiagnostics
<1>4. PICK sights : sights = R!VisionDiagnostics(j, R!VisionVerdict(j))
  OBVIOUS
<1>5. RasterSaid(j) = RasterReadSaid(j) \o sights
  BY <1>4 DEF RasterSaid
<1>6. RasterDiagnostics(j) = ((losses \o lost) \o RasterSaid(j)) \o rejected
  BY <1>1, <1>2, <1>3 DEF RasterDiagnostics
<1>7. IsList(losses) /\ IsList(lost) /\ IsList(unread) /\ IsList(conflict) /\ IsList(rejected) /\ IsList(sights)
  <2>1. IsList(sights)
    BY <1>4, Short DEF R!VisionDiagnostics
  <2> QED BY <1>2, <2>1, Short
<1>8. IsList(losses \o lost) /\ Items(losses \o lost) = Items(losses) \cup Items(lost)
  BY <1>7, Joined
<1>9. IsList(unread \o conflict) /\ Items(unread \o conflict) = Items(unread) \cup Items(conflict)
  BY <1>7, Joined
<1>10. IsList(RasterReadSaid(j)) /\ (RasterFinds(j) => Items(conflict) \subseteq Items(RasterReadSaid(j)))
  <2>1. CASE RasterFinds(j)
    <3>1. RasterReadSaid(j) = <<>> \o (unread \o conflict)
      BY <1>3, <2>1 DEF RasterReadSaid
    <3>2. IsList(<<>>)
      BY Short
    <3> QED BY <1>9, <3>1, <3>2, Joined
  <2>2. CASE ~RasterFinds(j)
    <3>1. RasterReadSaid(j) = <<>>
      BY <2>2 DEF RasterReadSaid
    <3> QED BY <2>2, <3>1, Short
  <2> QED BY <2>1, <2>2
<1>11. IsList(RasterSaid(j)) /\ Items(RasterReadSaid(j)) \subseteq Items(RasterSaid(j))
  BY <1>5, <1>7, <1>10, Joined
<1>12. PICK most : most = (losses \o lost) \o RasterSaid(j)
  OBVIOUS
<1>13. IsList(most) /\ Items(most) = Items(losses) \cup Items(lost) \cup Items(RasterSaid(j))
  BY <1>8, <1>11, <1>12, Joined
<1>14. IsList(RasterDiagnostics(j)) /\ Items(RasterDiagnostics(j)) = Items(most) \cup Items(rejected)
  BY <1>6, <1>7, <1>12, <1>13, Joined
<1>15. ASSUME RasterFinds(j) PROVE \E d \in Items(RasterDiagnostics(j)) : d.id = <<"diag_loss", "text">>
  <2>1. R!TextLevel(j, R!OcrVerdict(j)) = "partial"
    BY <1>15 DEF RasterFinds, R!TextLevel
  <2>2. lost = <<text>>
    BY <1>2, <2>1
  <2>3. text \in Items(lost)
    BY <2>2, Short
  <2>4. text.id = <<"diag_loss", "text">>
    BY <1>1, RasterRecordIs DEF R!Loss
  <2> QED BY <1>13, <1>14, <2>3, <2>4
<1>16. ASSUME RasterFinds(j), R!NativeText(j) \notin {Nil, j.ocr.text}
       PROVE  \E d \in Items(RasterDiagnostics(j)) : d.code = "OCR_NATIVE_TEXT_CONFLICT"
  <2>1. conflict = <<differs>>
    BY <1>2, <1>16
  <2>2. differs \in Items(conflict)
    BY <2>1, Short
  <2>3. differs.code = "OCR_NATIVE_TEXT_CONFLICT"
    BY <1>1, RasterRecordIs
  <2> QED BY <1>10, <1>11, <1>13, <1>14, <1>16, <2>2, <2>3
<1>17. ASSUME R!OcrVerdict(j) \notin {"absent", "accepted"} PROVE \E d \in Items(RasterDiagnostics(j)) : d.code = R!OcrVerdict(j)
  <2>1. rejected = <<refused>>
    BY <1>2, <1>17
  <2>2. refused \in Items(rejected)
    BY <2>1, Short
  <2>3. refused.code = R!OcrVerdict(j)
    BY <1>1, RasterRecordIs DEF R!Rejection
  <2> QED BY <1>14, <2>2, <2>3
<1> QED BY <1>14, <1>15, <1>16, <1>17

\* A raster's package keeps what was observed, and what is inferred in it rests on the raster it was inferred from.
LEMMA InferenceAdds == ASSUME RasterBuilt PROVE R!InferenceOnlyAdds
<1> SUFFICES ASSUME R!Written PROVE R!InferenceOnlyAdds
  BY DEF R!InferenceOnlyAdds
<1>1. /\ R!IsRasterJob(job) /\ verdicts.ocr = R!OcrVerdict(job) /\ records = RasterRecords(job) /\ diagnostics = RasterDiagnostics(job)
  BY RasterAssumption DEF RasterBuilt, R!Written
<1>2. PICK b, o, v, read : b = R!Baseline(job) /\ o = OcrAdds(job) /\ v = VisionAdds(job) /\ read = b \o o
  OBVIOUS
<1>3. IsList(b) /\ IsList(o) /\ IsList(v) /\ records = read \o v
  BY <1>1, <1>2, RasterBaselineIs, RasterRecordsAre
<1>4. IsList(read) /\ Items(read) = Items(b) \cup Items(o) /\ IsList(records) /\ Items(records) = Items(read) \cup Items(v)
  BY <1>2, <1>3, Joined
<1>5. PICK m \in Nat, n \in Nat, l \in Nat :
        m = Len(b) /\ n = Len(o) /\ l = Len(v) /\ DOMAIN b = 1..m /\ DOMAIN o = 1..n /\ DOMAIN v = 1..l
  BY <1>3, ListIs
<1>6. /\ Len(read) = m + n /\ DOMAIN read = 1..m + n /\ \A a \in 1..m : read[a] = b[a]
      /\ \A a \in 1..m + n : a > m => a - m \in 1..n /\ read[a] = o[a - m]
  BY <1>2, <1>3, <1>5, JoinedPlaces
<1>7. /\ Len(records) = (m + n) + l /\ DOMAIN records = 1..(m + n) + l /\ \A a \in 1..m + n : records[a] = read[a]
      /\ \A a \in 1..(m + n) + l : a > m + n => a - (m + n) \in 1..l /\ records[a] = v[a - (m + n)]
  BY <1>3, <1>4, <1>5, <1>6, JoinedPlaces
<1>8. \A x \in Items(b) : OfSource(x)
  BY <1>1, <1>2, RasterBaselineIs
<1>9. R!Range(records) = Items(records)
  BY SameLists
<1>10. R!Filtered(records, {r \in R!Range(records) : r.class = "observed"}) = b
  <2>1. PICK rest : rest = o \o v
    OBVIOUS
  <2>2. records = b \o rest /\ IsList(rest) /\ Items(rest) = Items(o) \cup Items(v)
    <3>1. records = (b \o o) \o v
      BY <1>2, <1>3
    <3>2. (b \o o) \o v = b \o (o \o v)
      BY <1>3, JoinedInTurn
    <3> QED BY <1>3, <2>1, <3>1, <3>2, Joined
  <2>3. \A x \in Items(rest) : x.class # "observed"
    <3>1. \A a \in DOMAIN o : o[a].class # "observed"
      BY <1>1, <1>2, RasterRecordsAre
    <3>2. \A a \in DOMAIN v : v[a].class # "observed"
      BY <1>1, <1>2, RasterRecordsAre
    <3> QED BY <2>2, <3>1, <3>2 DEF Items
  <2>4. PICK T : T = {r \in R!Range(records) : r.class = "observed"}
    OBVIOUS
  <2>5. Items(b) \subseteq T /\ \A x \in Items(rest) : x \notin T
    BY <1>4, <1>8, <1>9, <2>3, <2>4 DEF OfSource
  <2>6. Filtered(b \o rest, T) = b
    BY <1>3, <2>2, <2>5, FilteredPrefix
  <2> QED BY <2>2, <2>4, <2>6, SameLists
<1>11. ASSUME NEW res, NEW c, R!Candidates(job, res.locator) = {c}
       PROVE  \E r \in R!Range(records) : r.id = R!Raster(c[1], c[2]) /\ r.content = res.locator
  <2>1. PICK x \in Items(b) : x.id = R!Raster(c[1], c[2]) /\ x.content = res.locator
    <3>1. c \in R!Candidates(job, res.locator)
      BY <1>11
    <3> QED BY <1>1, <1>2, <3>1, RasterBaselineIs
  <2> QED BY <1>4, <1>9, <2>1
<1>12. ASSUME NEW a \in 1..(m + n) + l, records[a].class = "inferred"
       PROVE  \E res \in {job.ocr, job.vision} \ {Nil} : \E c \in R!Candidates(job, res.locator) :
                /\ R!Candidates(job, res.locator) = {c}
                /\ \E r \in R!Range(records) : r.id = R!Raster(c[1], c[2]) /\ r.content = res.locator
                /\ ReadFrom(records, a, c)
  <2>1. a > m
    <3>1. ASSUME a \in 1..m PROVE FALSE
      <4>1. records[a] = b[a]
        BY <1>6, <1>7, <3>1
      <4>2. b[a] \in Items(b)
        BY <1>5, <3>1 DEF Items
      <4> QED BY <1>8, <1>12, <4>1, <4>2 DEF OfSource
    <3> QED BY <3>1
  <2>2. CASE a <= m + n
    <3>1. PICK k \in 1..n : k = a - m /\ a = m + k
      BY <1>6, <2>1, <2>2
    <3>2. records[a] = o[k] /\ read[a] = o[k]
      BY <1>6, <1>7, <2>1, <2>2, <3>1
    <3>3. RasterFinds(job) /\ ReadFrom(o, k, R!Target(job, job.ocr))
      BY <1>1, <1>2, <1>5, <1>12, <3>2, RasterRecordsAre
    <3>4. OcrSound(job)
      BY <1>1, <3>3, OcrIs DEF RasterFinds, R!OcrVerdict
    <3>5. PICK c : c = R!Target(job, job.ocr)
      OBVIOUS
    <3>6. job.ocr # Nil /\ R!Candidates(job, job.ocr.locator) = {c}
      BY <3>4, <3>5 DEF OcrSound
    <3>7. ReadFrom(read, a, c)
      BY <1>2, <1>3, <1>5, <3>1, <3>3, <3>5, ReadLater
    <3>8. ReadFrom(records, a, c)
      <4>1. a \in DOMAIN read
        BY <1>6, <2>1, <2>2
      <4> QED BY <1>3, <1>4, <3>7, <4>1, ReadLater
    <3>9. \E r \in R!Range(records) : r.id = R!Raster(c[1], c[2]) /\ r.content = job.ocr.locator
      BY <1>11, <3>6
    <3> QED BY <3>6, <3>8, <3>9
  <2>3. CASE a > m + n
    <3>1. PICK k \in 1..l : k = a - (m + n) /\ a = (m + n) + k
      BY <1>7, <2>3
    <3>2. RasterSees(job) /\ ReadFrom(v, k, R!Target(job, job.vision))
      BY <1>1, <1>2, <1>5, RasterRecordsAre
    <3>3. VisionSound(job)
      BY <1>1, <3>2, VisionIs
    <3>4. PICK c : c = R!Target(job, job.vision)
      OBVIOUS
    <3>5. job.vision # Nil /\ R!Candidates(job, job.vision.locator) = {c}
      BY <3>3, <3>4 DEF VisionSound
    <3>6. ReadFrom(records, a, c)
      BY <1>3, <1>4, <1>5, <1>6, <3>1, <3>2, <3>4, ReadLater
    <3>7. \E r \in R!Range(records) : r.id = R!Raster(c[1], c[2]) /\ r.content = job.vision.locator
      BY <1>11, <3>5
    <3> QED BY <3>5, <3>6, <3>7
  <2> QED BY <2>2, <2>3
<1>13. ASSUME RasterFinds(job), R!NativeText(job) \notin {Nil, job.ocr.text}
       PROVE  \E a \in R!Positions(records) :
                /\ records[a].content = "conflicted"
                /\ R!Names(R!OcrPrimitives(job)) \cup {R!Native(R!Target(job, job.ocr)[1])} \subseteq records[a].refs
                /\ \E d \in R!Range(diagnostics) : d.code = "OCR_NATIVE_TEXT_CONFLICT"
  <2>1. OcrSound(job)
    BY <1>1, <1>13, OcrIs DEF RasterFinds, R!OcrVerdict
  <2>2. /\ IsList(R!OcrPrimitives(job)) /\ IsList(R!Comparison(job))
        /\ \E x \in Items(R!Comparison(job)) : x.content = "conflicted"
             /\ R!Names(R!OcrPrimitives(job)) \cup {R!Native(R!Target(job, job.ocr)[1])} \subseteq x.refs
    BY <1>13, <2>1, OcrPrimitivesAre, ComparisonIs
  <2>3. o = R!OcrPrimitives(job) \o R!Comparison(job)
    BY <1>2, <1>13 DEF OcrAdds
  <2>4. Items(R!Comparison(job)) \subseteq Items(records)
    BY <1>4, <2>2, <2>3, Joined
  <2>5. PICK a \in DOMAIN records : records[a].content = "conflicted"
             /\ R!Names(R!OcrPrimitives(job)) \cup {R!Native(R!Target(job, job.ocr)[1])} \subseteq records[a].refs
    BY <2>2, <2>4 DEF Items
  <2>6. a \in R!Positions(records)
    BY <1>7, <2>5 DEF R!Positions
  <2>7. \E d \in R!Range(diagnostics) : d.code = "OCR_NATIVE_TEXT_CONFLICT"
    BY <1>1, <1>13, RasterDiagnosticsAre, SameLists
  <2> QED BY <2>5, <2>6, <2>7
<1>14. ASSUME NEW a \in R!Positions(records), records[a].class = "inferred"
       PROVE  \E res \in {job.ocr, job.vision} \ {Nil} : \E c \in R!Candidates(job, res.locator) :
                /\ R!Candidates(job, res.locator) = {c}
                /\ \E r \in R!Range(records) : r.id = R!Raster(c[1], c[2]) /\ r.content = res.locator
                /\ ReadFrom(records, a, c)
  BY <1>7, <1>12, <1>14 DEF R!Positions
<1>15. verdicts.ocr = "accepted" <=> RasterFinds(job)
  BY <1>1 DEF RasterFinds
<1> QED BY <1>2, <1>10, <1>13, <1>14, <1>15 DEF R!InferenceOnlyAdds, ReadFrom

\* A supplied OCR result is declared as used, or as rejected with nothing left of it.
LEMMA ResultsDeclared == ASSUME RasterBuilt PROVE R!ResultsAreDeclared
<1> SUFFICES ASSUME R!Written, job.ocr # Nil PROVE R!ResultsAreDeclared
  BY DEF R!ResultsAreDeclared
<1>1. /\ R!IsRasterJob(job) /\ verdicts.ocr = R!OcrVerdict(job) /\ records = RasterRecords(job) /\ diagnostics = RasterDiagnostics(job)
  BY RasterAssumption DEF RasterBuilt, R!Written
<1>2. verdicts.ocr # "absent"
  BY <1>1, OcrIs
<1>3. PICK tags : tags = {"ocr_word", "ocr_region", "ocr_table", "assert_ocr_native"}
  OBVIOUS
<1>4. ASSUME verdicts.ocr = "accepted" PROVE <<"diag_loss", "text">> \in R!Names(diagnostics)
  <2>1. PICK d \in Items(diagnostics) : d.id = <<"diag_loss", "text">>
    BY <1>1, <1>4, RasterDiagnosticsAre DEF RasterFinds
  <2>2. IsList(diagnostics)
    BY <1>1, RasterDiagnosticsAre
  <2>3. DOMAIN diagnostics = 1..Len(diagnostics)
    BY <2>2, ListIs
  <2> QED BY <2>1, <2>3 DEF R!Names, Items
<1>5. ASSUME verdicts.ocr # "accepted" PROVE \A r \in R!Range(records) : r.id[1] \notin tags
  <2>1. OcrAdds(job) = <<>>
    BY <1>1, <1>5 DEF OcrAdds, RasterFinds
  <2>2. Items(OcrAdds(job)) = {}
    BY <2>1, Short
  <2>3. IsList(R!Baseline(job)) /\ IsList(OcrAdds(job)) /\ IsList(VisionAdds(job)) /\ records = (R!Baseline(job) \o OcrAdds(job)) \o VisionAdds(job)
    BY <1>1, RasterBaselineIs, RasterRecordsAre
  <2>4. Items(records) = Items(R!Baseline(job)) \cup Items(VisionAdds(job))
    BY <2>2, <2>3, Joined
  <2>5. \A x \in Items(VisionAdds(job)) : x.id[1] \in {"vision", "assert_vision"}
    BY <1>1, RasterRecordsAre DEF Items
  <2>6. \A x \in Items(R!Baseline(job)) : x.id[1] \in {"source", "page", "text", "raster"}
    BY <1>1, RasterBaselineIs DEF OfSource
  <2> QED BY <1>3, <2>4, <2>5, <2>6, SameLists
<1>6. ASSUME verdicts.ocr # "accepted" PROVE \E d \in R!Range(diagnostics) : d.code = verdicts.ocr
  BY <1>1, <1>2, <1>6, RasterDiagnosticsAre, SameLists
<1> QED BY <1>3, <1>4, <1>5, <1>6 DEF R!ResultsAreDeclared

(***************************************************************************)
(* IFC.                                                                    *)
(***************************************************************************)
\* A list without repetitions has its first item once.
LEMMA TailIs ==
  ASSUME NEW s, IsList(s), s # <<>>, \A i, k \in DOMAIN s : s[i] = s[k] => i = k
  PROVE  /\ Head(s) \in Items(s) /\ IsList(Tail(s)) /\ Items(Tail(s)) \subseteq Items(s) \ {Head(s)}
         /\ \A i, k \in DOMAIN Tail(s) : Tail(s)[i] = Tail(s)[k] => i = k
<1>1. PICK n \in Nat : n = Len(s) /\ DOMAIN s = 1..n
  BY ListIs
<1>2. s \in Seq(Items(s)) /\ n # 0
  BY <1>1, EmptySeq DEF IsList
<1>3. PICK t : t = Tail(s)
  OBVIOUS
<1>4. t \in Seq(Items(s)) /\ Len(t) = n - 1 /\ \A i \in 1..Len(t) : t[i] = s[i + 1]
  BY <1>1, <1>2, <1>3, HeadTailProperties
<1>5. IsList(t) /\ DOMAIN t = 1..n - 1 /\ n - 1 \in Nat
  BY <1>1, <1>2, <1>4, ListIs
<1>6. Head(s) = s[1] /\ 1 \in DOMAIN s
  BY <1>1, <1>2
<1>7. \A i \in 1..n - 1 : t[i] = s[i + 1] /\ i + 1 \in DOMAIN s /\ i + 1 # 1
  BY <1>1, <1>4, <1>5
<1>8. Items(t) \subseteq Items(s) \ {Head(s)}
  BY <1>5, <1>6, <1>7 DEF Items
<1>9. \A i, k \in DOMAIN t : t[i] = t[k] => i = k
  <2>1. ASSUME NEW i \in 1..n - 1, NEW k \in 1..n - 1, t[i] = t[k] PROVE i = k
    <3>1. i + 1 = k + 1
      BY <1>7, <2>1
    <3> QED BY <3>1
  <2> QED BY <1>5, <2>1
<1> QED BY <1>3, <1>5, <1>6, <1>8, <1>9 DEF Items

(* A list without repetitions. *)
NoRepeat(s) == IsList(s) /\ \A i, k \in DOMAIN s : s[i] = s[k] => i = k

\* Two such lists that share no item make one.
LEMMA NoRepeatJoined ==
  ASSUME NEW s, NEW t, NoRepeat(s), NoRepeat(t), \A x \in Items(s) : x \notin Items(t) PROVE NoRepeat(s \o t)
<1>1. PICK both : both = s \o t
  OBVIOUS
<1>2. PICK m \in Nat, n \in Nat : m = Len(s) /\ n = Len(t) /\ DOMAIN s = 1..m /\ DOMAIN t = 1..n
  BY ListIs DEF NoRepeat
<1>3. /\ IsList(both) /\ DOMAIN both = 1..m + n /\ \A i \in 1..m : both[i] = s[i]
      /\ \A i \in 1..m + n : i > m => i - m \in 1..n /\ both[i] = t[i - m]
  BY <1>1, <1>2, JoinedPlaces, Joined DEF NoRepeat
<1>4. ASSUME NEW i \in 1..m + n, NEW k \in 1..m + n, both[i] = both[k], i <= m, k > m PROVE FALSE
  <2>1. both[i] = s[i] /\ i \in DOMAIN s /\ both[k] = t[k - m] /\ k - m \in DOMAIN t
    BY <1>2, <1>3, <1>4
  <2>2. s[i] \in Items(s) /\ t[k - m] \in Items(t)
    BY <2>1 DEF Items
  <2> QED BY <1>4, <2>1, <2>2
<1>5. ASSUME NEW i \in 1..m + n, NEW k \in 1..m + n, both[i] = both[k] PROVE i = k
  <2>1. CASE i <= m /\ k <= m
    BY <1>2, <1>3, <1>5, <2>1 DEF NoRepeat
  <2>2. CASE i > m /\ k > m
    <3>1. i - m = k - m
      BY <1>2, <1>3, <1>5, <2>2 DEF NoRepeat
    <3> QED BY <3>1
  <2> QED BY <1>4, <1>5, <2>1, <2>2
<1> QED BY <1>1, <1>3, <1>5 DEF NoRepeat

LEMMA NoRepeatShort == NoRepeat(<<>>) /\ \A x : NoRepeat(<<x>>)
<1>1. \A x : NoRepeat(<<x>>)
  <2>1. ASSUME NEW x PROVE NoRepeat(<<x>>)
    <3>1. IsList(<<x>>) /\ DOMAIN <<x>> = {1}
      BY Short
    <3> QED BY <3>1 DEF NoRepeat
  <2> QED BY <2>1
<1> QED BY <1>1, Short DEF NoRepeat

\* What the adapter calls lists, in order and for each of some.
LEMMA IfcSame ==
  /\ \A s : I!IsList(s) <=> IsList(s)
  /\ \A s : I!Range(s) = Items(s)
  /\ \A f : I!ForEach(f) = ForEach(f) /\ \A lists : I!Concat(lists) = Concat(lists) /\ \A T : I!ById(T) = Ascending(T)
  /\ \A T : I!Cardinality(T) = Cardinality(T) /\ (I!IsFiniteSet(T) <=> IsFiniteSet(T))
<1>1. \A s : I!IsList(s) <=> IsList(s)
  BY DEF I!IsList, I!Items, IsList, Items
<1>2. \A s : I!Range(s) = Items(s)
  BY DEF I!Range, Items
<1>3. \A T : I!Cardinality(T) = Cardinality(T)
  BY DEF I!Cardinality, Cardinality
<1>4. \A f : I!ForEach(f) = ForEach(f)
  BY DEF I!ForEach, ForEach, I!Enumeration, Enumeration, I!Some, Some, I!Cardinality, Cardinality
<1>5. \A lists : I!Concat(lists) = Concat(lists)
  BY DEF I!Concat, Concat
<1>6. \A T : I!ById(T) = Ascending(T)
  BY DEF I!ById, I!Ascending, Ascending, I!Cardinality, Cardinality
<1>7. \A T : I!IsFiniteSet(T) <=> IsFiniteSet(T)
  BY DEF I!IsFiniteSet, IsFiniteSet
<1> QED BY <1>1, <1>2, <1>3, <1>4, <1>5, <1>6, <1>7

IfcDrawn == IF job.version = "0.2.0" THEN I!Primitives \o I!PreviewRecord ELSE I!Primitives
IfcRecords == (<<I!Record(I!Source, {})>> \o IfcDrawn) \o I!Index
IfcDiagnostics == I!Diagnostics \o (IF job.version = "0.2.0" THEN I!Diagnostics02 ELSE <<>>)
Representations == DOMAIN I!File.representations
(* An issue of a representation that was looked at, or of a product that declares none. *)
IfcIssue(x) == x = <<x[1], x[2]>> /\ x[2] \in I!Instances /\ (x[1] = "NOT_DECLARED" \/ x[2] \notin Items(pending))
IfcBuilt ==
  /\ job \in IfcJobs
  /\ pc # "done" => outcome = "running"
  /\ NoRepeat(pending) /\ Items(pending) \subseteq Representations
  /\ IsList(profiles) /\ \A x \in Items(profiles) : x.id \in Representations
  /\ NoRepeat(issues) /\ \A x \in Items(issues) : IfcIssue(x)
  /\ pc = "arguments" => pending = <<>> /\ profiles = <<>> /\ issues = <<>>
  /\ pc = "2d" => records = I!Primitives /\ job.version = "0.2.0"
  /\ pc = "index" => records = IfcDrawn
  /\ outcome = "written" => records = IfcRecords /\ diagnostics = IfcDiagnostics

\* What is made of a file follows from the call and from what was found in it.
LEMMA IfcKept ==
  ASSUME UNCHANGED job
  PROVE  /\ I!Primitives' = I!Primitives /\ I!Index' = I!Index /\ I!Instances' = I!Instances /\ Representations' = Representations
         /\ I!Diagnostics' = I!Diagnostics
         /\ UNCHANGED profiles => IfcDrawn' = IfcDrawn
         /\ UNCHANGED issues => IfcDiagnostics' = IfcDiagnostics
<1>1. I!File' = I!File
  BY DEF I!File
<1>2. I!Instances' = I!Instances /\ Representations' = Representations
  BY <1>1 DEF I!Instances, Representations
<1>3. I!Primitives' = I!Primitives
  BY <1>2 DEF I!Primitives
<1>4. I!Index' = I!Index
  BY <1>1 DEF I!Index
<1>5. I!V03' <=> I!V03
  BY <1>1 DEF I!V03
<1>6. I!Georeference' = I!Georeference
  BY <1>1 DEF I!Georeference
<1>7. I!HasGeoreference' <=> I!HasGeoreference
  BY <1>6 DEF I!HasGeoreference
<1>8. I!Capabilities' = I!Capabilities
  BY <1>1, <1>7 DEF I!Capabilities
<1>9. I!Losses' = I!Losses
  BY <1>8 DEF I!Losses
<1>10. I!Diagnostics' = I!Diagnostics
  BY <1>1, <1>9 DEF I!Diagnostics
<1>11. UNCHANGED profiles => I!PreviewRecord' = I!PreviewRecord
  BY DEF I!PreviewRecord
<1>12. \A geo : I!GlobalLocation(geo)' = I!GlobalLocation(geo)
  <2>1. \A op, crs : I!Incomplete(op, crs)' <=> I!Incomplete(op, crs)
    BY <1>5 DEF I!Incomplete
  <2> QED BY <2>1 DEF I!GlobalLocation
<1>13. I!GlobalLocation(I!Georeference)' = I!GlobalLocation(I!Georeference)
  BY <1>6, <1>12
<1>14. UNCHANGED issues => I!Diagnostics02' = I!Diagnostics02
  BY <1>13 DEF I!Diagnostics02
<1> QED BY <1>2, <1>3, <1>4, <1>10, <1>11, <1>14 DEF IfcDrawn, IfcDiagnostics

\* The issues of a representation.
LEMMA IssuesAre ==
  ASSUME NEW r
  PROVE  NoRepeat(I!IssuesOf(r)) /\ \A x \in Items(I!IssuesOf(r)) : x = <<x[1], r>> /\ x[2] = r /\ x[1] # "NOT_DECLARED"
<1>1. PICK a, b, c : /\ a = <<"REPRESENTATION_EMPTY", r>> /\ b = <<"ITEM_UNSUPPORTED", r>> /\ c = <<"EXTRACTION_FAILED", r>>
  OBVIOUS
<1>2. PICK p, q, u : /\ p = (IF I!ProfileState(r) = "empty" THEN <<a>> ELSE <<>>)
                     /\ q = (IF "unsupported" \in I!ItemStates(r) THEN <<b>> ELSE <<>>)
                     /\ u = (IF "extraction_failed" \in I!ItemStates(r) THEN <<c>> ELSE <<>>)
  OBVIOUS
<1>3. I!IssuesOf(r) = (p \o q) \o u
  BY <1>1, <1>2 DEF I!IssuesOf
<1>4. NoRepeat(p) /\ NoRepeat(q) /\ NoRepeat(u)
  BY <1>2, NoRepeatShort
<1>5. Items(p) \subseteq {a} /\ Items(q) \subseteq {b} /\ Items(u) \subseteq {c}
  BY <1>2, Short
<1>6. a # b /\ a # c /\ b # c
  BY <1>1
<1>7. NoRepeat(p \o q) /\ Items(p \o q) = Items(p) \cup Items(q)
  BY <1>4, <1>5, <1>6, NoRepeatJoined, Joined DEF NoRepeat
<1>8. NoRepeat((p \o q) \o u) /\ Items((p \o q) \o u) = Items(p \o q) \cup Items(u)
  BY <1>4, <1>5, <1>6, <1>7, NoRepeatJoined, Joined DEF NoRepeat
<1>9. \A x \in {a, b, c} : x = <<x[1], r>> /\ x[2] = r /\ x[1] # "NOT_DECLARED"
  BY <1>1
<1> QED BY <1>3, <1>5, <1>7, <1>8, <1>9

\* A step of the IFC adapter keeps this.
LEMMA IfcBuiltKeeps == ASSUME IfcBuilt, [I!Next]_(I!vars) PROVE IfcBuilt'
<1>0. UNCHANGED job
  BY Zenon DEF I!vars, I!Next, I!Refuse, I!Extract, I!Represent, I!Represented, I!Write
<1>1. CASE UNCHANGED I!vars
  <2>1. UNCHANGED <<job, pc, pending, profiles, notes, preview, issues, records, diagnostics, outcome>>
    BY <1>1 DEF I!vars, I!drawing
  <2>2. IfcRecords' = IfcRecords
    BY <2>1, IfcKept DEF IfcRecords
  <2>3. \A x : IfcIssue(x)' <=> IfcIssue(x)
    BY <2>1, IfcKept DEF IfcIssue
  <2> QED BY <2>1, <2>2, <2>3, IfcKept DEF IfcBuilt
<1>2. CASE I!Refuse
  <2>1. UNCHANGED <<job, pending, profiles, notes, preview, issues, records, diagnostics>> /\ pc' = "done" /\ outcome' = "ValueError"
    BY <1>2 DEF I!Refuse, I!drawing
  <2>2. \A x : IfcIssue(x)' <=> IfcIssue(x)
    BY <2>1, IfcKept DEF IfcIssue
  <2> QED BY <2>1, <2>2, IfcKept DEF IfcBuilt
<1>3. CASE I!Extract
  <2>1. PICK products : products = DOMAIN I!File.products
    OBVIOUS
  <2>2. PICK all : all = (UNION {I!File.products[id].representations : id \in products}) \ {Nil}
    OBVIOUS
  <2>3. I!IsIfcJob(job)
    BY IfcAssumption DEF IfcBuilt
  <2>4. /\ products \subseteq Nat /\ IsFiniteSet(products) /\ Representations \subseteq Nat /\ IsFiniteSet(Representations)
        /\ \A id \in products : I!File.products[id].representations \ {Nil} \subseteq Representations
    <3>1. \A T \in {DOMAIN job.file.items, DOMAIN job.file.representations, DOMAIN job.file.products, DOMAIN job.file.relations} :
            T \subseteq Nat /\ IsFiniteSet(T)
      <4>1. \A T \in {DOMAIN job.file.items, DOMAIN job.file.representations, DOMAIN job.file.products, DOMAIN job.file.relations} :
              T \subseteq Nat /\ I!IsFiniteSet(T)
        BY <2>3 DEF I!IsIfcJob
      <4> QED BY <4>1, IfcSame
    <3>2. products = DOMAIN job.file.products /\ Representations = DOMAIN job.file.representations
      BY <2>1 DEF I!File, Representations
    <3>3. \A id \in DOMAIN job.file.products : job.file.products[id].representations \ {Nil} \subseteq DOMAIN job.file.representations
      BY <2>3 DEF I!IsIfcJob
    <3>4. \A id \in products : I!File.products[id].representations \ {Nil} \subseteq Representations
      BY <3>2, <3>3 DEF I!File
    <3> QED BY <3>1, <3>2, <3>4
  <2>5. all \subseteq Representations
    <3>1. ASSUME NEW x \in all PROVE x \in Representations
      <4>1. x # Nil /\ \E id \in products : x \in I!File.products[id].representations
        BY <2>2, <3>1
      <4>2. PICK id \in products : x \in I!File.products[id].representations
        BY <4>1
      <4> QED BY <2>4, <4>1, <4>2
    <3> QED BY <3>1
  <2>6. all \in SUBSET Nat /\ IsFiniteSet(all)
    BY <2>4, <2>5, FS_Subset
  <2>7. NoRepeat(Ascending(all)) /\ Items(Ascending(all)) = all
    BY <2>6, AscendingIs DEF NoRepeat
  <2>8. I!Undeclared \subseteq products
    BY <2>1 DEF I!Undeclared
  <2>9. I!Undeclared \in SUBSET Nat /\ IsFiniteSet(I!Undeclared)
    BY <2>4, <2>8, FS_Subset
  <2>10. PICK first : first = Ascending(I!Undeclared)[1]
    OBVIOUS
  <2>11. I!Undeclared # {} => first \in I!Instances
    <3>1. ASSUME I!Undeclared # {} PROVE first \in I!Instances
      <4>1. IsList(Ascending(I!Undeclared)) /\ Items(Ascending(I!Undeclared)) = I!Undeclared
        BY <2>9, AscendingIs
      <4>2. PICK n \in Nat : DOMAIN Ascending(I!Undeclared) = 1..n
        BY <4>1, ListIs
      <4>3. n # 0
        BY <3>1, <4>1, <4>2 DEF Items
      <4>4. first \in I!Undeclared
        BY <2>10, <4>1, <4>2, <4>3 DEF Items
      <4> QED BY <2>1, <2>8, <4>4 DEF I!Instances
    <3> QED BY <3>1
  <2>12. PICK none : none = IF I!Undeclared = {} THEN <<>> ELSE <<<<"NOT_DECLARED", first>>>>
    OBVIOUS
  <2>13. NoRepeat(none) /\ \A x \in Items(none) : x = <<x[1], x[2]>> /\ x[2] \in I!Instances /\ x[1] = "NOT_DECLARED"
    <3>1. CASE I!Undeclared = {}
      BY <2>12, <3>1, Short, NoRepeatShort
    <3>2. CASE I!Undeclared # {}
      <4>1. PICK x : x = <<"NOT_DECLARED", first>>
        OBVIOUS
      <4>2. none = <<x>> /\ Items(<<x>>) = {x} /\ NoRepeat(<<x>>)
        BY <2>12, <3>2, <4>1, Short, NoRepeatShort
      <4>3. x = <<x[1], x[2]>> /\ x[2] \in I!Instances /\ x[1] = "NOT_DECLARED"
        BY <2>11, <3>2, <4>1
      <4> QED BY <4>2, <4>3
    <3> QED BY <3>1, <3>2
  <2>14. /\ pc = "arguments" /\ records' = I!Primitives /\ UNCHANGED <<job, profiles, diagnostics, outcome>> /\ outcome = "running"
         /\ \/ job.version = "0.2.0" /\ pc' = "2d" /\ pending' = Ascending(all) /\ issues' = none
            \/ job.version # "0.2.0" /\ pc' = "index" /\ UNCHANGED <<pending, issues>>
    BY <1>3, <2>1, <2>2, <2>10, <2>12, IfcSame DEF I!Extract, IfcBuilt
  <2>15. \A x \in Items(issues') : IfcIssue(x)'
    <3>1. CASE issues' = none
      BY <1>0, <2>13, <3>1, IfcKept DEF IfcIssue
    <3>2. CASE issues' = issues /\ issues = <<>>
      BY <3>2, Short
    <3> QED BY <2>14, <3>1, <3>2 DEF IfcBuilt
  <2>16. NoRepeat(pending') /\ Items(pending') \subseteq Representations' /\ NoRepeat(issues')
    BY <1>0, <2>5, <2>7, <2>13, <2>14, IfcKept DEF IfcBuilt
  <2>17. pc' = "index" => records' = IfcDrawn'
    BY <1>0, <2>14, IfcKept DEF IfcDrawn
  <2>18. records' = I!Primitives'
    BY <1>0, <2>14, IfcKept
  <2> QED BY <1>0, <2>14, <2>15, <2>16, <2>17, <2>18, IfcKept DEF IfcBuilt
<1>4. CASE I!Represent
  <2>1. PICK r : r = Head(pending)
    OBVIOUS
  <2>2. /\ pc = "2d" /\ pending # <<>> /\ pending' = Tail(pending) /\ UNCHANGED <<job, pc, records, diagnostics, outcome>>
        /\ \/ UNCHANGED <<profiles, issues>>
           \/ /\ profiles' = Append(profiles, [id |-> r, state |-> I!ProfileState(r)])
              /\ issues' = issues \o I!IssuesOf(r)
    BY <1>4, <2>1 DEF I!Represent
  <2>3. /\ r \in Items(pending) /\ NoRepeat(pending') /\ Items(pending') \subseteq Items(pending) \ {r}
    BY <2>1, <2>2, TailIs DEF IfcBuilt, NoRepeat
  <2>4. r \in Representations /\ r \in I!Instances
    BY <2>3 DEF IfcBuilt, Representations, I!Instances
  <2>5. \A x \in Items(issues) : IfcIssue(x)'
    BY <1>0, <2>3, IfcKept DEF IfcBuilt, IfcIssue
  <2>6. \A x \in Items(I!IssuesOf(r)) : IfcIssue(x)' /\ x \notin Items(issues)
    <3>1. ASSUME NEW x \in Items(I!IssuesOf(r)) PROVE IfcIssue(x)' /\ x \notin Items(issues)
      <4>1. x = <<x[1], r>> /\ x[2] = r /\ x[1] # "NOT_DECLARED"
        BY IssuesAre
      <4>2. IfcIssue(x)'
        BY <1>0, <2>3, <2>4, <4>1, IfcKept DEF IfcIssue
      <4> QED BY <2>3, <4>1, <4>2 DEF IfcBuilt, IfcIssue
    <3> QED BY <3>1
  <2>7. NoRepeat(issues') /\ \A x \in Items(issues') : IfcIssue(x)'
    <3>1. CASE issues' = issues
      BY <2>5, <3>1 DEF IfcBuilt
    <3>2. CASE issues' = issues \o I!IssuesOf(r)
      <4>1. NoRepeat(issues \o I!IssuesOf(r)) /\ Items(issues \o I!IssuesOf(r)) = Items(issues) \cup Items(I!IssuesOf(r))
        BY <2>6, IssuesAre, NoRepeatJoined, Joined DEF IfcBuilt, NoRepeat
      <4> QED BY <2>5, <2>6, <3>2, <4>1
    <3> QED BY <2>2, <3>1, <3>2
  <2>8. IsList(profiles') /\ \A x \in Items(profiles') : x.id \in Representations'
    <3>1. CASE profiles' = profiles
      BY <1>0, <3>1, IfcKept DEF IfcBuilt
    <3>2. CASE profiles' = Append(profiles, [id |-> r, state |-> I!ProfileState(r)])
      <4>1. PICK x : x = [id |-> r, state |-> I!ProfileState(r)]
        OBVIOUS
      <4>2. PICK n \in Nat : n = Len(profiles) /\ DOMAIN profiles = 1..n
        BY ListIs DEF IfcBuilt
      <4>3. /\ IsList(Append(profiles, x)) /\ DOMAIN Append(profiles, x) = 1..n + 1
            /\ \A k \in 1..n : Append(profiles, x)[k] = profiles[k]
            /\ Append(profiles, x)[n + 1] = x
        BY <4>2, AppendIs DEF IfcBuilt
      <4>4. \A y \in Items(Append(profiles, x)) : y = x \/ y \in Items(profiles)
        BY <4>2, <4>3 DEF Items
      <4> QED BY <1>0, <2>4, <3>2, <4>1, <4>3, <4>4, IfcKept DEF IfcBuilt
    <3> QED BY <2>2, <3>1, <3>2
  <2> QED BY <1>0, <2>2, <2>3, <2>7, <2>8, IfcKept DEF IfcBuilt
<1>5. CASE I!Represented
  <2>1. /\ UNCHANGED <<job, pending, profiles, notes, preview, issues, diagnostics, outcome>> /\ pc = "2d" /\ pc' = "index"
        /\ records' = records \o I!PreviewRecord
    BY <1>5 DEF I!Represented, I!drawing
  <2>2. \A x : IfcIssue(x)' <=> IfcIssue(x)
    BY <2>1, IfcKept DEF IfcIssue
  <2>3. records' = IfcDrawn
    BY <2>1 DEF IfcBuilt, IfcDrawn
  <2>4. IfcDrawn' = IfcDrawn
    BY <2>1, IfcKept
  <2> QED BY <2>1, <2>2, <2>3, <2>4, IfcKept DEF IfcBuilt
<1>6. CASE I!Write
  <2>1. UNCHANGED <<job, pending, profiles, notes, preview, issues>> /\ pc = "index" /\ pc' = "done" /\ outcome' = "written"
    BY <1>6 DEF I!Write, I!drawing
  <2>2. \A x : IfcIssue(x)' <=> IfcIssue(x)
    BY <2>1, IfcKept DEF IfcIssue
  <2>3. records' = IfcRecords /\ diagnostics' = IfcDiagnostics
    BY <1>6, <2>1 DEF I!Write, IfcBuilt, IfcRecords, IfcDiagnostics
  <2>4. IfcRecords' = IfcRecords /\ IfcDiagnostics' = IfcDiagnostics
    BY <2>1, IfcKept DEF IfcRecords
  <2> QED BY <2>1, <2>2, <2>3, <2>4, IfcKept DEF IfcBuilt
<1> QED BY <1>1, <1>2, <1>3, <1>4, <1>5, <1>6 DEF I!Next

\* A record has what it is made from, and its name begins with its kind.
LEMMA IfcRecordIs ==
  /\ \A id, refs : I!Record(id, refs).id = id /\ I!Record(id, refs).refs = refs
  /\ \A a, b, refs : I!Record(<<a, b>>, refs).id[1] = a
  /\ \A a, b, c, refs : I!Record(<<a, b, c>>, refs).id[1] = a
<1>1. \A id, refs : I!Record(id, refs).id = id /\ I!Record(id, refs).refs = refs
  BY DEF I!Record
<1>2. \A a, b : <<a, b>>[1] = a
  OBVIOUS
<1>3. \A a, b, c : <<a, b, c>>[1] = a
  OBVIOUS
<1> QED BY <1>1, <1>2, <1>3

\* The capabilities that IFC loses are few.
LEMMA IfcLossesFinite == IsFiniteSet(I!Losses)
<1>1. PICK few : few = {"2d_geometry", "georeferencing", "3d_geometry", "properties"}
  OBVIOUS
<1>2. IsFiniteSet(few)
  <2>1. \A c : IsFiniteSet({c})
    BY FS_Singleton
  <2>2. IsFiniteSet({"2d_geometry"} \cup {"georeferencing"}) /\ IsFiniteSet({"3d_geometry"} \cup {"properties"})
    BY <2>1, FS_Union
  <2>3. few = ({"2d_geometry"} \cup {"georeferencing"}) \cup ({"3d_geometry"} \cup {"properties"})
    BY <1>1
  <2> QED BY <2>2, <2>3, FS_Union
<1>3. I!Losses \subseteq few
  BY <1>1 DEF I!Losses, I!Capabilities
<1> QED BY <1>2, <1>3, FS_Subset

\* I!LocationIsDeclared.  The reason why a file is nowhere is the only record of its kind among the diagnostics.
LEMMA LocationDeclared == ASSUME IfcBuilt PROVE I!LocationIsDeclared
<1> SUFFICES ASSUME I!Written, job.version = "0.2.0" PROVE
      /\ I!Last(I!TransformChain(I!Georeference)).state = I!GlobalLocation(I!Georeference).state
      /\ I!GlobalLocation(I!Georeference).state = "known" =>
           /\ I!ValidationRefusesLocation <=> ~I!Georeference.wcs
           /\ Len(I!Georeference.operations) = 1 /\ Len(I!Georeference.crs) = 1 /\ I!Georeference.unit
           /\ I!Georeference.operations[1].parameters = "finite"
           /\ I!Georeference.operations[1].scaled => I!Georeference.operations[1].factors = "positive"
      /\ (I!GlobalLocation(I!Georeference).state # "known") = \E a \in DOMAIN diagnostics : diagnostics[a].id[1] = "diag_ifc_v02_georef"
  BY DEF I!LocationIsDeclared
<1>1. PICK geo : geo = I!Georeference
  OBVIOUS
<1>2. PICK location : location = I!GlobalLocation(geo)
  OBVIOUS
<1>3. I!Last(I!TransformChain(geo)).state = location.state
  <2>1. PICK a, b : /\ a = [from |-> "source", to |-> "project", state |-> IF geo.wcs THEN "known" ELSE "unknown"]
                    /\ b = [from |-> "project", to |-> "crs", state |-> location.state]
    OBVIOUS
  <2>2. I!TransformChain(geo) = <<a, b>>
    BY <1>2, <2>1 DEF I!TransformChain
  <2> QED BY <2>1, <2>2 DEF I!Last
<1>20. ASSUME location.state = "known" PROVE I!ValidationRefusesLocation <=> ~geo.wcs
  <2>1. PICK a, b : /\ a = [from |-> "source", to |-> "project", state |-> IF geo.wcs THEN "known" ELSE "unknown"]
                    /\ b = [from |-> "project", to |-> "crs", state |-> location.state]
    OBVIOUS
  <2>2. I!TransformChain(geo) = <<a, b>>
    BY <1>2, <2>1 DEF I!TransformChain
  <2>3. I!ChainIsKnown <=> a.state = "known" /\ b.state = "known"
    BY <1>1, <2>2 DEF I!ChainIsKnown
  <2>4. b.state = "known" /\ (a.state = "known" <=> geo.wcs)
    BY <1>20, <2>1
  <2>5. I!ValidationRefusesLocation <=> ~I!ChainIsKnown
    BY <1>1, <1>2, <1>20 DEF I!ValidationRefusesLocation
  <2> QED BY <2>3, <2>4, <2>5
<1>4. location.state = "known" =>
        /\ Len(geo.operations) = 1 /\ Len(geo.crs) = 1 /\ geo.unit
        /\ geo.operations[1].parameters = "finite"
        /\ geo.operations[1].scaled => geo.operations[1].factors = "positive"
  BY <1>2 DEF I!GlobalLocation, I!At, I!Incomplete
<1>5. PICK tag : tag = "diag_ifc_v02_georef"
  OBVIOUS
<1>6. PICK statements : statements = [k \in 1..I!File.statements |-> I!Record(<<"diag_ifc_validation", k>>, {I!Source})]
  OBVIOUS
<1>7. PICK lost : lost = I!ForEach([c \in I!Losses |-> I!Record(<<"diag_ifc_loss", c>>, {I!Source})])
  OBVIOUS
<1>8. PICK found : found = [k \in DOMAIN issues |-> I!Record(<<"diag_ifc_v02_2d", issues[k][1], issues[k][2]>>, {I!Prim(issues[k][2])})]
  OBVIOUS
<1>9. PICK placed : placed = IF location.state = "known" THEN <<>>
                             ELSE <<I!Record(<<"diag_ifc_v02_georef", location.reason>>, {I!Source})>>
  OBVIOUS
<1>10. diagnostics = (statements \o lost) \o (found \o placed)
  BY <1>1, <1>2, <1>6, <1>7, <1>8, <1>9 DEF IfcBuilt, I!Written, IfcDiagnostics, I!Diagnostics, I!Diagnostics02
<1>11. IsList(statements) /\ \A x \in Items(statements) : x.id[1] # tag
  <2>1. I!File.statements \in Nat
    BY IfcAssumption DEF IfcBuilt, I!IsIfcJob, I!File
  <2>2. PICK n \in Nat : n = I!File.statements
    BY <2>1
  <2>3. \A k \in 1..n : statements[k] = I!Record(<<"diag_ifc_validation", k>>, {I!Source})
    BY <1>6, <2>2
  <2>4. IsList(statements) /\ DOMAIN statements = 1..n
    BY <1>6, <2>2, FunctionIsList
  <2>5. \A k \in 1..n : statements[k].id[1] # tag
    <3>1. ASSUME NEW k \in 1..n PROVE statements[k].id[1] # tag
      <4>1. PICK x : x = <<"diag_ifc_validation", k>>
        OBVIOUS
      <4>2. x[1] # tag
        BY <1>5, <4>1
      <4>3. statements[k].id = x
        BY <2>3, <4>1, IfcRecordIs
      <4> QED BY <4>2, <4>3
    <3> QED BY <3>1
  <2> QED BY <2>4, <2>5 DEF Items
<1>12. IsList(lost) /\ \A x \in Items(lost) : x.id[1] # tag
  <2>1. PICK f : f = [c \in I!Losses |-> I!Record(<<"diag_ifc_loss", c>>, {I!Source})]
    OBVIOUS
  <2>2. DOMAIN f = I!Losses /\ \A c \in I!Losses : f[c] = I!Record(<<"diag_ifc_loss", c>>, {I!Source})
    BY <2>1
  <2>3. IsFiniteSet(I!Losses)
    BY IfcLossesFinite
  <2>6. lost = ForEach(f)
    BY <1>7, <2>1, IfcSame
  <2>7. IsList(ForEach(f)) /\ Items(ForEach(f)) = {f[x] : x \in DOMAIN f}
    BY <2>2, <2>3, ForEachIs
  <2>4. IsList(lost) /\ \A x \in Items(lost) : \E c \in I!Losses : x = f[c]
    BY <2>2, <2>6, <2>7
  <2>5. \A c \in I!Losses : f[c].id[1] # tag
    <3>1. ASSUME NEW c \in I!Losses PROVE f[c].id[1] # tag
      <4>1. PICK x : x = <<"diag_ifc_loss", c>>
        OBVIOUS
      <4>2. x[1] # tag
        BY <1>5, <4>1
      <4>3. f[c].id = x
        BY <2>2, <4>1, IfcRecordIs
      <4> QED BY <4>2, <4>3
    <3> QED BY <3>1
  <2> QED BY <2>4, <2>5
<1>13. IsList(found) /\ \A x \in Items(found) : x.id[1] # tag
  <2>1. PICK n \in Nat : n = Len(issues) /\ DOMAIN issues = 1..n
    BY ListIs DEF IfcBuilt, NoRepeat
  <2>2. \A k \in 1..n : found[k] = I!Record(<<"diag_ifc_v02_2d", issues[k][1], issues[k][2]>>, {I!Prim(issues[k][2])})
    BY <1>8, <2>1
  <2>3. IsList(found) /\ DOMAIN found = 1..n
    BY <1>8, <2>1, FunctionIsList
  <2>4. \A k \in 1..n : found[k].id[1] # tag
    <3>1. ASSUME NEW k \in 1..n PROVE found[k].id[1] # tag
      <4>1. PICK x : x = <<"diag_ifc_v02_2d", issues[k][1], issues[k][2]>>
        OBVIOUS
      <4>2. x[1] # tag
        BY <1>5, <4>1
      <4>5. PICK refs : refs = {I!Prim(issues[k][2])}
        OBVIOUS
      <4>6. found[k] = I!Record(x, refs)
        BY <2>2, <4>1, <4>5
      <4>3. found[k].id = x
        BY <4>6, IfcRecordIs
      <4> QED BY <4>2, <4>3
    <3> QED BY <3>1
  <2> QED BY <2>3, <2>4 DEF Items
<1>14. /\ IsList(placed)
       /\ location.state = "known" => Items(placed) = {}
       /\ location.state # "known" => \E x \in Items(placed) : x.id[1] = tag
  <2>1. PICK x : x = I!Record(<<"diag_ifc_v02_georef", location.reason>>, {I!Source})
    OBVIOUS
  <2>2. x.id[1] = tag
    BY <1>5, <2>1, IfcRecordIs
  <2>3. CASE location.state = "known"
    BY <1>9, <2>3, Short
  <2>4. CASE location.state # "known"
    <3>1. placed = <<x>>
      BY <1>9, <2>1, <2>4
    <3> QED BY <2>2, <2>4, <3>1, Short
  <2> QED BY <2>3, <2>4
<1>15. Items(diagnostics) = (Items(statements) \cup Items(lost)) \cup (Items(found) \cup Items(placed))
  <2>1. IsList(statements \o lost) /\ Items(statements \o lost) = Items(statements) \cup Items(lost)
    BY <1>11, <1>12, Joined
  <2>2. IsList(found \o placed) /\ Items(found \o placed) = Items(found) \cup Items(placed)
    BY <1>13, <1>14, Joined
  <2> QED BY <1>10, <2>1, <2>2, Joined
<1>16. (location.state # "known") <=> \E x \in Items(diagnostics) : x.id[1] = tag
  BY <1>11, <1>12, <1>13, <1>14, <1>15
<1>17. (location.state # "known") = \E a \in DOMAIN diagnostics : diagnostics[a].id[1] = "diag_ifc_v02_georef"
  BY <1>5, <1>16 DEF Items
<1> QED BY <1>1, <1>2, <1>3, <1>4, <1>17, <1>20

(***************************************************************************)
(* Packages hold together: their identifiers are distinct, and what their  *)
(* records and diagnostics name is in them.  Identifiers are told apart by *)
(* their kind, then by what they are for.                                  *)
(***************************************************************************)
OfKinds(s, kinds) == Distinct(s) /\ \A x \in Ids(s) : x[1] \in kinds

\* Lists of different kinds.
LEMMA KindsJoined ==
  ASSUME NEW s, NEW t, NEW A, NEW B, OfKinds(s, A), OfKinds(t, B), A \cap B = {}
  PROVE  OfKinds(s \o t, A \cup B) /\ Ids(s \o t) = Ids(s) \cup Ids(t) /\ Items(s \o t) = Items(s) \cup Items(t)
<1>1. \A x \in Ids(s) : x \notin Ids(t)
  BY DEF OfKinds
<1>2. Distinct(s \o t) /\ Ids(s \o t) = Ids(s) \cup Ids(t) /\ Items(s \o t) = Items(s) \cup Items(t)
  BY <1>1, DistinctPair DEF OfKinds
<1> QED BY <1>2 DEF OfKinds

\* One record, or none.
LEMMA KindsFew ==
  ASSUME NEW r, NEW kinds, r.id[1] \in kinds
  PROVE  OfKinds(<<r>>, kinds) /\ Ids(<<r>>) = {r.id} /\ Items(<<r>>) = {r} /\ OfKinds(<<>>, kinds) /\ Ids(<<>>) = {} /\ Items(<<>>) = {}
BY DistinctTogether DEF OfKinds

\* A record for each of a finite set, named by its kind and by what it is for.
ByKind(f, kind) == \A x \in DOMAIN f : f[x].id = <<kind, x>>
LEMMA KindEach ==
  ASSUME NEW f, IsFiniteSet(DOMAIN f), NEW kind, ByKind(f, kind)
  PROVE  OfKinds(ForEach(f), {kind}) /\ Ids(ForEach(f)) = {<<kind, x>> : x \in DOMAIN f} /\ Items(ForEach(f)) = {f[x] : x \in DOMAIN f}
<1>1. \A x, y \in DOMAIN f : f[x].id = f[y].id => x = y
  BY DEF ByKind
<1>2. Distinct(ForEach(f)) /\ Ids(ForEach(f)) = {f[x].id : x \in DOMAIN f}
  BY <1>1, DistinctEach
<1>3. Items(ForEach(f)) = {f[x] : x \in DOMAIN f}
  BY ForEachIs
<1>4. {f[x].id : x \in DOMAIN f} = {<<kind, x>> : x \in DOMAIN f}
  BY DEF ByKind
<1>5. \A x : <<kind, x>>[1] = kind
  OBVIOUS
<1> QED BY <1>2, <1>3, <1>4, <1>5 DEF OfKinds

\* Lists of records for each of a finite set, whose identifiers tell which of the set they are for.
Apart(f) == \A x, y \in DOMAIN f : \A i \in Ids(f[x]) : i \in Ids(f[y]) => x = y
LEMMA KindLists ==
  ASSUME NEW f, IsFiniteSet(DOMAIN f), NEW kind, \A x \in DOMAIN f : OfKinds(f[x], {kind}), Apart(f)
  PROVE  /\ OfKinds(Concat(ForEach(f)), {kind})
         /\ Ids(Concat(ForEach(f))) = UNION {Ids(f[x]) : x \in DOMAIN f}
         /\ Items(Concat(ForEach(f))) = UNION {Items(f[x]) : x \in DOMAIN f}
<1>1. PICK lists : lists = ForEach(f)
  OBVIOUS
<1>2. /\ IsList(lists) /\ Items(lists) = {f[x] : x \in DOMAIN f}
      /\ \E order \in Bijection(DOMAIN lists, DOMAIN f) : \A k \in DOMAIN lists : lists[k] = f[order[k]]
  BY <1>1, ForEachIs
<1>3. PICK order \in Bijection(DOMAIN lists, DOMAIN f) : \A k \in DOMAIN lists : lists[k] = f[order[k]]
  BY <1>2
<1>4. \A j, k \in DOMAIN lists : order[j] \in DOMAIN f /\ (order[j] = order[k] => j = k)
  BY <1>3 DEF Bijection, Injection, IsInjective
<1>5. \A k \in DOMAIN lists : Distinct(lists[k]) /\ IsList(lists[k])
  BY <1>3, <1>4 DEF OfKinds, Distinct
<1>6. \A j, k \in DOMAIN lists : \A i \in Ids(lists[j]) : i \in Ids(lists[k]) => j = k
  BY <1>3, <1>4 DEF Apart
<1>7. PICK all : all = Concat(lists)
  OBVIOUS
<1>8. Distinct(all) /\ Items(all) = Joins(lists)
  BY <1>2, <1>5, <1>6, <1>7, ConcatIs
<1>9. Joins(lists) = UNION {Items(f[x]) : x \in DOMAIN f}
  <2>1. Joins(lists) = UNION {Items(l) : l \in Items(lists)}
    BY DEF Joins, Items
  <2> QED BY <1>2, <2>1
<1>10. Ids(all) = UNION {Ids(f[x]) : x \in DOMAIN f}
  <2>1. Ids(all) = {r.id : r \in UNION {Items(f[x]) : x \in DOMAIN f}}
    BY <1>8, <1>9, IdsAre
  <2>2. \A x \in DOMAIN f : Ids(f[x]) = {r.id : r \in Items(f[x])}
    BY IdsAre
  <2>3. ASSUME NEW i \in Ids(all) PROVE i \in UNION {Ids(f[x]) : x \in DOMAIN f}
    <3>1. PICK r \in UNION {Items(f[x]) : x \in DOMAIN f} : i = r.id
      BY <2>1, <2>3
    <3>2. PICK x \in DOMAIN f : r \in Items(f[x])
      BY <3>1
    <3> QED BY <2>2, <3>1, <3>2
  <2>4. ASSUME NEW x \in DOMAIN f, NEW i \in Ids(f[x]) PROVE i \in Ids(all)
    <3>1. PICK r \in Items(f[x]) : i = r.id
      BY <2>2, <2>4
    <3>2. r \in UNION {Items(f[y]) : y \in DOMAIN f}
      BY <3>1
    <3> QED BY <2>1, <3>1, <3>2
  <2> QED BY <2>3, <2>4
<1>11. \A i \in Ids(all) : i[1] = kind
  BY <1>10 DEF OfKinds
<1> QED BY <1>1, <1>7, <1>8, <1>9, <1>10, <1>11 DEF OfKinds

(***************************************************************************)
(* The package of an IFC file.                                             *)
(***************************************************************************)
\* The finite sets of a file, and the representations that its products name.
LEMMA IfcFinite ==
  ASSUME IfcBuilt
  PROVE  /\ IsFiniteSet(I!Instances) /\ IsFiniteSet(DOMAIN I!File.products) /\ IsFiniteSet(DOMAIN I!File.relations)
         /\ I!File.statements \in Nat
         /\ \A id \in DOMAIN I!File.products : /\ IsFiniteSet(I!File.products[id].properties)
                                               /\ I!File.products[id].representations \ {Nil} \subseteq I!Instances
<1>1. I!IsIfcJob(job)
  BY IfcAssumption DEF IfcBuilt
<1>2. \A T \in {DOMAIN job.file.items, DOMAIN job.file.representations, DOMAIN job.file.products, DOMAIN job.file.relations} : IsFiniteSet(T)
  <2>1. \A T \in {DOMAIN job.file.items, DOMAIN job.file.representations, DOMAIN job.file.products, DOMAIN job.file.relations} :
          I!IsFiniteSet(T)
    BY <1>1 DEF I!IsIfcJob
  <2> QED BY <2>1, IfcSame
<1>3. \A id \in DOMAIN job.file.products : job.file.products[id].representations \ {Nil} \subseteq DOMAIN job.file.representations
  BY <1>1 DEF I!IsIfcJob
<1>4. \A id \in DOMAIN job.file.products : IsFiniteSet(job.file.products[id].properties)
  <2>1. \A id \in DOMAIN job.file.products : I!IsFiniteSet(job.file.products[id].properties)
    BY <1>1 DEF I!IsIfcJob
  <2> QED BY <2>1, IfcSame
<1>5. job.file.statements \in Nat
  BY <1>1 DEF I!IsIfcJob
<1>6. IsFiniteSet((DOMAIN job.file.items \cup DOMAIN job.file.representations) \cup (DOMAIN job.file.products \cup DOMAIN job.file.relations))
  <2>1. IsFiniteSet(DOMAIN job.file.items \cup DOMAIN job.file.representations)
    BY <1>2, FS_Union
  <2>2. IsFiniteSet(DOMAIN job.file.products \cup DOMAIN job.file.relations)
    BY <1>2, FS_Union
  <2> QED BY <2>1, <2>2, FS_Union
<1>7. I!Instances = (DOMAIN job.file.items \cup DOMAIN job.file.representations) \cup (DOMAIN job.file.products \cup DOMAIN job.file.relations)
  BY DEF I!Instances, I!File
<1>8. IsFiniteSet(I!Instances)
  BY <1>6, <1>7
<1>9. \A id \in DOMAIN job.file.products : job.file.products[id].representations \ {Nil} \subseteq I!Instances
  BY <1>3, <1>7
<1> QED BY <1>2, <1>4, <1>5, <1>8, <1>9 DEF I!File

\* The names of the instances and of the objects.
IfcPrims == {I!Prim(id) : id \in I!Instances}
IfcEntities == {I!Entity(id) : id \in DOMAIN I!File.products}
IfcAssertions == UNION {{I!Assertion(id, p) : p \in I!File.products[id].properties} : id \in DOMAIN I!File.products}

LEMMA IfcPrimitives ==
  ASSUME IfcBuilt
  PROVE  /\ OfKinds(I!Primitives, {"prim_ifc"}) /\ Ids(I!Primitives) = IfcPrims
         /\ \A r \in Items(I!Primitives) : r.refs = {I!Source}
<1>1. PICK f : f = [id \in I!Instances |-> I!Record(I!Prim(id), {I!Source})]
  OBVIOUS
<1>2. DOMAIN f = I!Instances /\ \A id \in I!Instances : f[id].id = <<"prim_ifc", id>> /\ f[id].refs = {I!Source}
  BY <1>1, IfcRecordIs DEF I!Prim
<1>3. I!Primitives = ForEach(f)
  BY <1>1, IfcSame DEF I!Primitives
<1>4. PICK kind : kind = "prim_ifc"
  OBVIOUS
<1>5. ByKind(f, kind) /\ IsFiniteSet(DOMAIN f)
  BY <1>2, <1>4, IfcFinite DEF ByKind
<1>6. OfKinds(ForEach(f), {kind}) /\ Ids(ForEach(f)) = {<<kind, x>> : x \in DOMAIN f} /\ Items(ForEach(f)) = {f[x] : x \in DOMAIN f}
  BY <1>5, KindEach
<1>7. {<<kind, x>> : x \in DOMAIN f} = IfcPrims
  BY <1>2, <1>4 DEF IfcPrims, I!Prim
<1> QED BY <1>2, <1>3, <1>4, <1>6, <1>7

LEMMA IfcPreview ==
  ASSUME IfcBuilt
  PROVE  /\ OfKinds(I!PreviewRecord, {"prim_ifc_preview"})
         /\ \A r \in Items(I!PreviewRecord) : r.refs \subseteq IfcPrims
<1>1. PICK x, refs, r : x = I!Preview /\ refs = {I!Prim(profiles[k].id) : k \in DOMAIN profiles} /\ r = I!Record(x, refs)
  OBVIOUS
<1>2. x[1] = "prim_ifc_preview"
  BY <1>1 DEF I!Preview
<1>3. r.id = x /\ r.refs = refs
  BY <1>1, IfcRecordIs
<1>4. refs \subseteq IfcPrims
  <2>1. \A k \in DOMAIN profiles : profiles[k].id \in Representations
    BY DEF IfcBuilt, Items
  <2> QED BY <1>1, <2>1 DEF IfcPrims, Representations, I!Instances
<1>5. I!PreviewRecord = IF profiles = <<>> THEN <<>> ELSE <<r>>
  BY <1>1 DEF I!PreviewRecord
<1>6. OfKinds(<<r>>, {"prim_ifc_preview"}) /\ Items(<<r>>) = {r} /\ OfKinds(<<>>, {"prim_ifc_preview"}) /\ Items(<<>>) = {}
  BY <1>2, <1>3, KindsFew
<1> QED BY <1>3, <1>4, <1>5, <1>6

(* The records of the index, one for each object, assertion and relation. *)
ObjectRefs(id) ==
  {I!Prim(id)} \cup {I!Prim(r) : r \in I!File.products[id].representations \ {Nil}}
  \cup {I!Assertion(id, p) : p \in I!File.products[id].properties}
ObjectTable == [id \in DOMAIN I!File.products |-> I!Record(I!Entity(id), ObjectRefs(id))]
SaidOf(id) == I!ForEach([p \in I!File.products[id].properties |-> I!Record(I!Assertion(id, p), {I!Prim(id), I!Entity(id)})])
SaidTable == [id \in DOMAIN I!File.products |-> SaidOf(id)]
RelationRefs(id) == {I!Prim(id)} \cup {I!Entity(x) : x \in I!File.relations[id] \cap DOMAIN I!File.products}
RelationTable == [id \in DOMAIN I!File.relations |-> I!Record(<<"relation_ifc", id>>, RelationRefs(id))]

LEMMA IfcObjects ==
  ASSUME IfcBuilt, NEW f, f = ObjectTable
  PROVE  /\ OfKinds(ForEach(f), {"entity_ifc"}) /\ Ids(ForEach(f)) = IfcEntities
         /\ \A r \in Items(ForEach(f)) : r.refs \subseteq IfcPrims \cup IfcAssertions
<1>1. PICK products : products = DOMAIN I!File.products
  OBVIOUS
<1>2. DOMAIN f = products
  BY <1>1 DEF ObjectTable
<1>3. ASSUME NEW id \in products PROVE f[id].id = <<"entity_ifc", id>> /\ f[id].refs \subseteq IfcPrims \cup IfcAssertions
  <2>1. PICK self, shapes, said : /\ self = {I!Prim(id)} /\ shapes = {I!Prim(r) : r \in I!File.products[id].representations \ {Nil}}
                                /\ said = {I!Assertion(id, p) : p \in I!File.products[id].properties}
    OBVIOUS
  <2>2. f[id] = I!Record(I!Entity(id), self \cup shapes \cup said)
    BY <1>1, <1>3, <2>1 DEF ObjectTable, ObjectRefs
  <2>3. f[id].id = I!Entity(id) /\ f[id].refs = self \cup shapes \cup said
    BY <2>2, IfcRecordIs
  <2>4. self \subseteq IfcPrims
    BY <1>1, <1>3, <2>1 DEF IfcPrims, I!Instances
  <2>5. shapes \subseteq IfcPrims
    BY <1>1, <1>3, <2>1, IfcFinite DEF IfcPrims
  <2>6. said \subseteq IfcAssertions
    BY <1>1, <1>3, <2>1 DEF IfcAssertions
  <2> QED BY <2>3, <2>4, <2>5, <2>6 DEF I!Entity
<1>4. PICK kind : kind = "entity_ifc"
  OBVIOUS
<1>5. ByKind(f, kind) /\ IsFiniteSet(DOMAIN f)
  <2>1. ByKind(f, kind)
    BY <1>2, <1>3, <1>4 DEF ByKind
  <2> QED BY <1>1, <1>2, <2>1, IfcFinite
<1>6. OfKinds(ForEach(f), {kind}) /\ Ids(ForEach(f)) = {<<kind, x>> : x \in DOMAIN f} /\ Items(ForEach(f)) = {f[x] : x \in DOMAIN f}
  <2>1. \A g, tag : IsFiniteSet(DOMAIN g) /\ ByKind(g, tag) =>
          OfKinds(ForEach(g), {tag}) /\ Ids(ForEach(g)) = {<<tag, x>> : x \in DOMAIN g} /\ Items(ForEach(g)) = {g[x] : x \in DOMAIN g}
    BY KindEach
  <2> QED BY <1>5, <2>1
<1>7. {<<kind, x>> : x \in DOMAIN f} = IfcEntities
  BY <1>1, <1>2, <1>4 DEF IfcEntities, I!Entity
<1> QED BY <1>2, <1>3, <1>4, <1>6, <1>7

\* Two assertions have the same name when their object is the same and their names are equal.
LEMMA IfcAsserted ==
  ASSUME IfcBuilt, I!Unambiguous, NEW f, f = SaidTable
  PROVE  /\ OfKinds(Concat(ForEach(f)), {"assert_ifc"}) /\ Ids(Concat(ForEach(f))) = IfcAssertions
         /\ \A r \in Items(Concat(ForEach(f))) : r.refs \subseteq IfcPrims \cup IfcEntities
<1>1. PICK products : products = DOMAIN I!File.products
  OBVIOUS
<1>2. DOMAIN f = products /\ \A id \in products : f[id] = SaidOf(id)
  BY <1>1 DEF SaidTable
<1>3. \A id, p : I!Assertion(id, p)[1] = "assert_ifc" /\ I!Assertion(id, p)[2] = id /\ I!Assertion(id, p)[3] = p.set \o p.name
  BY DEF I!Assertion
<1>4. ASSUME NEW id \in products
      PROVE  /\ OfKinds(f[id], {"assert_ifc"}) /\ Ids(f[id]) = {I!Assertion(id, p) : p \in I!File.products[id].properties}
             /\ \A r \in Items(f[id]) : r.refs \subseteq IfcPrims \cup IfcEntities
  <2>1. PICK properties, refs : properties = I!File.products[id].properties /\ refs = {I!Prim(id), I!Entity(id)}
    OBVIOUS
  <2>2. PICK g : g = [p \in properties |-> I!Record(I!Assertion(id, p), refs)]
    OBVIOUS
  <2>3. f[id] = ForEach(g)
    BY <1>2, <1>4, <2>1, <2>2, IfcSame DEF SaidOf
  <2>4. DOMAIN g = properties /\ \A p \in properties : g[p].id = I!Assertion(id, p) /\ g[p].refs = refs
    BY <2>2, IfcRecordIs
  <2>5. \A p, q \in properties : g[p].id = g[q].id => p = q
    <3>1. \A p, q \in properties : p.set \o p.name = q.set \o q.name => p = q
      BY <1>1, <1>4, <2>1 DEF I!Unambiguous
    <3>2. ASSUME NEW p \in properties, NEW q \in properties, g[p].id = g[q].id PROVE p = q
      <4>1. PICK a, b : a = p.set \o p.name /\ b = q.set \o q.name
        OBVIOUS
      <4>2. I!Assertion(id, p) = <<"assert_ifc", id, a>> /\ I!Assertion(id, q) = <<"assert_ifc", id, b>>
        BY <4>1 DEF I!Assertion
      <4>3. a = b
        BY <2>4, <3>2, <4>2
      <4> QED BY <3>1, <4>1, <4>3
    <3> QED BY <3>2
  <2>6. IsFiniteSet(DOMAIN g)
    BY <1>1, <1>4, <2>1, <2>4, IfcFinite
  <2>7. Distinct(ForEach(g)) /\ Ids(ForEach(g)) = {g[p].id : p \in properties} /\ Items(ForEach(g)) = {g[p] : p \in properties}
    BY <2>4, <2>5, <2>6, DistinctEach, ForEachIs
  <2>8. {g[p].id : p \in properties} = {I!Assertion(id, p) : p \in properties}
    BY <2>4
  <2>9. refs \subseteq IfcPrims \cup IfcEntities
    BY <1>1, <1>4, <2>1 DEF IfcPrims, IfcEntities, I!Instances
  <2> QED BY <1>3, <2>1, <2>3, <2>4, <2>7, <2>8, <2>9 DEF OfKinds
<1>5. Apart(f)
  <2>1. ASSUME NEW x \in products, NEW y \in products, NEW i \in Ids(f[x]), i \in Ids(f[y]) PROVE x = y
    <3>1. PICK p : i = I!Assertion(x, p)
      BY <1>4
    <3>2. PICK q : i = I!Assertion(y, q)
      BY <1>4, <2>1
    <3>3. I!Assertion(x, p)[2] = x /\ I!Assertion(y, q)[2] = y
      BY <1>3
    <3> QED BY <3>1, <3>2, <3>3
  <2> QED BY <1>2, <2>1 DEF Apart
<1>6. PICK kind : kind = "assert_ifc"
  OBVIOUS
<1>7. IsFiniteSet(DOMAIN f) /\ \A x \in DOMAIN f : OfKinds(f[x], {kind})
  BY <1>1, <1>2, <1>4, <1>6, IfcFinite
<1>8. PICK all : all = Concat(ForEach(f))
  OBVIOUS
<1>9. OfKinds(all, {kind}) /\ Ids(all) = UNION {Ids(f[x]) : x \in products} /\ Items(all) = UNION {Items(f[x]) : x \in products}
  BY <1>2, <1>5, <1>7, <1>8, KindLists
<1>10. UNION {Ids(f[x]) : x \in products} = IfcAssertions
  BY <1>1, <1>4 DEF IfcAssertions
<1> QED BY <1>4, <1>6, <1>8, <1>9, <1>10

LEMMA IfcRelations ==
  ASSUME IfcBuilt, NEW f, f = RelationTable
  PROVE  OfKinds(ForEach(f), {"relation_ifc"}) /\ \A r \in Items(ForEach(f)) : r.refs \subseteq IfcPrims \cup IfcEntities
<1>1. PICK relations : relations = DOMAIN I!File.relations
  OBVIOUS
<1>2. DOMAIN f = relations
  BY <1>1 DEF RelationTable
<1>3. ASSUME NEW id \in relations PROVE f[id].id = <<"relation_ifc", id>> /\ f[id].refs \subseteq IfcPrims \cup IfcEntities
  <2>1. PICK x, refs : x = <<"relation_ifc", id>> /\ refs = RelationRefs(id)
    OBVIOUS
  <2>2. f[id] = I!Record(x, refs)
    BY <1>1, <1>3, <2>1 DEF RelationTable
  <2>3. f[id].id = x /\ f[id].refs = refs
    BY <2>2, IfcRecordIs
  <2>4. refs \subseteq IfcPrims \cup IfcEntities
    BY <1>1, <1>3, <2>1 DEF RelationRefs, IfcPrims, IfcEntities, I!Instances
  <2> QED BY <2>1, <2>3, <2>4
<1>4. PICK kind : kind = "relation_ifc"
  OBVIOUS
<1>5. ByKind(f, kind) /\ IsFiniteSet(DOMAIN f)
  BY <1>1, <1>2, <1>3, <1>4, IfcFinite DEF ByKind
<1>6. OfKinds(ForEach(f), {kind}) /\ Items(ForEach(f)) = {f[x] : x \in DOMAIN f}
  BY <1>5, KindEach
<1> QED BY <1>2, <1>3, <1>4, <1>6

\* The neutral index.
LEMMA IfcIndex ==
  ASSUME IfcBuilt, I!Unambiguous
  PROVE  /\ OfKinds(I!Index, {"entity_ifc", "assert_ifc", "relation_ifc"})
         /\ IfcEntities \cup IfcAssertions \subseteq Ids(I!Index)
         /\ \A r \in Items(I!Index) : r.refs \subseteq IfcPrims \cup IfcEntities \cup IfcAssertions
<1>1. PICK f, g, h : f = ObjectTable /\ g = SaidTable /\ h = RelationTable
  OBVIOUS
<1>4. PICK objects, said, relations : objects = ForEach(f) /\ said = Concat(ForEach(g)) /\ relations = ForEach(h)
  OBVIOUS
<1>5. I!Index = (objects \o said) \o relations
  <2>1. I!Index = (I!ForEach(ObjectTable) \o I!Concat(I!ForEach(SaidTable))) \o I!ForEach(RelationTable)
    BY DEF I!Index, ObjectTable, ObjectRefs, SaidTable, SaidOf, RelationTable, RelationRefs
  <2> QED BY <1>1, <1>4, <2>1, IfcSame
<1>6. OfKinds(objects, {"entity_ifc"}) /\ Ids(objects) = IfcEntities /\ \A r \in Items(objects) : r.refs \subseteq IfcPrims \cup IfcAssertions
  BY <1>1, <1>4, IfcObjects
<1>7. OfKinds(said, {"assert_ifc"}) /\ Ids(said) = IfcAssertions /\ \A r \in Items(said) : r.refs \subseteq IfcPrims \cup IfcEntities
  BY <1>1, <1>4, IfcAsserted
<1>8. OfKinds(relations, {"relation_ifc"}) /\ \A r \in Items(relations) : r.refs \subseteq IfcPrims \cup IfcEntities
  BY <1>1, <1>4, IfcRelations
<1>9. PICK first : first = objects \o said
  OBVIOUS
<1>10. /\ OfKinds(first, {"entity_ifc"} \cup {"assert_ifc"}) /\ Ids(first) = Ids(objects) \cup Ids(said)
       /\ Items(first) = Items(objects) \cup Items(said)
  <2>1. {"entity_ifc"} \cap {"assert_ifc"} = {}
    OBVIOUS
  <2> QED BY <1>6, <1>7, <1>9, <2>1, KindsJoined
<1>11. /\ OfKinds(I!Index, ({"entity_ifc"} \cup {"assert_ifc"}) \cup {"relation_ifc"}) /\ Ids(I!Index) = Ids(first) \cup Ids(relations)
       /\ Items(I!Index) = Items(first) \cup Items(relations)
  <2>1. ({"entity_ifc"} \cup {"assert_ifc"}) \cap {"relation_ifc"} = {}
    OBVIOUS
  <2> QED BY <1>5, <1>8, <1>9, <1>10, <2>1, KindsJoined, Zenon
<1>12. ({"entity_ifc"} \cup {"assert_ifc"}) \cup {"relation_ifc"} = {"entity_ifc", "assert_ifc", "relation_ifc"}
  OBVIOUS
<1>13. \A r \in Items(I!Index) : r.refs \subseteq IfcPrims \cup IfcEntities \cup IfcAssertions
  BY <1>6, <1>7, <1>8, <1>10, <1>11
<1> QED BY <1>6, <1>7, <1>10, <1>11, <1>12, <1>13

\* The diagnostics.
LossTable == [c \in I!Losses |-> I!Record(<<"diag_ifc_loss", c>>, {I!Source})]
StatementTable == [k \in 1..I!File.statements |-> I!Record(<<"diag_ifc_validation", k>>, {I!Source})]
IssueTable == [k \in DOMAIN issues |-> I!Record(<<"diag_ifc_v02_2d", issues[k][1], issues[k][2]>>, {I!Prim(issues[k][2])})]
IfcReason == I!GlobalLocation(I!Georeference).reason
Located02 ==
  IF I!GlobalLocation(I!Georeference).state = "known" THEN <<>> ELSE <<I!Record(<<"diag_ifc_v02_georef", IfcReason>>, {I!Source})>>

LEMMA IfcStatements ==
  ASSUME IfcBuilt PROVE OfKinds(StatementTable, {"diag_ifc_validation"}) /\ \A r \in Items(StatementTable) : r.refs = {I!Source}
<1>1. PICK n \in Nat : n = I!File.statements
  BY IfcFinite
<1>2. PICK s : s = StatementTable
  OBVIOUS
<1>3. ASSUME NEW k \in 1..n PROVE s[k].id = <<"diag_ifc_validation", k>> /\ s[k].refs = {I!Source}
  <2>1. PICK x, refs : x = <<"diag_ifc_validation", k>> /\ refs = {I!Source}
    OBVIOUS
  <2>2. s[k] = I!Record(x, refs)
    BY <1>1, <1>2, <1>3, <2>1 DEF StatementTable
  <2> QED BY <2>1, <2>2, IfcRecordIs
<1>4. \A i, j \in 1..n : s[i].id = s[j].id => i = j
  <2>1. ASSUME NEW i \in 1..n, NEW j \in 1..n, s[i].id = s[j].id PROVE i = j
    <3>1. <<"diag_ifc_validation", i>> = <<"diag_ifc_validation", j>>
      BY <1>3, <2>1
    <3> QED BY <3>1
  <2> QED BY <2>1
<1>5. DistinctOver(s, n)
  BY <1>1, <1>2, <1>4 DEF StatementTable, DistinctOver
<1>6. Distinct(s) /\ Ids(s) = {s[k].id : k \in 1..n} /\ Items(s) = {s[k] : k \in 1..n}
  BY <1>5, DistinctTable
<1>7. \A k \in 1..n : s[k].id[1] = "diag_ifc_validation"
  BY <1>3
<1> QED BY <1>2, <1>3, <1>6, <1>7 DEF OfKinds

LEMMA IfcLosses ==
  OfKinds(ForEach(LossTable), {"diag_ifc_loss"}) /\ \A r \in Items(ForEach(LossTable)) : r.refs = {I!Source}
<1>1. PICK f, kind : f = LossTable /\ kind = "diag_ifc_loss"
  OBVIOUS
<1>2. DOMAIN f = I!Losses /\ IsFiniteSet(DOMAIN f)
  BY <1>1, IfcLossesFinite DEF LossTable
<1>3. ASSUME NEW c \in I!Losses PROVE f[c].id = <<kind, c>> /\ f[c].refs = {I!Source}
  <2>1. PICK x, refs : x = <<"diag_ifc_loss", c>> /\ refs = {I!Source}
    OBVIOUS
  <2>2. f[c] = I!Record(x, refs)
    BY <1>1, <1>3, <2>1 DEF LossTable
  <2> QED BY <1>1, <2>1, <2>2, IfcRecordIs
<1>4. ByKind(f, kind)
  BY <1>2, <1>3 DEF ByKind
<1>5. OfKinds(ForEach(f), {kind}) /\ Items(ForEach(f)) = {f[x] : x \in DOMAIN f}
  BY <1>2, <1>4, KindEach
<1> QED BY <1>1, <1>2, <1>3, <1>5

LEMMA IfcIssues ==
  ASSUME IfcBuilt PROVE OfKinds(IssueTable, {"diag_ifc_v02_2d"}) /\ \A r \in Items(IssueTable) : r.refs \subseteq IfcPrims
<1>1. PICK n \in Nat : n = Len(issues) /\ DOMAIN issues = 1..n
  BY ListIs DEF IfcBuilt, NoRepeat
<1>2. PICK s : s = IssueTable
  OBVIOUS
<1>3. ASSUME NEW k \in 1..n PROVE /\ s[k].id = <<"diag_ifc_v02_2d", issues[k][1], issues[k][2]>> /\ s[k].refs = {I!Prim(issues[k][2])}
                                  /\ issues[k] = <<issues[k][1], issues[k][2]>> /\ issues[k][2] \in I!Instances
  <2>1. PICK x, refs : x = <<"diag_ifc_v02_2d", issues[k][1], issues[k][2]>> /\ refs = {I!Prim(issues[k][2])}
    OBVIOUS
  <2>2. s[k] = I!Record(x, refs)
    BY <1>1, <1>2, <1>3, <2>1 DEF IssueTable
  <2>3. IfcIssue(issues[k])
    BY <1>1, <1>3 DEF IfcBuilt, Items
  <2> QED BY <2>1, <2>2, <2>3, IfcRecordIs DEF IfcIssue
<1>4. \A i, j \in 1..n : s[i].id = s[j].id => i = j
  <2>1. ASSUME NEW i \in 1..n, NEW j \in 1..n, s[i].id = s[j].id PROVE i = j
    <3>1. <<"diag_ifc_v02_2d", issues[i][1], issues[i][2]>> = <<"diag_ifc_v02_2d", issues[j][1], issues[j][2]>>
      BY <1>3, <2>1
    <3>2. issues[i][1] = issues[j][1] /\ issues[i][2] = issues[j][2]
      BY <3>1
    <3>3. issues[i] = issues[j]
      BY <1>3, <3>2
    <3> QED BY <1>1, <3>3 DEF IfcBuilt, NoRepeat
  <2> QED BY <2>1
<1>5. DistinctOver(s, n)
  BY <1>1, <1>2, <1>4 DEF IssueTable, DistinctOver
<1>6. Distinct(s) /\ Ids(s) = {s[k].id : k \in 1..n} /\ Items(s) = {s[k] : k \in 1..n}
  BY <1>5, DistinctTable
<1>7. \A k \in 1..n : s[k].id[1] = "diag_ifc_v02_2d" /\ s[k].refs \subseteq IfcPrims
  BY <1>3 DEF IfcPrims
<1> QED BY <1>2, <1>6, <1>7 DEF OfKinds

IfcDiagnosticKinds == {"diag_ifc_validation", "diag_ifc_loss", "diag_ifc_v02_2d", "diag_ifc_v02_georef"}
LEMMA IfcDiagnosed ==
  ASSUME IfcBuilt
  PROVE  OfKinds(IfcDiagnostics, IfcDiagnosticKinds) /\ \A r \in Items(IfcDiagnostics) : r.refs \subseteq {I!Source} \cup IfcPrims
<1>1. PICK said, lost, found, placed : said = StatementTable /\ lost = ForEach(LossTable) /\ found = IssueTable /\ placed = Located02
  OBVIOUS
<1>2. OfKinds(said, {"diag_ifc_validation"}) /\ \A r \in Items(said) : r.refs = {I!Source}
  BY <1>1, IfcStatements
<1>3. OfKinds(lost, {"diag_ifc_loss"}) /\ \A r \in Items(lost) : r.refs = {I!Source}
  BY <1>1, IfcLosses
<1>4. OfKinds(found, {"diag_ifc_v02_2d"}) /\ \A r \in Items(found) : r.refs \subseteq IfcPrims
  BY <1>1, IfcIssues
<1>5. OfKinds(placed, {"diag_ifc_v02_georef"}) /\ \A r \in Items(placed) : r.refs = {I!Source}
  <2>1. PICK x, r : x = <<"diag_ifc_v02_georef", IfcReason>> /\ r = I!Record(x, {I!Source})
    OBVIOUS
  <2>2. r.id = x /\ r.refs = {I!Source} /\ x[1] = "diag_ifc_v02_georef"
    BY <2>1, IfcRecordIs
  <2>3. placed = <<>> \/ placed = <<r>>
    BY <1>1, <2>1 DEF Located02
  <2>4. /\ OfKinds(<<r>>, {"diag_ifc_v02_georef"}) /\ Items(<<r>>) = {r}
        /\ OfKinds(<<>>, {"diag_ifc_v02_georef"}) /\ Items(<<>>) = {}
    BY <2>2, KindsFew
  <2> QED BY <2>2, <2>3, <2>4
<1>6. PICK early, late : early = said \o lost /\ late = found \o placed
  OBVIOUS
<1>7. OfKinds(early, {"diag_ifc_validation", "diag_ifc_loss"}) /\ Items(early) = Items(said) \cup Items(lost)
  <2>1. {"diag_ifc_validation"} \cap {"diag_ifc_loss"} = {} /\ {"diag_ifc_validation"} \cup {"diag_ifc_loss"} = {"diag_ifc_validation", "diag_ifc_loss"}
    OBVIOUS
  <2>2. OfKinds(said \o lost, {"diag_ifc_validation"} \cup {"diag_ifc_loss"}) /\ Items(said \o lost) = Items(said) \cup Items(lost)
    BY <1>2, <1>3, <2>1, KindsJoined
  <2> QED BY <1>6, <2>1, <2>2
<1>8. OfKinds(late, {"diag_ifc_v02_2d", "diag_ifc_v02_georef"}) /\ Items(late) = Items(found) \cup Items(placed)
  <2>1. {"diag_ifc_v02_2d"} \cap {"diag_ifc_v02_georef"} = {} /\ {"diag_ifc_v02_2d"} \cup {"diag_ifc_v02_georef"} = {"diag_ifc_v02_2d", "diag_ifc_v02_georef"}
    OBVIOUS
  <2>2. OfKinds(found \o placed, {"diag_ifc_v02_2d"} \cup {"diag_ifc_v02_georef"}) /\ Items(found \o placed) = Items(found) \cup Items(placed)
    BY <1>4, <1>5, <2>1, KindsJoined
  <2> QED BY <1>6, <2>1, <2>2
<1>9. PICK kinds02, kinds : kinds02 = {"diag_ifc_v02_2d", "diag_ifc_v02_georef"} /\ kinds = {"diag_ifc_validation", "diag_ifc_loss"}
  OBVIOUS
<1>10. PICK extra : extra = IF job.version = "0.2.0" THEN late ELSE <<>>
  OBVIOUS
<1>11. OfKinds(extra, kinds02) /\ Items(extra) \subseteq Items(late)
  <2>1. OfKinds(<<>>, kinds02) /\ Items(<<>>) = {}
    BY DistinctTogether DEF OfKinds
  <2> QED BY <1>8, <1>9, <1>10, <2>1
<1>12. IfcDiagnostics = early \o extra
  <2>1. I!Diagnostics = StatementTable \o I!ForEach(LossTable)
    BY DEF I!Diagnostics, StatementTable, LossTable
  <2>2. I!Diagnostics02 = IssueTable \o Located02
    BY DEF I!Diagnostics02, IssueTable, Located02, IfcReason
  <2>3. I!ForEach(LossTable) = ForEach(LossTable)
    BY IfcSame
  <2> QED BY <1>1, <1>6, <1>10, <2>1, <2>2, <2>3 DEF IfcDiagnostics
<1>13. OfKinds(early \o extra, kinds \cup kinds02) /\ Items(early \o extra) = Items(early) \cup Items(extra)
  <2>1. kinds \cap kinds02 = {}
    BY <1>9
  <2> QED BY <1>7, <1>9, <1>11, <2>1, KindsJoined
<1>14. kinds \cup kinds02 = IfcDiagnosticKinds
  BY <1>9 DEF IfcDiagnosticKinds
<1>15. \A r \in Items(early \o extra) : r.refs \subseteq {I!Source} \cup IfcPrims
  BY <1>2, <1>3, <1>4, <1>5, <1>7, <1>8, <1>11, <1>13
<1> QED BY <1>12, <1>13, <1>14, <1>15

\* A list without repeated identifiers is as long as it has identifiers.
LEMMA PackageCounted ==
  ASSUME NEW s, NEW t, NEW A, NEW B, OfKinds(s, A), OfKinds(t, B), A \cap B = {}
  PROVE  /\ Cardinality(Ids(s \o t)) = Len(s \o t) /\ Ids(s \o t) = Ids(s) \cup Ids(t)
         /\ IsList(s \o t) /\ Items(s \o t) = Items(s) \cup Items(t)
<1>1. PICK both : both = s \o t
  OBVIOUS
<1>2. OfKinds(both, A \cup B) /\ Ids(both) = Ids(s) \cup Ids(t) /\ Items(both) = Items(s) \cup Items(t)
  BY <1>1, KindsJoined
<1>3. Cardinality(Ids(both)) = Len(both) /\ IsList(both)
  BY <1>2, DistinctCounted DEF OfKinds, Distinct
<1> QED BY <1>1, <1>2, <1>3

\* The records.
IfcRecordKinds == {"src", "prim_ifc", "prim_ifc_preview", "entity_ifc", "assert_ifc", "relation_ifc"}
LEMMA IfcRecorded ==
  ASSUME IfcBuilt, I!Unambiguous
  PROVE  /\ OfKinds(IfcRecords, IfcRecordKinds) /\ {I!Source} \cup IfcPrims \cup IfcEntities \cup IfcAssertions \subseteq Ids(IfcRecords)
         /\ \A r \in Items(IfcRecords) : r.refs \subseteq {I!Source} \cup IfcPrims \cup IfcEntities \cup IfcAssertions
<1>1. PICK first, prims, preview_, index_ :
        first = I!Record(I!Source, {}) /\ prims = I!Primitives /\ preview_ = I!PreviewRecord /\ index_ = I!Index
  OBVIOUS
<1>2. /\ OfKinds(<<first>>, {"src"}) /\ Ids(<<first>>) = {I!Source} /\ Items(<<first>>) = {first} /\ first.refs = {}
  <2>1. first.id = I!Source /\ first.refs = {} /\ I!Source[1] = "src"
    BY <1>1, IfcRecordIs DEF I!Source
  <2> QED BY <2>1, KindsFew
<1>3. OfKinds(prims, {"prim_ifc"}) /\ Ids(prims) = IfcPrims /\ \A r \in Items(prims) : r.refs = {I!Source}
  BY <1>1, IfcPrimitives
<1>4. OfKinds(preview_, {"prim_ifc_preview"}) /\ \A r \in Items(preview_) : r.refs \subseteq IfcPrims
  BY <1>1, IfcPreview
<1>5. /\ OfKinds(index_, {"entity_ifc", "assert_ifc", "relation_ifc"}) /\ IfcEntities \cup IfcAssertions \subseteq Ids(index_)
      /\ \A r \in Items(index_) : r.refs \subseteq IfcPrims \cup IfcEntities \cup IfcAssertions
  BY <1>1, IfcIndex
<1>6. PICK drawn : drawn = IfcDrawn
  OBVIOUS
<1>7. /\ OfKinds(drawn, {"prim_ifc", "prim_ifc_preview"}) /\ IfcPrims \subseteq Ids(drawn)
      /\ Items(drawn) \subseteq Items(prims) \cup Items(preview_)
  <2>1. {"prim_ifc"} \cap {"prim_ifc_preview"} = {} /\ {"prim_ifc"} \cup {"prim_ifc_preview"} = {"prim_ifc", "prim_ifc_preview"}
    OBVIOUS
  <2>2. /\ OfKinds(prims \o preview_, {"prim_ifc"} \cup {"prim_ifc_preview"}) /\ Ids(prims \o preview_) = Ids(prims) \cup Ids(preview_)
        /\ Items(prims \o preview_) = Items(prims) \cup Items(preview_)
    BY <1>3, <1>4, <2>1, KindsJoined
  <2>3. drawn = prims \o preview_ \/ drawn = prims
    BY <1>1, <1>6 DEF IfcDrawn
  <2> QED BY <1>3, <2>1, <2>2, <2>3 DEF OfKinds
<1>8. PICK front : front = <<first>> \o drawn
  OBVIOUS
<1>9. /\ OfKinds(front, {"src", "prim_ifc", "prim_ifc_preview"}) /\ Ids(front) = {I!Source} \cup Ids(drawn)
      /\ Items(front) = {first} \cup Items(drawn)
  <2>1. PICK few : few = {"prim_ifc", "prim_ifc_preview"}
    OBVIOUS
  <2>2. {"src"} \cap few = {} /\ {"src"} \cup few = {"src", "prim_ifc", "prim_ifc_preview"}
    BY <2>1
  <2>3. OfKinds(front, {"src"} \cup few) /\ Ids(front) = Ids(<<first>>) \cup Ids(drawn) /\ Items(front) = Items(<<first>>) \cup Items(drawn)
    BY <1>2, <1>7, <1>8, <2>1, <2>2, KindsJoined
  <2> QED BY <1>2, <2>2, <2>3
<1>10. IfcRecords = front \o index_
  BY <1>1, <1>6, <1>8 DEF IfcRecords
<1>11. PICK low, high : low = {"src", "prim_ifc", "prim_ifc_preview"} /\ high = {"entity_ifc", "assert_ifc", "relation_ifc"}
  OBVIOUS
<1>12. OfKinds(front \o index_, low \cup high) /\ Ids(front \o index_) = Ids(front) \cup Ids(index_) /\ Items(front \o index_) = Items(front) \cup Items(index_)
  <2>1. low \cap high = {}
    BY <1>11
  <2> QED BY <1>5, <1>9, <1>11, <2>1, KindsJoined
<1>13. low \cup high = IfcRecordKinds
  BY <1>11 DEF IfcRecordKinds
<1>14. \A r \in Items(front \o index_) : r.refs \subseteq {I!Source} \cup IfcPrims \cup IfcEntities \cup IfcAssertions
  BY <1>2, <1>3, <1>4, <1>5, <1>7, <1>9, <1>12
<1> QED BY <1>5, <1>7, <1>9, <1>10, <1>12, <1>13, <1>14

(***************************************************************************)
(* What an IFC ingest writes has unique identifiers and names only records *)
(* of the package.                                                         *)
(***************************************************************************)
LEMMA IfcClosed == ASSUME IfcBuilt PROVE I!IfcRecordsAreClosed
<1> SUFFICES ASSUME outcome = "written", I!Unambiguous
             PROVE  I!Cardinality(I!Named) = Len(I!All) /\ \A a \in DOMAIN I!All : I!All[a].refs \subseteq I!Named
  BY DEF I!IfcRecordsAreClosed, I!Written
<1>1. PICK s, t, all : s = IfcRecords /\ t = IfcDiagnostics /\ all = s \o t
  OBVIOUS
<1>2. I!All = all /\ I!Named = Ids(all)
  <2>1. I!All = all
    BY <1>1 DEF IfcBuilt, I!All
  <2> QED BY <2>1 DEF I!Named, Ids
<1>3. /\ OfKinds(s, IfcRecordKinds) /\ {I!Source} \cup IfcPrims \cup IfcEntities \cup IfcAssertions \subseteq Ids(s)
      /\ \A r \in Items(s) : r.refs \subseteq {I!Source} \cup IfcPrims \cup IfcEntities \cup IfcAssertions
  BY <1>1, IfcRecorded
<1>4. OfKinds(t, IfcDiagnosticKinds) /\ \A r \in Items(t) : r.refs \subseteq {I!Source} \cup IfcPrims
  BY <1>1, IfcDiagnosed
<1>5. IfcRecordKinds \cap IfcDiagnosticKinds = {}
  BY DEF IfcRecordKinds, IfcDiagnosticKinds
<1>6. Cardinality(Ids(all)) = Len(all) /\ Ids(all) = Ids(s) \cup Ids(t) /\ Items(all) = Items(s) \cup Items(t)
  BY <1>1, <1>3, <1>4, <1>5, PackageCounted
<1>7. \A r \in Items(all) : r.refs \subseteq Ids(all)
  BY <1>3, <1>4, <1>6
<1>8. \A a \in DOMAIN all : all[a].refs \subseteq Ids(all)
  BY <1>7 DEF Items
<1> QED BY <1>2, <1>6, <1>8, IfcSame

(***************************************************************************)
(* The package of a raster.                                                *)
(***************************************************************************)
\* A list with as many identifiers as items has distinct ones.
LEMMA CountedDistinct ==
  ASSUME NEW s, IsList(s), Cardinality({s[k].id : k \in 1..Len(s)}) = Len(s) PROVE Distinct(s)
<1>1. PICK n \in Nat : n = Len(s) /\ DOMAIN s = 1..n
  BY ListIs, Zenon
<1>2. PICK named, ids : ids = {s[k].id : k \in 1..n} /\ named = [k \in 1..n |-> s[k].id]
  BY Zenon
<1>3. named \in Surjection(1..n, ids)
  BY <1>2, Zenon DEF Surjection
<1>4. IsFiniteSet(1..n) /\ Cardinality(1..n) = n
  BY Counted, Zenon
<1>5. Cardinality(1..n) = Cardinality(ids)
  BY <1>1, <1>2, <1>4, Zenon
<1>6. named \in Injection(1..n, ids)
  BY <1>3, <1>4, <1>5, FS_SurjSameCardinalityImpliesInj, Zenon
<1>7. ASSUME NEW i \in 1..n, NEW j \in 1..n, s[i].id = s[j].id PROVE i = j
  <2>1. named[i] = named[j]
    BY <1>2, <1>7, Zenon
  <2> QED BY <1>6, <2>1, Zenon DEF Injection, IsInjective
<1> QED BY <1>1, <1>7, Zenon DEF Distinct

LEMMA RasterNamed ==
  ASSUME NEW s, IsList(s) PROVE R!Names(s) = Ids(s) /\ (R!DistinctNames(s) => Distinct(s))
<1>1. R!Names(s) = {s[k].id : k \in 1..Len(s)} /\ R!Names(s) = Ids(s)
  BY ListIs DEF R!Names, Ids
<1>2. ASSUME R!DistinctNames(s) PROVE Distinct(s)
  <2>1. Cardinality({s[k].id : k \in 1..Len(s)}) = Len(s)
    BY <1>1, <1>2, SameLists, Zenon DEF R!DistinctNames
  <2> QED BY <2>1, CountedDistinct, Zenon
<1> QED BY <1>1, <1>2

(***************************************************************************)
(* The source.  The records of a page are named by their kind and by the   *)
(* page.                                                                   *)
(***************************************************************************)
PageKinds == {"page", "text", "raster"}
OfPage(s, i) == OfKinds(s, PageKinds) /\ (\A x \in Ids(s) : x[2] = i) /\ \A r \in Items(s) : r.refs = {R!Source}

LEMMA PageDistinct ==
  ASSUME NEW j, R!IsRasterJob(j), NEW i \in DOMAIN j.pages
  PROVE  /\ OfPage(R!PageRecords(j, i), i)
         /\ j.pages[i].text # Nil => R!Native(i) \in Ids(R!PageRecords(j, i))
         /\ \A k \in DOMAIN j.pages[i].rasters : R!Raster(i, k) \in Ids(R!PageRecords(j, i))
<1>1. IsList(j.pages[i].rasters)
  <2>1. \A s : R!IsList(s) => IsList(s)
    BY DEF R!IsList, R!Items, IsList, Items
  <2> QED BY <2>1 DEF R!IsRasterJob
<1>2. PICK n \in Nat : n = Len(j.pages[i].rasters) /\ DOMAIN j.pages[i].rasters = 1..n
  BY <1>1, ListIs
<1>3. PICK p, t : /\ p = R!Observed(<<"page", i>>, Nil) /\ t = R!Observed(R!Native(i), j.pages[i].text)
  OBVIOUS
<1>4. PICK first, second : /\ first = (IF j.format = "pdf" THEN <<p>> ELSE <<>>)
                           /\ second = (IF j.pages[i].text = Nil THEN <<>> ELSE <<t>>)
  OBVIOUS
<1>5. PICK third : third = [k \in 1..n |-> R!Observed(R!Raster(i, k), j.pages[i].rasters[k])]
  OBVIOUS
<1>6. R!PageRecords(j, i) = (first \o second) \o third
  <2>1. R!PageRecords(j, i) = first \o second \o third
    BY <1>2, <1>3, <1>4, <1>5 DEF R!PageRecords
  <2> QED BY <2>1
<1>7. \A id, shown : R!Observed(id, shown).id = id /\ R!Observed(id, shown).refs = {R!Source}
  BY DEF R!Observed
<1>8. /\ p.id = <<"page", i>> /\ p.refs = {R!Source} /\ p.id[1] = "page" /\ p.id[2] = i
      /\ t.id = R!Native(i) /\ t.refs = {R!Source} /\ t.id[1] = "text" /\ t.id[2] = i
  BY <1>3, <1>7 DEF R!Native
<1>9. /\ OfKinds(first, {"page"}) /\ (\A x \in Ids(first) : x[2] = i) /\ \A r \in Items(first) : r.refs = {R!Source}
  <2>1. /\ OfKinds(<<p>>, {"page"}) /\ Ids(<<p>>) = {p.id} /\ Items(<<p>>) = {p}
        /\ OfKinds(<<>>, {"page"}) /\ Ids(<<>>) = {} /\ Items(<<>>) = {}
    BY <1>8, KindsFew
  <2>2. first = <<p>> \/ first = <<>>
    BY <1>4
  <2> QED BY <1>8, <2>1, <2>2
<1>10. /\ OfKinds(second, {"text"}) /\ (\A x \in Ids(second) : x[2] = i) /\ (\A r \in Items(second) : r.refs = {R!Source})
       /\ j.pages[i].text # Nil => R!Native(i) \in Ids(second)
  <2>1. /\ OfKinds(<<t>>, {"text"}) /\ Ids(<<t>>) = {t.id} /\ Items(<<t>>) = {t}
        /\ OfKinds(<<>>, {"text"}) /\ Ids(<<>>) = {} /\ Items(<<>>) = {}
    BY <1>8, KindsFew
  <2>2. CASE j.pages[i].text = Nil
    BY <1>4, <2>1, <2>2
  <2>3. CASE j.pages[i].text # Nil
    <3>1. second = <<t>>
      BY <1>4, <2>3
    <3> QED BY <1>8, <2>1, <3>1
  <2> QED BY <2>2, <2>3
<1>11. \A k \in 1..n : third[k].id = R!Raster(i, k) /\ third[k].refs = {R!Source}
  BY <1>5, <1>7
<1>12. \A k \in 1..n : R!Raster(i, k)[1] = "raster" /\ R!Raster(i, k)[2] = i /\ R!Raster(i, k)[3] = k
  BY DEF R!Raster
<1>13. DistinctOver(third, n)
  <2>1. \A a, b \in 1..n : third[a].id = third[b].id => a = b
    BY <1>11, <1>12
  <2> QED BY <1>5, <2>1 DEF DistinctOver
<1>14. Distinct(third) /\ Ids(third) = {third[k].id : k \in 1..n} /\ Items(third) = {third[k] : k \in 1..n}
  BY <1>13, DistinctTable
<1>15. OfKinds(third, {"raster"}) /\ (\A x \in Ids(third) : x[2] = i) /\ (\A r \in Items(third) : r.refs = {R!Source})
       /\ \A k \in 1..n : R!Raster(i, k) \in Ids(third)
  BY <1>11, <1>12, <1>14 DEF OfKinds
<1>16. PICK early : early = first \o second
  OBVIOUS
<1>17. OfKinds(early, {"page", "text"}) /\ Ids(early) = Ids(first) \cup Ids(second) /\ Items(early) = Items(first) \cup Items(second)
  <2>1. {"page"} \cap {"text"} = {} /\ {"page"} \cup {"text"} = {"page", "text"}
    OBVIOUS
  <2>2. /\ OfKinds(early, {"page"} \cup {"text"}) /\ Ids(early) = Ids(first) \cup Ids(second)
        /\ Items(early) = Items(first) \cup Items(second)
    BY <1>9, <1>10, <1>16, <2>1, KindsJoined
  <2> QED BY <2>1, <2>2
<1>18. PICK all : all = early \o third
  OBVIOUS
<1>19. OfKinds(all, PageKinds) /\ Ids(all) = Ids(early) \cup Ids(third) /\ Items(all) = Items(early) \cup Items(third)
  <2>1. PICK low : low = {"page", "text"}
    OBVIOUS
  <2>2. low \cap {"raster"} = {} /\ low \cup {"raster"} = PageKinds
    BY <2>1 DEF PageKinds
  <2>3. /\ OfKinds(all, low \cup {"raster"}) /\ Ids(all) = Ids(early) \cup Ids(third)
        /\ Items(all) = Items(early) \cup Items(third)
    BY <1>15, <1>17, <1>18, <2>1, <2>2, KindsJoined
  <2> QED BY <2>2, <2>3
<1>20. R!PageRecords(j, i) = all
  BY <1>6, <1>16, <1>18
<1> QED BY <1>2, <1>9, <1>10, <1>15, <1>17, <1>19, <1>20 DEF OfPage

RasterSourceKinds == {"source", "page", "text", "raster"}
LEMMA RasterBaselineDistinct ==
  ASSUME NEW j, R!IsRasterJob(j)
  PROVE  /\ OfKinds(R!Baseline(j), RasterSourceKinds) /\ R!Source \in Ids(R!Baseline(j))
         /\ \A r \in Items(R!Baseline(j)) : r.refs \subseteq {R!Source}
         /\ \A i \in DOMAIN j.pages : /\ j.pages[i].text # Nil => R!Native(i) \in Ids(R!Baseline(j))
                                      /\ \A k \in DOMAIN j.pages[i].rasters : R!Raster(i, k) \in Ids(R!Baseline(j))
<1>1. IsList(j.pages)
  <2>1. \A s : R!IsList(s) => IsList(s)
    BY DEF R!IsList, R!Items, IsList, Items
  <2> QED BY <2>1 DEF R!IsRasterJob
<1>2. PICK n \in Nat : n = Len(j.pages) /\ DOMAIN j.pages = 1..n
  BY <1>1, ListIs
<1>3. PICK lists : lists = [i \in 1..n |-> R!PageRecords(j, i)]
  OBVIOUS
<1>4. IsList(lists) /\ DOMAIN lists = 1..n /\ \A k \in 1..n : lists[k] = R!PageRecords(j, k)
  BY <1>3, FunctionIsList
<1>5. PICK first : first = [id |-> R!Source, refs |-> {}, class |-> "observed", content |-> Nil]
  OBVIOUS
<1>6. R!Baseline(j) = <<first>> \o Concat(lists)
  BY <1>2, <1>3, <1>5, SameLists DEF R!Baseline
<1>7. \A k \in DOMAIN lists : OfPage(lists[k], k)
  BY <1>2, <1>4, PageDistinct
<1>8. \A k \in DOMAIN lists : Distinct(lists[k]) /\ IsList(lists[k])
  BY <1>7 DEF OfPage, OfKinds, Distinct
<1>9. \A k, m \in DOMAIN lists : \A x \in Ids(lists[k]) : x \in Ids(lists[m]) => k = m
  BY <1>7 DEF OfPage
<1>10. PICK rest : rest = Concat(lists)
  OBVIOUS
<1>11. Distinct(rest) /\ IsList(rest) /\ Items(rest) = Joins(lists)
  BY <1>4, <1>8, <1>9, <1>10, ConcatIs
<1>12. /\ \A r \in Items(rest) : \E k \in 1..n : r \in Items(lists[k])
       /\ \A k \in 1..n : Items(lists[k]) \subseteq Items(rest)
  BY <1>4, <1>11 DEF Joins
<1>13. /\ \A x \in Ids(rest) : \E k \in 1..n : x \in Ids(lists[k])
       /\ \A k \in 1..n : Ids(lists[k]) \subseteq Ids(rest)
  <2>1. \A s : Ids(s) = {r.id : r \in Items(s)}
    BY IdsAre
  <2>2. ASSUME NEW x \in Ids(rest) PROVE \E k \in 1..n : x \in Ids(lists[k])
    <3>1. PICK r \in Items(rest) : x = r.id
      BY <2>1, <2>2
    <3>2. PICK k \in 1..n : r \in Items(lists[k])
      BY <1>12
    <3> QED BY <2>1, <3>1, <3>2
  <2>3. ASSUME NEW k \in 1..n, NEW x \in Ids(lists[k]) PROVE x \in Ids(rest)
    <3>1. PICK r \in Items(lists[k]) : x = r.id
      BY <2>1, <2>3
    <3> QED BY <1>12, <2>1, <3>1
  <2> QED BY <2>2, <2>3
<1>14. OfKinds(rest, PageKinds) /\ \A r \in Items(rest) : r.refs = {R!Source}
  <2>1. \A x \in Ids(rest) : x[1] \in PageKinds
    BY <1>4, <1>7, <1>13 DEF OfPage, OfKinds
  <2>2. \A r \in Items(rest) : r.refs = {R!Source}
    BY <1>4, <1>7, <1>12 DEF OfPage
  <2> QED BY <1>11, <2>1, <2>2 DEF OfKinds
<1>15. first.id = R!Source /\ first.refs = {} /\ first.id[1] = "source"
  BY <1>5 DEF R!Source
<1>16. OfKinds(<<first>>, {"source"}) /\ Ids(<<first>>) = {R!Source} /\ Items(<<first>>) = {first}
  BY <1>15, KindsFew
<1>17. PICK base : base = R!Baseline(j)
  OBVIOUS
<1>18. OfKinds(base, RasterSourceKinds) /\ Ids(base) = {R!Source} \cup Ids(rest) /\ Items(base) = {first} \cup Items(rest)
  <2>1. {"source"} \cap PageKinds = {} /\ {"source"} \cup PageKinds = RasterSourceKinds
    BY DEF PageKinds, RasterSourceKinds
  <2>2. base = <<first>> \o rest
    BY <1>6, <1>10, <1>17
  <2>3. /\ OfKinds(base, {"source"} \cup PageKinds) /\ Ids(base) = Ids(<<first>>) \cup Ids(rest)
        /\ Items(base) = Items(<<first>>) \cup Items(rest)
    BY <1>14, <1>16, <2>1, <2>2, KindsJoined
  <2> QED BY <1>16, <2>1, <2>3
<1>19. ASSUME NEW i \in DOMAIN j.pages
       PROVE  /\ j.pages[i].text # Nil => R!Native(i) \in Ids(base)
              /\ \A k \in DOMAIN j.pages[i].rasters : R!Raster(i, k) \in Ids(base)
  <2>1. Ids(R!PageRecords(j, i)) \subseteq Ids(base)
    BY <1>2, <1>4, <1>13, <1>18
  <2> QED BY <2>1, PageDistinct
<1> QED BY <1>14, <1>15, <1>17, <1>18, <1>19

\* A raster that was found is in the package, as is the native text of its page.
LEMMA RasterFound ==
  ASSUME NEW j, R!IsRasterJob(j), NEW pixels, NEW c, c \in R!Candidates(j, pixels)
  PROVE  /\ R!Raster(c[1], c[2]) \in Ids(R!Baseline(j))
         /\ j.pages[c[1]].text # Nil => R!Native(c[1]) \in Ids(R!Baseline(j))
<1>1. PICK i, k : i \in DOMAIN j.pages /\ k \in DOMAIN j.pages[i].rasters /\ c = <<i, k>>
  BY DEF R!Candidates
<1>2. c[1] = i /\ c[2] = k
  BY <1>1
<1> QED BY <1>1, <1>2, RasterBaselineDistinct

(***************************************************************************)
(* What was read and seen.                                                 *)
(***************************************************************************)
LEMMA OcrDistinct ==
  ASSUME NEW j, OcrSound(j), R!DistinctNames(R!Regions(j.ocr)) PROVE Distinct(R!OcrPrimitives(j))
<1>1. PICK n \in Nat : n = Len(j.ocr.words)
  BY ListIs DEF OcrSound
<1>2. PICK regs, c : regs = R!Regions(j.ocr) /\ c = R!Target(j, j.ocr)
  OBVIOUS
<1>3. PICK m \in Nat : m = Len(regs) /\ DOMAIN regs = 1..m
  BY <1>2, ListIs DEF OcrSound
<1>4. PICK words : words = [k \in 1..n |-> R!Inferred(OcrWord(j, k), {R!Raster(c[1], c[2])})]
  OBVIOUS
<1>5. PICK regions : regions = [k \in 1..m |-> R!Inferred(OcrRegion(j, regs[k].id), {OcrName(j, x) : x \in regs[k].refs})]
  OBVIOUS
<1>6. PICK t : t = R!Inferred(<<"ocr_table", c>>, {OcrWord(j, k) : k \in 1..n})
  OBVIOUS
<1>7. PICK table : table = IF j.ocr.table THEN <<t>> ELSE <<>>
  OBVIOUS
<1>8. PICK rest : rest = IF j.ocr.schema = "words" THEN <<>> ELSE regions \o table
  OBVIOUS
<1>9. PICK p : p = R!OcrPrimitives(j)
  OBVIOUS
<1>10. p = words \o rest
  BY <1>1, <1>2, <1>3, <1>4, <1>5, <1>6, <1>7, <1>8, <1>9 DEF R!OcrPrimitives, OcrWord, OcrRegion, OcrName
<1>11. /\ \A k \in 1..n : words[k].id = OcrWord(j, k)
       /\ \A k \in 1..m : regions[k].id = OcrRegion(j, regs[k].id)
       /\ t.id = <<"ocr_table", c>> /\ t.id[1] = "ocr_table"
  BY <1>4, <1>5, <1>6, RasterRecordIs
<1>12. \A k, x : OcrWord(j, k)[1] = "ocr_word" /\ OcrWord(j, k)[3] = k /\ OcrRegion(j, x)[1] = "ocr_region" /\ OcrRegion(j, x)[3] = x
  BY DEF OcrWord, OcrRegion
<1>13. OfKinds(words, {"ocr_word"})
  <2>1. \A a, b \in 1..n : words[a].id = words[b].id => a = b
    BY <1>11, <1>12
  <2>2. DistinctOver(words, n)
    BY <1>4, <2>1 DEF DistinctOver
  <2>3. Distinct(words) /\ Ids(words) = {words[k].id : k \in 1..n}
    BY <2>2, DistinctTable
  <2> QED BY <1>11, <1>12, <2>3 DEF OfKinds
<1>14. OfKinds(regions, {"ocr_region"})
  <2>1. Distinct(regs)
    BY <1>2, RasterNamed DEF OcrSound
  <2>2. ASSUME NEW a \in 1..m, NEW b \in 1..m, regions[a].id = regions[b].id PROVE a = b
    <3>1. regs[a].id = regs[b].id
      BY <1>11, <1>12, <2>2
    <3> QED BY <1>3, <2>1, <3>1 DEF Distinct
  <2>3. DistinctOver(regions, m)
    BY <1>5, <2>2 DEF DistinctOver
  <2>4. Distinct(regions) /\ Ids(regions) = {regions[k].id : k \in 1..m}
    BY <2>3, DistinctTable
  <2> QED BY <1>11, <1>12, <2>4 DEF OfKinds
<1>15. OfKinds(table, {"ocr_table"})
  <2>1. OfKinds(<<t>>, {"ocr_table"}) /\ OfKinds(<<>>, {"ocr_table"})
    BY <1>11, KindsFew
  <2> QED BY <1>7, <2>1
<1>16. OfKinds(rest, {"ocr_region", "ocr_table"})
  <2>1. {"ocr_region"} \cap {"ocr_table"} = {} /\ {"ocr_region"} \cup {"ocr_table"} = {"ocr_region", "ocr_table"}
    OBVIOUS
  <2>2. OfKinds(regions \o table, {"ocr_region"} \cup {"ocr_table"})
    BY <1>14, <1>15, <2>1, KindsJoined
  <2>3. OfKinds(<<>>, {"ocr_region", "ocr_table"})
    BY DistinctTogether DEF OfKinds
  <2> QED BY <1>8, <2>1, <2>2, <2>3
<1>17. PICK high : high = {"ocr_region", "ocr_table"}
  OBVIOUS
<1>18. {"ocr_word"} \cap high = {}
  BY <1>17
<1>19. OfKinds(words \o rest, {"ocr_word"} \cup high)
  BY <1>13, <1>16, <1>17, <1>18, KindsJoined
<1> QED BY <1>9, <1>10, <1>19 DEF OfKinds

LEMMA VisionDistinct ==
  ASSUME NEW j, VisionSound(j), R!DistinctNames(j.vision.candidates), R!DistinctNames(j.vision.relations)
  PROVE  Distinct(R!VisionRecords(j))
<1>1. PICK shapes, links : shapes = j.vision.candidates /\ links = j.vision.relations
  OBVIOUS
<1>2. Distinct(shapes) /\ Distinct(links)
  BY <1>1, RasterNamed DEF VisionSound
<1>3. PICK n \in Nat, m \in Nat : n = Len(shapes) /\ DOMAIN shapes = 1..n /\ m = Len(links) /\ DOMAIN links = 1..m
  BY <1>2, ListIs DEF Distinct
<1>4. PICK c : c = R!Target(j, j.vision)
  OBVIOUS
<1>5. PICK first : first = [k \in 1..n |-> R!Inferred(VisionName(j, shapes[k].id), {R!Raster(c[1], c[2])})]
  OBVIOUS
<1>6. PICK second : second = [k \in 1..m |-> R!Inferred(<<"assert_vision", links[k].id>>, {VisionName(j, x) : x \in links[k].refs})]
  OBVIOUS
<1>7. R!VisionRecords(j) = first \o second
  BY <1>1, <1>3, <1>4, <1>5, <1>6 DEF R!VisionRecords, VisionName
<1>8. /\ \A k \in 1..n : first[k].id = VisionName(j, shapes[k].id)
      /\ \A k \in 1..m : second[k].id = <<"assert_vision", links[k].id>>
  BY <1>5, <1>6, RasterRecordIs
<1>9. \A x : VisionName(j, x)[1] = "vision" /\ VisionName(j, x)[3] = x
  BY DEF VisionName
<1>10. OfKinds(first, {"vision"})
  <2>1. ASSUME NEW a \in 1..n, NEW b \in 1..n, first[a].id = first[b].id PROVE a = b
    <3>1. shapes[a].id = shapes[b].id
      BY <1>8, <1>9, <2>1
    <3> QED BY <1>2, <1>3, <3>1 DEF Distinct
  <2>2. DistinctOver(first, n)
    BY <1>5, <2>1 DEF DistinctOver
  <2>3. Distinct(first) /\ Ids(first) = {first[k].id : k \in 1..n}
    <3>1. \A q \in Nat : \A s : DistinctOver(s, q) => Distinct(s) /\ Ids(s) = {s[k].id : k \in 1..q}
      BY DistinctTable
    <3> QED BY <2>2, <3>1
  <2> QED BY <1>8, <1>9, <2>3 DEF OfKinds
<1>11. OfKinds(second, {"assert_vision"})
  <2>1. ASSUME NEW a \in 1..m, NEW b \in 1..m, second[a].id = second[b].id PROVE a = b
    <3>1. <<"assert_vision", links[a].id>> = <<"assert_vision", links[b].id>>
      BY <1>8, <2>1
    <3>2. links[a].id = links[b].id
      BY <3>1
    <3> QED BY <1>2, <1>3, <3>2 DEF Distinct
  <2>2. DistinctOver(second, m)
    BY <1>6, <2>1 DEF DistinctOver
  <2>3. Distinct(second) /\ Ids(second) = {second[k].id : k \in 1..m}
    BY <2>2, DistinctTable
  <2>4. \A k \in 1..m : second[k].id[1] = "assert_vision"
    BY <1>8
  <2> QED BY <2>3, <2>4 DEF OfKinds
<1>12. {"vision"} \cap {"assert_vision"} = {}
  OBVIOUS
<1>13. OfKinds(first \o second, {"vision"} \cup {"assert_vision"})
  BY <1>10, <1>11, <1>12, KindsJoined
<1> QED BY <1>7, <1>13 DEF OfKinds

OcrKinds == {"ocr_word", "ocr_region", "ocr_table", "assert_ocr_native"}
LEMMA OcrAdded ==
  ASSUME NEW j, R!IsRasterJob(j), R!UniquelyNumbered(j)
  PROVE  /\ OfKinds(OcrAdds(j), OcrKinds)
         /\ \A r \in Items(OcrAdds(j)) : r.refs \subseteq Ids(R!Baseline(j)) \cup Ids(OcrAdds(j))
<1>1. CASE ~RasterFinds(j)
  <2>1. OcrAdds(j) = <<>>
    BY <1>1 DEF OcrAdds
  <2> QED BY <2>1, DistinctTogether DEF OfKinds
<1>2. CASE RasterFinds(j)
  <2>1. OcrSound(j)
    <3>1. j.ocr # Nil
      BY <1>2 DEF RasterFinds, R!OcrVerdict
    <3> QED BY <1>2, <3>1, OcrIs
  <2>2. PICK c, base : c = R!Target(j, j.ocr) /\ base = Ids(R!Baseline(j))
    OBVIOUS
  <2>3. /\ R!Raster(c[1], c[2]) \in base /\ (j.pages[c[1]].text # Nil => R!Native(c[1]) \in base)
    <3>1. c \in R!Candidates(j, j.ocr.locator)
      BY <2>1, <2>2 DEF OcrSound
    <3> QED BY <2>2, <3>1, RasterFound
  <2>4. PICK prims, compared : prims = R!OcrPrimitives(j) /\ compared = R!Comparison(j)
    OBVIOUS
  <2>5. OfKinds(prims, {"ocr_word", "ocr_region", "ocr_table"})
    <3>1. Distinct(prims)
      BY <2>1, <2>4, OcrDistinct DEF R!UniquelyNumbered, OcrSound
    <3>2. \A a \in DOMAIN prims : prims[a].id[1] \in {"ocr_word", "ocr_region", "ocr_table"}
      BY <2>1, <2>2, <2>4, OcrPrimitivesAre
    <3> QED BY <3>1, <3>2 DEF OfKinds, Ids
  <2>6. \A r \in Items(prims) : r.refs \subseteq base \cup Ids(prims)
    <3>1. ASSUME NEW a \in DOMAIN prims PROVE prims[a].refs \subseteq base \cup Ids(prims)
      <4>1. ReadFrom(prims, a, c)
        BY <2>1, <2>2, <2>4, OcrPrimitivesAre
      <4>2. ASSUME NEW x \in prims[a].refs PROVE x \in base \cup Ids(prims)
        <5>1. CASE x = R!Raster(c[1], c[2])
          BY <2>3, <5>1
        <5>2. CASE \E b \in 1..(a - 1) : prims[b].id = x
          <6>1. PICK b \in 1..(a - 1) : prims[b].id = x
            BY <5>2
          <6>2. PICK n \in Nat : DOMAIN prims = 1..n
            BY <2>5, ListIs DEF OfKinds, Distinct
          <6>3. b \in DOMAIN prims
            BY <6>2
          <6> QED BY <6>1, <6>3 DEF Ids
        <5> QED BY <4>1, <4>2, <5>1, <5>2 DEF ReadFrom
      <4> QED BY <4>2
    <3> QED BY <3>1 DEF Items
  <2>7. /\ OfKinds(compared, {"assert_ocr_native"}) /\ \A r \in Items(compared) : r.refs \subseteq base \cup Ids(prims)
    <3>1. PICK cited, shown : /\ cited = {R!Native(c[1])} \cup R!Names(prims)
                              /\ shown = IF R!NativeText(j) = j.ocr.text THEN "equivalent" ELSE "conflicted"
      OBVIOUS
    <3>2. PICK id, x : id = <<"assert_ocr_native", c>> /\ x = R!Derived(id, cited \cup {R!Raster(c[1], c[2])}, shown)
      OBVIOUS
    <3>3. x.id = id /\ x.refs = cited \cup {R!Raster(c[1], c[2])} /\ id[1] = "assert_ocr_native"
      BY <3>2, RasterRecordIs
    <3>4. compared = IF R!NativeText(j) = Nil THEN <<>> ELSE <<x>>
      BY <2>2, <2>4, <3>1, <3>2 DEF R!Comparison
    <3>5. /\ OfKinds(<<x>>, {"assert_ocr_native"}) /\ Items(<<x>>) = {x}
          /\ OfKinds(<<>>, {"assert_ocr_native"}) /\ Items(<<>>) = {}
      BY <3>3, KindsFew
    <3>6. ASSUME R!NativeText(j) # Nil PROVE x.refs \subseteq base \cup Ids(prims)
      <4>1. j.pages[c[1]].text # Nil
        BY <2>2, <3>6 DEF R!NativeText
      <4>2. R!Names(prims) = Ids(prims)
        BY <2>5, RasterNamed DEF OfKinds, Distinct
      <4> QED BY <2>3, <3>1, <3>3, <4>1, <4>2
    <3> QED BY <3>4, <3>5, <3>6
  <2>8. PICK low : low = {"ocr_word", "ocr_region", "ocr_table"}
    OBVIOUS
  <2>9. low \cap {"assert_ocr_native"} = {} /\ low \cup {"assert_ocr_native"} = OcrKinds
    BY <2>8 DEF OcrKinds
  <2>10. /\ OfKinds(prims \o compared, low \cup {"assert_ocr_native"}) /\ Ids(prims \o compared) = Ids(prims) \cup Ids(compared)
         /\ Items(prims \o compared) = Items(prims) \cup Items(compared)
    BY <2>5, <2>7, <2>8, <2>9, KindsJoined
  <2>11. OcrAdds(j) = prims \o compared
    BY <1>2, <2>4 DEF OcrAdds
  <2>12. \A r \in Items(prims \o compared) : r.refs \subseteq base \cup Ids(prims \o compared)
    BY <2>6, <2>7, <2>10
  <2> QED BY <2>2, <2>9, <2>10, <2>11, <2>12
<1> QED BY <1>1, <1>2

VisionKinds == {"vision", "assert_vision"}
LEMMA VisionAdded ==
  ASSUME NEW j, R!IsRasterJob(j), R!UniquelyNumbered(j)
  PROVE  /\ OfKinds(VisionAdds(j), VisionKinds)
         /\ \A r \in Items(VisionAdds(j)) : r.refs \subseteq Ids(R!Baseline(j)) \cup Ids(VisionAdds(j))
<1>1. CASE ~RasterSees(j)
  <2>1. VisionAdds(j) = <<>>
    BY <1>1 DEF VisionAdds
  <2> QED BY <2>1, DistinctTogether DEF OfKinds
<1>2. CASE RasterSees(j)
  <2>1. VisionSound(j)
    BY <1>2, VisionIs
  <2>2. PICK c, base : c = R!Target(j, j.vision) /\ base = Ids(R!Baseline(j))
    OBVIOUS
  <2>3. R!Raster(c[1], c[2]) \in base
    <3>1. c \in R!Candidates(j, j.vision.locator)
      BY <2>1, <2>2 DEF VisionSound
    <3> QED BY <2>2, <3>1, RasterFound
  <2>4. PICK seen_ : seen_ = VisionAdds(j)
    OBVIOUS
  <2>5. seen_ = R!VisionRecords(j)
    BY <1>2, <2>4 DEF VisionAdds
  <2>6. OfKinds(seen_, VisionKinds)
    <3>1. Distinct(seen_)
      BY <2>1, <2>5, VisionDistinct DEF R!UniquelyNumbered, VisionSound
    <3>2. \A a \in DOMAIN seen_ : seen_[a].id[1] \in VisionKinds
      BY <2>1, <2>2, <2>5, VisionRecordsAre DEF VisionKinds
    <3> QED BY <3>1, <3>2 DEF OfKinds, Ids
  <2>7. ASSUME NEW a \in DOMAIN seen_ PROVE seen_[a].refs \subseteq base \cup Ids(seen_)
    <3>1. ReadFrom(seen_, a, c)
      BY <2>1, <2>2, <2>5, VisionRecordsAre
    <3>2. ASSUME NEW x \in seen_[a].refs PROVE x \in base \cup Ids(seen_)
      <4>1. CASE x = R!Raster(c[1], c[2])
        BY <2>3, <4>1
      <4>2. CASE \E b \in 1..(a - 1) : seen_[b].id = x
        <5>1. PICK b \in 1..(a - 1) : seen_[b].id = x
          BY <4>2
        <5>2. PICK n \in Nat : DOMAIN seen_ = 1..n
          BY <2>6, ListIs DEF OfKinds, Distinct
        <5>3. b \in DOMAIN seen_
          BY <5>2
        <5> QED BY <5>1, <5>3 DEF Ids
      <4> QED BY <3>1, <3>2, <4>1, <4>2 DEF ReadFrom
    <3> QED BY <3>2
  <2>8. \A r \in Items(seen_) : r.refs \subseteq base \cup Ids(seen_)
    BY <2>7 DEF Items
  <2> QED BY <2>2, <2>4, <2>6, <2>8
<1> QED BY <1>1, <1>2

\* All records.
RasterKinds == RasterSourceKinds \cup OcrKinds \cup VisionKinds
LEMMA RasterRecorded ==
  ASSUME NEW j, R!IsRasterJob(j), R!UniquelyNumbered(j)
  PROVE  /\ OfKinds(RasterRecords(j), RasterKinds)
         /\ Ids(RasterRecords(j)) = Ids(R!Baseline(j)) \cup Ids(OcrAdds(j)) \cup Ids(VisionAdds(j))
         /\ \A r \in Items(RasterRecords(j)) : r.refs \subseteq Ids(RasterRecords(j))
<1>1. PICK base, read_, seen_ : base = R!Baseline(j) /\ read_ = OcrAdds(j) /\ seen_ = VisionAdds(j)
  OBVIOUS
<1>2. OfKinds(base, RasterSourceKinds) /\ R!Source \in Ids(base) /\ \A r \in Items(base) : r.refs \subseteq {R!Source}
  BY <1>1, RasterBaselineDistinct
<1>3. OfKinds(read_, OcrKinds) /\ \A r \in Items(read_) : r.refs \subseteq Ids(base) \cup Ids(read_)
  BY <1>1, OcrAdded
<1>4. OfKinds(seen_, VisionKinds) /\ \A r \in Items(seen_) : r.refs \subseteq Ids(base) \cup Ids(seen_)
  BY <1>1, VisionAdded
<1>5. PICK first : first = base \o read_
  OBVIOUS
<1>6. /\ OfKinds(first, RasterSourceKinds \cup OcrKinds) /\ Ids(first) = Ids(base) \cup Ids(read_)
      /\ Items(first) = Items(base) \cup Items(read_)
  <2>1. RasterSourceKinds \cap OcrKinds = {}
    BY DEF RasterSourceKinds, OcrKinds
  <2> QED BY <1>2, <1>3, <1>5, <2>1, KindsJoined
<1>7. PICK all : all = first \o seen_
  OBVIOUS
<1>8. /\ OfKinds(all, (RasterSourceKinds \cup OcrKinds) \cup VisionKinds) /\ Ids(all) = Ids(first) \cup Ids(seen_)
      /\ Items(all) = Items(first) \cup Items(seen_)
  <2>1. (RasterSourceKinds \cup OcrKinds) \cap VisionKinds = {}
    BY DEF RasterSourceKinds, OcrKinds, VisionKinds
  <2> QED BY <1>4, <1>6, <1>7, <2>1, KindsJoined
<1>9. \A r \in Items(all) : r.refs \subseteq Ids(all)
  BY <1>2, <1>3, <1>4, <1>6, <1>8
<1>10. RasterRecords(j) = all
  BY <1>1, <1>5, <1>7, RasterRecordsAre
<1> QED BY <1>1, <1>6, <1>8, <1>9, <1>10 DEF RasterKinds

\* The diagnostics of a package that is written: they all have an identifier.
RasterSaidKinds == {"diag_loss", "diag_ocr", "diag_ocr_rejected"}
LEMMA RasterDiagnosed ==
  ASSUME NEW j, R!IsRasterJob(j), R!UniquelyNumbered(j), \A d \in Items(RasterDiagnostics(j)) : "id" \in DOMAIN d
  PROVE  OfKinds(RasterDiagnostics(j), RasterSaidKinds) /\ \A d \in Items(RasterDiagnostics(j)) : d.refs \subseteq Ids(RasterRecords(j))
<1>1. PICK c, all : c = R!Target(j, j.ocr) /\ all = Ids(RasterRecords(j))
  OBVIOUS
<1>2. PICK fixed, text, none, differs, refused :
        /\ fixed = R!Loss("3d_geometry", "HIDDEN_GEOMETRY_UNSUPPORTED") /\ text = R!Loss("text", R!TextReason(R!OcrVerdict(j)))
        /\ none = R!Diagnostic(<<"diag_ocr", c, "OCR_NO_TEXT_DETECTED">>, "OCR_NO_TEXT_DETECTED", {R!Raster(c[1], c[2])})
        /\ differs = R!Diagnostic(<<"diag_ocr", c, "OCR_NATIVE_TEXT_CONFLICT">>, "OCR_NATIVE_TEXT_CONFLICT",
                                  {R!Native(c[1])} \cup R!Names(R!OcrPrimitives(j)))
        /\ refused = R!Rejection(R!OcrVerdict(j))
  OBVIOUS
<1>3. /\ fixed.id = <<"diag_loss", "3d_geometry">> /\ text.id = <<"diag_loss", "text">>
      /\ none.id = <<"diag_ocr", c, "OCR_NO_TEXT_DETECTED">> /\ differs.id = <<"diag_ocr", c, "OCR_NATIVE_TEXT_CONFLICT">>
      /\ refused.id = <<"diag_ocr_rejected", R!OcrVerdict(j)>>
      /\ fixed.refs = {R!Source} /\ text.refs = {R!Source} /\ refused.refs = {R!Source}
      /\ none.refs = {R!Raster(c[1], c[2])} /\ differs.refs = {R!Native(c[1])} \cup R!Names(R!OcrPrimitives(j))
  BY <1>2, RasterRecordIs DEF R!Loss, R!Rejection
<1>4. /\ fixed.id[1] = "diag_loss" /\ text.id[1] = "diag_loss" /\ none.id[1] = "diag_ocr" /\ differs.id[1] = "diag_ocr"
      /\ refused.id[1] = "diag_ocr_rejected" /\ fixed.id # text.id /\ none.id # differs.id
  BY <1>3
<1>5. PICK losses, lost, unread, conflict, rejected :
        /\ losses = <<fixed>> /\ lost = (IF R!TextLevel(j, R!OcrVerdict(j)) = "full" THEN <<>> ELSE <<text>>)
        /\ unread = (IF R!OcrPrimitives(j) = <<>> THEN <<none>> ELSE <<>>)
        /\ conflict = (IF R!NativeText(j) \in {Nil, j.ocr.text} THEN <<>> ELSE <<differs>>)
        /\ rejected = (IF R!OcrVerdict(j) \in {"absent", "accepted"} THEN <<>> ELSE <<refused>>)
  OBVIOUS
<1>6. R!Losses(j, R!OcrVerdict(j)) = losses \o lost /\ R!OcrDiagnostics(j) = unread \o conflict
  BY <1>1, <1>2, <1>5 DEF R!Losses, R!OcrDiagnostics
<1>7. PICK sights : sights = R!VisionDiagnostics(j, R!VisionVerdict(j))
  OBVIOUS
<1>8. PICK said : said = RasterReadSaid(j)
  OBVIOUS
<1>9. RasterDiagnostics(j) = ((losses \o lost) \o (said \o sights)) \o rejected
  BY <1>2, <1>5, <1>6, <1>7, <1>8 DEF RasterDiagnostics, RasterSaid
<1>10. R!Source \in all
  BY <1>1, RasterRecorded, RasterBaselineDistinct
<1>11. /\ OfKinds(losses \o lost, {"diag_loss"}) /\ \A d \in Items(losses \o lost) : d.refs \subseteq all
  <2>1. Distinct(losses) /\ Ids(losses) = {fixed.id} /\ Items(losses) = {fixed}
    BY <1>5, DistinctTogether
  <2>2. Distinct(lost) /\ Ids(lost) \subseteq {text.id} /\ Items(lost) \subseteq {text}
    BY <1>5, DistinctTogether
  <2>3. \A x \in Ids(losses) : x \notin Ids(lost)
    BY <1>4, <2>1, <2>2
  <2>4. Distinct(losses \o lost) /\ Ids(losses \o lost) = Ids(losses) \cup Ids(lost) /\ Items(losses \o lost) = Items(losses) \cup Items(lost)
    BY <2>1, <2>2, <2>3, DistinctPair
  <2>5. \A x \in Ids(losses \o lost) : x[1] = "diag_loss"
    BY <1>4, <2>1, <2>2, <2>4
  <2>6. \A d \in Items(losses \o lost) : d.refs \subseteq all
    BY <1>3, <1>10, <2>1, <2>2, <2>4
  <2> QED BY <2>4, <2>5, <2>6 DEF OfKinds
<1>12. /\ OfKinds(said, {"diag_ocr"}) /\ \A d \in Items(said) : d.refs \subseteq all
  <2>1. CASE ~RasterFinds(j)
    <3>1. said = <<>>
      BY <1>8, <2>1 DEF RasterReadSaid
    <3> QED BY <3>1, DistinctTogether DEF OfKinds
  <2>2. CASE RasterFinds(j)
    <3>1. OcrSound(j)
      <4>1. j.ocr # Nil
        BY <2>2 DEF RasterFinds, R!OcrVerdict
      <4> QED BY <2>2, <4>1, OcrIs
    <3>2. c \in R!Candidates(j, j.ocr.locator)
      BY <1>1, <3>1 DEF OcrSound
    <3>3. Ids(R!Baseline(j)) \subseteq all /\ Ids(OcrAdds(j)) \subseteq all
      BY <1>1, RasterRecorded
    <3>4. R!Raster(c[1], c[2]) \in all /\ (j.pages[c[1]].text # Nil => R!Native(c[1]) \in all)
      BY <3>2, <3>3, RasterFound
    <3>5. R!Names(R!OcrPrimitives(j)) \subseteq all
      <4>1. IsList(R!OcrPrimitives(j)) /\ IsList(R!Comparison(j))
        BY <1>1, <3>1, OcrPrimitivesAre, ComparisonIs
      <4>2. OcrAdds(j) = R!OcrPrimitives(j) \o R!Comparison(j)
        BY <2>2 DEF OcrAdds
      <4>3. Ids(R!OcrPrimitives(j)) \subseteq Ids(OcrAdds(j))
        BY <4>1, <4>2, IdsAre
      <4> QED BY <3>3, <4>1, <4>3, RasterNamed
    <3>6. Distinct(unread) /\ Ids(unread) \subseteq {none.id} /\ Items(unread) \subseteq {none}
      BY <1>5, DistinctTogether
    <3>7. Distinct(conflict) /\ Ids(conflict) \subseteq {differs.id} /\ Items(conflict) \subseteq {differs}
      BY <1>5, DistinctTogether
    <3>8. PICK both : both = unread \o conflict
      OBVIOUS
    <3>9. Distinct(both) /\ Ids(both) = Ids(unread) \cup Ids(conflict) /\ Items(both) = Items(unread) \cup Items(conflict)
      <4>1. \A x \in Ids(unread) : x \notin Ids(conflict)
        BY <1>4, <3>6, <3>7
      <4> QED BY <3>6, <3>7, <3>8, <4>1, DistinctPair
    <3>10. said = both
      <4>1. said = <<>> \o both
        BY <1>6, <1>8, <2>2, <3>8 DEF RasterReadSaid
      <4>2. both \in Seq(Items(both))
        BY <3>9 DEF Distinct, IsList
      <4>3. <<>> \o both = both
        BY <4>2
      <4> QED BY <4>1, <4>3
    <3>11. \A x \in Ids(both) : x[1] = "diag_ocr"
      BY <1>4, <3>6, <3>7, <3>9
    <3>12. \A d \in Items(both) : d.refs \subseteq all
      <4>1. none.refs \subseteq all
        BY <1>3, <3>4
      <4>2. ASSUME differs \in Items(conflict) PROVE differs.refs \subseteq all
        <5>1. R!NativeText(j) \notin {Nil, j.ocr.text}
          BY <1>5, <4>2, DistinctTogether
        <5>2. j.pages[c[1]].text # Nil
          BY <1>1, <5>1 DEF R!NativeText
        <5> QED BY <1>3, <3>4, <3>5, <5>2
      <4> QED BY <3>6, <3>7, <3>9, <4>1, <4>2
    <3> QED BY <3>9, <3>10, <3>11, <3>12 DEF OfKinds
  <2> QED BY <2>1, <2>2
<1>13. OfKinds(rejected, {"diag_ocr_rejected"}) /\ \A d \in Items(rejected) : d.refs \subseteq all
  <2>1. /\ OfKinds(<<refused>>, {"diag_ocr_rejected"}) /\ Items(<<refused>>) = {refused}
        /\ OfKinds(<<>>, {"diag_ocr_rejected"}) /\ Items(<<>>) = {}
    BY <1>4, KindsFew
  <2>2. rejected = <<>> \/ rejected = <<refused>>
    BY <1>5
  <2> QED BY <1>3, <1>10, <2>1, <2>2
<1>14. sights = <<>>
  <2>1. PICK a, b : a = [code |-> "VISION_PROVIDER_RESULT_REJECTED", refs |-> {}] /\ b = [code |-> "VISION_NO_CANDIDATE", refs |-> {}]
    OBVIOUS
  <2>2. "id" \notin DOMAIN a /\ "id" \notin DOMAIN b
    BY <2>1
  <2>3. sights \in {<<>>, <<a>>, <<b>>}
    BY <1>7, <2>1 DEF R!VisionDiagnostics
  <2>4. IsList(sights) /\ (sights = <<a>> => Items(sights) = {a}) /\ (sights = <<b>> => Items(sights) = {b})
    BY <2>3, Short
  <2>5. Items(sights) \subseteq Items(RasterDiagnostics(j))
    <3>1. IsList(losses \o lost) /\ IsList(said) /\ IsList(rejected)
      BY <1>11, <1>12, <1>13 DEF OfKinds, Distinct
    <3>2. IsList(said \o sights) /\ Items(said \o sights) = Items(said) \cup Items(sights)
      BY <2>4, <3>1, Joined
    <3>3. PICK most : most = (losses \o lost) \o (said \o sights)
      OBVIOUS
    <3>4. IsList(most) /\ Items(most) = Items(losses \o lost) \cup Items(said \o sights)
      BY <3>1, <3>2, <3>3, Joined
    <3>5. Items(RasterDiagnostics(j)) = Items(most) \cup Items(rejected)
      BY <1>9, <3>1, <3>3, <3>4, Joined
    <3> QED BY <3>2, <3>4, <3>5
  <2> QED BY <2>2, <2>3, <2>4, <2>5
<1>15. said \o sights = said
  <2>1. said \in Seq(Items(said))
    BY <1>12 DEF OfKinds, Distinct, IsList
  <2> QED BY <1>14, <2>1
<1>16. PICK first, most : first = losses \o lost /\ most = first \o said
  OBVIOUS
<1>17. OfKinds(most, {"diag_loss", "diag_ocr"}) /\ Items(most) = Items(first) \cup Items(said)
  <2>1. {"diag_loss"} \cap {"diag_ocr"} = {} /\ {"diag_loss"} \cup {"diag_ocr"} = {"diag_loss", "diag_ocr"}
    OBVIOUS
  <2>2. OfKinds(most, {"diag_loss"} \cup {"diag_ocr"}) /\ Items(most) = Items(first) \cup Items(said)
    BY <1>11, <1>12, <1>16, <2>1, KindsJoined
  <2> QED BY <2>1, <2>2
<1>18. PICK low : low = {"diag_loss", "diag_ocr"}
  OBVIOUS
<1>19. OfKinds(most \o rejected, low \cup {"diag_ocr_rejected"}) /\ Items(most \o rejected) = Items(most) \cup Items(rejected)
  <2>1. low \cap {"diag_ocr_rejected"} = {}
    BY <1>18
  <2> QED BY <1>13, <1>17, <1>18, <2>1, KindsJoined
<1>20. low \cup {"diag_ocr_rejected"} = RasterSaidKinds
  BY <1>18 DEF RasterSaidKinds
<1>21. RasterDiagnostics(j) = most \o rejected
  BY <1>9, <1>15, <1>16
<1>22. \A d \in Items(most \o rejected) : d.refs \subseteq all
  BY <1>11, <1>12, <1>13, <1>16, <1>17, <1>19
<1> QED BY <1>1, <1>19, <1>20, <1>21, <1>22

(***************************************************************************)
(* What image.py and pdf.py write has unique identifiers and names only    *)
(* records of the package.                                                 *)
(***************************************************************************)
LEMMA RasterClosed == ASSUME RasterBuilt PROVE R!WrittenIsClosed
<1> SUFFICES ASSUME outcome = "written", R!UniquelyNumbered(job)
             PROVE  /\ \A a, b \in R!Positions(R!All) : R!All[a].id = R!All[b].id => a = b
                    /\ \A a \in R!Positions(R!All) : R!All[a].refs \subseteq R!Names(R!All)
  BY DEF R!WrittenIsClosed, R!Written
<1>1. PICK s, t, all : s = records /\ t = diagnostics /\ all = s \o t
  OBVIOUS
<1>2. R!IsRasterJob(job) /\ s = RasterRecords(job) /\ t = RasterDiagnostics(job) /\ \A d \in Items(RasterDiagnostics(job)) : "id" \in DOMAIN d
  BY <1>1, RasterAssumption DEF RasterBuilt
<1>3. OfKinds(s, RasterKinds) /\ \A r \in Items(s) : r.refs \subseteq Ids(s)
  BY <1>2, RasterRecorded
<1>4. OfKinds(t, RasterSaidKinds) /\ \A d \in Items(t) : d.refs \subseteq Ids(s)
  BY <1>2, RasterDiagnosed
<1>5. RasterKinds \cap RasterSaidKinds = {}
  BY DEF RasterKinds, RasterSourceKinds, OcrKinds, VisionKinds, RasterSaidKinds
<1>6. OfKinds(all, RasterKinds \cup RasterSaidKinds) /\ Ids(all) = Ids(s) \cup Ids(t) /\ Items(all) = Items(s) \cup Items(t)
  BY <1>1, <1>3, <1>4, <1>5, KindsJoined
<1>7. IsList(all) /\ \A a, b \in DOMAIN all : all[a].id = all[b].id => a = b
  BY <1>6 DEF OfKinds, Distinct
<1>8. R!All = all /\ R!Names(all) = Ids(all) /\ R!Positions(all) = DOMAIN all
  <2>1. R!All = all
    BY <1>1 DEF R!All
  <2>2. PICK n \in Nat : n = Len(all) /\ DOMAIN all = 1..n
    BY <1>7, ListIs
  <2> QED BY <1>7, <2>1, <2>2, RasterNamed DEF R!Positions
<1>9. \A a \in DOMAIN all : all[a].refs \subseteq Ids(all)
  BY <1>3, <1>4, <1>6 DEF Items
<1> QED BY <1>7, <1>8, <1>9

(***************************************************************************)
(* The visit of the documents of a bundle, depth first.  The stack is a    *)
(* chain of xrefs from the root; an xref of a document that was taken up   *)
(* is visited, or pending in the frame of the document.  The chain gives   *)
(* the cycle and the depth, the rest that what was not visited cannot be   *)
(* reached.                                                                *)
(***************************************************************************)
Places == DOMAIN job.files
Frames == [path : Places, pending : SUBSET Nat]
Chained ==
  /\ stack # <<>> => stack[1].path = 0
  /\ \A k \in 1..Len(stack) : /\ D!Document(stack[k].path) # Broken
                              /\ stack[k].pending \subseteq D!Document(stack[k].path).xrefs
  /\ \A k \in 1..Len(stack) : k + 1 \in 1..Len(stack) => stack[k + 1].path \in D!Document(stack[k].path).xrefs
Followed ==
  \A k \in DOMAIN documents : \A x \in D!Document(documents[k].path).xrefs :
     D!Visited(x) \/ \E m \in 1..Len(stack) : stack[m].path = documents[k].path /\ x \in stack[m].pending
DxfInv ==
  /\ job \in DxfJobs
  /\ DOMAIN disk = Places /\ \A path \in Places : D!IsContent(disk[path])
  /\ index \in Nat \ {0} /\ rewrites \in Nat
  /\ \A e \in admitted : e.path \in Places
  /\ stack \in Seq(Frames) /\ IsList(documents)
  /\ pc # "done" => outcome = "running"
  /\ D!Bundled /\ rewrites = 0 => Chained /\ Followed /\ (pc = "visit" => D!Visited(0))
  /\ D!RefusedWithCause

\* Of the edges between files: they are the xrefs of those that parse.
LEMMA EdgeIs ==
  \A p, x : <<p, x>> \in D!FileEdges <=> p \in DOMAIN disk /\ D!Document(p) # Broken /\ x \in D!Document(p).xrefs
BY DEF D!FileEdges

\* A path goes on by an edge.
LEMMA PathsExtend ==
  ASSUME NEW n \in Nat \ {0}, NEW s \in D!Paths(n), NEW x \in DOMAIN disk, <<s[n], x>> \in D!FileEdges
  PROVE  \E t \in D!Paths(n + 1) : t[n + 1] = x
<1>1. PICK t : t = [k \in 1..n + 1 |-> IF k <= n THEN s[k] ELSE x]
  OBVIOUS
<1>2. s \in [1..n -> DOMAIN disk] /\ s[1] = 0 /\ \A i \in 1..(n - 1) : <<s[i], s[i + 1]>> \in D!FileEdges
  BY DEF D!Paths
<1>3. t \in [1..n + 1 -> DOMAIN disk] /\ t[1] = 0 /\ t[n + 1] = x
  BY <1>1, <1>2
<1>4. ASSUME NEW i \in 1..(n + 1 - 1) PROVE <<t[i], t[i + 1]>> \in D!FileEdges
  <2>1. CASE i = n
    BY <1>1, <2>1
  <2>2. CASE i # n
    <3>1. i \in 1..(n - 1) /\ t[i] = s[i] /\ t[i + 1] = s[i + 1]
      BY <1>1, <2>2
    <3> QED BY <1>2, <3>1
  <2> QED BY <2>1, <2>2
<1>5. t \in D!Paths(n + 1)
  BY <1>3, <1>4 DEF D!Paths
<1> QED BY <1>3, <1>5

\* The beginning of a path is a path.
LEMMA PathsBegin == ASSUME NEW m \in Nat, NEW n \in 1..m, NEW s \in D!Paths(m) PROVE D!Paths(n) # {}
<1>1. PICK t : t = [k \in 1..n |-> s[k]]
  OBVIOUS
<1>2. s \in [1..m -> DOMAIN disk] /\ s[1] = 0 /\ \A i \in 1..(m - 1) : <<s[i], s[i + 1]>> \in D!FileEdges
  BY DEF D!Paths
<1>3. t \in [1..n -> DOMAIN disk] /\ t[1] = 0
  BY <1>1, <1>2
<1>4. ASSUME NEW i \in 1..(n - 1) PROVE <<t[i], t[i + 1]>> \in D!FileEdges
  <2>1. i \in 1..(m - 1) /\ t[i] = s[i] /\ t[i + 1] = s[i + 1]
    BY <1>1
  <2> QED BY <1>2, <2>1
<1>5. t \in D!Paths(n)
  BY <1>3, <1>4 DEF D!Paths
<1> QED BY <1>5

\* Where every file has an xref into the same files, there are paths of any length.
LEMMA PathsWithoutEnd ==
  ASSUME NEW C \in SUBSET (DOMAIN disk), 0 \in C, \A p \in C : \E x \in C : <<p, x>> \in D!FileEdges
  PROVE  \A n \in Nat \ {0} : D!Paths(n) # {}
<1>1. PICK T : T = {m \in Nat : \E s \in D!Paths(m + 1) : s[m + 1] \in C}
  OBVIOUS
<1>2. 0 \in T
  <2>1. PICK s : s = [k \in 1..1 |-> 0]
    OBVIOUS
  <2>2. s \in [1..1 -> DOMAIN disk] /\ s[1] = 0 /\ 1..(1 - 1) = {}
    BY <2>1
  <2>3. s \in D!Paths(1)
    BY <2>2 DEF D!Paths
  <2>4. 0 + 1 = 1
    OBVIOUS
  <2> QED BY <1>1, <2>2, <2>3, <2>4
<1>3. ASSUME NEW m \in Nat, m \in T PROVE m + 1 \in T
  <2>1. PICK s \in D!Paths(m + 1) : s[m + 1] \in C
    BY <1>1, <1>3
  <2>2. PICK x \in C : <<s[m + 1], x>> \in D!FileEdges
    BY <2>1
  <2>3. m + 1 \in Nat \ {0}
    OBVIOUS
  <2>4. \E t \in D!Paths((m + 1) + 1) : t[(m + 1) + 1] = x
    BY <2>1, <2>2, <2>3, PathsExtend
  <2> QED BY <1>1, <2>2, <2>3, <2>4
<1>4. Nat \subseteq T
  BY <1>2, <1>3, Induction
<1> SUFFICES ASSUME NEW n \in Nat \ {0} PROVE D!Paths(n) # {}
  OBVIOUS
<1>5. n - 1 \in Nat /\ (n - 1) + 1 = n
  OBVIOUS
<1>6. \E s \in D!Paths((n - 1) + 1) : s[(n - 1) + 1] \in C
  BY <1>1, <1>4, <1>5
<1> QED BY <1>5, <1>6

\* The visit, when nothing was rewritten: its stack is a path.
LEMMA StackIsPath ==
  ASSUME stack \in Seq(Frames), Chained, DOMAIN disk = Places, stack # <<>>
  PROVE  /\ Len(stack) \in Nat \ {0}
         /\ [k \in 1..Len(stack) |-> stack[k].path] \in D!Paths(Len(stack))
<1>1. PICK n : n = Len(stack)
  OBVIOUS
<1>2. n \in Nat \ {0} /\ \A k \in 1..n : stack[k] \in Frames
  BY <1>1
<1>3. PICK s : s = [k \in 1..n |-> stack[k].path]
  OBVIOUS
<1>4. s \in [1..n -> DOMAIN disk] /\ s[1] = 0
  BY <1>1, <1>2, <1>3 DEF Frames, Chained
<1>5. ASSUME NEW i \in 1..(n - 1) PROVE <<s[i], s[i + 1]>> \in D!FileEdges
  <2>1. i \in 1..n /\ i + 1 \in 1..n
    BY <1>2
  <2>2. D!Document(s[i]) # Broken /\ s[i + 1] \in D!Document(s[i]).xrefs
    BY <1>1, <1>3, <2>1 DEF Chained
  <2> QED BY <1>4, <2>1, <2>2, EdgeIs
<1>6. s \in D!Paths(n)
  BY <1>4, <1>5 DEF D!Paths
<1> QED BY <1>1, <1>2, <1>3, <1>6

\* The next xref of a frame is one that it has.
LEMMA NextXrefIs ==
  ASSUME stack \in Seq(Frames), stack # <<>>, D!Top.pending # {}
  PROVE  D!NextXref \in D!Top.pending /\ D!Top \in Frames /\ Len(stack) \in Nat \ {0}
<1>1. Len(stack) \in Nat \ {0}
  OBVIOUS
<1>2. D!Top \in Frames
  BY <1>1 DEF D!Top
<1>3. D!Top.pending \in SUBSET Nat
  BY <1>2 DEF Frames
<1>4. \E x \in D!Top.pending : \A y \in D!Top.pending : x <= y
  BY <1>3, Least
<1> QED BY <1>1, <1>2, <1>4 DEF D!NextXref, D!Min

\* The stack after an xref was looked at, and after a frame was left.
LEMMA LookedIs ==
  ASSUME stack \in Seq(Frames), stack # <<>>
  PROVE  /\ D!Looked \in Seq(Frames) /\ Len(D!Looked) = Len(stack)
         /\ \A k \in 1..Len(stack) : D!Looked[k] = [path |-> stack[k].path,
              pending |-> IF k = Len(stack) THEN stack[k].pending \ {D!NextXref} ELSE stack[k].pending]
         /\ D!Below \in Seq(Frames) /\ Len(D!Below) = Len(stack) - 1
         /\ \A k \in 1..(Len(stack) - 1) : D!Below[k] = stack[k]
<1>1. PICK n : n = Len(stack)
  OBVIOUS
<1>2. n \in Nat \ {0} /\ \A k \in 1..n : stack[k] \in Frames
  BY <1>1
<1>3. D!Below \in Seq(Frames) /\ Len(D!Below) = n - 1 /\ \A k \in 1..(n - 1) : D!Below[k] = stack[k]
  BY <1>1, <1>2 DEF D!Below
<1>4. PICK top : top = [D!Top EXCEPT !.pending = @ \ {D!NextXref}]
  OBVIOUS
<1>5. D!Top = stack[n] /\ D!Top \in Frames
  BY <1>1, <1>2 DEF D!Top
<1>6. top = [path |-> stack[n].path, pending |-> stack[n].pending \ {D!NextXref}] /\ top \in Frames
  BY <1>4, <1>5 DEF Frames
<1>7. /\ D!Looked \in Seq(Frames) /\ Len(D!Looked) = n
      /\ \A k \in 1..(n - 1) : D!Looked[k] = stack[k]
      /\ D!Looked[n] = top
  BY <1>2, <1>3, <1>4, <1>6 DEF D!Looked
<1>8. \A k \in 1..n : stack[k] = [path |-> stack[k].path, pending |-> stack[k].pending]
  BY <1>2 DEF Frames
<1>9. ASSUME NEW k \in 1..n
      PROVE  D!Looked[k] = [path |-> stack[k].path, pending |-> IF k = n THEN stack[k].pending \ {D!NextXref} ELSE stack[k].pending]
  <2>1. CASE k = n
    BY <1>6, <1>7, <2>1
  <2>2. CASE k # n
    <3>1. k \in 1..(n - 1)
      BY <1>2, <2>2
    <3> QED BY <1>7, <1>8, <2>2, <3>1
  <2> QED BY <2>1, <2>2
<1> QED BY <1>1, <1>3, <1>7, <1>9

\* An xref is refused for a cycle only if there are paths of any length.
LEMMA CycleIs ==
  ASSUME DxfInv, Chained, D!Looking, D!OnStack(D!NextXref) PROVE D!Paths(Cardinality(DOMAIN disk) + 1) # {}
<1>1. stack \in Seq(Frames) /\ stack # <<>> /\ D!Top.pending # {} /\ DOMAIN disk = Places /\ job \in DxfJobs
  BY DEF DxfInv, D!Looking
<1>2. PICK n : n = Len(stack) /\ n \in Nat \ {0}
  BY <1>1, NextXrefIs
<1>3. D!Top = stack[n] /\ D!NextXref \in stack[n].pending
  BY <1>1, <1>2, NextXrefIs DEF D!Top
<1>4. PICK C : C = {stack[k].path : k \in 1..n}
  OBVIOUS
<1>5. \A k \in 1..n : stack[k] \in Frames
  BY <1>1, <1>2
<1>6. C \in SUBSET (DOMAIN disk)
  BY <1>1, <1>4, <1>5 DEF Frames
<1>7. 0 \in C
  <2>1. 1 \in 1..n
    BY <1>2
  <2> QED BY <1>1, <1>2, <1>4, <2>1 DEF Chained
<1>8. ASSUME NEW k \in 1..n PROVE \E x \in C : <<stack[k].path, x>> \in D!FileEdges
  <2>1. D!Document(stack[k].path) # Broken /\ stack[k].path \in DOMAIN disk
    BY <1>2, <1>4, <1>6 DEF Chained
  <2>2. CASE k = n
    <3>1. D!NextXref \in D!Document(stack[n].path).xrefs
      BY <1>2, <1>3 DEF Chained
    <3>2. D!NextXref \in C
      BY <1>1, <1>2, <1>4 DEF D!OnStack
    <3> QED BY <2>1, <2>2, <3>1, <3>2, EdgeIs
  <2>3. CASE k # n
    <3>1. k + 1 \in 1..n
      BY <1>2, <2>3
    <3>2. stack[k + 1].path \in D!Document(stack[k].path).xrefs /\ stack[k + 1].path \in C
      BY <1>2, <1>4, <3>1 DEF Chained
    <3> QED BY <2>1, <3>2, EdgeIs
  <2> QED BY <2>2, <2>3
<1>9. \A p \in C : \E x \in C : <<p, x>> \in D!FileEdges
  BY <1>4, <1>8
<1>10. \A m \in Nat \ {0} : D!Paths(m) # {}
  BY <1>6, <1>7, <1>9, PathsWithoutEnd
<1>11. IsFiniteSet(DOMAIN disk)
  BY <1>1, DxfAssumption DEF D!IsDxfJob, D!IsFiniteSet, IsFiniteSet, Places
<1>12. Cardinality(DOMAIN disk) \in Nat
  BY <1>11, FS_CardinalityType
<1>13. Cardinality(DOMAIN disk) + 1 \in Nat \ {0}
  BY <1>12
<1> QED BY <1>10, <1>13

\* ... for its depth only if there is a path that is too long.
LEMMA DepthIs ==
  ASSUME DxfInv, Chained, D!Looking, D!NextXref \in Places, Len(stack) + 1 > job.maxDepth + 1
  PROVE  D!Paths(job.maxDepth + 2) # {}
<1>1. stack \in Seq(Frames) /\ stack # <<>> /\ D!Top.pending # {} /\ DOMAIN disk = Places /\ job \in DxfJobs
  BY DEF DxfInv, D!Looking
<1>2. PICK n : n = Len(stack) /\ n \in Nat \ {0}
  BY <1>1, NextXrefIs
<1>3. D!Top = stack[n] /\ D!NextXref \in stack[n].pending
  BY <1>1, <1>2, NextXrefIs DEF D!Top
<1>4. PICK s : s \in D!Paths(n) /\ s[n] = stack[n].path
  <2>1. PICK t : t = [k \in 1..n |-> stack[k].path]
    OBVIOUS
  <2>2. t \in D!Paths(n)
    BY <1>1, <1>2, <2>1, StackIsPath
  <2>3. n \in 1..n
    BY <1>2
  <2> QED BY <2>1, <2>2, <2>3
<1>5. <<s[n], D!NextXref>> \in D!FileEdges
  <2>1. n \in 1..n /\ stack[n] \in Frames
    BY <1>1, <1>2
  <2>2. stack[n].path \in DOMAIN disk
    BY <1>1, <2>1 DEF Frames
  <2>3. D!Document(stack[n].path) # Broken /\ D!NextXref \in D!Document(stack[n].path).xrefs
    BY <1>2, <1>3, <2>1 DEF Chained
  <2> QED BY <1>4, <2>2, <2>3, EdgeIs
<1>6. PICK t : t \in D!Paths(n + 1)
  BY <1>1, <1>2, <1>4, <1>5, PathsExtend
<1>7. job.maxDepth \in Nat
  BY <1>1, DxfAssumption DEF D!IsDxfJob
<1>8. n + 1 \in Nat /\ job.maxDepth + 2 \in 1..n + 1
  BY <1>2, <1>7
<1> QED BY <1>6, <1>8, PathsBegin

\* ... and a member for being unreachable only if no path leads to it.
LEMMA ReachedIs ==
  ASSUME DxfInv, Followed, stack = <<>>, D!Visited(0), NEW n \in Nat \ {0}, NEW s \in D!Paths(n)
  PROVE  D!Visited(s[n])
<1>1. s \in [1..n -> DOMAIN disk] /\ s[1] = 0 /\ \A i \in 1..(n - 1) : <<s[i], s[i + 1]>> \in D!FileEdges
  BY DEF D!Paths
<1>2. \A p, x : D!Visited(p) /\ <<p, x>> \in D!FileEdges => D!Visited(x)
  <2>1. 1..Len(stack) = {}
    OBVIOUS
  <2> QED BY <2>1, EdgeIs DEF Followed, D!Visited
<1>3. PICK T : T = {m \in Nat : m + 1 <= n => D!Visited(s[m + 1])}
  OBVIOUS
<1>4. 0 \in T
  <2>1. 0 + 1 = 1
    OBVIOUS
  <2> QED BY <1>1, <1>3, <2>1
<1>5. ASSUME NEW m \in Nat, m \in T PROVE m + 1 \in T
  <2> SUFFICES ASSUME (m + 1) + 1 <= n PROVE D!Visited(s[(m + 1) + 1])
    BY <1>3
  <2>1. m + 1 \in 1..(n - 1) /\ m + 1 <= n
    OBVIOUS
  <2>2. D!Visited(s[m + 1])
    BY <1>3, <1>5, <2>1
  <2>3. <<s[m + 1], s[(m + 1) + 1]>> \in D!FileEdges
    BY <1>1, <2>1
  <2> QED BY <1>2, <2>2, <2>3
<1>6. Nat \subseteq T
  BY <1>4, <1>5, Induction
<1>7. n - 1 \in T /\ (n - 1) + 1 = n
  BY <1>6
<1> QED BY <1>3, <1>7

\* Paths depend on the files only.
LEMMA PathsKept == ASSUME UNCHANGED disk PROVE \A n : D!Paths(n)' = D!Paths(n)
BY DEF D!Paths, D!FileEdges, D!Document, D!Regular

\* A step that leaves the files and the visit alone keeps the invariant if it does not refuse an xref.
LEMMA DxfStill ==
  ASSUME DxfInv, UNCHANGED <<job, disk, index, admitted, stack, documents, rewrites>>,
         pc' # "done" => outcome' = "running", pc' = "visit" => pc = "visit", D!RefusedWithCause'
  PROVE  DxfInv'
BY DEF DxfInv, Chained, Followed, Places, Frames, D!Document, D!Regular, D!Visited, D!Bundled

\* An outcome that is none of the three needs no cause.
LEMMA NoCause ==
  ASSUME outcome' \notin {"XREF_CYCLE", "XREF_DEPTH_EXCEEDED", "XREF_UNREACHABLE"} PROVE D!RefusedWithCause'
BY DEF D!RefusedWithCause

\* The manifest, the source, the end of the visit and the records.
LEMMA DxfEndsKeep ==
  ASSUME DxfInv, D!Manifest \/ D!RejectMember \/ D!LoadDone \/ D!HashSource \/ D!WriteRecords PROVE DxfInv'
<1>1. /\ UNCHANGED <<job, disk, index, admitted, stack, documents, rewrites>>
      /\ pc # "done" /\ pc' # "visit"
      /\ \/ pc' # "done" /\ outcome' = outcome
         \/ pc' = "done" /\ outcome' \notin {"XREF_CYCLE", "XREF_DEPTH_EXCEEDED", "XREF_UNREACHABLE"}
  <2> USE DEF D!Stop, D!loading, D!visiting
  <2>1. CASE D!Manifest \/ D!LoadDone \/ D!HashSource
    BY <2>1 DEF D!Manifest, D!LoadDone, D!HashSource
  <2>2. CASE D!RejectMember
    BY <2>2 DEF D!RejectMember, D!MemberDefect
  <2>3. CASE D!WriteRecords
    BY <2>3 DEF D!WriteRecords
  <2> QED BY <2>1, <2>2, <2>3
<1>2. outcome' \notin {"XREF_CYCLE", "XREF_DEPTH_EXCEEDED", "XREF_UNREACHABLE"} /\ (pc' # "done" => outcome' = "running")
  BY <1>1 DEF DxfInv
<1> QED BY <1>1, <1>2, NoCause, DxfStill

\* The visit ends: when a member was not visited, no path leads to it.
LEMMA VisitDoneKeeps == ASSUME DxfInv, D!VisitDone PROVE DxfInv'
<1>1. /\ UNCHANGED <<job, disk, index, admitted, stack, documents, rewrites>>
      /\ pc = "visit" /\ stack = <<>> /\ outcome = "running"
      /\ \/ pc' = "records" /\ outcome' = outcome
         \/ /\ pc' = "done" /\ outcome' = "XREF_UNREACHABLE"
            /\ \E e \in admitted : e.role = "xref" /\ ~D!Visited(e.path)
  BY DEF D!VisitDone, D!Stop, D!loading, D!visiting, DxfInv
<1>2. D!RefusedWithCause'
  <2>1. CASE outcome' = "XREF_UNREACHABLE" /\ D!Bundled /\ rewrites = 0
    <3>1. PICK e \in admitted : ~D!Visited(e.path)
      BY <1>1, <2>1
    <3>2. Followed /\ D!Visited(0)
      BY <1>1, <2>1 DEF DxfInv
    <3>3. ASSUME NEW n \in Nat \ {0}, NEW s \in D!Paths(n) PROVE s[n] # e.path
      BY <1>1, <3>1, <3>2, ReachedIs
    <3>4. \A n \in 1..D!Cardinality(DOMAIN disk) : \A s \in D!Paths(n)' : s[n] # e.path
      <4>1. ASSUME NEW n \in 1..D!Cardinality(DOMAIN disk), NEW s \in D!Paths(n)' PROVE s[n] # e.path
        <5>1. n \in Nat \ {0} /\ s \in D!Paths(n)
          BY <1>1, PathsKept
        <5> QED BY <3>3, <5>1
      <4> QED BY <4>1
    <3> QED BY <1>1, <2>1, <3>1, <3>4 DEF D!RefusedWithCause
  <2>2. CASE ~(D!Bundled /\ rewrites = 0)
    BY <1>1, <2>2 DEF D!RefusedWithCause, D!Bundled
  <2>3. CASE outcome' # "XREF_UNREACHABLE"
    BY <1>1, <2>3, NoCause
  <2> QED BY <2>1, <2>2, <2>3
<1> QED BY <1>1, <1>2, DxfStill

\* A member is admitted: it is one of the files.
LEMMA AdmitMemberKeeps == ASSUME DxfInv, D!AdmitMember PROVE DxfInv'
<1>1. /\ UNCHANGED <<job, disk, pc, stack, documents, outcome, rewrites>>
      /\ pc = "members" /\ index <= Len(job.manifest) /\ index' = index + 1
      /\ admitted' = admitted \cup {[path |-> D!Entry.path, role |-> D!Entry.role, digest |-> D!Entry.digest]}
  BY DEF D!AdmitMember, D!visiting
<1>2. job \in DxfJobs /\ index \in Nat \ {0} /\ outcome = "running"
  BY <1>1 DEF DxfInv
<1>3. Len(job.manifest) \in Nat /\ \A i \in 1..Len(job.manifest) : job.manifest[i].path \in Places
  BY <1>2, DxfAssumption DEF D!IsDxfJob, Places
<1>4. D!Entry.path \in Places
  <2>1. index \in 1..Len(job.manifest)
    BY <1>1, <1>2, <1>3
  <2> QED BY <1>3, <2>1 DEF D!Entry
<1>5. \A e \in admitted' : e.path \in Places'
  BY <1>1, <1>4 DEF DxfInv, Places
<1>6. index' \in Nat \ {0} /\ D!RefusedWithCause'
  BY <1>1, <1>2, NoCause
<1> QED BY <1>1, <1>5, <1>6 DEF DxfInv, Chained, Followed, Places, Frames, D!Document, D!Regular, D!Visited, D!Bundled

\* A file is rewritten: what was said of unchanged files is said no more.
LEMMA RewriteKeeps ==
  ASSUME DxfInv, NEW path \in DOMAIN disk, NEW new \in job.variants, D!Rewrite(path, new) PROVE DxfInv'
<1>1. /\ UNCHANGED <<job, pc, index, admitted, stack, documents, outcome>>
      /\ pc # "done" /\ disk' = [disk EXCEPT ![path] = new] /\ rewrites' = rewrites + 1
  BY DEF D!Rewrite, D!loading, D!visiting
<1>2. job \in DxfJobs /\ DOMAIN disk = Places /\ rewrites \in Nat /\ outcome = "running"
  BY <1>1 DEF DxfInv
<1>3. D!IsContent(new)
  BY <1>2, DxfAssumption DEF D!IsDxfJob
<1>4. DOMAIN disk' = Places' /\ \A p \in Places' : D!IsContent(disk'[p])
  BY <1>1, <1>2, <1>3 DEF DxfInv, Places
<1>5. rewrites' \in Nat /\ rewrites' # 0
  BY <1>1, <1>2
<1>6. D!RefusedWithCause'
  BY <1>1, <1>2, NoCause
<1>7. Places' = Places /\ Frames' = Frames
  BY <1>1 DEF Places, Frames
<1>8. \A p \in Places' : D!IsContent(disk[p])'
  BY <1>4 DEF D!IsContent
<1> QED BY <1>1, <1>2, <1>4, <1>5, <1>6, <1>7, <1>8 DEF DxfInv

\* The xrefs of a document that parses are paths.
LEMMA DocumentIs ==
  ASSUME DxfInv, NEW path \in Places, D!Document(path) # Broken PROVE D!Document(path).xrefs \in SUBSET Nat
BY DEF DxfInv, D!Document, D!Regular, D!IsContent, D!IsDocument

\* The root is opened: it is the stack, and the only document.
LEMMA OpenRootKeeps == ASSUME DxfInv, D!OpenRoot PROVE DxfInv'
<1>1. /\ UNCHANGED <<job, disk, index, admitted, rewrites>> /\ pc # "done"
      /\ \/ /\ pc' = "done" /\ outcome' \in {"PARSE_FAILED", "RECORD_LIMIT_EXCEEDED"} /\ UNCHANGED <<stack, documents>>
         \/ /\ pc' = "visit" /\ outcome' = outcome /\ D!Document(0) # Broken
            /\ documents' = <<[path |-> 0, doc |-> D!Document(0)]>>
            /\ stack' = IF D!Bundled THEN <<D!Frame(0, D!Document(0))>> ELSE <<>>
  BY DEF D!OpenRoot, D!Stop, D!loading
<1>2. job \in DxfJobs /\ DOMAIN disk = Places /\ outcome = "running"
  BY <1>1 DEF DxfInv
<1>3. D!RefusedWithCause'
  BY <1>1, <1>2, NoCause
<1>4. CASE pc' = "done"
  BY <1>1, <1>3, <1>4, DxfStill
<1>5. CASE pc' = "visit"
  <2>1. 0 \in Places
    BY <1>2, DxfAssumption DEF D!IsDxfJob, Places
  <2>2. PICK doc : doc = D!Document(0) /\ doc # Broken /\ doc.xrefs \in SUBSET Nat
    BY <1>1, <1>5, <2>1, DocumentIs
  <2>3. PICK frame : frame = [path |-> 0, pending |-> doc.xrefs] /\ frame \in Frames
    <3>1. [path |-> 0, pending |-> doc.xrefs] \in Frames
      BY <2>1, <2>2 DEF Frames
    <3> QED BY <3>1
  <2>4. PICK taken : taken = [path |-> 0, doc |-> doc]
    OBVIOUS
  <2>5. documents' = <<taken>> /\ stack' = IF D!Bundled THEN <<frame>> ELSE <<>>
    BY <1>1, <1>5, <2>2, <2>3, <2>4 DEF D!Frame
  <2>6. stack' \in Seq(Frames) /\ IsList(documents')
    BY <2>3, <2>5, Short
  <2>7. Frames' = Frames /\ Places' = Places /\ D!Bundled' = D!Bundled /\ \A p : D!Document(p)' = D!Document(p)
    BY <1>1 DEF Frames, Places, D!Bundled, D!Document, D!Regular
  <2>8. D!Visited(0)'
    BY <2>4, <2>5 DEF D!Visited
  <2>9. ASSUME D!Bundled PROVE Chained' /\ Followed'
    <3>1. stack' = <<frame>> /\ Len(stack') = 1 /\ stack'[1] = frame
      BY <2>5, <2>9
    <3>2. \A k \in 1..Len(stack') : stack'[k] = frame
      BY <3>1
    <3>3. Chained'
      BY <2>2, <2>3, <2>7, <3>1, <3>2 DEF Chained
    <3>4. \A k \in DOMAIN documents' : documents'[k] = taken
      BY <2>5
    <3>5. 1 \in 1..Len(stack')
      BY <3>1
    <3>6. Followed'
      BY <2>2, <2>3, <2>4, <2>7, <3>1, <3>4, <3>5 DEF Followed
    <3> QED BY <3>3, <3>6
  <2>10. DOMAIN disk' = Places' /\ \A p \in Places' : D!IsContent(disk'[p])
    BY <1>1, <2>7 DEF DxfInv, D!IsContent
  <2> QED BY <1>1, <1>3, <1>5, <2>6, <2>7, <2>8, <2>9, <2>10 DEF DxfInv, D!IsContent
<1> QED BY <1>1, <1>4, <1>5

\* An xref is refused: an undeclared one, or one that closes a cycle.
LEMMA RefuseXrefKeeps == ASSUME DxfInv, D!RefuseXref PROVE DxfInv'
<1>1. /\ UNCHANGED <<job, disk, index, admitted, stack, documents, rewrites>>
      /\ D!Looking /\ pc' = "done"
      /\ outcome' = "XREF_UNDECLARED" \/ (outcome' = "XREF_CYCLE" /\ D!OnStack(D!NextXref))
  BY DEF D!RefuseXref, D!Stop, D!loading, D!visiting
<1>2. ASSUME outcome' = "XREF_CYCLE", D!Bundled, rewrites = 0 PROVE D!RefusedWithCause'
  <2>1. Chained
    BY <1>2 DEF DxfInv
  <2>2. D!Paths(Cardinality(DOMAIN disk) + 1) # {}
    BY <1>1, <1>2, <2>1, CycleIs
  <2>3. D!Cardinality(DOMAIN disk) = Cardinality(DOMAIN disk)
    BY DEF D!Cardinality, Cardinality
  <2>4. D!Paths(D!Cardinality(DOMAIN disk) + 1)' = D!Paths(D!Cardinality(DOMAIN disk) + 1)
    BY <1>1 DEF D!Paths, D!FileEdges, D!Document, D!Regular
  <2> QED BY <1>2, <2>2, <2>3, <2>4 DEF D!RefusedWithCause
<1>3. CASE ~(D!Bundled /\ rewrites = 0)
  <2>1. D!RefusedWithCause'
    BY <1>1, <1>3 DEF D!RefusedWithCause, D!Bundled
  <2> QED BY <1>1, <2>1, DxfStill
<1>4. CASE outcome' # "XREF_CYCLE"
  BY <1>1, <1>4, NoCause, DxfStill
<1> QED BY <1>1, <1>2, <1>3, <1>4, DxfStill

\* A document without a pending xref is left: all of its xrefs were visited.
LEMMA ReturnKeeps == ASSUME DxfInv, D!Return PROVE DxfInv'
<1>1. /\ UNCHANGED <<job, disk, pc, index, admitted, documents, outcome, rewrites>>
      /\ pc = "visit" /\ stack # <<>> /\ D!Top.pending = {} /\ stack' = D!Below
  BY DEF D!Return, D!loading
<1>2. stack \in Seq(Frames) /\ outcome = "running"
  BY <1>1 DEF DxfInv
<1>3. PICK n : n = Len(stack) /\ n \in Nat \ {0}
  BY <1>1, <1>2
<1>4. D!Below \in Seq(Frames) /\ Len(D!Below) = n - 1 /\ \A k \in 1..(n - 1) : D!Below[k] = stack[k]
  BY <1>1, <1>2, <1>3, LookedIs
<1>5. \A k \in 1..Len(stack') : k \in 1..n /\ stack'[k] = stack[k]
  BY <1>1, <1>3, <1>4
<1>6. Frames' = Frames /\ Places' = Places /\ D!Bundled' = D!Bundled /\ \A p : D!Document(p)' = D!Document(p) /\ D!Visited(p)' = D!Visited(p)
  BY <1>1 DEF Frames, Places, D!Bundled, D!Document, D!Regular, D!Visited
<1>7. ASSUME D!Bundled, rewrites = 0 PROVE Chained' /\ Followed'
  <2>1. Chained /\ Followed
    BY <1>7 DEF DxfInv
  <2>2. Chained'
    <3>1. stack' # <<>> => 1 \in 1..Len(stack')
      BY <1>1, <1>4
    <3> QED BY <1>1, <1>3, <1>5, <1>6, <2>1, <3>1 DEF Chained
  <2>3. ASSUME NEW k \in DOMAIN documents, NEW x \in D!Document(documents[k].path).xrefs, ~D!Visited(x)
        PROVE  \E m \in 1..Len(stack') : stack'[m].path = documents[k].path /\ x \in stack'[m].pending
    <3>1. PICK m \in 1..n : stack[m].path = documents[k].path /\ x \in stack[m].pending
      BY <1>3, <2>1, <2>3 DEF Followed
    <3>2. m # n
      BY <1>1, <1>3, <3>1 DEF D!Top
    <3>3. m \in 1..Len(stack')
      BY <1>1, <1>3, <1>4, <3>1, <3>2
    <3> QED BY <1>5, <3>1, <3>3
  <2> QED BY <1>1, <1>6, <2>2, <2>3 DEF Followed
<1>8. D!RefusedWithCause'
  BY <1>1, <1>2, NoCause
<1>9. DOMAIN disk' = Places' /\ \A p \in Places' : D!IsContent(disk'[p])
  BY <1>1, <1>6 DEF DxfInv, D!IsContent
<1> QED BY <1>1, <1>4, <1>6, <1>7, <1>8, <1>9 DEF DxfInv, D!IsContent

\* An xref is opened: it is broken, was visited before, lies too deep, or is taken up on top of the stack.
LEMMA OpenXrefKeeps == ASSUME DxfInv, D!OpenXref PROVE DxfInv'
<1>1. PICK x : x = D!NextXref
  OBVIOUS
<1>2. PICK doc : doc = D!Document(x)
  OBVIOUS
<1>3. /\ UNCHANGED <<job, disk, index, admitted, rewrites>> /\ D!Looking /\ D!Declared(x) /\ ~D!OnStack(x)
      /\ \/ pc' = "done" /\ outcome' = "XREF_PARSE_FAILED" /\ UNCHANGED <<stack, documents>>
         \/ /\ pc' = "done" /\ outcome' = "XREF_DEPTH_EXCEEDED" /\ UNCHANGED <<stack, documents>>
            /\ Len(stack) + 1 > job.maxDepth + 1
         \/ /\ UNCHANGED <<pc, documents, outcome>> /\ D!Visited(x) /\ stack' = D!Looked
         \/ /\ UNCHANGED <<pc, outcome>> /\ doc # Broken
            /\ stack' = Append(D!Looked, D!Frame(x, doc))
            /\ documents' = Append(documents, [path |-> x, doc |-> doc])
  BY <1>1, <1>2 DEF D!OpenXref, D!Stop, D!loading
<1>4. stack \in Seq(Frames) /\ IsList(documents) /\ pc = "visit" /\ outcome = "running" /\ stack # <<>>
  BY <1>3 DEF DxfInv, D!Looking
<1>5. x \in Places
  BY <1>3 DEF DxfInv, D!Declared
<1>6. PICK n : n = Len(stack) /\ n \in Nat \ {0}
  BY <1>4
<1>7. D!Top = stack[n] /\ x \in stack[n].pending
  BY <1>1, <1>3, <1>4, <1>6, NextXrefIs DEF D!Top, D!Looking
<1>8. /\ D!Looked \in Seq(Frames) /\ Len(D!Looked) = n
      /\ \A k \in 1..n : D!Looked[k] = [path |-> stack[k].path, pending |-> IF k = n THEN stack[k].pending \ {x} ELSE stack[k].pending]
  BY <1>1, <1>4, <1>6, LookedIs
<1>9. Frames' = Frames /\ Places' = Places /\ D!Bundled' = D!Bundled /\ \A p : D!Document(p)' = D!Document(p)
  BY <1>3 DEF Frames, Places, D!Bundled, D!Document, D!Regular
<1>10. DOMAIN disk' = Places' /\ \A p \in Places' : D!IsContent(disk'[p])
  BY <1>3, <1>9 DEF DxfInv, D!IsContent
\* What both ways of going on keep: the frames up to the top, without the xref that was looked at.
<1>11. ASSUME D!Bundled, rewrites = 0
       PROVE  /\ Chained /\ Followed /\ D!Visited(0)
              /\ stack[1].path = 0
              /\ \A k \in 1..n : /\ D!Looked[k].path = stack[k].path /\ D!Document(stack[k].path) # Broken
                                 /\ D!Looked[k].pending \subseteq D!Document(stack[k].path).xrefs
              /\ x \in D!Document(stack[n].path).xrefs
              /\ \A k \in DOMAIN documents : \A y \in D!Document(documents[k].path).xrefs :
                   D!Visited(y) \/ y = x \/ \E m \in 1..n : D!Looked[m].path = documents[k].path /\ y \in D!Looked[m].pending
  <2>1. Chained /\ Followed /\ D!Visited(0) /\ stack[1].path = 0
    BY <1>4, <1>11 DEF DxfInv, Chained
  <2>2. ASSUME NEW k \in 1..n
        PROVE  /\ D!Looked[k].path = stack[k].path /\ D!Document(stack[k].path) # Broken
               /\ D!Looked[k].pending \subseteq D!Document(stack[k].path).xrefs
    <3>1. D!Document(stack[k].path) # Broken /\ stack[k].pending \subseteq D!Document(stack[k].path).xrefs
      BY <1>6, <2>1 DEF Chained
    <3> QED BY <1>8, <3>1
  <2>3. x \in D!Document(stack[n].path).xrefs
    <3>1. n \in 1..n
      BY <1>6
    <3> QED BY <1>6, <1>7, <2>1, <3>1 DEF Chained
  <2>4. ASSUME NEW k \in DOMAIN documents, NEW y \in D!Document(documents[k].path).xrefs, ~D!Visited(y), y # x
        PROVE  \E m \in 1..n : D!Looked[m].path = documents[k].path /\ y \in D!Looked[m].pending
    <3>1. PICK m \in 1..n : stack[m].path = documents[k].path /\ y \in stack[m].pending
      BY <1>6, <2>1, <2>4 DEF Followed
    <3>2. D!Looked[m].path = documents[k].path /\ y \in D!Looked[m].pending
      BY <1>8, <2>4, <3>1
    <3> QED BY <3>2
  <2> QED BY <2>1, <2>2, <2>3, <2>4
<1>12. CASE pc' = "done" /\ outcome' = "XREF_PARSE_FAILED" /\ UNCHANGED <<stack, documents>>
  BY <1>3, <1>12, NoCause, DxfStill
<1>13. CASE /\ pc' = "done" /\ outcome' = "XREF_DEPTH_EXCEEDED" /\ UNCHANGED <<stack, documents>>
            /\ Len(stack) + 1 > job.maxDepth + 1
  <2>1. CASE D!Bundled /\ rewrites = 0
    <3>1. D!Paths(job.maxDepth + 2) # {}
      BY <1>1, <1>3, <1>5, <1>11, <1>13, <2>1, DepthIs
    <3>2. D!Paths(job.maxDepth + 2)' = D!Paths(job.maxDepth + 2)
      BY <1>3 DEF D!Paths, D!FileEdges, D!Document, D!Regular
    <3>3. D!RefusedWithCause'
      BY <1>13, <3>1, <3>2 DEF D!RefusedWithCause
    <3> QED BY <1>3, <1>13, <3>3, DxfStill
  <2>2. CASE ~(D!Bundled /\ rewrites = 0)
    <3>1. D!RefusedWithCause'
      BY <1>3, <1>9, <2>2 DEF D!RefusedWithCause
    <3> QED BY <1>3, <1>13, <3>1, DxfStill
  <2> QED BY <2>1, <2>2
<1>14. CASE UNCHANGED <<pc, documents, outcome>> /\ D!Visited(x) /\ stack' = D!Looked
  <2>1. \A p : D!Visited(p)' = D!Visited(p)
    BY <1>14 DEF D!Visited
  <2>2. ASSUME D!Bundled, rewrites = 0 PROVE Chained' /\ Followed'
    <3>1. 1 \in 1..n
      BY <1>6
    <3>2. \A k \in 1..n : k + 1 \in 1..n => stack[k + 1].path \in D!Document(stack[k].path).xrefs
      BY <1>6, <1>11, <2>2 DEF Chained
    <3>3. Chained'
      BY <1>8, <1>9, <1>11, <1>14, <2>2, <3>1, <3>2 DEF Chained
    <3>4. Followed'
      BY <1>8, <1>9, <1>11, <1>14, <2>1, <2>2 DEF Followed
    <3> QED BY <3>3, <3>4
  <2>3. D!RefusedWithCause'
    BY <1>4, <1>14, NoCause
  <2> QED BY <1>3, <1>8, <1>9, <1>10, <1>14, <2>1, <2>2, <2>3 DEF DxfInv, D!IsContent
<1>15. CASE /\ UNCHANGED <<pc, outcome>> /\ doc # Broken
            /\ stack' = Append(D!Looked, D!Frame(x, doc))
            /\ documents' = Append(documents, [path |-> x, doc |-> doc])
  <2>1. PICK frame : frame = D!Frame(x, doc)
    OBVIOUS
  <2>2. doc.xrefs \in SUBSET Nat
    BY <1>2, <1>5, <1>15, DocumentIs
  <2>3. frame = [path |-> x, pending |-> doc.xrefs] /\ frame \in Frames
    BY <1>5, <2>1, <2>2 DEF D!Frame, Frames
  <2>4. /\ stack' \in Seq(Frames) /\ Len(stack') = n + 1
        /\ \A k \in 1..n : stack'[k] = D!Looked[k]
        /\ stack'[n + 1] = frame
    BY <1>6, <1>8, <1>15, <2>1, <2>3
  <2>5. PICK taken : taken = [path |-> x, doc |-> doc]
    OBVIOUS
  <2>6. PICK last : last = Len(documents) + 1
    OBVIOUS
  <2>7. /\ IsList(documents') /\ DOMAIN documents' = DOMAIN documents \cup {last}
        /\ \A k \in DOMAIN documents : documents'[k] = documents[k]
        /\ documents'[last] = taken
    <3>1. documents' = Append(documents, taken)
      BY <1>15, <2>5
    <3>2. /\ IsList(documents') /\ DOMAIN documents' = 1..last /\ Len(documents) \in Nat /\ DOMAIN documents = 1..Len(documents)
          /\ \A k \in 1..Len(documents) : documents'[k] = documents[k]
          /\ documents'[last] = taken
      BY <1>4, <2>6, <3>1, AppendIs
    <3>3. 1..last = 1..Len(documents) \cup {last}
      BY <2>6, <3>2
    <3> QED BY <3>2, <3>3
  <2>8. (\A p : D!Visited(p) => D!Visited(p)') /\ D!Visited(x)'
    BY <2>5, <2>7 DEF D!Visited
  <2>9. ASSUME D!Bundled, rewrites = 0 PROVE Chained' /\ Followed'
    <3>1. 1 \in 1..n /\ n + 1 \in 1..n + 1 /\ n \in 1..n
      BY <1>6
    <3>2. \A k \in 1..n : k + 1 \in 1..n => stack[k + 1].path \in D!Document(stack[k].path).xrefs
      BY <1>6, <1>11, <2>9 DEF Chained
    <3>3. stack'[1].path = 0
      BY <1>11, <2>4, <2>9, <3>1
    <3>4. ASSUME NEW k \in 1..n + 1
          PROVE  D!Document(stack'[k].path) # Broken /\ stack'[k].pending \subseteq D!Document(stack'[k].path).xrefs
      <4>1. CASE k = n + 1
        BY <1>2, <1>15, <2>3, <2>4, <4>1
      <4>2. CASE k # n + 1
        <5>1. k \in 1..n
          BY <1>6, <4>2
        <5> QED BY <1>11, <2>4, <2>9, <5>1
      <4> QED BY <4>1, <4>2
    <3>5. ASSUME NEW k \in 1..n + 1, k + 1 \in 1..n + 1
          PROVE  stack'[k + 1].path \in D!Document(stack'[k].path).xrefs
      <4>1. k \in 1..n /\ stack'[k].path = stack[k].path
        BY <1>6, <1>11, <2>4, <2>9, <3>5
      <4>2. CASE k = n
        BY <1>11, <2>3, <2>4, <2>9, <4>1, <4>2
      <4>3. CASE k # n
        <5>1. k + 1 \in 1..n
          BY <1>6, <4>1, <4>3
        <5>2. stack'[k + 1].path = stack[k + 1].path
          BY <1>11, <2>4, <2>9, <5>1
        <5> QED BY <3>2, <4>1, <5>1, <5>2
      <4> QED BY <4>2, <4>3
    <3>6. Chained'
      BY <1>9, <2>4, <3>3, <3>4, <3>5 DEF Chained
    <3>7. ASSUME NEW k \in DOMAIN documents', NEW y \in D!Document(documents'[k].path).xrefs, ~D!Visited(y)'
          PROVE  \E m \in 1..n + 1 : stack'[m].path = documents'[k].path /\ y \in stack'[m].pending
      <4>1. CASE k = last
        BY <1>2, <2>3, <2>4, <2>5, <2>7, <3>1, <3>7, <4>1
      <4>2. CASE k # last
        <5>1. k \in DOMAIN documents /\ documents'[k] = documents[k]
          BY <2>7, <4>2
        <5>2. ~D!Visited(y) /\ y # x
          BY <2>8, <3>7
        <5>3. PICK m \in 1..n : D!Looked[m].path = documents[k].path /\ y \in D!Looked[m].pending
          BY <1>11, <2>9, <3>7, <5>1, <5>2
        <5>4. m \in 1..n + 1 /\ stack'[m] = D!Looked[m]
          BY <1>6, <2>4
        <5> QED BY <5>1, <5>3, <5>4
      <4> QED BY <4>1, <4>2
    <3>8. Followed'
      BY <1>9, <2>4, <3>7 DEF Followed
    <3> QED BY <3>6, <3>8
  <2>10. D!RefusedWithCause'
    BY <1>4, <1>15, NoCause
  <2> QED BY <1>3, <1>9, <1>10, <1>11, <1>15, <2>4, <2>7, <2>8, <2>9, <2>10 DEF DxfInv, D!IsContent
<1> QED BY <1>3, <1>12, <1>13, <1>14, <1>15

\* The visit begins with nothing taken up.
LEMMA DxfInvInit == ASSUME D!Init PROVE DxfInv
<1>1. /\ job \in DxfJobs /\ disk = job.files /\ index = 1 /\ admitted = {} /\ rewrites = 0
      /\ stack = <<>> /\ documents = <<>> /\ outcome = "running" /\ pc # "visit"
  BY DEF D!Init, D!Bundled
<1>2. \A path \in DOMAIN job.files : D!IsContent(job.files[path])
  BY <1>1, DxfAssumption DEF D!IsDxfJob
<1>3. Len(stack) = 0 /\ stack \in Seq(Frames) /\ DOMAIN documents = {}
  BY <1>1
<1>4. Chained /\ Followed
  BY <1>1, <1>3 DEF Chained, Followed
<1>5. D!RefusedWithCause
  BY <1>1 DEF D!RefusedWithCause
<1> QED BY <1>1, <1>2, <1>3, <1>4, <1>5, Short DEF DxfInv, Places

\* A step of the DXF adapter, and of whoever changes its files, keeps the invariant.
LEMMA DxfKeeps == ASSUME DxfInv, [D!Next]_(D!vars) PROVE DxfInv'
<1>1. CASE UNCHANGED D!vars
  <2>1. UNCHANGED <<job, pc, disk, index, admitted, stack, documents, outcome, rewrites>>
    BY <1>1 DEF D!vars, D!loading, D!visiting
  <2>2. D!RefusedWithCause'
    BY <2>1 DEF DxfInv, D!RefusedWithCause, D!Bundled, D!Paths, D!FileEdges, D!Document, D!Regular
  <2> QED BY <2>1, <2>2, DxfStill DEF DxfInv
<1>2. CASE D!Step
  BY <1>2, DxfEndsKeep, VisitDoneKeeps, AdmitMemberKeeps, OpenRootKeeps, RefuseXrefKeeps, OpenXrefKeeps, ReturnKeeps DEF D!Step
<1>3. CASE \E path \in DOMAIN disk : \E new \in job.variants : D!Rewrite(path, new)
  BY <1>3, RewriteKeeps
<1> QED BY <1>1, <1>2, <1>3 DEF D!Next

(***************************************************************************)
(* What the visit of a bundle has made so far.  Every member was admitted  *)
(* once; every document was taken up once, from an xref of an earlier one. *)
(* The documents that are open are a chain on the stack; the xrefs of the  *)
(* ones that were left lead to others that were left, and have no cycle.   *)
(***************************************************************************)
OpenPaths == {stack[k].path : k \in 1..Len(stack)}
LeftPaths == D!Taken \ OpenPaths
Loaded == index = Len(job.manifest) + 1 /\ D!RootPaths = {0}
Admissible == {"manifest", "members"}
Before == {"manifest", "members", "source", "parse"}

MembersBuilt ==
  /\ IsFiniteSet(admitted) /\ Cardinality(admitted) = index - 1 /\ index - 1 \in 0..Len(job.manifest)
  /\ \A e \in admitted : e.role \in {"root", "xref"}
  /\ ~D!Bundled => pc \notin Admissible
  /\ D!Bundled /\ (pc \notin Admissible \cup {"done"} \/ opened # <<>> \/ documents # <<>>) => Loaded
DocumentsBuilt ==
  /\ \A k \in DOMAIN documents : D!IsDocument(documents[k].doc)
  /\ \A j, k \in DOMAIN documents : documents[j].path = documents[k].path => j = k
  /\ \A k \in DOMAIN documents : IF k = 1 THEN documents[k].path = 0
                                 ELSE /\ D!Declared(documents[k].path)
                                      /\ \E j \in 1..(k - 1) : documents[k].path \in documents[j].doc.xrefs
  /\ pc \in Before => documents = <<>> /\ opened = <<>> /\ stack = <<>>
  /\ pc \in {"visit", "records"} \/ outcome = "written" => documents # <<>>
  /\ ~D!Bundled => Len(documents) \in 0..1 /\ stack = <<>>
StackBuilt ==
  /\ \A j, k \in 1..Len(stack) : stack[j].path = stack[k].path => j = k
  /\ OpenPaths \subseteq D!Taken
  /\ \A k \in 1..Len(stack) : stack[k].pending \subseteq D!XrefsOf(stack[k].path)
  /\ \A k \in 1..Len(stack) : \A x \in D!XrefsOf(stack[k].path) :
       \/ x \in stack[k].pending \/ x \in LeftPaths
       \/ k + 1 \in 1..Len(stack) /\ x = stack[k + 1].path
LeftBuilt ==
  /\ \A p \in LeftPaths : D!XrefsOf(p) \subseteq LeftPaths
  /\ \A some \in SUBSET LeftPaths : some # {} => \E p \in some : D!XrefsOf(p) \cap some = {}
EndBuilt ==
  /\ D!Bundled /\ (pc = "records" \/ outcome = "written") => stack = <<>> /\ \A e \in admitted : e.role = "xref" => D!Visited(e.path)
  /\ outcome = "written" => records = D!AllRecords
DxfBuilt == MembersBuilt /\ DocumentsBuilt /\ (D!Bundled => StackBuilt /\ LeftBuilt) /\ EndBuilt

\* The parts stay when what they are about stays.
LEMMA StackKept == ASSUME StackBuilt, LeftBuilt, UNCHANGED <<documents, stack>> PROVE StackBuilt' /\ LeftBuilt'
<1>1. D!Taken' = D!Taken /\ \A p : D!XrefsOf(p)' = D!XrefsOf(p)
  BY DEF D!Taken, D!XrefsOf
<1>2. OpenPaths' = OpenPaths
  BY DEF OpenPaths
<1>3. LeftPaths' = LeftPaths
  BY <1>1, <1>2 DEF LeftPaths
<1>4. StackBuilt'
  BY <1>1, <1>2, <1>3 DEF StackBuilt
<1>5. LeftBuilt'
  BY <1>1, <1>3 DEF LeftBuilt
<1> QED BY <1>4, <1>5

LEMMA RecordsKept == ASSUME UNCHANGED <<job, admitted, documents>> PROVE D!AllRecords' = D!AllRecords
BY DEF D!AllRecords, D!Root, D!Members, D!Digest, D!Bundled

\* A step that only moves on.
LEMMA DxfBuiltStill ==
  ASSUME DxfBuilt, UNCHANGED <<job, index, admitted, stack, documents, opened, records>>,
         pc' = pc \/ pc' = "done" \/ (pc \in Before /\ pc' \in Before /\ (~D!Bundled => pc' \notin Admissible) /\ (pc' \notin Admissible /\ D!Bundled => Loaded)),
         outcome' = "written" => outcome = "written"
  PROVE  DxfBuilt'
<1>1. D!Bundled' = D!Bundled /\ Loaded' = Loaded /\ (\A p : D!Declared(p)' = D!Declared(p)) /\ \A p : D!Visited(p)' = D!Visited(p)
  BY DEF D!Bundled, Loaded, D!RootPaths, D!Declared, D!Visited
<1>2. MembersBuilt'
  BY <1>1 DEF DxfBuilt, MembersBuilt, Admissible, Before
<1>3. DocumentsBuilt'
  BY <1>1 DEF DxfBuilt, DocumentsBuilt, Before
<1>4. D!Bundled' => StackBuilt' /\ LeftBuilt'
  BY <1>1, StackKept DEF DxfBuilt
<1>5. EndBuilt'
  BY <1>1, RecordsKept DEF DxfBuilt, EndBuilt, Before
<1> QED BY <1>2, <1>3, <1>4, <1>5 DEF DxfBuilt

LEMMA DxfMovesBuilt ==
  ASSUME DxfInv, DxfBuilt, D!Manifest \/ D!RejectMember \/ D!LoadDone \/ D!HashSource \/ D!RefuseXref PROVE DxfBuilt'
<1>1. outcome = "running" /\ index \in Nat
  BY DEF DxfInv, D!Manifest, D!RejectMember, D!LoadDone, D!HashSource, D!RefuseXref, D!Looking
<1>2. CASE D!Manifest
  BY <1>1, <1>2, DxfBuiltStill DEF D!Manifest, D!Stop, D!loading, D!visiting, Before, Admissible, DxfBuilt, MembersBuilt, Loaded
<1>3. CASE D!RejectMember
  BY <1>1, <1>3, DxfBuiltStill DEF D!RejectMember, D!MemberDefect, D!Stop, D!loading, D!visiting
<1>4. CASE D!LoadDone
  BY <1>1, <1>4, DxfBuiltStill DEF D!LoadDone, D!Stop, D!loading, D!visiting, Before, Admissible, DxfBuilt, MembersBuilt, Loaded
<1>5. CASE D!HashSource
  BY <1>1, <1>5, DxfBuiltStill DEF D!HashSource, D!Stop, D!loading, Before, Admissible, DxfBuilt, MembersBuilt, Loaded
<1>6. CASE D!RefuseXref
  BY <1>1, <1>6, DxfBuiltStill DEF D!RefuseXref, D!Stop, D!loading, D!visiting
<1> QED BY <1>2, <1>3, <1>4, <1>5, <1>6

\* A member is admitted: no path was admitted before, so the members are as many as the entries read.
LEMMA AdmitMemberBuilt == ASSUME DxfInv, DxfBuilt, D!AdmitMember PROVE DxfBuilt'
<1>1. PICK e : e = [path |-> D!Entry.path, role |-> D!Entry.role, digest |-> D!Entry.digest]
  OBVIOUS
<1>2. /\ UNCHANGED <<job, pc, stack, documents, opened, records, outcome>>
      /\ pc = "members" /\ index <= Len(job.manifest) /\ index' = index + 1
      /\ D!MemberDefect = "none" /\ admitted' = admitted \cup {e}
  BY <1>1 DEF D!AdmitMember, D!visiting
<1>3. job \in DxfJobs /\ index \in Nat \ {0} /\ outcome = "running"
  BY <1>2 DEF DxfInv
<1>4. Len(job.manifest) \in Nat /\ \A i \in 1..Len(job.manifest) : job.manifest[i].role \in {"root", "xref"}
  BY <1>3, DxfAssumption DEF D!IsDxfJob
<1>5. e \notin admitted /\ e.role \in {"root", "xref"}
  <2>1. ~\E d \in admitted : d.path = D!Entry.path
    BY <1>2 DEF D!MemberDefect
  <2>2. index \in 1..Len(job.manifest)
    BY <1>2, <1>3, <1>4
  <2>3. D!Entry.role \in {"root", "xref"}
    BY <1>4, <2>2 DEF D!Entry
  <2> QED BY <1>1, <2>1, <2>3
<1>6. IsFiniteSet(admitted') /\ Cardinality(admitted') = Cardinality(admitted) + 1
  BY <1>2, <1>5, FS_AddElement DEF DxfBuilt, MembersBuilt
<1>7. documents = <<>> /\ opened = <<>> /\ stack = <<>>
  BY <1>2 DEF DxfBuilt, DocumentsBuilt, Before
<1>8. D!Bundled' = D!Bundled
  BY <1>2 DEF D!Bundled
<1>9. MembersBuilt'
  <2>1. Cardinality(admitted) = index - 1
    BY DEF DxfBuilt, MembersBuilt
  <2>2. Cardinality(admitted') = index' - 1 /\ index' - 1 \in 0..Len(job'.manifest)
    BY <1>2, <1>3, <1>4, <1>6, <2>1
  <2> QED BY <1>2, <1>5, <1>6, <1>7, <1>8, <2>2 DEF DxfBuilt, MembersBuilt, Admissible
<1>10. DocumentsBuilt'
  <2>1. DOMAIN documents' = {}
    BY <1>2, <1>7
  <2> QED BY <1>2, <1>3, <1>7, <1>8, <2>1 DEF DxfBuilt, DocumentsBuilt, Before
<1>11. D!Bundled' => StackBuilt' /\ LeftBuilt'
  BY <1>2, <1>8, StackKept DEF DxfBuilt
<1>12. EndBuilt'
  BY <1>2, <1>3 DEF EndBuilt
<1> QED BY <1>9, <1>10, <1>11, <1>12 DEF DxfBuilt

\* The xrefs of a document that was taken up, and that a document more adds no others.
LEMMA XrefsAre ==
  ASSUME DocumentsBuilt, NEW k \in DOMAIN documents PROVE D!XrefsOf(documents[k].path) = documents[k].doc.xrefs
<1>1. {m \in DOMAIN documents : documents[m].path = documents[k].path} = {k}
  BY DEF DocumentsBuilt
<1> QED BY <1>1 DEF D!XrefsOf

LEMMA TakenMore ==
  ASSUME IsList(documents), NEW x, NEW doc, documents' = Append(documents, [path |-> x, doc |-> doc]), ~D!Visited(x)
  PROVE  /\ D!Taken' = D!Taken \cup {x} /\ x \notin D!Taken
         /\ D!XrefsOf(x)' = doc.xrefs /\ \A p : p # x => D!XrefsOf(p)' = D!XrefsOf(p)
         /\ Len(documents) \in Nat /\ DOMAIN documents = 1..Len(documents) /\ DOMAIN documents' = 1..Len(documents) + 1
         /\ \A k \in DOMAIN documents : documents'[k] = documents[k]
         /\ documents'[Len(documents) + 1] = [path |-> x, doc |-> doc]
<1>1. PICK taken, last : taken = [path |-> x, doc |-> doc] /\ last = Len(documents) + 1
  OBVIOUS
<1>2. /\ Len(documents) \in Nat /\ DOMAIN documents = 1..Len(documents) /\ DOMAIN documents' = 1..last
      /\ \A k \in DOMAIN documents : documents'[k] = documents[k]
      /\ documents'[last] = taken
  BY <1>1, AppendIs
<1>3. DOMAIN documents' = DOMAIN documents \cup {last} /\ last \notin DOMAIN documents
  BY <1>1, <1>2
<1>4. \A k \in DOMAIN documents : documents[k].path # x
  BY DEF D!Visited
<1>5. D!Taken' = D!Taken \cup {x} /\ x \notin D!Taken
  BY <1>1, <1>2, <1>3, <1>4 DEF D!Taken
<1>6. {m \in DOMAIN documents' : documents'[m].path = x} = {last}
  BY <1>1, <1>2, <1>3, <1>4
<1>7. D!XrefsOf(x)' = doc.xrefs
  BY <1>1, <1>2, <1>6 DEF D!XrefsOf
<1>8. ASSUME NEW p, p # x PROVE D!XrefsOf(p)' = D!XrefsOf(p)
  <2>1. {m \in DOMAIN documents' : documents'[m].path = p} = {m \in DOMAIN documents : documents[m].path = p}
    BY <1>1, <1>2, <1>3, <1>8
  <2> QED BY <1>2, <2>1 DEF D!XrefsOf
<1> QED BY <1>1, <1>2, <1>5, <1>7, <1>8

\* What parses is a document.
LEMMA ParsedIs ==
  ASSUME DxfInv, NEW path \in Places, D!Document(path) # Broken PROVE D!IsDocument(D!Document(path))
BY DEF DxfInv, D!Document, D!Regular, D!IsContent

\* The root is the first document, and the only frame.
LEMMA OpenRootBuilt == ASSUME DxfInv, DxfBuilt, D!OpenRoot PROVE DxfBuilt'
<1>1. PICK doc : doc = D!Document(0)
  OBVIOUS
<1>2. /\ UNCHANGED <<job, index, admitted, records>> /\ pc = "parse"
      /\ \/ pc' = "done" /\ outcome' \in {"PARSE_FAILED", "RECORD_LIMIT_EXCEEDED"} /\ UNCHANGED <<stack, documents>>
         \/ /\ pc' = "visit" /\ outcome' = outcome /\ doc # Broken
            /\ documents' = <<[path |-> 0, doc |-> doc]>>
            /\ stack' = IF D!Bundled THEN <<D!Frame(0, doc)>> ELSE <<>>
  BY <1>1 DEF D!OpenRoot, D!Stop, D!loading
<1>3. outcome = "running" /\ job \in DxfJobs
  BY <1>2 DEF DxfInv
<1>4. documents = <<>> /\ stack = <<>>
  BY <1>2 DEF DxfBuilt, DocumentsBuilt, Before
<1>5. D!Bundled' = D!Bundled /\ Loaded' = Loaded /\ (D!Bundled => Loaded)
  BY <1>2 DEF D!Bundled, Loaded, D!RootPaths, DxfBuilt, MembersBuilt, Admissible
<1>6. MembersBuilt'
  BY <1>2, <1>5 DEF DxfBuilt, MembersBuilt, Admissible
<1>7. EndBuilt'
  BY <1>2, <1>3 DEF EndBuilt
<1>8. CASE pc' = "done"
  <2>1. UNCHANGED <<stack, documents>> /\ outcome' # "written" /\ DOMAIN documents' = {}
    BY <1>2, <1>4, <1>8
  <2>2. DocumentsBuilt'
    BY <1>4, <1>5, <1>8, <2>1 DEF DxfBuilt, DocumentsBuilt, Before
  <2>3. D!Bundled' => StackBuilt' /\ LeftBuilt'
    BY <1>5, <2>1, StackKept DEF DxfBuilt
  <2> QED BY <1>6, <1>7, <2>2, <2>3 DEF DxfBuilt
<1>9. CASE pc' = "visit"
  <2>1. D!IsDocument(doc)
    <3>1. 0 \in Places
      BY <1>3, DxfAssumption DEF D!IsDxfJob, Places
    <3> QED BY <1>1, <1>2, <1>9, <3>1, ParsedIs
  <2>2. /\ IsList(documents) /\ documents' = Append(documents, [path |-> 0, doc |-> doc]) /\ ~D!Visited(0)
        /\ D!Taken = {} /\ Len(documents) = 0
    BY <1>2, <1>4, <1>9, Short DEF D!Visited, D!Taken
  <2>3. /\ D!Taken' = {0} /\ D!XrefsOf(0)' = doc.xrefs
        /\ DOMAIN documents' = 1..1 /\ documents'[1] = [path |-> 0, doc |-> doc]
    BY <2>2, TakenMore
  <2>4. DocumentsBuilt'
    <3>1. documents' # <<>> /\ Len(documents') = 1
      BY <1>2, <1>9
    <3>2. ~D!Bundled' => stack' = <<>>
      BY <1>2, <1>5, <1>9
    <3>3. \A k \in DOMAIN documents' : k = 1 /\ documents'[k].path = 0 /\ documents'[k].doc = doc
      BY <2>3
    <3> QED BY <1>3, <1>9, <2>1, <3>1, <3>2, <3>3 DEF DocumentsBuilt, Before
  <2>5. ASSUME D!Bundled PROVE StackBuilt' /\ LeftBuilt'
    <3>1. PICK frame : frame = D!Frame(0, doc)
      OBVIOUS
    <3>2. frame.path = 0 /\ frame.pending = doc.xrefs
      BY <3>1 DEF D!Frame
    <3>3. stack' = <<frame>>
      BY <1>2, <1>9, <2>5, <3>1
    <3>4. 1..Len(stack') = {1} /\ stack'[1] = frame
      BY <3>3
    <3>5. OpenPaths' = {0} /\ LeftPaths' = {}
      BY <2>3, <3>2, <3>4 DEF OpenPaths, LeftPaths
    <3>6. StackBuilt'
      BY <2>3, <3>2, <3>4, <3>5 DEF StackBuilt
    <3>7. LeftBuilt'
      BY <3>5 DEF LeftBuilt
    <3> QED BY <3>6, <3>7
  <2> QED BY <1>5, <1>6, <1>7, <2>4, <2>5 DEF DxfBuilt
<1> QED BY <1>2, <1>8, <1>9

\* A document is left: its xrefs were all left before, so that it closes no cycle.
LEMMA ReturnBuilt == ASSUME DxfInv, DxfBuilt, D!Return PROVE DxfBuilt'
<1>1. /\ UNCHANGED <<job, index, pc, admitted, documents, opened, records, outcome>>
      /\ pc = "visit" /\ stack # <<>> /\ D!Top.pending = {} /\ stack' = D!Below
  BY DEF D!Return, D!loading
<1>2. stack \in Seq(Frames) /\ outcome = "running"
  BY <1>1 DEF DxfInv
<1>3. PICK n : n = Len(stack) /\ n \in Nat \ {0}
  BY <1>1, <1>2
<1>4. Len(stack') = n - 1 /\ \A k \in 1..(n - 1) : stack'[k] = stack[k]
  BY <1>1, <1>2, <1>3, LookedIs
<1>5. PICK p : p = stack[n].path
  OBVIOUS
<1>6. D!Bundled' = D!Bundled /\ D!Bundled
  <2>1. D!Bundled' = D!Bundled
    BY <1>1 DEF D!Bundled
  <2> QED BY <1>1, <2>1 DEF DxfBuilt, DocumentsBuilt
<1>7. StackBuilt /\ LeftBuilt /\ MembersBuilt /\ DocumentsBuilt
  BY <1>6 DEF DxfBuilt
<1>8. D!Taken' = D!Taken /\ \A q : D!XrefsOf(q)' = D!XrefsOf(q)
  BY <1>1 DEF D!Taken, D!XrefsOf
<1>9. \A k \in 1..(n - 1) : k \in 1..n /\ k # n /\ k + 1 \in 1..n
  BY <1>3
<1>10. n \in 1..n /\ ~(n + 1 \in 1..n)
  BY <1>3
<1>11. OpenPaths = OpenPaths' \cup {p} /\ p \notin OpenPaths' /\ p \in D!Taken
  <2>1. OpenPaths' = {stack[k].path : k \in 1..(n - 1)}
    BY <1>4 DEF OpenPaths
  <2>2. OpenPaths = {stack[k].path : k \in 1..n}
    BY <1>3 DEF OpenPaths
  <2>3. \A k \in 1..n : k = n \/ k \in 1..(n - 1)
    BY <1>3
  <2>4. OpenPaths = OpenPaths' \cup {p}
    BY <1>5, <1>9, <1>10, <2>1, <2>2, <2>3
  <2>5. \A k \in 1..(n - 1) : stack[k].path # p
    BY <1>3, <1>5, <1>7, <1>9, <1>10 DEF StackBuilt
  <2> QED BY <1>7, <2>1, <2>4, <2>5 DEF StackBuilt
<1>12. LeftPaths' = LeftPaths \cup {p} /\ p \notin LeftPaths
  BY <1>8, <1>11 DEF LeftPaths
<1>13. D!XrefsOf(p) \subseteq LeftPaths
  <2>1. stack[n].pending = {}
    BY <1>1, <1>3 DEF D!Top
  <2>2. \A x \in D!XrefsOf(p) : x \in stack[n].pending \/ x \in LeftPaths \/ n + 1 \in 1..n
    BY <1>3, <1>5, <1>7, <1>10 DEF StackBuilt
  <2> QED BY <1>10, <2>1, <2>2
<1>14. StackBuilt'
  <2>1. \A j, k \in 1..Len(stack') : stack'[j].path = stack'[k].path => j = k
    BY <1>3, <1>4, <1>7, <1>9 DEF StackBuilt
  <2>2. OpenPaths' \subseteq D!Taken'
    BY <1>7, <1>8, <1>11 DEF StackBuilt
  <2>3. \A k \in 1..Len(stack') : stack'[k].pending \subseteq D!XrefsOf(stack[k].path)'
    BY <1>3, <1>4, <1>7, <1>8, <1>9 DEF StackBuilt
  <2>4. ASSUME NEW k \in 1..(n - 1), NEW x \in D!XrefsOf(stack[k].path)
        PROVE  x \in stack[k].pending \/ x \in LeftPaths' \/ (k + 1 \in 1..(n - 1) /\ x = stack[k + 1].path)
    <3>1. x \in stack[k].pending \/ x \in LeftPaths \/ x = stack[k + 1].path
      BY <1>3, <1>7, <1>9, <2>4 DEF StackBuilt
    <3>2. k + 1 = n \/ k + 1 \in 1..(n - 1)
      BY <1>3
    <3> QED BY <1>5, <1>12, <3>1, <3>2
  <2>5. \A k \in 1..Len(stack') : \A x \in D!XrefsOf(stack[k].path)' :
          x \in stack'[k].pending \/ x \in LeftPaths' \/ (k + 1 \in 1..Len(stack') /\ x = stack'[k + 1].path)
    <3>1. ASSUME NEW k \in 1..(n - 1), NEW x \in D!XrefsOf(stack[k].path)'
          PROVE  x \in stack'[k].pending \/ x \in LeftPaths' \/ (k + 1 \in 1..(n - 1) /\ x = stack'[k + 1].path)
      <4>1. stack'[k] = stack[k] /\ x \in D!XrefsOf(stack[k].path)
        BY <1>4, <1>8, <3>1
      <4>2. x \in stack[k].pending \/ x \in LeftPaths' \/ (k + 1 \in 1..(n - 1) /\ x = stack[k + 1].path)
        BY <2>4, <4>1
      <4> QED BY <1>4, <4>1, <4>2
    <3> QED BY <1>4, <3>1
  <2> QED BY <2>1, <2>2, <2>3, <2>5 DEF StackBuilt
<1>15. LeftBuilt'
  <2>1. \A q \in LeftPaths' : D!XrefsOf(q)' \subseteq LeftPaths'
    BY <1>7, <1>8, <1>12, <1>13 DEF LeftBuilt
  <2>2. ASSUME NEW some \in SUBSET LeftPaths', some # {} PROVE \E q \in some : D!XrefsOf(q)' \cap some = {}
    <3>1. PICK rest : rest = some \ {p}
      OBVIOUS
    <3>2. rest \in SUBSET LeftPaths
      BY <1>12, <3>1
    <3>3. CASE rest = {}
      <4>1. p \in some /\ D!XrefsOf(p) \cap some = {}
        BY <1>12, <1>13, <2>2, <3>1, <3>3
      <4> QED BY <1>8, <4>1
    <3>4. CASE rest # {}
      <4>1. PICK q \in rest : D!XrefsOf(q) \cap rest = {}
        BY <1>7, <3>2, <3>4 DEF LeftBuilt
      <4>2. p \notin D!XrefsOf(q)
        BY <1>7, <1>12, <3>2, <4>1 DEF LeftBuilt
      <4> QED BY <1>8, <3>1, <4>1, <4>2
    <3> QED BY <3>3, <3>4
  <2> QED BY <2>1, <2>2 DEF LeftBuilt
<1>16. MembersBuilt' /\ DocumentsBuilt'
  <2>1. Loaded' = Loaded /\ \A q : D!Declared(q)' = D!Declared(q)
    BY <1>1 DEF Loaded, D!RootPaths, D!Declared
  <2>2. MembersBuilt'
    BY <1>1, <1>6, <1>7, <2>1 DEF MembersBuilt
  <2>3. DocumentsBuilt'
    BY <1>1, <1>6, <1>7, <2>1 DEF DocumentsBuilt, Before
  <2> QED BY <2>2, <2>3
<1>17. EndBuilt'
  BY <1>1, <1>2 DEF EndBuilt
<1> QED BY <1>14, <1>15, <1>16, <1>17 DEF DxfBuilt

\* An xref is opened: it cannot be read, lies too deep, was left before, or is taken up and opened on the stack.
LEMMA OpenXrefBuilt == ASSUME DxfInv, DxfBuilt, D!OpenXref PROVE DxfBuilt'
<1>1. PICK x : x = D!NextXref
  OBVIOUS
<1>2. PICK doc : doc = D!Document(x)
  OBVIOUS
<1>3. /\ UNCHANGED <<job, index, admitted, records>> /\ D!Looking /\ D!Declared(x) /\ ~D!OnStack(x) /\ pc = "visit"
      /\ \/ pc' = "done" /\ outcome' \in {"XREF_PARSE_FAILED", "XREF_DEPTH_EXCEEDED"} /\ UNCHANGED <<stack, documents>>
         \/ /\ UNCHANGED <<pc, documents, outcome>> /\ D!Visited(x) /\ stack' = D!Looked
         \/ /\ UNCHANGED <<pc, outcome>> /\ doc # Broken /\ ~D!Visited(x)
            /\ stack' = Append(D!Looked, D!Frame(x, doc))
            /\ documents' = Append(documents, [path |-> x, doc |-> doc])
  BY <1>1, <1>2 DEF D!OpenXref, D!Stop, D!loading, D!Looking
<1>4. stack \in Seq(Frames) /\ IsList(documents) /\ outcome = "running" /\ stack # <<>>
  BY <1>3 DEF DxfInv, D!Looking
<1>5. x \in Places
  BY <1>3 DEF DxfInv, D!Declared
<1>6. PICK n : n = Len(stack) /\ n \in Nat \ {0}
  BY <1>4
<1>7. x \in stack[n].pending
  BY <1>1, <1>3, <1>4, <1>6, NextXrefIs DEF D!Top, D!Looking
<1>8. /\ D!Looked \in Seq(Frames) /\ Len(D!Looked) = n
      /\ \A k \in 1..n : D!Looked[k].path = stack[k].path
      /\ \A k \in 1..n : D!Looked[k].pending = IF k = n THEN stack[k].pending \ {x} ELSE stack[k].pending
  <2>1. /\ D!Looked \in Seq(Frames) /\ Len(D!Looked) = n
        /\ \A k \in 1..n : D!Looked[k] = [path |-> stack[k].path, pending |-> IF k = n THEN stack[k].pending \ {x} ELSE stack[k].pending]
    BY <1>1, <1>4, <1>6, LookedIs
  <2>2. ASSUME NEW k \in 1..n
        PROVE  D!Looked[k].path = stack[k].path /\ D!Looked[k].pending = IF k = n THEN stack[k].pending \ {x} ELSE stack[k].pending
    <3>1. PICK rest : rest = IF k = n THEN stack[k].pending \ {x} ELSE stack[k].pending
      OBVIOUS
    <3>2. D!Looked[k] = [path |-> stack[k].path, pending |-> rest]
      BY <2>1, <3>1
    <3>3. D!Looked[k].path = stack[k].path /\ D!Looked[k].pending = rest
      BY <3>2
    <3> QED BY <3>1, <3>3
  <2>3. \A k \in 1..n : D!Looked[k].path = stack[k].path
    BY <2>2
  <2>4. \A k \in 1..n : D!Looked[k].pending = IF k = n THEN stack[k].pending \ {x} ELSE stack[k].pending
    BY <2>2
  <2> QED BY <2>1, <2>3, <2>4
<1>9. D!Bundled' = D!Bundled /\ D!Bundled
  <2>1. D!Bundled' = D!Bundled
    BY <1>3 DEF D!Bundled
  <2> QED BY <1>4, <2>1 DEF DxfBuilt, DocumentsBuilt
<1>10. StackBuilt /\ LeftBuilt /\ MembersBuilt /\ DocumentsBuilt /\ Loaded
  BY <1>3, <1>9 DEF DxfBuilt, MembersBuilt, Admissible
<1>11. Loaded' /\ \A q : D!Declared(q)' = D!Declared(q)
  BY <1>3, <1>10 DEF Loaded, D!RootPaths, D!Declared
<1>12. MembersBuilt'
  BY <1>3, <1>9, <1>10, <1>11 DEF MembersBuilt, Admissible
<1>13. EndBuilt'
  BY <1>3, <1>4 DEF EndBuilt
<1>14. x \notin OpenPaths /\ n \in 1..n
  BY <1>3, <1>6 DEF D!OnStack, OpenPaths
<1>15. CASE UNCHANGED <<stack, documents>>
  <2>1. DocumentsBuilt'
    BY <1>3, <1>4, <1>9, <1>10, <1>11, <1>15 DEF DocumentsBuilt, Before
  <2> QED BY <1>10, <1>12, <1>13, <1>15, <2>1, StackKept DEF DxfBuilt
<1>16. CASE UNCHANGED <<pc, documents, outcome>> /\ D!Visited(x) /\ stack' = D!Looked
  <2>1. D!Taken' = D!Taken /\ \A q : D!XrefsOf(q)' = D!XrefsOf(q)
    BY <1>16 DEF D!Taken, D!XrefsOf
  <2>2. OpenPaths' = OpenPaths
    <3>1. OpenPaths' = {stack'[k].path : k \in 1..n}
      BY <1>8, <1>16 DEF OpenPaths
    <3>2. OpenPaths = {stack[k].path : k \in 1..n}
      BY <1>6 DEF OpenPaths
    <3> QED BY <1>8, <1>16, <3>1, <3>2
  <2>3. LeftPaths' = LeftPaths /\ x \in LeftPaths
    <3>1. x \in D!Taken
      BY <1>16 DEF D!Visited, D!Taken
    <3> QED BY <1>14, <2>1, <2>2, <3>1 DEF LeftPaths
  <2>4. StackBuilt'
    <3>1. \A j, k \in 1..Len(stack') : stack'[j].path = stack'[k].path => j = k
      BY <1>6, <1>8, <1>10, <1>16 DEF StackBuilt
    <3>2. OpenPaths' \subseteq D!Taken'
      BY <1>10, <2>1, <2>2 DEF StackBuilt
    <3>3. \A k \in 1..Len(stack') : stack'[k].pending \subseteq D!XrefsOf(stack[k].path)'
      BY <1>6, <1>8, <1>10, <1>16, <2>1 DEF StackBuilt
    <3>4. ASSUME NEW k \in 1..n, NEW y \in D!XrefsOf(stack[k].path)
          PROVE  y \in stack'[k].pending \/ y \in LeftPaths' \/ (k + 1 \in 1..n /\ y = stack'[k + 1].path)
      <4>1. y \in stack[k].pending \/ y \in LeftPaths \/ (k + 1 \in 1..n /\ y = stack[k + 1].path)
        BY <1>6, <1>10, <3>4 DEF StackBuilt
      <4> QED BY <1>8, <1>16, <2>3, <4>1
    <3>5. \A k \in 1..Len(stack') : \A y \in D!XrefsOf(stack[k].path)' :
            y \in stack'[k].pending \/ y \in LeftPaths' \/ (k + 1 \in 1..Len(stack') /\ y = stack'[k + 1].path)
      BY <1>8, <1>16, <2>1, <3>4
    <3> QED BY <3>1, <3>2, <3>3, <3>5 DEF StackBuilt
  <2>5. LeftBuilt'
    BY <1>10, <2>1, <2>3 DEF LeftBuilt
  <2>6. DocumentsBuilt'
    BY <1>3, <1>4, <1>9, <1>10, <1>11, <1>16 DEF DocumentsBuilt, Before
  <2> QED BY <1>12, <1>13, <2>4, <2>5, <2>6 DEF DxfBuilt
<1>17. CASE /\ UNCHANGED <<pc, outcome>> /\ doc # Broken /\ ~D!Visited(x)
            /\ stack' = Append(D!Looked, D!Frame(x, doc))
            /\ documents' = Append(documents, [path |-> x, doc |-> doc])
  <2>1. PICK frame : frame = D!Frame(x, doc)
    OBVIOUS
  <2>2. D!IsDocument(doc)
    BY <1>2, <1>5, <1>17, ParsedIs
  <2>3. frame.path = x /\ frame.pending = doc.xrefs /\ frame \in Frames
    <3>1. doc.xrefs \in SUBSET Nat
      BY <1>2, <1>5, <1>17, DocumentIs
    <3> QED BY <1>5, <2>1, <3>1 DEF D!Frame, Frames
  <2>4. /\ Len(stack') = n + 1 /\ stack'[n + 1] = frame
        /\ \A k \in 1..n : stack'[k] = D!Looked[k]
    BY <1>6, <1>8, <1>17, <2>1, <2>3
  <2>5. PICK last \in Nat \ {0} : last = Len(documents) + 1
    <3>1. Len(documents) \in Nat
      BY <1>4, ListIs
    <3> QED BY <3>1
  <2>6. /\ D!Taken' = D!Taken \cup {x} /\ x \notin D!Taken
        /\ D!XrefsOf(x)' = doc.xrefs /\ \A p : p # x => D!XrefsOf(p)' = D!XrefsOf(p)
        /\ last - 1 \in Nat /\ DOMAIN documents = 1..(last - 1) /\ DOMAIN documents' = 1..last
        /\ \A k \in DOMAIN documents : documents'[k] = documents[k]
        /\ documents'[last] = [path |-> x, doc |-> doc]
    BY <1>4, <1>17, <2>5, TakenMore
  <2>7. \A k \in 1..n + 1 : k = n + 1 \/ k \in 1..n
    BY <1>6
  <2>8. \A k \in 1..n : stack'[k].path = stack[k].path /\ stack[k].path # x /\ stack'[k].pending \subseteq stack[k].pending
    BY <1>6, <1>8, <1>14, <2>4 DEF OpenPaths
  <2>9. OpenPaths' = OpenPaths \cup {x} /\ LeftPaths' = LeftPaths
    <3>1. OpenPaths' = {stack'[k].path : k \in 1..n + 1}
      BY <2>4 DEF OpenPaths
    <3>2. OpenPaths = {stack[k].path : k \in 1..n}
      BY <1>6 DEF OpenPaths
    <3>3. n + 1 \in 1..n + 1 /\ \A k \in 1..n : k \in 1..n + 1
      BY <1>6
    <3>4. OpenPaths' = OpenPaths \cup {x}
      BY <2>3, <2>4, <2>7, <2>8, <3>1, <3>2, <3>3
    <3> QED BY <2>6, <3>4 DEF LeftPaths
  <2>10. StackBuilt'
    <3>1. \A j, k \in 1..Len(stack') : stack'[j].path = stack'[k].path => j = k
      <4>1. \A j, k \in 1..n : stack[j].path = stack[k].path => j = k
        BY <1>6, <1>10 DEF StackBuilt
      <4> QED BY <2>3, <2>4, <2>7, <2>8, <4>1
    <3>2. OpenPaths' \subseteq D!Taken'
      BY <1>10, <2>6, <2>9 DEF StackBuilt
    <3>3. ASSUME NEW k \in 1..n + 1 PROVE stack'[k].pending \subseteq D!XrefsOf(stack[k].path)'
      <4>1. CASE k = n + 1
        BY <2>3, <2>4, <2>6, <4>1
      <4>2. CASE k \in 1..n
        BY <1>6, <1>10, <2>6, <2>8, <4>2 DEF StackBuilt
      <4> QED BY <2>7, <4>1, <4>2
    <3>4. ASSUME NEW k \in 1..n, NEW y \in D!XrefsOf(stack[k].path)
          PROVE  y \in stack'[k].pending \/ y \in LeftPaths' \/ (k + 1 \in 1..n + 1 /\ y = stack'[k + 1].path)
      <4>1. y \in stack[k].pending \/ y \in LeftPaths \/ (k + 1 \in 1..n /\ y = stack[k + 1].path)
        BY <1>6, <1>10, <3>4 DEF StackBuilt
      <4>2. y \in stack[k].pending => y \in stack'[k].pending \/ (k = n /\ y = x)
        BY <1>8, <2>4
      <4>3. k + 1 \in 1..n + 1
        BY <1>6
      <4>4. CASE k = n /\ y = x
        BY <2>3, <2>4, <4>3, <4>4
      <4>5. CASE k + 1 \in 1..n /\ y = stack[k + 1].path
        BY <2>8, <4>3, <4>5
      <4> QED BY <2>9, <4>1, <4>2, <4>4, <4>5
    <3>5. ASSUME NEW k \in 1..n + 1, NEW y \in D!XrefsOf(stack[k].path)'
          PROVE  y \in stack'[k].pending \/ y \in LeftPaths' \/ (k + 1 \in 1..n + 1 /\ y = stack'[k + 1].path)
      <4>1. CASE k = n + 1
        BY <2>3, <2>4, <2>6, <3>5, <4>1
      <4>2. CASE k \in 1..n
        <5>1. y \in D!XrefsOf(stack[k].path)
          BY <2>6, <2>8, <3>5, <4>2
        <5> QED BY <3>4, <4>2, <5>1
      <4> QED BY <2>7, <4>1, <4>2
    <3> QED BY <2>4, <3>1, <3>2, <3>3, <3>5 DEF StackBuilt
  <2>11. LeftBuilt'
    <3>1. \A p \in LeftPaths : D!XrefsOf(p)' = D!XrefsOf(p)
      BY <2>6 DEF LeftPaths
    <3> QED BY <1>10, <2>9, <3>1 DEF LeftBuilt
  <2>12. DocumentsBuilt'
    <3>1. last \in Nat \ {0} /\ \A k \in 1..last : k = last \/ k \in 1..(last - 1)
      OBVIOUS
    <3>2. last # 1
      <4>1. documents # <<>>
        BY <1>3, <1>10 DEF DocumentsBuilt
      <4> QED BY <1>4, <2>5, <2>6, <4>1, ListIs
    <3>3. \A k \in 1..last : D!IsDocument(documents'[k].doc)
      BY <1>10, <2>2, <2>6, <3>1 DEF DocumentsBuilt
    <3>4. \A k \in 1..(last - 1) : documents[k].path # x
      BY <2>6 DEF D!Taken
    <3>5. \A j, k \in 1..last : documents'[j].path = documents'[k].path => j = k
      BY <1>10, <2>6, <3>1, <3>4 DEF DocumentsBuilt
    <3>6. \E j \in 1..(last - 1) : x \in documents'[j].doc.xrefs
      <4>1. x \in D!XrefsOf(stack[n].path)
        BY <1>6, <1>7, <1>10, <1>14 DEF StackBuilt
      <4>2. PICK j \in DOMAIN documents : x \in documents[j].doc.xrefs
        BY <4>1 DEF D!XrefsOf
      <4> QED BY <2>6, <4>2
    <3>7. ASSUME NEW k \in 1..last, k # 1
          PROVE  D!Declared(documents'[k].path) /\ \E j \in 1..(k - 1) : documents'[k].path \in documents'[j].doc.xrefs
      <4>1. CASE k = last
        BY <1>3, <2>6, <3>6, <4>1
      <4>2. CASE k \in 1..(last - 1)
        <5>1. D!Declared(documents[k].path) /\ \E j \in 1..(k - 1) : documents[k].path \in documents[j].doc.xrefs
          BY <1>10, <2>6, <3>7, <4>2 DEF DocumentsBuilt
        <5>2. PICK j \in 1..(k - 1) : documents[k].path \in documents[j].doc.xrefs
          BY <5>1
        <5>3. j \in 1..(last - 1)
          BY <3>1, <4>2
        <5> QED BY <2>6, <4>2, <5>1, <5>2, <5>3
      <4> QED BY <3>1, <4>1, <4>2
    <3>8. \A k \in 1..last : k = 1 => documents'[k].path = 0
      <4>1. 1 \in 1..(last - 1)
        BY <3>1, <3>2
      <4> QED BY <1>10, <2>6, <4>1 DEF DocumentsBuilt
    <3>9. documents' # <<>>
      <4>1. 1 \in DOMAIN documents'
        BY <2>6, <3>1
      <4> QED BY <4>1
    <3>10. pc' \notin Before
      BY <1>3, <1>17 DEF Before
    <3>11. \A k \in DOMAIN documents' : IF k = 1 THEN documents'[k].path = 0
                                        ELSE /\ D!Declared(documents[k].path)'
                                             /\ \E j \in 1..(k - 1) : documents'[k].path \in documents'[j].doc.xrefs
      BY <1>11, <2>6, <3>7, <3>8
    <3> QED BY <1>9, <2>6, <3>3, <3>5, <3>9, <3>10, <3>11 DEF DocumentsBuilt
  <2> QED BY <1>12, <1>13, <2>10, <2>11, <2>12 DEF DxfBuilt
<1> QED BY <1>3, <1>15, <1>16, <1>17

\* The visit ends, and the records are written.
LEMMA EndsBuilt == ASSUME DxfInv, DxfBuilt, D!VisitDone \/ D!WriteRecords PROVE DxfBuilt'
<1>1. /\ UNCHANGED <<job, index, admitted, stack, documents, opened>>
      /\ \/ /\ pc = "visit" /\ stack = <<>> /\ pc' = "records" /\ UNCHANGED <<records, outcome>>
            /\ ~\E e \in admitted : e.role = "xref" /\ ~D!Visited(e.path)
         \/ pc = "visit" /\ pc' = "done" /\ outcome' = "XREF_UNREACHABLE"
         \/ pc = "records" /\ pc' = "done" /\ outcome' = "RECORD_LIMIT_EXCEEDED"
         \/ pc = "records" /\ pc' = "done" /\ outcome' = "written" /\ records' = D!AllRecords
  BY DEF D!VisitDone, D!WriteRecords, D!Stop, D!loading, D!visiting
<1>2. outcome = "running"
  BY <1>1 DEF DxfInv
<1>3. /\ D!Bundled' = D!Bundled /\ Loaded' = Loaded
      /\ (\A p : D!Declared(p)' = D!Declared(p)) /\ (\A p : D!Visited(p)' = D!Visited(p)) /\ D!AllRecords' = D!AllRecords
  BY <1>1, RecordsKept DEF D!Bundled, Loaded, D!RootPaths, D!Declared, D!Visited
<1>4. MembersBuilt'
  BY <1>1, <1>3 DEF DxfBuilt, MembersBuilt, Admissible
<1>5. DocumentsBuilt'
  BY <1>1, <1>2, <1>3 DEF DxfBuilt, DocumentsBuilt, Before
<1>6. D!Bundled' => StackBuilt' /\ LeftBuilt'
  BY <1>1, <1>3, StackKept DEF DxfBuilt
<1>7. EndBuilt'
  BY <1>1, <1>2, <1>3 DEF DxfBuilt, EndBuilt
<1> QED BY <1>4, <1>5, <1>6, <1>7 DEF DxfBuilt

\* At the start nothing was admitted.
LEMMA DxfBuiltInit == ASSUME D!Init PROVE DxfBuilt
<1>1. /\ job \in DxfJobs /\ index = 1 /\ admitted = {} /\ stack = <<>> /\ documents = <<>> /\ opened = <<>>
      /\ outcome = "running" /\ pc = IF D!Bundled THEN "manifest" ELSE "source"
  BY DEF D!Init
<1>2. Len(job.manifest) \in Nat
  BY <1>1, DxfAssumption DEF D!IsDxfJob
<1>3. IsFiniteSet(admitted) /\ Cardinality(admitted) = 0
  BY <1>1, FS_EmptySet
<1>4. index - 1 \in 0..Len(job.manifest) /\ index - 1 = 0
  BY <1>1, <1>2
<1>5. MembersBuilt
  BY <1>1, <1>3, <1>4 DEF MembersBuilt, Admissible
<1>6. DOMAIN documents = {} /\ 1..Len(stack) = {} /\ Len(documents) \in 0..1
  BY <1>1
<1>7. DocumentsBuilt
  BY <1>1, <1>6 DEF DocumentsBuilt
<1>8. OpenPaths = {} /\ LeftPaths = {}
  BY <1>6 DEF OpenPaths, LeftPaths, D!Taken
<1>9. StackBuilt /\ LeftBuilt
  BY <1>6, <1>8 DEF StackBuilt, LeftBuilt
<1>10. EndBuilt
  BY <1>1 DEF EndBuilt
<1> QED BY <1>5, <1>7, <1>9, <1>10 DEF DxfBuilt

\* A step of the DXF adapter, and of whoever changes its files, keeps this.
LEMMA DxfBuiltKeeps == ASSUME DxfInv, DxfBuilt, [D!Next]_(D!vars) PROVE DxfBuilt'
<1>1. CASE UNCHANGED <<job, index, pc, admitted, stack, documents, opened, records, outcome>>
  BY <1>1, DxfBuiltStill
<1>2. CASE D!Step
  BY <1>2, DxfMovesBuilt, AdmitMemberBuilt, OpenRootBuilt, OpenXrefBuilt, ReturnBuilt, EndsBuilt DEF D!Step
<1>3. CASE \E path \in DOMAIN disk : \E new \in job.variants : D!Rewrite(path, new)
  BY <1>1, <1>3 DEF D!Rewrite, D!loading, D!visiting
<1>4. CASE UNCHANGED D!vars
  BY <1>1, <1>4 DEF D!vars, D!loading, D!visiting
<1> QED BY <1>2, <1>3, <1>4 DEF D!Next
=============================================================================
