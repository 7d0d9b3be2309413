------------------------- MODULE AtomicCreateProofs -------------------------
(***************************************************************************)
(* Proofs about AtomicCreate for every set of invocations and paths and    *)
(* every bound on the outputs of a call.  The inductive invariant says     *)
(* what each program counter knows about the locals (the lengths of        *)
(* `staged` and `published`), and ties the file system to the locals: a    *)
(* file created by p lies at one of the first published[p] requested       *)
(* paths and, if outsiders remove only their own, each of those holds it.  *)
(***************************************************************************)
EXTENDS AtomicCreate, SequenceTheorems, TLAPS

\* What holds of the locals of p at each of its program points.
Locals(p) ==
  /\ published[p] \in 0..Len(request[p])
  /\ createPc[p] \in {"idle", "resolving"} =>
       published[p] = 0 /\ temps[p] = <<>> /\ item[p] = 1 /\ returned[p] = "none"
  /\ createPc[p] \in {"checking", "staging", "writing", "linking"} =>
       item[p] \in 1..Len(request[p])
  /\ createPc[p] \in {"checking", "staging", "writing", "linking", "rollback"} => Distinct(request[p])
  /\ createPc[p] \in {"checking", "staging", "writing"} => published[p] = 0
  /\ createPc[p] = "checking" => temps[p] = <<>>
  /\ createPc[p] = "staging" => Len(temps[p]) = item[p] - 1
  /\ createPc[p] = "writing" => Len(temps[p]) = item[p]
  /\ createPc[p] = "linking" => Len(temps[p]) = Len(request[p]) /\ published[p] = item[p] - 1
  /\ createPc[p] \in {"staging", "linking"} => \A i \in 1..Len(temps[p]) : temps[p][i] = "full"
  /\ createPc[p] = "writing" => \A i \in 1..(item[p] - 1) : temps[p][i] = "full"
  /\ createPc[p] = "rollback" => returned[p] \in {"exists", "failed"}
  /\ createPc[p] \in {"cleanup", "done"} =>
       /\ returned[p] # "none"
       /\ returned[p] = "ok" => published[p] = Len(request[p])
       /\ returned[p] \in {"exists", "failed"} => published[p] = 0
  /\ createPc[p] = "done" /\ returned[p] \in {"exists", "failed"} => temps[p] = <<>>

\* A file of p is at one of the paths p has linked; none has vanished if
\* outsiders remove only their own files.
Owned(p) ==
  /\ \A f \in Outputs : Owner(f) = p => \E i \in 1..published[p] : request[p][i] = f
  /\ OwnRemovalsOnly => \A i \in 1..published[p] : Owner(request[p][i]) = p

Inv ==
  /\ CreateTypeOK
  /\ \A p \in Procs : Locals(p)
  /\ \A p \in Procs : Owned(p)
  /\ CompleteOutputs

LocalVars(p) == <<createPc[p], request[p], item[p], temps[p], published[p], returned[p]>>

-----------------------------------------------------------------------------
(* A step of one invocation leaves what is known of the others alone.      *)

\* An invocation whose locals do not change keeps what they say.
LEMMA LocalsFrame ==
  ASSUME NEW q \in Procs, Locals(q), LocalVars(q)' = LocalVars(q)
  PROVE  Locals(q)'
BY DEF Locals, LocalVars, Distinct

\* An invocation whose files do not change keeps them.
LEMMA OwnedFrame ==
  ASSUME NEW q \in Procs, Owned(q), fs' = fs,
         request'[q] = request[q], published'[q] = published[q]
  PROVE  Owned(q)'
BY DEF Owned, Owner

\* The invariant holds before the first call.
LEMMA InitInv == CreateInit => Inv
<1> SUFFICES ASSUME CreateInit PROVE Inv
  OBVIOUS
<1> USE DEF CreateInit
<1>1. CreateTypeOK
  <2>1. <<>> \in Seq(Outputs) /\ <<>> \in Seq({"partial", "full"})
    BY EmptySeq
  <2>2. fs \in [Outputs -> Files \cup {NoFile}]
    <3>1. [by |-> Outsider, data |-> "full"] \in Files
      BY DEF Files
    <3> QED BY <3>1
  <2>3. request \in [Procs -> Seq(Outputs)] /\ temps \in [Procs -> Seq({"partial", "full"})]
    BY <2>1
  <2>4. item \in [Procs -> Nat \ {0}] /\ published \in [Procs -> Nat]
    OBVIOUS
  <2> QED BY <2>2, <2>3, <2>4 DEF CreateTypeOK, Running, InTry, Ended
<1>2. \A p \in Procs : Locals(p)
  <2>1. Len(<<>>) = 0
    BY EmptySeq
  <2> SUFFICES ASSUME NEW p \in Procs PROVE Locals(p)
    OBVIOUS
  <2>2. Len(request[p]) = 0 /\ published[p] = 0 /\ createPc[p] = "idle"
    BY <2>1
  <2> QED BY <2>2 DEF Locals
<1>3. \A p \in Procs : Owned(p)
  <2> SUFFICES ASSUME NEW p \in Procs PROVE Owned(p)
    OBVIOUS
  <2>1. \A f \in Outputs : Owner(f) # p
    BY PartiesAssumption DEF Owner
  <2>2. published[p] = 0
    OBVIOUS
  <2> QED BY <2>1, <2>2 DEF Owned
<1>4. CompleteOutputs
  BY DEF CompleteOutputs
<1> QED BY <1>1, <1>2, <1>3, <1>4 DEF Inv

\* Every request is a sequence of paths.
LEMMA RequestSeq == Requests \subseteq Seq(Outputs)
BY PartiesAssumption DEF Requests

\* The steps that touch neither the file system nor the lists of p.
LEMMA CallInv == ASSUME Inv, NEW p \in Procs, CallCreate(p) PROVE Inv'
<1> USE DEF Inv, CallCreate, Goto
<1>1. CreateTypeOK'
  BY RequestSeq DEF CreateTypeOK, Running, InTry, Ended
<1>2. Locals(p)'
  <2>1. request'[p] \in Seq(Outputs)
    BY <1>1 DEF CreateTypeOK
  <2>2. Len(request'[p]) \in Nat
    BY <2>1, LenProperties
  <2> QED BY <2>2 DEF Locals, CreateTypeOK, Distinct
<1>3. ASSUME NEW q \in Procs, q # p PROVE Locals(q)'
  BY <1>3, LocalsFrame DEF LocalVars, CreateTypeOK
<1>4. ASSUME NEW q \in Procs PROVE Owned(q)'
  <2>1. CASE q # p
    BY <2>1, OwnedFrame DEF CreateTypeOK
  <2>2. CASE q = p
    BY <2>2 DEF Owned, Owner, Locals, CreateTypeOK
  <2> QED BY <2>1, <2>2
<1>5. CompleteOutputs'
  BY DEF CompleteOutputs
<1> QED BY <1>1, <1>2, <1>3, <1>4, <1>5

\* Resolving the requested paths.
LEMMA ResolveInv == ASSUME Inv, NEW p \in Procs, Resolve(p) PROVE Inv'
<1> USE DEF Inv, Resolve, Exit, Goto
<1>1. CreateTypeOK'
  BY DEF CreateTypeOK, Running, InTry, Ended
<1>2. Locals(p)'
  <2>1. request[p] \in Seq(Outputs) /\ Len(request[p]) \in Nat
    BY LenProperties DEF CreateTypeOK
  <2>2. request[p] = <<>> => Len(request[p]) = 0
    BY EmptySeq
  <2>3. request[p] # <<>> => Len(request[p]) \in Nat \ {0}
    BY <2>1, EmptySeq
  <2>4. createPc[p] = "resolving" /\ published[p] = 0 /\ temps[p] = <<>> /\ item[p] = 1
    BY DEF Locals
  <2> QED BY <2>1, <2>2, <2>3, <2>4 DEF Locals, CreateTypeOK, Distinct
<1>3. ASSUME NEW q \in Procs, q # p PROVE Locals(q)'
  BY <1>3, LocalsFrame DEF LocalVars, CreateTypeOK
<1>4. ASSUME NEW q \in Procs PROVE Owned(q)'
  BY OwnedFrame
<1>5. CompleteOutputs'
  BY DEF CompleteOutputs
<1> QED BY <1>1, <1>2, <1>3, <1>4, <1>5

\* A call that goes on keeps its types.
LEMMA AdvanceType ==
  ASSUME CreateTypeOK, NEW p \in Procs, NEW loop \in Running, NEW next \in Running,
         Advance(p, loop, next)
  PROVE  item' \in [Procs -> Nat \ {0}] /\ createPc' \in [Procs -> {"idle"} \cup Running \cup Ended]
<1> USE DEF CreateTypeOK, Advance, Goto
<1>1. CASE item[p] = Len(request[p])
  <2>1. item' = [item EXCEPT ![p] = 1] /\ createPc' = [createPc EXCEPT ![p] = next]
    BY <1>1
  <2> QED BY <2>1
<1>2. CASE item[p] # Len(request[p])
  <2>1. item[p] + 1 \in Nat \ {0}
    OBVIOUS
  <2>2. item' = [item EXCEPT ![p] = item[p] + 1]
    BY <1>2
  <2>3. createPc' = [createPc EXCEPT ![p] = loop]
    BY <1>2
  <2>4. item' \in [Procs -> Nat \ {0}]
    BY <2>1, <2>2
  <2> QED BY <2>3, <2>4
<1> QED BY <1>1, <1>2

\* The existence checks.
LEMMA CheckInv == ASSUME Inv, NEW p \in Procs, CheckOutputs(p) PROVE Inv'
<1> USE DEF Inv, CheckOutputs, Exit, Goto, Advance
<1>0. request[p] \in Seq(Outputs) /\ Len(request[p]) \in Nat
  BY LenProperties DEF CreateTypeOK
<1>1. CreateTypeOK'
  <2>1. CASE Exit(p, "exists") /\ UNCHANGED item
    BY <2>1 DEF CreateTypeOK, Running, InTry, Ended
  <2>2. CASE Advance(p, "checking", "staging") /\ UNCHANGED returned
    <3>1. "checking" \in Running /\ "staging" \in Running
      BY DEF Running, InTry
    <3>2. item' \in [Procs -> Nat \ {0}] /\ createPc' \in [Procs -> {"idle"} \cup Running \cup Ended]
      BY <2>2, <3>1, AdvanceType
    <3> QED BY <2>2, <3>2 DEF CreateTypeOK
  <2> QED BY <2>1, <2>2
<1>2. Locals(p)'
  <2>1. /\ createPc[p] = "checking" /\ published[p] = 0 /\ temps[p] = <<>>
        /\ item[p] \in 1..Len(request[p]) /\ Distinct(request[p])
    BY DEF Locals
  <2>2. Len(temps[p]) = 0
    BY <2>1, EmptySeq
  <2> QED BY <1>0, <2>1, <2>2 DEF Locals, CreateTypeOK, Distinct
<1>3. ASSUME NEW q \in Procs, q # p PROVE Locals(q)'
  BY <1>3, LocalsFrame DEF LocalVars, CreateTypeOK
<1>4. ASSUME NEW q \in Procs PROVE Owned(q)'
  BY OwnedFrame
<1>5. CompleteOutputs'
  BY DEF CompleteOutputs
<1> QED BY <1>1, <1>2, <1>3, <1>4, <1>5

\* Making a temporary.
LEMMA MakeTempInv == ASSUME Inv, NEW p \in Procs, MakeTemp(p) PROVE Inv'
<1> USE DEF Inv, MakeTemp, Goto
<1>0. temps[p] \in Seq({"partial", "full"}) /\ Len(request[p]) \in Nat
  BY LenProperties DEF CreateTypeOK
<1>a. /\ temps'[p] \in Seq({"partial", "full"})
      /\ Len(temps'[p]) = Len(temps[p]) + 1
      /\ \A i \in 1..Len(temps[p]) : temps'[p][i] = temps[p][i]
  <2>1. temps'[p] = Append(temps[p], "partial")
    BY DEF CreateTypeOK
  <2> QED BY <1>0, <2>1, AppendProperties
<1>1. CreateTypeOK'
  BY <1>a DEF CreateTypeOK, Running, InTry, Ended
<1>2. Locals(p)'
  <2>1. /\ createPc[p] = "staging" /\ published[p] = 0
        /\ item[p] \in 1..Len(request[p]) /\ Distinct(request[p])
        /\ Len(temps[p]) = item[p] - 1
        /\ \A i \in 1..Len(temps[p]) : temps[p][i] = "full"
    BY DEF Locals
  <2> QED BY <1>0, <1>a, <2>1 DEF Locals, CreateTypeOK, Distinct
<1>3. ASSUME NEW q \in Procs, q # p PROVE Locals(q)'
  BY <1>3, LocalsFrame DEF LocalVars, CreateTypeOK
<1>4. ASSUME NEW q \in Procs PROVE Owned(q)'
  BY OwnedFrame
<1>5. CompleteOutputs'
  BY DEF CompleteOutputs
<1> QED BY <1>1, <1>2, <1>3, <1>4, <1>5

\* Filling a temporary.
LEMMA WriteTempInv == ASSUME Inv, NEW p \in Procs, WriteTemp(p) PROVE Inv'
<1> USE DEF Inv, WriteTemp, Goto, Advance
<1>0. temps[p] \in Seq({"partial", "full"}) /\ Len(request[p]) \in Nat
  BY LenProperties DEF CreateTypeOK
<1>b. /\ createPc[p] = "writing" /\ published[p] = 0
      /\ item[p] \in 1..Len(request[p]) /\ Distinct(request[p])
      /\ Len(temps[p]) = item[p]
      /\ \A i \in 1..(item[p] - 1) : temps[p][i] = "full"
  BY DEF Locals
<1>a. /\ temps'[p] \in Seq({"partial", "full"})
      /\ Len(temps'[p]) = Len(temps[p])
      /\ \A i \in 1..Len(temps[p]) : temps'[p][i] = "full"
  <2>1. temps'[p] = [temps[p] EXCEPT ![item[p]] = "full"]
    BY DEF CreateTypeOK
  <2>2. item[p] \in 1..Len(temps[p])
    BY <1>0, <1>b
  <2>3. /\ [temps[p] EXCEPT ![item[p]] = "full"] \in Seq({"partial", "full"})
        /\ Len([temps[p] EXCEPT ![item[p]] = "full"]) = Len(temps[p])
        /\ \A i \in 1..Len(temps[p]) :
             [temps[p] EXCEPT ![item[p]] = "full"][i] = IF i = item[p] THEN "full" ELSE temps[p][i]
    BY <1>0, <2>2, ExceptSeq
  <2>4. ASSUME NEW i \in 1..Len(temps[p]) PROVE temps'[p][i] = "full"
    <3>1. i = item[p] \/ i \in 1..(item[p] - 1)
      BY <1>b
    <3> QED BY <1>b, <2>1, <2>3, <3>1
  <2> QED BY <2>1, <2>3, <2>4
<1>1. CreateTypeOK'
  <2>1. "staging" \in Running /\ "linking" \in Running
    BY DEF Running, InTry
  <2>2. item' \in [Procs -> Nat \ {0}] /\ createPc' \in [Procs -> {"idle"} \cup Running \cup Ended]
    BY <2>1, AdvanceType
  <2>3. temps' \in [Procs -> Seq({"partial", "full"})]
    BY <1>a DEF CreateTypeOK
  <2> QED BY <2>2, <2>3 DEF CreateTypeOK
<1>2. Locals(p)'
  BY <1>0, <1>a, <1>b DEF Locals, CreateTypeOK, Distinct
<1>3. ASSUME NEW q \in Procs, q # p PROVE Locals(q)'
  BY <1>3, LocalsFrame DEF LocalVars, CreateTypeOK
<1>4. ASSUME NEW q \in Procs PROVE Owned(q)'
  BY OwnedFrame
<1>5. CompleteOutputs'
  BY DEF CompleteOutputs
<1> QED BY <1>1, <1>2, <1>3, <1>4, <1>5

\* os.link: the step that makes a file visible, and so the one step that can
\* break CompleteOutputs.
LEMMA LinkInv == ASSUME Inv, NEW p \in Procs, Link(p) PROVE Inv'
<1> DEFINE f == request[p][item[p]]
           new == [by |-> p, data |-> temps[p][item[p]]]
<1> USE DEF Inv, Fail, Goto
<1>0. /\ createPc[p] = "linking" /\ Len(request[p]) \in Nat
      /\ item[p] \in 1..Len(request[p]) /\ Distinct(request[p])
      /\ published[p] = item[p] - 1
      /\ Len(temps[p]) = Len(request[p])
      /\ \A i \in 1..Len(temps[p]) : temps[p][i] = "full"
      /\ request[p] \in [1..Len(request[p]) -> Outputs]
  BY LenProperties DEF Link, CreateTypeOK, Locals
<1>a. f \in Outputs /\ temps[p][item[p]] = "full" /\ new \in Files /\ new # NoFile /\ new.by = p
  BY <1>0, PartiesAssumption DEF Files
<1>3. ASSUME NEW q \in Procs, q # p PROVE Locals(q)'
  BY <1>3, LocalsFrame DEF LocalVars, CreateTypeOK, Link
<1>4. CASE fs[f] # NoFile
  <2> USE <1>4 DEF Link
  <2>1. CreateTypeOK'
    BY DEF CreateTypeOK, Running, InTry, Ended
  <2>2. Locals(p)'
    BY <1>0 DEF Locals, CreateTypeOK, Distinct
  <2>3. ASSUME NEW q \in Procs PROVE Owned(q)'
    BY OwnedFrame
  <2>4. CompleteOutputs'
    BY DEF CompleteOutputs
  <2> QED BY <1>3, <2>1, <2>2, <2>3, <2>4
<1>5. CASE fs[f] = NoFile
  <2>0. /\ fs' = [fs EXCEPT ![f] = new]
        /\ published' = [published EXCEPT ![p] = item[p]]
        /\ request' = request /\ temps' = temps
    BY <1>5 DEF Link
  <2>1. CreateTypeOK'
    <3>1. fs' \in [Outputs -> Files \cup {NoFile}]
      BY <1>a, <2>0 DEF CreateTypeOK
    <3>2. published' \in [Procs -> Nat]
      BY <2>0 DEF CreateTypeOK
    <3>3. /\ item' \in [Procs -> Nat \ {0}]
          /\ createPc' \in [Procs -> {"idle"} \cup Running \cup Ended]
          /\ returned' \in [Procs -> {"none", "ok", "exists", "failed", "oserror", "interrupted"}]
      <4>1. CASE item[p] = Len(request[p])
        BY <1>5, <4>1 DEF Link, CreateTypeOK, Running, InTry, Ended
      <4>2. CASE item[p] # Len(request[p])
        <5>1. item' = [item EXCEPT ![p] = item[p] + 1] /\ createPc' = createPc /\ returned' = returned
          BY <1>5, <4>2 DEF Link
        <5>2. item[p] + 1 \in Nat \ {0}
          BY <1>0
        <5> QED BY <5>1, <5>2 DEF CreateTypeOK
      <4> QED BY <4>1, <4>2
    <3> QED BY <2>0, <3>1, <3>2, <3>3 DEF CreateTypeOK
  <2>2. Locals(p)'
    BY <1>0, <1>5, <2>0 DEF Link, Locals, CreateTypeOK, Distinct
  <2>3. \A g \in Outputs : Owner(g)' = IF g = f THEN p ELSE Owner(g)
    BY <1>a, <2>0 DEF Owner, CreateTypeOK
  <2>4. Owned(p)'
    <3>1. published'[p] = item[p]
      BY <2>0 DEF CreateTypeOK
    <3>2. ASSUME NEW g \in Outputs, Owner(g)' = p
          PROVE  \E i \in 1..item[p] : request[p][i] = g
      BY <1>0, <2>3, <3>2 DEF Owned
    <3>3. ASSUME OwnRemovalsOnly, NEW i \in 1..item[p]
          PROVE  Owner(request[p][i])' = p
      <4>1. request[p][i] \in Outputs
        BY <1>0
      <4>2. i # item[p] => Owner(request[p][i]) = p
        BY <1>0, <3>3 DEF Owned
      <4> QED BY <2>0, <2>3, <4>1, <4>2 DEF Owner
    <3> QED BY <2>0, <3>1, <3>2, <3>3 DEF Owned, Owner
  <2>5. ASSUME NEW q \in Procs, q # p PROVE Owned(q)'
    <3>1. published'[q] = published[q]
      BY <2>0, <2>5 DEF CreateTypeOK
    <3>0. Owner(f) = NoFile
      BY <1>5 DEF Owner
    <3>2. ASSUME NEW g \in Outputs, Owner(g)' = q PROVE \E i \in 1..published[q] : request[q][i] = g
      BY <2>3, <2>5, <3>2 DEF Owned
    <3>3. ASSUME OwnRemovalsOnly, NEW i \in 1..published[q] PROVE Owner(request[q][i])' = q
      <4>1. /\ request[q] \in [1..Len(request[q]) -> Outputs] /\ Len(request[q]) \in Nat
            /\ published[q] \in 0..Len(request[q])
        BY LenProperties DEF CreateTypeOK, Locals
      <4>2. request[q][i] \in Outputs
        BY <4>1
      <4>3. Owner(request[q][i]) = q
        BY <3>3 DEF Owned
      <4>4. request[q][i] # f
        BY <3>0, <4>3, PartiesAssumption
      <4> QED BY <2>0, <2>3, <4>2, <4>3, <4>4 DEF Owner
    <3> QED BY <2>0, <3>1, <3>2, <3>3 DEF Owned, Owner
  <2>6. CompleteOutputs'
    BY <1>a, <2>0 DEF CompleteOutputs, CreateTypeOK
  <2> QED BY <1>3, <2>1, <2>2, <2>4, <2>5, <2>6
<1> QED BY <1>4, <1>5

\* The rollback unlinks the last published path; the order matters, because the
\* invariant speaks of a prefix of the request.
LEMMA RollbackInv == ASSUME Inv, NEW p \in Procs, Rollback(p) PROVE Inv'
<1> DEFINE f == request[p][published[p]]
<1> USE DEF Inv, Goto
<1>0. /\ createPc[p] = "rollback" /\ returned[p] \in {"exists", "failed"}
      /\ Len(request[p]) \in Nat /\ published[p] \in 0..Len(request[p])
      /\ Distinct(request[p])
      /\ request[p] \in [1..Len(request[p]) -> Outputs]
  BY LenProperties DEF Rollback, CreateTypeOK, Locals
<1>1. UNCHANGED <<request, item, temps, returned>>
  BY DEF Rollback
<1>3. ASSUME NEW q \in Procs, q # p PROVE Locals(q)'
  BY <1>3, LocalsFrame DEF LocalVars, CreateTypeOK, Rollback
<1>4. CASE published[p] = 0
  <2>0. createPc' = [createPc EXCEPT ![p] = "cleanup"] /\ fs' = fs /\ published' = published
    BY <1>4 DEF Rollback
  <2>1. CreateTypeOK'
    BY <1>1, <2>0 DEF CreateTypeOK, Running, InTry, Ended
  <2>2. Locals(p)'
    BY <1>0, <1>1, <1>4, <2>0 DEF Locals, CreateTypeOK
  <2>3. ASSUME NEW q \in Procs PROVE Owned(q)'
    BY <1>1, <2>0, OwnedFrame
  <2>4. CompleteOutputs'
    BY <2>0 DEF CompleteOutputs
  <2> QED BY <1>3, <2>1, <2>2, <2>3, <2>4
<1>5. CASE published[p] # 0
  <2>0. /\ fs' = [fs EXCEPT ![f] = NoFile]
        /\ published' = [published EXCEPT ![p] = published[p] - 1]
        /\ createPc' = createPc
    BY <1>5 DEF Rollback
  <2>a. f \in Outputs /\ published[p] - 1 \in Nat /\ published'[p] = published[p] - 1
    BY <1>0, <1>5, <2>0 DEF CreateTypeOK
  <2>1. CreateTypeOK'
    <3>1. fs' \in [Outputs -> Files \cup {NoFile}]
      BY <2>0, <2>a DEF CreateTypeOK
    <3>2. published' \in [Procs -> Nat]
      BY <2>0, <2>a DEF CreateTypeOK
    <3> QED BY <1>1, <2>0, <3>1, <3>2 DEF CreateTypeOK
  <2>2. Locals(p)'
    BY <1>0, <1>1, <2>0, <2>a DEF Locals, CreateTypeOK
  <2>3. \A g \in Outputs : Owner(g)' = IF g = f THEN NoFile ELSE Owner(g)
    BY <2>0, <2>a DEF Owner, CreateTypeOK
  <2>4. Owned(p)'
    <3>2. ASSUME NEW g \in Outputs, Owner(g)' = p
          PROVE  \E i \in 1..(published[p] - 1) : request[p][i] = g
      <4>1. g # f /\ Owner(g) = p
        BY <2>3, <3>2, PartiesAssumption
      <4>2. PICK i \in 1..published[p] : request[p][i] = g
        BY <4>1 DEF Owned
      <4>3. i # published[p]
        BY <4>1, <4>2
      <4> QED BY <1>0, <1>5, <4>2, <4>3
    <3>3. ASSUME OwnRemovalsOnly, NEW i \in 1..(published[p] - 1)
          PROVE  Owner(request[p][i])' = p
      <4>1. request[p][i] \in Outputs /\ i \in 1..published[p]
        BY <1>0
      <4>2. request[p][i] # f
        BY <1>0, <1>5 DEF Distinct
      <4>3. Owner(request[p][i]) = p
        BY <3>3, <4>1 DEF Owned
      <4> QED BY <1>1, <2>3, <4>1, <4>2, <4>3 DEF Owner
    <3> QED BY <1>1, <2>a, <3>2, <3>3 DEF Owned, Owner
  <2>5. ASSUME NEW q \in Procs, q # p PROVE Owned(q)'
    <3>1. published'[q] = published[q]
      BY <2>0, <2>5 DEF CreateTypeOK
    <3>2. ASSUME NEW g \in Outputs, Owner(g)' = q PROVE \E i \in 1..published[q] : request[q][i] = g
      BY <2>3, <3>2, PartiesAssumption DEF Owned
    <3>3. ASSUME OwnRemovalsOnly, NEW i \in 1..published[q] PROVE Owner(request[q][i])' = q
      <4>1. /\ request[q] \in [1..Len(request[q]) -> Outputs] /\ Len(request[q]) \in Nat
            /\ published[q] \in 0..Len(request[q])
        BY LenProperties DEF CreateTypeOK, Locals
      <4>2. request[q][i] \in Outputs
        BY <4>1
      <4>3. Owner(request[q][i]) = q
        BY <3>3 DEF Owned
      <4>4. Owner(f) = p
        BY <1>0, <1>5, <3>3 DEF Owned
      <4>5. request[q][i] # f
        BY <2>5, <4>3, <4>4
      <4> QED BY <1>1, <2>3, <4>2, <4>3, <4>5 DEF Owner
    <3> QED BY <1>1, <3>1, <3>2, <3>3 DEF Owned, Owner
  <2>6. CompleteOutputs'
    BY <2>0, <2>a DEF CompleteOutputs, CreateTypeOK
  <2> QED BY <1>3, <2>1, <2>2, <2>4, <2>5, <2>6
<1> QED BY <1>4, <1>5

\* Removing the temporaries.
LEMMA CleanupInv == ASSUME Inv, NEW p \in Procs, Cleanup(p) PROVE Inv'
<1> USE DEF Inv, Cleanup, Goto
<1>0. temps[p] \in Seq({"partial", "full"})
  BY DEF CreateTypeOK
<1>a. temps[p] # <<>> => Tail(temps[p]) \in Seq({"partial", "full"})
  BY <1>0, HeadTailProperties
<1>1. CreateTypeOK'
  <2>1. temps' \in [Procs -> Seq({"partial", "full"})]
    BY <1>a DEF CreateTypeOK
  <2>2. createPc' \in [Procs -> {"idle"} \cup Running \cup Ended]
    BY DEF CreateTypeOK, Ended
  <2> QED BY <2>1, <2>2 DEF CreateTypeOK
<1>2. Locals(p)'
  BY DEF Locals, CreateTypeOK
<1>3. ASSUME NEW q \in Procs, q # p PROVE Locals(q)'
  BY <1>3, LocalsFrame DEF LocalVars, CreateTypeOK
<1>4. ASSUME NEW q \in Procs PROVE Owned(q)'
  BY OwnedFrame
<1>5. CompleteOutputs'
  BY DEF CompleteOutputs
<1> QED BY <1>1, <1>2, <1>3, <1>4, <1>5

\* The faults of one process: an I/O error, a failed unlink, an interrupt, a kill.
Fault(p) == IOError(p) \/ UnlinkError(p) \/ Interrupt(p) \/ Crash(p)

\* A failing system call, an interrupt or a kill.
LEMMA FaultInv == ASSUME Inv, NEW p \in Procs, Fault(p) PROVE Inv'
<1> USE DEF Inv, Fault, IOError, UnlinkError, Interrupt, Crash, Fail, Goto
<1>1. CreateTypeOK'
  <2>1. CASE IOError(p)
    BY <2>1 DEF CreateTypeOK, Running, InTry
  <2>2. CASE UnlinkError(p)
    BY <2>2 DEF CreateTypeOK, Running, Ended
  <2>3. CASE Interrupt(p)
    BY <2>3 DEF CreateTypeOK, Running, Ended
  <2>4. CASE Crash(p)
    BY <2>4 DEF CreateTypeOK, Ended
  <2> QED BY <2>1, <2>2, <2>3, <2>4
<1>2. Locals(p)'
  <2>1. CASE IOError(p)
    BY <2>1 DEF Locals, CreateTypeOK, Distinct
  <2>2. CASE UnlinkError(p)
    BY <2>2 DEF Locals, CreateTypeOK
  <2>3. CASE Interrupt(p)
    BY <2>3 DEF Locals, CreateTypeOK
  <2>4. CASE Crash(p)
    BY <2>4 DEF Locals, CreateTypeOK
  <2> QED BY <2>1, <2>2, <2>3, <2>4
<1>3. ASSUME NEW q \in Procs, q # p PROVE Locals(q)'
  BY <1>3, LocalsFrame DEF LocalVars, CreateTypeOK
<1>4. ASSUME NEW q \in Procs PROVE Owned(q)'
  BY OwnedFrame
<1>5. CompleteOutputs'
  BY DEF CompleteOutputs
<1> QED BY <1>1, <1>2, <1>3, <1>4, <1>5

\* A file an outsider creates belongs to no invocation.
LEMMA OutsideCreateInv == ASSUME Inv, NEW f \in Outputs, OutsideCreate(f) PROVE Inv'
<1> DEFINE new == [by |-> Outsider, data |-> "full"]
<1> USE DEF Inv, OutsideCreate
<1>a. new \in Files /\ new # NoFile
  BY PartiesAssumption DEF Files
<1>1. CreateTypeOK'
  BY <1>a DEF CreateTypeOK
<1>2. ASSUME NEW q \in Procs PROVE Locals(q)'
  BY LocalsFrame DEF LocalVars
<1>3. \A g \in Outputs : Owner(g)' = IF g = f THEN Outsider ELSE Owner(g)
  BY <1>a DEF Owner, CreateTypeOK
<1>4. ASSUME NEW q \in Procs PROVE Owned(q)'
  <2>1. Owner(f) = NoFile
    BY DEF Owner
  <2>2. ASSUME NEW g \in Outputs, Owner(g)' = q PROVE \E i \in 1..published[q] : request[q][i] = g
    BY <1>3, <2>2, PartiesAssumption DEF Owned
  <2>3. ASSUME OwnRemovalsOnly, NEW i \in 1..published[q] PROVE Owner(request[q][i])' = q
    <3>1. /\ request[q] \in [1..Len(request[q]) -> Outputs] /\ Len(request[q]) \in Nat
          /\ published[q] \in 0..Len(request[q])
      BY LenProperties DEF CreateTypeOK, Locals
    <3>2. request[q][i] \in Outputs
      BY <3>1
    <3>3. Owner(request[q][i]) = q
      BY <2>3 DEF Owned
    <3>4. request[q][i] # f
      BY <2>1, <3>3, PartiesAssumption
    <3> QED BY <1>3, <3>2, <3>3, <3>4 DEF Owner
  <2> QED BY <2>2, <2>3 DEF Owned, Owner
<1>5. CompleteOutputs'
  BY DEF CompleteOutputs, CreateTypeOK
<1> QED BY <1>1, <1>2, <1>4, <1>5

\* Another program removes a file.
LEMMA OutsideRemoveInv == ASSUME Inv, NEW f \in Outputs, OutsideRemove(f) PROVE Inv'
<1> USE DEF Inv, OutsideRemove
<1>1. CreateTypeOK'
  BY DEF CreateTypeOK
<1>2. ASSUME NEW q \in Procs PROVE Locals(q)'
  BY LocalsFrame DEF LocalVars
<1>3. ASSUME NEW q \in Procs PROVE Owned(q)'
  <2>1. \A g \in Outputs : Owner(g)' = IF g = f THEN NoFile ELSE Owner(g)
    BY DEF Owner, CreateTypeOK
  <2>2. ASSUME NEW g \in Outputs, Owner(g)' = q PROVE \E i \in 1..published[q] : request[q][i] = g
    BY <2>1, <2>2, PartiesAssumption DEF Owned
  <2>3. ASSUME OwnRemovalsOnly, NEW i \in 1..published[q] PROVE Owner(request[q][i])' = q
    <3>1. Owner(request[q][i]) = q /\ Owner(f) = Outsider
      BY <2>3, PartiesAssumption DEF Owned, Owner, OwnRemovalsOnly
    <3>2. request[q][i] \in Outputs
      BY <2>3, LenProperties DEF CreateTypeOK, Locals
    <3> QED BY <2>1, <3>1, <3>2, PartiesAssumption
  <2> QED BY <2>2, <2>3 DEF Owned, Owner
<1>4. CompleteOutputs'
  BY DEF CompleteOutputs, CreateTypeOK
<1> QED BY <1>1, <1>2, <1>3, <1>4

\* Every step keeps the invariant.
LEMMA NextInv == Inv /\ [CreateNext]_createVars => Inv'
<1> SUFFICES ASSUME Inv, [CreateNext]_createVars PROVE Inv'
  OBVIOUS
<1>1. ASSUME NEW p \in Procs, CallCreate(p) \/ CreateStep(p) PROVE Inv'
  BY <1>1, CallInv, ResolveInv, CheckInv, MakeTempInv, WriteTempInv, LinkInv, RollbackInv, CleanupInv
     DEF CreateStep
<1>2. ASSUME NEW p \in Procs, Fault(p) PROVE Inv'
  BY <1>2, FaultInv
<1>3. ASSUME NEW f \in Outputs, OutsideCreate(f) \/ OutsideRemove(f) PROVE Inv'
  BY <1>3, OutsideCreateInv, OutsideRemoveInv
<1>4. CASE UNCHANGED createVars
  <2>1. ASSUME NEW q \in Procs PROVE Locals(q)' /\ Owned(q)'
    BY <1>4, LocalsFrame, OwnedFrame DEF Inv, createVars, LocalVars
  <2>2. CreateTypeOK' /\ CompleteOutputs'
    BY <1>4 DEF Inv, createVars, CreateTypeOK, CompleteOutputs
  <2> QED BY <2>1, <2>2 DEF Inv
<1> QED BY <1>1, <1>2, <1>3, <1>4 DEF CreateNext, Fault

-----------------------------------------------------------------------------
(* The theorems.                                                           *)

\* The inductive invariant holds in every reachable state, whoever's files
\* outsiders remove.
THEOREM Invariant == CreateSpec => []Inv
<1> QED BY InitInv, NextInv, PTL DEF CreateSpec

\* The locals of every invocation and the files keep their types
\* (the variables of atomic_create_many).
THEOREM TypeCorrect == CreateSpec => []CreateTypeOK
<1>1. Inv => CreateTypeOK
  BY DEF Inv
<1> QED BY <1>1, Invariant, PTL

\* No torn output is ever visible, after any crash, interrupt or I/O error,
\* for any number of invocations: os.link publishes only synced temporaries.
THEOREM NeverTorn == CreateSpec => []CompleteOutputs
<1>1. Inv => CompleteOutputs
  BY DEF Inv
<1> QED BY <1>1, Invariant, PTL

\* AtomicCreateError means that no output and no temporary of the call is left
\* (the handlers' rollback loops and the finally clause).
THEOREM RefusalIsClean == CreateSpec => []RefusalLeavesNothing
<1>1. Inv => RefusalLeavesNothing
  <2> SUFFICES ASSUME Inv, NEW p \in Procs, createPc[p] = "done", returned[p] \in {"exists", "failed"}
               PROVE  temps[p] = <<>> /\ \A f \in Outputs : Owner(f) # p
    BY DEF RefusalLeavesNothing
  <2>1. temps[p] = <<>> /\ published[p] = 0
    BY DEF Inv, Locals
  <2>2. \A f \in Outputs : Owner(f) # p
    BY <2>1 DEF Inv, Owned
  <2> QED BY <2>1, <2>2
<1> QED BY <1>1, Invariant, PTL

\* The rollback removes only this call's own files, provided outsiders remove
\* only theirs: the promise of section 12 of the quality-gate profile, with the
\* environment assumption it needs (`output.unlink` goes by path).
THEOREM RollbackIsOwn == OwnRemovalsOnly /\ CreateSpec => RollbackOnlyOwn
<1>1. ASSUME Inv, Inv', OwnRemovalsOnly, [CreateNext]_createVars
      PROVE  [\A p \in Procs : published'[p] < published[p] =>
                \A f \in Outputs : fs'[f] # fs[f] => fs[f].by = p]_createVars
  <2> SUFFICES ASSUME CreateNext, NEW p \in Procs, published'[p] < published[p],
                      NEW f \in Outputs, fs'[f] # fs[f]
               PROVE  fs[f].by = p
    BY <1>1
  <2>0. CreateTypeOK /\ Locals(p) /\ Owned(p)
    BY <1>1 DEF Inv
  <2>1. PICK q \in Procs : Link(q) \/ Rollback(q)
    <3>1. published' # published
      BY <2>0 DEF CreateTypeOK
    <3> QED BY <3>1 DEF CreateNext, CreateStep, CallCreate, Resolve, CheckOutputs, MakeTemp, WriteTemp, Cleanup, IOError,
                        UnlinkError, Interrupt, Crash, OutsideCreate, OutsideRemove
  <2>2. ~Link(q)
    <3> SUFFICES ASSUME Link(q) PROVE FALSE
      OBVIOUS
    <3>1. published[q] = item[q] - 1 /\ item[q] \in Nat /\ published[p] \in Nat
      BY <1>1 DEF Inv, Locals, Link, CreateTypeOK
    <3>2. published' = published \/ published' = [published EXCEPT ![q] = item[q]]
      BY DEF Link
    <3>3. CASE published' = published
      BY <3>1, <3>3
    <3>4. CASE published' = [published EXCEPT ![q] = item[q]]
      <4>1. published'[p] = IF p = q THEN item[q] ELSE published[p]
        BY <2>0, <3>4 DEF CreateTypeOK
      <4> QED BY <3>1, <4>1
    <3> QED BY <3>2, <3>3, <3>4
  <2>3. Rollback(q)
    BY <2>1, <2>2
  <2>4. q = p /\ published[p] # 0 /\ fs' = [fs EXCEPT ![request[p][published[p]]] = NoFile]
    BY <2>0, <2>3 DEF Rollback, CreateTypeOK
  <2>5. f = request[p][published[p]]
    BY <2>0, <2>4 DEF CreateTypeOK
  <2>6. Owner(f) = p
    BY <1>1, <2>0, <2>4, <2>5 DEF Owned, Locals
  <2> QED BY <2>6, PartiesAssumption DEF Owner
<1>2. ASSUME OwnRemovalsOnly PROVE CreateSpec => RollbackOnlyOwn
  BY <1>1, <1>2, Invariant, PTL DEF CreateSpec, RollbackOnlyOwn
<1> QED BY <1>2

-----------------------------------------------------------------------------
(* The refinement: every step maps to a step of CreateOnly or a stutter.   *)

\* The store's view depends on the file system only.
LEMMA StoreFrame == fs' = fs => StoreView' = StoreView
BY DEF StoreView, Owner

\* The wishes depend on the requests only.
LEMMA WantFrame == request' = request => WantView' = WantView
BY DEF WantView

\* A step of p changes at most the verdict of p.
LEMMA VerdictStep ==
  ASSUME NEW p \in Procs,
         \A q \in Procs \ {p} : createPc'[q] = createPc[q] /\ returned'[q] = returned[q]
  PROVE  VerdictView' = [VerdictView EXCEPT ![p] = Verdict(p)']
BY DEF VerdictView, Verdict

\* A step of p within the call is invisible unless it touches the store.
LEMMA Invisible ==
  ASSUME NEW p \in Procs, createPc[p] \in Running, createPc'[p] \in Running,
         \A q \in Procs \ {p} : createPc'[q] = createPc[q] /\ returned'[q] = returned[q]
  PROVE  VerdictView' = VerdictView /\ VerdictView[p] = "open"
BY VerdictStep DEF VerdictView, Verdict, Running, InTry

\* Initial states map to initial states.
LEMMA RefinesInit == CreateInit => Promise!Init
<1> SUFFICES ASSUME CreateInit PROVE Promise!Init
  OBVIOUS
<1>1. StoreView \in [Outputs -> {NoFile, Outsider}]
  BY DEF CreateInit, StoreView, Owner
<1>2. WantView = [p \in Procs |-> {}]
  <2>1. DOMAIN <<>> = {}
    OBVIOUS
  <2> QED BY <2>1 DEF CreateInit, WantView
<1>3. VerdictView = [p \in Procs |-> "none"]
  BY DEF CreateInit, VerdictView, Verdict
<1> QED BY <1>1, <1>2, <1>3 DEF Promise!Init

\* The end of a call: the verdict becomes the one its outcome stands for.
LEMMA RefinesEnd ==
  ASSUME OwnRemovalsOnly, Inv, NEW p \in Procs, createPc[p] \in Running, fs' = fs, request' = request,
         createPc'[p] \in Ended,
         \A q \in Procs \ {p} : createPc'[q] = createPc[q] /\ returned'[q] = returned[q],
         Verdict(p)' = "refused" => published[p] = 0,
         Verdict(p)' = "ok" => published[p] = Len(request[p])
  PROVE  Promise!Next
<1>1. StoreView' = StoreView /\ WantView' = WantView
  BY StoreFrame, WantFrame
<1>2. VerdictView' = [VerdictView EXCEPT ![p] = Verdict(p)']
  BY VerdictStep
<1>3. VerdictView[p] = "open"
  BY DEF VerdictView, Verdict, Running, InTry
<1>4. Verdict(p)' \in {"ok", "refused", "lost"}
  BY DEF Verdict, Reported, Ended
<1>5. CASE Verdict(p)' = "ok"
  <2>1. ASSUME NEW f \in WantView[p] PROVE StoreView[f] = p
    <3>0. /\ request[p] \in [1..Len(request[p]) -> Outputs]
          /\ Len(request[p]) \in Nat
          /\ DOMAIN request[p] = 1..Len(request[p])
      BY LenProperties DEF Inv, CreateTypeOK
    <3>1. PICK i \in 1..Len(request[p]) : f = request[p][i]
      BY <2>1, <3>0 DEF WantView
    <3>2. Owner(f) = p
      BY <1>5, <3>1 DEF Inv, Owned
    <3> QED BY <3>0, <3>1, <3>2 DEF StoreView
  <2>2. Promise!Succeed(p)
    BY <1>1, <1>2, <1>3, <1>5, <2>1 DEF Promise!Succeed, Promise!Report
  <2> QED BY <2>2 DEF Promise!Next
<1>6. CASE Verdict(p)' = "refused"
  <2>1. \A f \in Outputs : StoreView[f] # p
    BY <1>6 DEF Inv, Owned, StoreView
  <2>2. Promise!Refuse(p)
    BY <1>1, <1>2, <1>3, <1>6, <2>1 DEF Promise!Refuse, Promise!Report
  <2> QED BY <2>2 DEF Promise!Next
<1>7. CASE Verdict(p)' = "lost"
  <2>1. Promise!Lose(p)
    BY <1>1, <1>2, <1>3, <1>7 DEF Promise!Lose, Promise!Report
  <2> QED BY <2>1 DEF Promise!Next
<1> QED BY <1>4, <1>5, <1>6, <1>7

\* Every step maps to a step or a stutter.
LEMMA RefinesNext == OwnRemovalsOnly /\ Inv /\ [CreateNext]_createVars => [Promise!Next]_(Promise!absVars)
<1> SUFFICES ASSUME OwnRemovalsOnly, Inv, [CreateNext]_createVars PROVE Promise!Next \/ UNCHANGED Promise!absVars
  OBVIOUS
<1> USE DEF Running, InTry
<1>a. ASSUME StoreView' = StoreView, WantView' = WantView, VerdictView' = VerdictView
      PROVE  UNCHANGED Promise!absVars
  BY <1>a DEF Promise!absVars
<1>b. ASSUME NEW p \in Procs PROVE CreateTypeOK /\ Locals(p) /\ Owned(p)
  BY DEF Inv
<1>1. ASSUME NEW p \in Procs, CallCreate(p) PROVE Promise!Next
  <2>1. StoreView' = StoreView
    BY <1>1, StoreFrame DEF CallCreate
  <2>2. VerdictView[p] = "none" /\ VerdictView' = [VerdictView EXCEPT ![p] = "open"]
    <3>1. Verdict(p) = "none" /\ Verdict(p)' = "open"
      BY <1>1, <1>b DEF CallCreate, Goto, CreateTypeOK, Verdict
    <3> QED BY <1>1, <1>b, <3>1, VerdictStep DEF CallCreate, Goto, CreateTypeOK, VerdictView
  <2>3. PICK r \in Requests : request' = [request EXCEPT ![p] = r]
    BY <1>1 DEF CallCreate
  <2> DEFINE W == {r[i] : i \in DOMAIN r}
  <2>4. WantView' = [WantView EXCEPT ![p] = W]
    BY <1>1, <1>b, <2>3 DEF WantView, CreateTypeOK
  <2>5. W \in SUBSET Outputs
    BY <2>3, PartiesAssumption DEF Requests
  <2>6. Promise!Call(p)
    BY <2>1, <2>2, <2>4, <2>5 DEF Promise!Call
  <2> QED BY <2>6 DEF Promise!Next
<1>2. ASSUME NEW p \in Procs, Resolve(p) PROVE Promise!Next \/ UNCHANGED Promise!absVars
  <2>1. fs' = fs /\ request' = request
        /\ \A q \in Procs \ {p} : createPc'[q] = createPc[q] /\ returned'[q] = returned[q]
    BY <1>2, <1>b DEF Resolve, Exit, Goto, CreateTypeOK
  <2>2. published[p] = 0 /\ (request[p] = <<>> => Len(request[p]) = 0)
    BY <1>2, <1>b, EmptySeq DEF Resolve, Locals
  <2>3. CASE createPc'[p] = "done"
    <3>1. Verdict(p)' = "ok" => request[p] = <<>>
      BY <1>2, <1>b, <2>3 DEF Resolve, Exit, Goto, Verdict, Reported, CreateTypeOK
    <3> QED BY <1>2, <2>1, <2>2, <2>3, <3>1, RefinesEnd DEF Resolve, Ended
  <2>4. CASE createPc'[p] = "checking"
    BY <1>2, <1>a, <2>1, <2>4, Invisible, StoreFrame, WantFrame DEF Resolve
  <2> QED BY <1>2, <1>b, <2>3, <2>4 DEF Resolve, Exit, Goto, CreateTypeOK
<1>3. ASSUME NEW p \in Procs, CheckOutputs(p) PROVE Promise!Next \/ UNCHANGED Promise!absVars
  <2>1. fs' = fs /\ request' = request
        /\ \A q \in Procs \ {p} : createPc'[q] = createPc[q] /\ returned'[q] = returned[q]
    BY <1>3, <1>b DEF CheckOutputs, Exit, Goto, Advance, CreateTypeOK
  <2>2. createPc[p] = "checking" /\ published[p] = 0
    BY <1>3, <1>b DEF CheckOutputs, Locals
  <2>3. CASE Exit(p, "exists")
    <3>1. Verdict(p)' = "refused" /\ createPc'[p] = "done"
      BY <1>b, <2>3 DEF Exit, Goto, Verdict, Reported, CreateTypeOK
    <3> QED BY <2>1, <2>2, <3>1, RefinesEnd DEF Ended
  <2>4. CASE Advance(p, "checking", "staging")
    <3>1. createPc'[p] \in {"checking", "staging"}
      BY <1>b, <2>4 DEF Advance, Goto, CreateTypeOK
    <3> QED BY <1>a, <2>1, <2>2, <3>1, Invisible, StoreFrame, WantFrame
  <2> QED BY <1>3, <2>3, <2>4 DEF CheckOutputs
<1>4. ASSUME NEW p \in Procs, MakeTemp(p) \/ WriteTemp(p) \/ IOError(p) PROVE UNCHANGED Promise!absVars
  <2>1. fs' = fs /\ request' = request
        /\ \A q \in Procs \ {p} : createPc'[q] = createPc[q] /\ returned'[q] = returned[q]
    BY <1>4, <1>b DEF MakeTemp, WriteTemp, IOError, Fail, Goto, Advance, CreateTypeOK
  <2>2. createPc[p] \in {"staging", "writing", "linking"} /\ createPc'[p] \in {"writing", "staging", "linking", "rollback"}
    BY <1>4, <1>b DEF MakeTemp, WriteTemp, IOError, Fail, Goto, Advance, CreateTypeOK
  <2> QED BY <1>a, <2>1, <2>2, Invisible, StoreFrame, WantFrame
<1>5. ASSUME NEW p \in Procs, Link(p) PROVE Promise!Next \/ UNCHANGED Promise!absVars
  <2> DEFINE f == request[p][item[p]]
  <2>1. request' = request
        /\ \A q \in Procs \ {p} : createPc'[q] = createPc[q] /\ returned'[q] = returned[q]
    BY <1>5, <1>b DEF Link, Fail, Goto, CreateTypeOK
  <2>2. createPc[p] = "linking" /\ createPc'[p] \in {"linking", "cleanup", "rollback"}
    BY <1>5, <1>b DEF Link, Fail, Goto, CreateTypeOK
  <2>3. VerdictView' = VerdictView /\ VerdictView[p] = "open" /\ WantView' = WantView
    BY <2>1, <2>2, Invisible, WantFrame
  <2>4. CASE fs[f] # NoFile
    BY <1>5, <1>a, <2>3, <2>4, StoreFrame DEF Link
  <2>5. CASE fs[f] = NoFile
    <3>0. /\ request[p] \in [1..Len(request[p]) -> Outputs]
          /\ DOMAIN request[p] = 1..Len(request[p])
          /\ item[p] \in 1..Len(request[p])
      BY <1>b, <2>2, LenProperties DEF CreateTypeOK, Locals
    <3>1. f \in Outputs /\ f \in WantView[p]
      BY <3>0 DEF WantView
    <3>2. fs' = [fs EXCEPT ![f] = [by |-> p, data |-> temps[p][item[p]]]]
      BY <1>5, <2>5 DEF Link
    <3>3. temps[p][item[p]] = "full"
      BY <1>b, <2>2, <3>0 DEF Locals
    <3>4. [by |-> p, data |-> "full"] # NoFile
      BY PartiesAssumption
    <3>5. StoreView' = [StoreView EXCEPT ![f] = p]
      BY <1>b, <3>1, <3>2, <3>3, <3>4 DEF StoreView, Owner, CreateTypeOK
    <3>6. StoreView[f] = NoFile
      BY <2>5, <3>1 DEF StoreView, Owner
    <3>7. Promise!Create(p, f)
      BY <2>3, <3>1, <3>5, <3>6 DEF Promise!Create
    <3> QED BY <3>1, <3>7 DEF Promise!Next
  <2> QED BY <2>4, <2>5
<1>6. ASSUME NEW p \in Procs, Rollback(p) PROVE Promise!Next \/ UNCHANGED Promise!absVars
  <2> DEFINE f == request[p][published[p]]
  <2>1. request' = request
        /\ \A q \in Procs \ {p} : createPc'[q] = createPc[q] /\ returned'[q] = returned[q]
    BY <1>6, <1>b DEF Rollback, Goto, CreateTypeOK
  <2>2. createPc[p] = "rollback" /\ createPc'[p] \in {"rollback", "cleanup"}
    BY <1>6, <1>b DEF Rollback, Goto, CreateTypeOK
  <2>3. VerdictView' = VerdictView /\ VerdictView[p] = "open" /\ WantView' = WantView
    BY <2>1, <2>2, Invisible, WantFrame
  <2>4. CASE published[p] = 0
    BY <1>6, <1>a, <2>3, <2>4, StoreFrame DEF Rollback
  <2>5. CASE published[p] # 0
    <3>0. /\ request[p] \in [1..Len(request[p]) -> Outputs] /\ Len(request[p]) \in Nat
          /\ published[p] \in 0..Len(request[p])
      BY <1>b, LenProperties DEF CreateTypeOK, Locals
    <3>1. f \in Outputs
      BY <2>5, <3>0
    <3>2. fs' = [fs EXCEPT ![f] = NoFile]
      BY <1>6, <2>5 DEF Rollback
    <3>3. StoreView' = [StoreView EXCEPT ![f] = NoFile]
      BY <1>b, <3>1, <3>2 DEF StoreView, Owner, CreateTypeOK
    <3>4. StoreView[f] = p
      BY <1>b, <2>5, <3>0, <3>1 DEF Owned, StoreView
    <3>5. Promise!Withdraw(p, f)
      BY <2>3, <3>3, <3>4 DEF Promise!Withdraw
    <3> QED BY <3>1, <3>5 DEF Promise!Next
  <2> QED BY <2>4, <2>5
<1>7. ASSUME NEW p \in Procs, Cleanup(p) PROVE Promise!Next \/ UNCHANGED Promise!absVars
  <2>1. fs' = fs /\ request' = request
        /\ \A q \in Procs \ {p} : createPc'[q] = createPc[q] /\ returned'[q] = returned[q]
    BY <1>7, <1>b DEF Cleanup, Goto, CreateTypeOK
  <2>2. createPc[p] = "cleanup" /\ returned'[p] = returned[p] /\ createPc'[p] \in {"cleanup", "done"}
    BY <1>7, <1>b DEF Cleanup, Goto, CreateTypeOK
  <2>3. CASE createPc'[p] = "cleanup"
    BY <1>a, <2>1, <2>2, <2>3, Invisible, StoreFrame, WantFrame
  <2>4. CASE createPc'[p] = "done"
    <3>1. (Verdict(p)' = "ok" => returned[p] = "ok")
          /\ (Verdict(p)' = "refused" => returned[p] \in {"exists", "failed"})
      BY <2>2, <2>4 DEF Verdict, Reported
    <3> QED BY <1>b, <2>1, <2>2, <2>4, <3>1, RefinesEnd DEF Locals, Ended
  <2> QED BY <2>2, <2>3, <2>4
<1>8. ASSUME NEW p \in Procs, UnlinkError(p) \/ Interrupt(p) \/ Crash(p)
      PROVE  Promise!Next \/ UNCHANGED Promise!absVars
  <2>1. fs' = fs /\ request' = request
        /\ \A q \in Procs \ {p} : createPc'[q] = createPc[q] /\ returned'[q] = returned[q]
    BY <1>8, <1>b DEF UnlinkError, Interrupt, Crash, Goto, CreateTypeOK
  <2>2. createPc[p] \in Running /\ createPc'[p] \in {"cleanup", "done", "crashed"}
    BY <1>8, <1>b DEF UnlinkError, Interrupt, Crash, Goto, CreateTypeOK
  <2>3. CASE createPc'[p] = "cleanup"
    BY <1>a, <2>1, <2>2, <2>3, Invisible, StoreFrame, WantFrame
  <2>4. CASE createPc'[p] # "cleanup"
    <3>1. createPc'[p] = "done" => returned'[p] \in {"oserror", "interrupted"}
      BY <1>8, <1>b DEF UnlinkError, Interrupt, Crash, Goto, CreateTypeOK
    <3>2. Verdict(p)' = "lost"
      BY <2>2, <2>4, <3>1 DEF Verdict, Reported
    <3> QED BY <2>1, <2>2, <2>4, <3>2, RefinesEnd DEF Ended
  <2> QED BY <2>3, <2>4
<1>9. ASSUME NEW f \in Outputs, OutsideCreate(f) PROVE Promise!Next
  <2>1. StoreView' = [StoreView EXCEPT ![f] = Outsider] /\ StoreView[f] = NoFile
    <3>1. [by |-> Outsider, data |-> "full"] # NoFile
      BY PartiesAssumption
    <3>2. fs \in [Outputs -> Files \cup {NoFile}]
      BY DEF Inv, CreateTypeOK
    <3> QED BY <1>9, <3>1, <3>2 DEF OutsideCreate, StoreView, Owner
  <2>2. WantView' = WantView /\ VerdictView' = VerdictView
    BY <1>9 DEF OutsideCreate, WantView, VerdictView, Verdict
  <2>3. Promise!OutsideCreate(f)
    BY <2>1, <2>2 DEF Promise!OutsideCreate
  <2> QED BY <2>3 DEF Promise!Next
<1>10. ASSUME NEW f \in Outputs, OutsideRemove(f) PROVE Promise!Next
  <2>1. StoreView' = [StoreView EXCEPT ![f] = NoFile] /\ StoreView[f] = Outsider
    BY <1>10 DEF OutsideRemove, StoreView, Owner, OwnRemovalsOnly, Inv, CreateTypeOK
  <2>2. WantView' = WantView /\ VerdictView' = VerdictView
    BY <1>10 DEF OutsideRemove, WantView, VerdictView, Verdict
  <2>3. Promise!OutsideRemove(f)
    BY <2>1, <2>2 DEF Promise!OutsideRemove
  <2> QED BY <2>3 DEF Promise!Next
<1>11. CASE UNCHANGED createVars
  BY <1>11, <1>a DEF createVars, StoreView, Owner, WantView, VerdictView, Verdict
<1> QED BY <1>1, <1>2, <1>3, <1>4, <1>5, <1>6, <1>7, <1>8, <1>9, <1>10, <1>11 DEF CreateNext, CreateStep

\* atomic_create_many implements the create-only store when outsiders remove
\* only their own files: no replacement, no removal of another's file, success only with
\* every output in place and refusal only with none.
THEOREM Implements == OwnRemovalsOnly /\ CreateSpec => ImplementsCreateOnly
<1>1. ASSUME OwnRemovalsOnly PROVE Inv /\ [CreateNext]_createVars => [Promise!Next]_(Promise!absVars)
  BY <1>1, RefinesNext
<1>2. ASSUME OwnRemovalsOnly PROVE CreateSpec => ImplementsCreateOnly
  BY <1>1, <1>2, RefinesInit, Invariant, PTL DEF CreateSpec, ImplementsCreateOnly, Promise!Spec
<1> QED BY <1>2
=============================================================================
