-------------------------- MODULE GateWaiversProofs --------------------------
(***************************************************************************)
(* Proofs about GateWaivers for every policy, every set of findings and    *)
(* waiver arrays of every length.  The inductive invariant says, of the    *)
(* waivers before index i, that they are well formed (first loop) and      *)
(* that updates and floors are exactly what they call for (second loop),   *)
(* and of each check, that it is untouched or has its reference result     *)
(* (third loop).                                                           *)
(***************************************************************************)
EXTENDS GateWaivers, SequenceTheorems, TLAPS

\* The first n waivers have passed _validate_waiver_control.
WellFormed(n) ==
  \A j \in 1..n :
    /\ Check(waivers[j]) \in evaluated
    /\ ~BadInterval(waivers[j])
    /\ \A k \in 1..n : j # k => waivers[j].id # waivers[k].id /\ waivers[j].target # waivers[k].target

\* None of the first n waivers is active on a finding that cannot be waived.
Waivable(n) ==
  \A j \in 1..n : Active(waivers[j]) =>
    original[Check(waivers[j])][Fingerprint(waivers[j])] \notin {"waived", "error"}

\* One of the first n waivers is active on finding f of check c.
ActiveAmong(n, c, f) == \E j \in 1..n : waivers[j].target = <<c, f>> /\ Active(waivers[j])

\* What the first n waivers call for.
Turned(c, n) ==
  {f \in Fingerprints : original[c][f] \in {"fail", "requires_review"} /\ ActiveAmong(n, c, f)}

Stale(n) ==
  {c \in Declared : \E f \in Fingerprints : original[c][f] = "none" /\ ActiveAmong(n, c, f)}

Untouched(c) == final[c] = [status |-> StatusOf(original[c]), findings |-> original[c]]
Rebuilt(c) == final[c] = [status |-> ReferenceCheckStatus(c), findings |-> ReferenceFindings(c)]

Accumulated ==
  /\ \A c \in Declared : updates[c] = Turned(c, i - 1)
  /\ floors = Stale(i - 1)

Inv ==
  /\ WaiverTypeOK
  /\ i \in 1..(Len(waivers) + 1)
  /\ waiverPc = "control" => WellFormed(i - 1) /\ floors = {} /\ \A c \in Declared : updates[c] = {}
  /\ waiverPc \in {"classify", "rebuild", "done"} =>
       WellFormed(Len(waivers)) /\ Waivable(i - 1) /\ Accumulated
  /\ waiverPc \in {"control", "classify"} => unbuilt = evaluated
  /\ waiverPc \in {"rebuild", "done"} => i = Len(waivers) + 1
  /\ \A c \in evaluated : IF c \in unbuilt THEN Untouched(c) ELSE Rebuilt(c)
  /\ waiverPc = "done" => unbuilt = {}
  /\ waiverPc = "raised" => Malformed \/ Unwaivable

-----------------------------------------------------------------------------
(* The status lattice.                                                     *)

\* The rank of each status.
LEMMA PriorityValues ==
  /\ Priority["pass"] = 0 /\ Priority["waived"] = 1 /\ Priority["requires_review"] = 2
  /\ Priority["fail"] = 3 /\ Priority["error"] = 4
BY DEF Priority, Statuses

\* A non-empty set of statuses has a member ranked as high as any.
LEMMA HighestIs ==
  ASSUME NEW S \in SUBSET Statuses, S # {}, NEW d
  PROVE  /\ Highest(S, d) \in S
         /\ \A t \in S : Priority[t] <= Priority[Highest(S, d)]
<1>1. \E s \in S : \A t \in S : Priority[t] <= Priority[s]
  <2>1. CASE "error" \in S
    BY <2>1, PriorityValues DEF Statuses
  <2>2. CASE "error" \notin S /\ "fail" \in S
    BY <2>2, PriorityValues DEF Statuses
  <2>3. CASE {"error", "fail"} \cap S = {} /\ "requires_review" \in S
    BY <2>3, PriorityValues DEF Statuses
  <2>4. CASE {"error", "fail", "requires_review"} \cap S = {} /\ "waived" \in S
    BY <2>4, PriorityValues DEF Statuses
  <2>5. CASE S = {"pass"}
    BY <2>5, PriorityValues
  <2> QED BY <2>1, <2>2, <2>3, <2>4, <2>5 DEF Statuses
<1> QED BY <1>1 DEF Highest

\* No two statuses have the same rank.
LEMMA PriorityInjective ==
  ASSUME NEW s \in Statuses, NEW t \in Statuses, Priority[s] <= Priority[t], Priority[t] <= Priority[s]
  PROVE  s = t
BY PriorityValues DEF Statuses

\* The highest status of a set is the one ranked as high as any.
LEMMA HighestUnique ==
  ASSUME NEW S \in SUBSET Statuses, NEW d, NEW s \in S, \A t \in S : Priority[t] <= Priority[s]
  PROVE  Highest(S, d) = s
<1>1. Highest(S, d) \in S /\ Priority[s] <= Priority[Highest(S, d)] /\ Priority[Highest(S, d)] <= Priority[s]
  BY HighestIs
<1>2. s \in Statuses /\ Highest(S, d) \in Statuses
  BY <1>1
<1> QED BY <1>1, <1>2, PriorityInjective

\* The highest of a highest and of more is the highest of all.
LEMMA HighestNested ==
  ASSUME NEW D \in SUBSET Statuses, D # {}, NEW F \in SUBSET Statuses
  PROVE  Highest({Highest(D, "pass")} \cup F, "pass") = Highest(D \cup F, "pass")
<1> DEFINE h == Highest(D, "pass")
           top == Highest(D \cup F, "pass")
<1>1. h \in D /\ \A t \in D : Priority[t] <= Priority[h]
  BY HighestIs
<1>2. top \in D \cup F /\ \A t \in D \cup F : Priority[t] <= Priority[top]
  BY HighestIs
<1> HIDE DEF h, top
<1>3. CASE top \in F
  BY <1>1, <1>2, <1>3, HighestUnique DEF h, top
<1>4. CASE top \in D
  <2>1. h = top
    BY <1>1, <1>2, <1>4, PriorityInjective
  <2> QED BY <1>1, <1>2, <2>1, HighestUnique DEF h, top
<1> QED BY <1>2, <1>3, <1>4 DEF h, top

-----------------------------------------------------------------------------
(* What the reference says, in terms of the accumulators.                  *)

\* A target is the pair of its check and its fingerprint.
LEMMA TargetPair == ASSUME NEW w \in Waivers
                    PROVE  w.target = <<Check(w), Fingerprint(w)>> /\ Fingerprint(w) \in Fingerprints
BY WaiverAssumption DEF Waivers, Check, Fingerprint

\* Dispositions of findings are statuses.
LEMMA FindingStatuses ==
  ASSUME NEW d \in [Fingerprints -> Dispositions]
  PROVE  {d[f] : f \in FindingsOf(d)} \in SUBSET (Statuses \ {"pass"})
BY DEF FindingsOf, Dispositions, Statuses

\* The status of a check is a status.
LEMMA StatusType ==
  ASSUME NEW d \in [Fingerprints -> Dispositions]
  PROVE  StatusOf(d) \in Statuses
<1> DEFINE D == {d[f] : f \in FindingsOf(d)}
<1>1. D \in SUBSET Statuses
  BY FindingStatuses
<1> HIDE DEF D
<1>2. CASE D = {}
  BY <1>2 DEF StatusOf, Highest, Statuses, D
<1>3. CASE D # {}
  BY <1>1, <1>3, HighestIs DEF StatusOf, D
<1> QED BY <1>2, <1>3

\* Once every waiver is classified, the accumulators hold what the set of the
\* waivers calls for.
LEMMA ActiveIsAccumulated ==
  ASSUME WaiverTypeOK, NEW c \in Declared, NEW f \in Fingerprints
  PROVE  ActiveOn(c, f) <=> ActiveAmong(Len(waivers), c, f)
<1>1. DOMAIN waivers = 1..Len(waivers)
  BY LenProperties DEF WaiverTypeOK
<1> QED BY <1>1 DEF ActiveOn, ActiveAmong, TheWaivers

\* The reference result, in terms of Turned and Stale.
LEMMA ReferenceIs ==
  ASSUME WaiverTypeOK, NEW c \in Declared
  PROVE  LET n == Len(waivers) IN
         /\ ReferenceFindings(c) =
              [f \in Fingerprints |-> IF f \in Turned(c, n) THEN "waived" ELSE original[c][f]]
         /\ ReferenceCheckStatus(c) =
              Highest({ReferenceFindings(c)[f] : f \in FindingsOf(original[c])}
                        \cup (IF c \in Stale(n) THEN {"requires_review"} ELSE {}), "pass")
<1> DEFINE n == Len(waivers)
<1>1. \A f \in Fingerprints : f \in Turned(c, n) <=>
        original[c][f] \in {"fail", "requires_review"} /\ ActiveOn(c, f)
  BY ActiveIsAccumulated DEF Turned
<1>2. c \in Stale(n) <=> \E f \in Fingerprints : original[c][f] = "none" /\ ActiveOn(c, f)
  BY ActiveIsAccumulated DEF Stale
<1>3. ReferenceFindings(c) = [f \in Fingerprints |-> IF f \in Turned(c, n) THEN "waived" ELSE original[c][f]]
  BY <1>1 DEF ReferenceFindings
<1> QED BY <1>2, <1>3 DEF ReferenceCheckStatus

\* What Rebuild computes from complete accumulators is the reference.
LEMMA RebuildIsReference ==
  ASSUME WaiverTypeOK, NEW c \in Declared,
         updates[c] = Turned(c, Len(waivers)), floors = Stale(Len(waivers))
  PROVE  LET floor == IF c \in floors THEN {"requires_review"} ELSE {} IN
         /\ Waived(c) = ReferenceFindings(c)
         /\ Highest({StatusOf(Waived(c))} \cup floor, "pass") = ReferenceCheckStatus(c)
         /\ updates[c] = {} /\ c \notin floors =>
              ReferenceFindings(c) = original[c] /\ ReferenceCheckStatus(c) = StatusOf(original[c])
<1> DEFINE D == {ReferenceFindings(c)[f] : f \in FindingsOf(original[c])}
           F == IF c \in floors THEN {"requires_review"} ELSE {}
<1>1. /\ ReferenceFindings(c) = Waived(c)
      /\ ReferenceCheckStatus(c) = Highest(D \cup F, "pass")
  BY ReferenceIs DEF Waived
<1>2. original[c] \in [Fingerprints -> Dispositions]
  BY DEF WaiverTypeOK
<1>3. /\ Waived(c) \in [Fingerprints -> Dispositions]
      /\ FindingsOf(Waived(c)) = FindingsOf(original[c])
  BY <1>2 DEF Waived, Dispositions, FindingsOf, Turned
<1>4. D \in SUBSET Statuses /\ StatusOf(Waived(c)) = Highest(D, "pass")
  BY <1>1, <1>3, FindingStatuses DEF StatusOf
<1>5. F \in SUBSET Statuses
  BY DEF Statuses
<1>6. Highest({Highest(D, "pass")} \cup F, "pass") = Highest(D \cup F, "pass")
  <2> HIDE DEF D, F
  <2>1. CASE D # {}
    BY <1>4, <1>5, <2>1, HighestNested
  <2>2. CASE D = {}
    <3>1. Highest(D, "pass") = "pass"
      BY <2>2 DEF Highest
    <3>2. CASE F = {}
      <4>1. Highest({"pass"}, "pass") = "pass"
        BY HighestIs DEF Statuses
      <4> QED BY <2>2, <3>1, <3>2, <4>1
    <3>3. CASE F = {"requires_review"}
      <4>1. Highest({"pass", "requires_review"}, "pass") = "requires_review"
        <5> DEFINE S == {"pass", "requires_review"}
        <5>1. S \in SUBSET Statuses /\ "requires_review" \in S
          BY DEF Statuses
        <5>2. \A t \in S : Priority[t] <= Priority["requires_review"]
          BY PriorityValues
        <5> HIDE DEF S
        <5>3. Highest(S, "pass") = "requires_review"
          BY <5>1, <5>2, HighestUnique
        <5> QED BY <5>3 DEF S
      <4>2. Highest({"requires_review"}, "pass") = "requires_review"
        BY HighestIs DEF Statuses
      <4> QED BY <2>2, <3>1, <3>3, <4>1, <4>2
    <3> QED BY <3>2, <3>3 DEF F
  <2> QED BY <2>1, <2>2
<1>7. ASSUME updates[c] = {}, c \notin floors
      PROVE  ReferenceFindings(c) = original[c] /\ ReferenceCheckStatus(c) = StatusOf(original[c])
  <2>1. ReferenceFindings(c) = original[c]
    BY <1>1, <1>2, <1>7 DEF Waived
  <2>2. F = {}
    BY <1>7
  <2> QED BY <1>1, <2>1, <2>2 DEF StatusOf
<1> QED BY <1>1, <1>4, <1>6, <1>7

-----------------------------------------------------------------------------
(* The inductive invariant.                                                *)

\* A waiver array is a sequence.
LEMMA ArraysAreSequences == WaiverArrays \subseteq Seq(Waivers)
BY WaiverAssumption DEF WaiverArrays

\* Before the first loop no waiver is handled and every check is untouched.
LEMMA InitInv == WaiverInit => Inv
<1> SUFFICES ASSUME WaiverInit PROVE Inv
  OBVIOUS
<1> USE DEF WaiverInit
<1>1. ASSUME NEW c \in Declared PROVE StatusOf(original[c]) \in Statuses
  BY StatusType
<1>2. WaiverTypeOK
  BY <1>1, ArraysAreSequences DEF WaiverTypeOK
<1>3. Len(waivers) \in Nat
  BY ArraysAreSequences, LenProperties
<1>4. \A c \in evaluated : c \in unbuilt /\ Untouched(c)
  BY DEF Untouched
<1>5. WellFormed(i - 1)
  BY DEF WellFormed
<1> QED BY <1>2, <1>3, <1>4, <1>5 DEF Inv

\* The waiver at hand, and how one more waiver extends what is known.
LEMMA AtWaiver ==
  ASSUME WaiverTypeOK, i <= Len(waivers), i \in 1..(Len(waivers) + 1)
  PROVE  /\ Len(waivers) \in Nat /\ i \in 1..Len(waivers) /\ DOMAIN waivers = 1..Len(waivers)
         /\ waivers[i] \in Waivers /\ waivers[i] \in TheWaivers
         /\ i' = i + 1 => i' - 1 = i /\ 1..(i' - 1) = 1..(i - 1) \cup {i}
<1>1. Len(waivers) \in Nat /\ DOMAIN waivers = 1..Len(waivers)
  BY LenProperties DEF WaiverTypeOK
<1>2. i \in 1..Len(waivers)
  BY <1>1
<1>3. waivers[i] \in Waivers
  BY <1>2, ElementOfSeq DEF WaiverTypeOK
<1> QED BY <1>1, <1>2, <1>3 DEF TheWaivers

\* The first loop accepts a waiver that is well formed beside those before
\* it, and raises otherwise.
LEMMA ControlInv == ASSUME Inv, Control PROVE Inv'
<1> USE DEF Inv, Control, policyInput
<1>1. WaiverTypeOK /\ i \in 1..Len(waivers) /\ waivers[i] \in Waivers /\ waivers[i] \in TheWaivers
      /\ Len(waivers) \in Nat /\ DOMAIN waivers = 1..Len(waivers)
  BY AtWaiver
<1>2. WaiverTypeOK'
  BY <1>1 DEF WaiverTypeOK, RaiseGateError
<1>3. CASE Defect(waivers[i]) # "none"
  <2>1. Malformed
    <3>1. CASE \E v \in Seen : v.id = waivers[i].id \/ v.target = waivers[i].target
      <4>1. PICK j \in 1..(i - 1) : waivers[j].id = waivers[i].id \/ waivers[j].target = waivers[i].target
        BY <3>1 DEF Seen
      <4>2. j \in Indices /\ i \in Indices /\ j # i
        BY <1>1, <4>1 DEF Indices
      <4> QED BY <4>1, <4>2 DEF Malformed
    <3>2. CASE Check(waivers[i]) \notin evaluated \/ BadInterval(waivers[i])
      BY <1>1, <3>2 DEF Malformed
    <3>3. \/ \E v \in Seen : v.id = waivers[i].id \/ v.target = waivers[i].target
          \/ Check(waivers[i]) \notin evaluated \/ BadInterval(waivers[i])
      BY <1>1, <1>3 DEF Defect, WaiverTypeOK
    <3> QED BY <3>1, <3>2, <3>3
  <2>2. waiverPc' = "raised" /\ Malformed'
    BY <1>3, <2>1 DEF RaiseGateError, Malformed, Indices, TheWaivers
  <2>3. \A c \in evaluated' : IF c \in unbuilt' THEN Untouched(c)' ELSE Rebuilt(c)'
    BY DEF Untouched, Rebuilt, ReferenceCheckStatus, ReferenceFindings, ActiveOn, TheWaivers
  <2> QED BY <1>2, <1>3, <2>2, <2>3
<1>4. CASE Defect(waivers[i]) = "none"
  <2>1. i' = i + 1 /\ waiverPc' = waiverPc /\ i' \in 1..(Len(waivers') + 1) /\ 1..(i' - 1) = 1..(i - 1) \cup {i}
    BY <1>1, <1>4, AtWaiver
  <2>2. /\ Check(waivers[i]) \in evaluated /\ ~BadInterval(waivers[i])
        /\ \A j \in 1..(i - 1) : waivers[j].id # waivers[i].id /\ waivers[j].target # waivers[i].target
    BY <1>4 DEF Defect, Seen
  <2>3. WellFormed(i' - 1)
    BY <2>1, <2>2 DEF WellFormed
  <2>4. WellFormed(i - 1)'
    BY <2>3 DEF WellFormed
  <2>5. \A c \in evaluated' : IF c \in unbuilt' THEN Untouched(c)' ELSE Rebuilt(c)'
    BY DEF Untouched, Rebuilt, ReferenceCheckStatus, ReferenceFindings, ActiveOn, TheWaivers
  <2> QED BY <1>2, <2>1, <2>4, <2>5
<1> QED BY <1>3, <1>4

\* At the end of the first loop the whole array is well formed.
LEMMA ControlDoneInv == ASSUME Inv, ControlDone PROVE Inv'
<1> USE DEF Inv, ControlDone, policyInput
<1>1. Len(waivers) \in Nat /\ i - 1 = Len(waivers) /\ 1..(i' - 1) = {}
  BY LenProperties DEF WaiverTypeOK
<1>2. WaiverTypeOK'
  BY DEF WaiverTypeOK
<1>3. WellFormed(Len(waivers))'
  BY <1>1 DEF WellFormed
<1>4. Waivable(i - 1)' /\ Accumulated'
  BY <1>1 DEF Waivable, Accumulated, Turned, Stale, ActiveAmong
<1>5. \A c \in evaluated' : IF c \in unbuilt' THEN Untouched(c)' ELSE Rebuilt(c)'
  BY DEF Untouched, Rebuilt, ReferenceCheckStatus, ReferenceFindings, ActiveOn, TheWaivers
<1> QED BY <1>1, <1>2, <1>3, <1>4, <1>5

\* How one more waiver changes what the waivers call for.
LEMMA OneMore ==
  ASSUME WaiverTypeOK, i \in 1..Len(waivers), i' = i + 1, UNCHANGED policyInput,
         Len(waivers) \in Nat, waivers[i] \in Waivers,
         Check(waivers[i]) \in Declared
  PROVE  LET w == waivers[i]
             here == original[Check(w)][Fingerprint(w)] IN
         /\ \A c \in Declared :
              Turned(c, i - 1)' = Turned(c, i - 1) \cup
                (IF Active(w) /\ c = Check(w) /\ here \in {"fail", "requires_review"} THEN {Fingerprint(w)} ELSE {})
         /\ Stale(i - 1)' = Stale(i - 1) \cup (IF Active(w) /\ here = "none" THEN {Check(w)} ELSE {})
         /\ Waivable(i - 1) /\ (Active(w) => here \notin {"waived", "error"}) => Waivable(i - 1)'
<1> DEFINE w == waivers[i]
           here == original[Check(w)][Fingerprint(w)]
<1>1. 1..(i' - 1) = 1..(i - 1) \cup {i} /\ i \notin 1..(i - 1)
  OBVIOUS
<1>2. w.target = <<Check(w), Fingerprint(w)>> /\ Fingerprint(w) \in Fingerprints
  BY TargetPair
<1>3. ASSUME NEW c, NEW f
      PROVE  ActiveAmong(i - 1, c, f)' <=>
               \/ ActiveAmong(i - 1, c, f)
               \/ Active(w) /\ c = Check(w) /\ f = Fingerprint(w)
  <2>1. ActiveAmong(i - 1, c, f)' <=> \E j \in 1..(i' - 1) : waivers[j].target = <<c, f>> /\ Active(waivers[j])
    BY DEF ActiveAmong, policyInput, Active, NotYetValid, Expired
  <2>2. ActiveAmong(i - 1, c, f)' <=> ActiveAmong(i - 1, c, f) \/ (w.target = <<c, f>> /\ Active(w))
    <3> HIDE DEF w
    <3> QED BY <1>1, <2>1 DEF ActiveAmong, w
  <2>3. w.target = <<c, f>> <=> c = Check(w) /\ f = Fingerprint(w)
    <3> HIDE DEF w
    <3> QED BY <1>2
  <2> HIDE DEF w
  <2> QED BY <2>2, <2>3
<1>4. ASSUME NEW c \in Declared
      PROVE  Turned(c, i - 1)' = Turned(c, i - 1) \cup
                (IF Active(w) /\ c = Check(w) /\ here \in {"fail", "requires_review"} THEN {Fingerprint(w)} ELSE {})
  <2>1. \A f \in Fingerprints : f \in Turned(c, i - 1)' <=>
             \/ f \in Turned(c, i - 1)
             \/ Active(w) /\ c = Check(w) /\ here \in {"fail", "requires_review"} /\ f = Fingerprint(w)
    BY <1>3 DEF Turned, policyInput
  <2>2. Turned(c, i - 1) \subseteq Fingerprints /\ Turned(c, i - 1)' \subseteq Fingerprints
    BY DEF Turned
  <2> HIDE DEF here, w
  <2> QED BY <1>2, <2>1, <2>2
<1>5. Stale(i - 1)' = Stale(i - 1) \cup (IF Active(w) /\ here = "none" THEN {Check(w)} ELSE {})
  <2>1. \A c \in Declared : c \in Stale(i - 1)' <=>
             \/ c \in Stale(i - 1)
             \/ Active(w) /\ here = "none" /\ c = Check(w)
    BY <1>2, <1>3 DEF Stale, policyInput
  <2>2. Stale(i - 1) \subseteq Declared /\ Stale(i - 1)' \subseteq Declared /\ Check(w) \in Declared
    BY DEF Stale
  <2> HIDE DEF here, w
  <2> QED BY <2>1, <2>2
<1>6. ASSUME Waivable(i - 1), Active(w) => here \notin {"waived", "error"}
      PROVE  Waivable(i - 1)'
  <2>1. \A j \in 1..(i' - 1) : Active(waivers[j]) =>
          original[Check(waivers[j])][Fingerprint(waivers[j])] \notin {"waived", "error"}
    BY <1>1, <1>6 DEF Waivable
  <2> QED BY <2>1 DEF Waivable, policyInput, Active, NotYetValid, Expired, Check, Fingerprint
<1> QED BY <1>4, <1>5, <1>6

\* A step of the first two loops leaves every result as it is.
LEMMA ResultsKept ==
  ASSUME Inv, UNCHANGED <<policyInput, unbuilt, final>>
  PROVE  \A c \in evaluated' : IF c \in unbuilt' THEN Untouched(c)' ELSE Rebuilt(c)'
<1>1. UNCHANGED <<evaluated, original, waivers, unbuilt, final>>
  BY DEF policyInput
<1>2. \A c : Untouched(c)' <=> Untouched(c)
  BY <1>1 DEF Untouched
<1>3. \A c : Rebuilt(c)' <=> Rebuilt(c)
  BY <1>1 DEF Rebuilt, ReferenceCheckStatus, ReferenceFindings, ActiveOn, TheWaivers
<1> QED BY <1>1, <1>2, <1>3 DEF Inv

\* Each of the four outcomes of a waiver extends the accumulators by what the
\* waiver calls for, or refuses a waiver that cannot be applied.
LEMMA ClassifyInv == ASSUME Inv, Classify PROVE Inv'
<1> DEFINE w == waivers[i]
           here == original[Check(w)][Fingerprint(w)]
<1>1. /\ WaiverTypeOK /\ i \in 1..Len(waivers) /\ w \in Waivers /\ w \in TheWaivers
      /\ Len(waivers) \in Nat /\ DOMAIN waivers = 1..Len(waivers) /\ i <= Len(waivers)
      /\ UNCHANGED <<policyInput, unbuilt, final>> /\ waiverPc = "classify"
  BY AtWaiver DEF Inv, Classify
<1>2. Inactive(w) \/ Mismatch(w) \/ NotWaivable(w) \/ Match(w)
  BY DEF Classify
<1>3. w.target = <<Check(w), Fingerprint(w)>> /\ Fingerprint(w) \in Fingerprints
      /\ Check(w) \in evaluated /\ Check(w) \in Declared
  <2>1. WellFormed(Len(waivers))
    BY <1>1 DEF Inv
  <2> QED BY <1>1, <2>1, TargetPair DEF WellFormed, WaiverTypeOK
<1>4. \A c \in evaluated' : IF c \in unbuilt' THEN Untouched(c)' ELSE Rebuilt(c)'
  BY <1>1, ResultsKept
<1>5. CASE NotWaivable(w)
  <2>1. here \in {"waived", "error"} /\ Active(w) /\ waiverPc' = "raised" /\ UNCHANGED <<i, updates, floors>>
    BY <1>5 DEF NotWaivable, RaiseGateError
  <2>2. Unwaivable
    BY <1>1, <1>3, <2>1 DEF Unwaivable, ActiveOn
  <2>3. Unwaivable'
    BY <1>1, <2>2 DEF Unwaivable, ActiveOn, TheWaivers, policyInput, Active, NotYetValid, Expired
  <2>4. WaiverTypeOK'
    BY <1>1, <2>1 DEF WaiverTypeOK, policyInput
  <2> QED BY <1>1, <1>4, <2>1, <2>3, <2>4 DEF Inv, policyInput
<1>6. CASE Inactive(w) \/ Mismatch(w) \/ Match(w)
  <2>1. i' = i + 1 /\ waiverPc' = waiverPc
    BY <1>6 DEF Inactive, Mismatch, Match
  <2>2. here \in Dispositions
    BY <1>1, <1>3 DEF WaiverTypeOK
  <2>3. /\ updates' = IF Active(w) /\ here \in {"fail", "requires_review"}
                         THEN [updates EXCEPT ![Check(w)] = @ \cup {Fingerprint(w)}] ELSE updates
        /\ floors' = floors \cup (IF Active(w) /\ here = "none" THEN {Check(w)} ELSE {})
        /\ Active(w) => here \notin {"waived", "error"}
    <3>1. CASE Inactive(w)
      BY <3>1 DEF Inactive, Active
    <3>2. CASE Mismatch(w)
      BY <3>2 DEF Mismatch
    <3>3. CASE Match(w)
      BY <3>3 DEF Match
    <3> QED BY <1>6, <3>1, <3>2, <3>3
  <2>4. WaiverTypeOK'
    BY <1>1, <1>3, <2>1, <2>3 DEF WaiverTypeOK, policyInput
  <2>5. Accumulated /\ Waivable(i - 1) /\ WellFormed(Len(waivers))
    BY <1>1 DEF Inv
  <2>6. Waivable(i - 1)'
    BY <1>1, <1>3, <2>1, <2>3, <2>5, OneMore
  <2>7. Accumulated'
    <3>1. \A c \in Declared : updates'[c] = Turned(c, i - 1)'
      <4>1. ASSUME NEW c \in Declared
            PROVE  updates'[c] = updates[c] \cup
              (IF Active(w) /\ c = Check(w) /\ here \in {"fail", "requires_review"} THEN {Fingerprint(w)} ELSE {})
        <5> HIDE DEF here, w
        <5> QED BY <1>1, <2>3 DEF WaiverTypeOK
      <4>2. ASSUME NEW c \in Declared
            PROVE  Turned(c, i - 1)' = Turned(c, i - 1) \cup
              (IF Active(w) /\ c = Check(w) /\ here \in {"fail", "requires_review"} THEN {Fingerprint(w)} ELSE {})
        BY <1>1, <1>3, <2>1, OneMore
      <4> HIDE DEF here, w
      <4> QED BY <2>5, <4>1, <4>2 DEF Accumulated
    <3>2. floors' = Stale(i - 1)'
      <4>1. Stale(i - 1)' = Stale(i - 1) \cup (IF Active(w) /\ here = "none" THEN {Check(w)} ELSE {})
        BY <1>1, <1>3, <2>1, OneMore
      <4> HIDE DEF here, w
      <4> QED BY <2>3, <2>5, <4>1 DEF Accumulated
    <3> QED BY <3>1, <3>2 DEF Accumulated
  <2>8. WellFormed(Len(waivers))'
    BY <1>1, <2>5 DEF WellFormed, policyInput, BadInterval, Check
  <2>9. i' \in 1..(Len(waivers') + 1)
    BY <1>1, <2>1 DEF policyInput
  <2> QED BY <1>1, <1>4, <2>1, <2>4, <2>6, <2>7, <2>8, <2>9 DEF Inv, policyInput
<1> QED BY <1>2, <1>5, <1>6

\* At the end of the second loop every waiver is accounted for.
LEMMA ClassifyDoneInv == ASSUME Inv, ClassifyDone PROVE Inv'
<1>1. WaiverTypeOK' /\ Len(waivers) \in Nat
  BY LenProperties DEF Inv, ClassifyDone, WaiverTypeOK, policyInput
<1>2. \A c \in evaluated' : IF c \in unbuilt' THEN Untouched(c)' ELSE Rebuilt(c)'
  BY ResultsKept DEF ClassifyDone
<1>3. WellFormed(Len(waivers))' /\ Waivable(i - 1)' /\ Accumulated'
  <2>1. UNCHANGED <<evaluated, original, waivers, i, updates, floors>> /\ waiverPc = "classify"
    BY DEF ClassifyDone, policyInput
  <2>2. WellFormed(Len(waivers)) /\ Waivable(i - 1) /\ Accumulated
    BY <2>1 DEF Inv
  <2>3. WellFormed(Len(waivers))'
    BY <2>1, <2>2 DEF WellFormed
  <2>4. Waivable(i - 1)'
    BY <2>1, <2>2 DEF Waivable
  <2>5. Accumulated'
    BY <2>1, <2>2 DEF Accumulated, Turned, Stale, ActiveAmong
  <2> QED BY <2>3, <2>4, <2>5
<1>4. i \in 1..(Len(waivers) + 1) /\ i > Len(waivers) /\ UNCHANGED <<i, waivers>> /\ waiverPc' = "rebuild"
  BY DEF Inv, ClassifyDone, policyInput
<1>5. i' = Len(waivers') + 1
  BY <1>1, <1>4
<1> QED BY <1>1, <1>2, <1>3, <1>4, <1>5 DEF Inv
\* The third loop leaves what the first two have established.
LEMMA ClassifiedKept ==
  ASSUME Inv, UNCHANGED <<policyInput, i, updates, floors>>, waiverPc \in {"rebuild", "done"}
  PROVE  WellFormed(Len(waivers))' /\ Waivable(i - 1)' /\ Accumulated'
<1>1. UNCHANGED <<evaluated, original, waivers, i, updates, floors>>
  BY DEF policyInput
<1>2. WellFormed(Len(waivers)) /\ Waivable(i - 1) /\ Accumulated
  BY DEF Inv
<1>3. WellFormed(Len(waivers))'
  BY <1>1, <1>2 DEF WellFormed
<1>4. Waivable(i - 1)'
  BY <1>1, <1>2 DEF Waivable
<1>5. Accumulated'
  <2>1. \A n : Stale(n)' = Stale(n)
    BY <1>1 DEF Stale, ActiveAmong
  <2>2. \A c, n : Turned(c, n)' = Turned(c, n)
    BY <1>1 DEF Turned, ActiveAmong
  <2> QED BY <1>1, <1>2, <2>1, <2>2 DEF Accumulated
<1> QED BY <1>3, <1>4, <1>5

\* One turn of the third loop gives its check the reference result.
LEMMA RebuildInv == ASSUME Inv, NEW c \in Declared, Rebuild(c) PROVE Inv'
<1> DEFINE floor == IF c \in floors THEN {"requires_review"} ELSE {}
           result == [status |-> ReferenceCheckStatus(c), findings |-> ReferenceFindings(c)]
<1>1. /\ WaiverTypeOK /\ waiverPc = "rebuild" /\ c \in unbuilt /\ c \in evaluated /\ unbuilt' = unbuilt \ {c}
      /\ UNCHANGED <<evaluated, original, waivers, waiverPc, i, updates, floors>>
  BY DEF Inv, Rebuild, policyInput, WaiverTypeOK
<1>2. i = Len(waivers) + 1 /\ Len(waivers) \in Nat /\ i - 1 = Len(waivers)
  BY <1>1, LenProperties DEF Inv, WaiverTypeOK
<1>3. updates[c] = Turned(c, Len(waivers)) /\ floors = Stale(Len(waivers))
  BY <1>1, <1>2 DEF Inv, Accumulated
<1>4. /\ Waived(c) = ReferenceFindings(c)
      /\ Highest({StatusOf(Waived(c))} \cup floor, "pass") = ReferenceCheckStatus(c)
      /\ updates[c] = {} /\ c \notin floors =>
           ReferenceFindings(c) = original[c] /\ ReferenceCheckStatus(c) = StatusOf(original[c])
  BY <1>1, <1>3, RebuildIsReference
<1>5. final' = [final EXCEPT ![c] = result]
  <2>1. CASE updates[c] = {} /\ c \notin floors
    <3>1. final' = final /\ final[c] = [status |-> StatusOf(original[c]), findings |-> original[c]]
      BY <1>1, <2>1 DEF Rebuild, Inv, Untouched
    <3>2. final[c] = result
      BY <1>4, <2>1, <3>1
    <3> HIDE DEF result
    <3> QED BY <1>1, <3>1, <3>2 DEF WaiverTypeOK
  <2>2. CASE ~(updates[c] = {} /\ c \notin floors)
    BY <1>4, <2>2 DEF Rebuild
  <2> QED BY <2>1, <2>2
<1>6. ReferenceFindings(c) \in [Fingerprints -> Dispositions] /\ ReferenceCheckStatus(c) \in Statuses
  <2>1. Waived(c) \in [Fingerprints -> Dispositions]
    BY <1>1 DEF Waived, WaiverTypeOK, Dispositions
  <2>2. {StatusOf(Waived(c))} \cup floor \in SUBSET Statuses
    BY <2>1, StatusType DEF Statuses
  <2>3. Highest({StatusOf(Waived(c))} \cup floor, "pass") \in {StatusOf(Waived(c))} \cup floor
    <3> DEFINE S == {StatusOf(Waived(c))} \cup floor
    <3>1. S # {} /\ S \in SUBSET Statuses
      BY <2>2
    <3> HIDE DEF S
    <3>2. Highest(S, "pass") \in S
      BY <3>1, HighestIs
    <3> QED BY <3>2 DEF S
  <2> QED BY <1>4, <2>1, <2>2, <2>3
<1>7. WaiverTypeOK'
  <2>1. result \in [status : Statuses, findings : [Fingerprints -> Dispositions]]
    BY <1>6
  <2> HIDE DEF result
  <2> QED BY <1>1, <1>5, <2>1 DEF WaiverTypeOK
<1>8. \A d \in evaluated' : IF d \in unbuilt' THEN Untouched(d)' ELSE Rebuilt(d)'
  <2>1. \A d : [status |-> ReferenceCheckStatus(d), findings |-> ReferenceFindings(d)]'
                  = [status |-> ReferenceCheckStatus(d), findings |-> ReferenceFindings(d)]
    BY <1>1 DEF ReferenceCheckStatus, ReferenceFindings, ActiveOn, TheWaivers
  <2>2. \A d \in evaluated : d # c => final'[d] = final[d]
    BY <1>1, <1>5 DEF WaiverTypeOK
  <2>3. final'[c] = result
    <3> HIDE DEF result
    <3> QED BY <1>1, <1>5 DEF WaiverTypeOK
  <2>4. ASSUME NEW d \in evaluated, d # c
        PROVE  IF d \in unbuilt' THEN Untouched(d)' ELSE Rebuilt(d)'
    <3>1. IF d \in unbuilt THEN Untouched(d) ELSE Rebuilt(d)
      BY DEF Inv
    <3>2. d \in unbuilt' <=> d \in unbuilt
      BY <1>1, <2>4
    <3>3. Untouched(d)' <=> Untouched(d)
      BY <1>1, <2>2, <2>4 DEF Untouched
    <3>4. Rebuilt(d)' <=> Rebuilt(d)
      BY <2>1, <2>2, <2>4 DEF Rebuilt
    <3> QED BY <3>1, <3>2, <3>3, <3>4
  <2>5. Rebuilt(c)' /\ c \notin unbuilt'
    BY <1>1, <2>1, <2>3 DEF Rebuilt
  <2> QED BY <1>1, <2>4, <2>5
<1>9. WellFormed(Len(waivers))' /\ Waivable(i - 1)' /\ Accumulated'
  BY <1>1, ClassifiedKept DEF policyInput
<1>10. i' = Len(waivers') + 1 /\ i' \in 1..(Len(waivers') + 1)
  BY <1>1, <1>2
<1> QED BY <1>1, <1>7, <1>8, <1>9, <1>10 DEF Inv

\* The third loop ends when every check has its reference result.
LEMMA RebuildDoneInv == ASSUME Inv, RebuildDone PROVE Inv'
<1>1. /\ UNCHANGED <<policyInput, evaluated, original, waivers, i, updates, floors, unbuilt, final>>
      /\ waiverPc = "rebuild" /\ waiverPc' = "done" /\ unbuilt = {}
  BY DEF RebuildDone, policyInput
<1>2. WaiverTypeOK'
  BY <1>1 DEF Inv, WaiverTypeOK
<1>3. WellFormed(Len(waivers))' /\ Waivable(i - 1)' /\ Accumulated'
  BY <1>1, ClassifiedKept
<1>4. \A c \in evaluated' : IF c \in unbuilt' THEN Untouched(c)' ELSE Rebuilt(c)'
  BY <1>1, ResultsKept
<1>5. i' = Len(waivers') + 1 /\ i' \in 1..(Len(waivers') + 1)
  BY <1>1 DEF Inv
<1> QED BY <1>1, <1>2, <1>3, <1>4, <1>5 DEF Inv

\* Stuttering keeps the invariant.
LEMMA StutterInv == ASSUME Inv, UNCHANGED waiverVars PROVE Inv'
<1>1. UNCHANGED <<policyInput, evaluated, original, waivers, waiverPc, i, updates, floors, unbuilt, final>>
  BY DEF waiverVars, policyInput
<1>2. WaiverTypeOK'
  BY <1>1 DEF Inv, WaiverTypeOK
<1>3. \A c \in evaluated' : IF c \in unbuilt' THEN Untouched(c)' ELSE Rebuilt(c)'
  BY <1>1, ResultsKept
<1>4. \A n : WellFormed(n)' <=> WellFormed(n)
  BY <1>1 DEF WellFormed
<1>5. \A n : Waivable(n)' <=> Waivable(n)
  BY <1>1 DEF Waivable
<1>6. Accumulated' <=> Accumulated
  BY <1>1 DEF Accumulated, Turned, Stale, ActiveAmong
<1>7. (Malformed \/ Unwaivable)' <=> Malformed \/ Unwaivable
  BY <1>1 DEF Malformed, Unwaivable, Indices, TheWaivers, ActiveOn
<1> QED BY <1>1, <1>2, <1>3, <1>4, <1>5, <1>6, <1>7 DEF Inv

\* Every step keeps the invariant.
LEMMA NextInv == Inv /\ [WaiverNext]_waiverVars => Inv'
BY ControlInv, ControlDoneInv, ClassifyInv, ClassifyDoneInv, RebuildInv, RebuildDoneInv, StutterInv DEF WaiverNext

\* The inductive invariant holds for arrays of every length.
THEOREM Invariant == WaiverSpec => []Inv
BY InitInv, NextInv, PTL DEF WaiverSpec
-----------------------------------------------------------------------------
(* The properties.                                                         *)

\* The locals of apply_waivers keep their types.
THEOREM TypeCorrect == WaiverSpec => []WaiverTypeOK
BY Invariant, PTL DEF Inv

\* The results of the three loops are those of the set of waivers, for every
\* order of the array.
THEOREM OrderIndependent == WaiverSpec => []OrderDoesNotMatter
<1>1. Inv => OrderDoesNotMatter
  BY DEF Inv, OrderDoesNotMatter, Rebuilt
<1> QED BY <1>1, Invariant, PTL

\* apply_waivers raises on every malformed array and on every active waiver of
\* an error, and on nothing else.
THEOREM RaisesExactly == WaiverSpec => []RaisesExactlyOnDefects
<1>1. ASSUME Inv, waiverPc = "done" PROVE ~Malformed /\ ~Unwaivable
  <2> DEFINE n == Len(waivers)
  <2>1. /\ WaiverTypeOK /\ DOMAIN waivers = 1..n /\ n \in Nat /\ i - 1 = n
        /\ WellFormed(n) /\ Waivable(n)
    BY <1>1, LenProperties DEF Inv, WaiverTypeOK
  <2> HIDE DEF n
  <2>2. ~Malformed
    BY <2>1 DEF Malformed, WellFormed, Indices, TheWaivers
  <2>3. ASSUME NEW c \in evaluated, NEW f \in Fingerprints, ActiveOn(c, f)
        PROVE  original[c][f] \notin {"error", "waived"}
    <3>1. PICK j \in 1..n : waivers[j].target = <<c, f>> /\ Active(waivers[j])
      BY <2>1, <2>3 DEF ActiveOn, TheWaivers
    <3>2. Check(waivers[j]) = c /\ Fingerprint(waivers[j]) = f
      BY <3>1 DEF Check, Fingerprint
    <3> QED BY <2>1, <3>1, <3>2 DEF Waivable
  <2> QED BY <2>2, <2>3 DEF Unwaivable
<1>2. Inv => RaisesExactlyOnDefects
  BY <1>1 DEF Inv, RaisesExactlyOnDefects
<1> QED BY <1>2, Invariant, PTL

\* A check passes only if it had no finding and no waiver is active on it.
LEMMA ReferencePass ==
  ASSUME WaiverTypeOK, NEW c \in evaluated, ReferenceCheckStatus(c) = "pass"
  PROVE  FindingsOf(original[c]) = {} /\ ~\E f \in Fingerprints : ActiveOn(c, f)
<1> DEFINE D == {ReferenceFindings(c)[f] : f \in FindingsOf(original[c])}
           stale == \E f \in Fingerprints : original[c][f] = "none" /\ ActiveOn(c, f)
           S == D \cup (IF stale THEN {"requires_review"} ELSE {})
<1>1. c \in Declared /\ original[c] \in [Fingerprints -> Dispositions]
  BY DEF WaiverTypeOK
<1>2. S \in SUBSET (Statuses \ {"pass"})
  <2>1. \A f \in FindingsOf(original[c]) : ReferenceFindings(c)[f] \in Statuses \ {"pass"}
    BY <1>1 DEF FindingsOf, ReferenceFindings, Dispositions, Statuses
  <2> QED BY <2>1 DEF Statuses
<1>3. Highest(S, "pass") = "pass"
  BY DEF ReferenceCheckStatus
<1>4. S = {}
  <2> HIDE DEF S
  <2> QED BY <1>2, <1>3, HighestIs
<1>5. FindingsOf(original[c]) = {}
  BY <1>4
<1>6. \A f \in Fingerprints : original[c][f] = "none"
  BY <1>5 DEF FindingsOf
<1> QED BY <1>4, <1>5, <1>6

\* A waiver never turns a check or a whole result into a pass.
THEOREM NeverCreatesAPass == WaiverSpec => []NoPassFromWaivers
<1>1. ASSUME Inv, waiverPc = "done", NEW c \in evaluated, final[c].status = "pass"
      PROVE  FindingsOf(original[c]) = {} /\ ~\E f \in Fingerprints : ActiveOn(c, f)
  <2>1. WaiverTypeOK /\ Rebuilt(c)
    BY <1>1 DEF Inv
  <2>2. ReferenceCheckStatus(c) = "pass"
    BY <1>1, <2>1 DEF Rebuilt
  <2> QED BY <2>1, <2>2, ReferencePass
<1>2. ASSUME Inv, waiverPc = "done", Aggregate({final[c].status : c \in evaluated}) = "pass"
      PROVE  /\ \A c \in evaluated : StatusOf(original[c]) = "pass"
             /\ ~\E w \in TheWaivers : Active(w)
  <2> DEFINE S == {final[c].status : c \in evaluated}
  <2>1. S \in SUBSET Statuses
    BY <1>2 DEF Inv, WaiverTypeOK
  <2>2. \A s \in S : s = "pass"
    <3> HIDE DEF S
    <3>1. CASE S = {}
      BY <3>1
    <3>2. CASE S # {}
      <4>1. \A s \in S : Priority[s] <= Priority["pass"]
        BY <1>2, <2>1, <3>2, HighestIs DEF Aggregate, S
      <4> QED BY <2>1, <4>1, PriorityValues DEF Statuses
    <3> QED BY <3>1, <3>2
  <2>3. \A c \in evaluated : FindingsOf(original[c]) = {} /\ ~\E f \in Fingerprints : ActiveOn(c, f)
    BY <1>1, <1>2, <2>2
  <2>4. \A c \in evaluated : StatusOf(original[c]) = "pass"
    BY <2>3 DEF StatusOf, Highest
  <2>5. ASSUME NEW w \in TheWaivers, Active(w) PROVE FALSE
    <3>1. /\ WaiverTypeOK /\ DOMAIN waivers = 1..Len(waivers) /\ WellFormed(Len(waivers))
      BY <1>2, LenProperties DEF Inv, WaiverTypeOK
    <3>2. w \in Waivers /\ Check(w) \in evaluated
      BY <3>1, ElementOfSeq DEF TheWaivers, WaiverTypeOK, WellFormed
    <3>3. ActiveOn(Check(w), Fingerprint(w)) /\ Fingerprint(w) \in Fingerprints
      BY <2>5, <3>2, TargetPair DEF ActiveOn
    <3> QED BY <2>3, <3>2, <3>3
  <2> QED BY <2>4, <2>5
<1>3. Inv => NoPassFromWaivers
  BY <1>1, <1>2 DEF NoPassFromWaivers
<1> QED BY <1>3, Invariant, PTL
=============================================================================
