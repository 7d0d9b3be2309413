---------------------------- MODULE CommandsProofs ----------------------------
(***************************************************************************)
(* Proofs about Commands, for every job, every command line and every      *)
(* limit: worker processes, signing and verification, how an ingest ends,  *)
(* the exit code of the program, and what the adapters write: that it      *)
(* rests on evidence, and that it is closed.                               *)
(***************************************************************************)
EXTENDS ReadingProofs

(***************************************************************************)
(* Worker processes.  The invariant ties the parent's place to the         *)
(* worker's: a worker exists from Spawn on, is reaped exactly before the   *)
(* judgement, and only a timeout leads to a signal.                        *)
(***************************************************************************)
WorkerInv ==
    /\ W!TypeOK
    /\ pc = "check" => worker = "none"
    /\ pc \notin {"check", "done"} => worker # "none"
    /\ pc # "done" => outcome = "running"
    /\ pc \in {"check", "send", "wait"} => ~timedOut
    /\ pc \in {"terminate", "grace", "kill", "killed"} => timedOut
    /\ pc = "judge" => worker = "reaped"
    /\ worker = "reaped" => pc \in {"judge", "done"}
    /\ pc = "done" => worker = "reaped" \/ (worker = "none" /\ outcome = "refused")
    /\ signal # "none" => timedOut
    /\ code = "success" => job.answer = "ok" /\ output = job.length /\ worker \in {"exited", "reaped"}
    /\ outcome = "result" => ~timedOut /\ output = job.length /\ job.answer = "ok" /\ worker = "reaped"
    /\ timedOut /\ pc = "done" => outcome = "timeout"

\* The invariant holds before the worker starts.
LEMMA WorkerInvInit == W!Init => WorkerInv
<1>1. 0 \in 0..MaxLength
  BY BoundAssumption
<1> QED BY <1>1 DEF W!Init, WorkerInv, W!TypeOK

\* The bounds of an answer.
LEMMA WorkerJobType == ASSUME W!TypeOK PROVE job \in WorkerJob /\ job.length \in 1..MaxLength /\ MaxLength \in Nat
BY BoundAssumption, JobAssumption DEF W!TypeOK, WorkerJob

\* A step of the parent keeps the invariant.
LEMMA ParentKeepsInv == ASSUME WorkerInv, W!Parent PROVE WorkerInv'
<1> USE DEF WorkerInv, W!TypeOK, W!process
<1>1. CASE W!Refuse \/ W!Spawn \/ W!Send \/ W!Reap
  BY <1>1 DEF W!Refuse, W!Spawn, W!Send, W!Reap
<1>2. CASE W!Timeout \/ W!Terminate
  BY <1>2 DEF W!Timeout, W!Terminate
<1>3. CASE W!ReapInGrace \/ W!GraceOver \/ W!Kill \/ W!ReapKilled
  BY <1>3 DEF W!ReapInGrace, W!GraceOver, W!Kill, W!ReapKilled
<1>4. CASE W!Judge
  <2>1. /\ outcome' \in {"timeout", "output_limit", "invalid", "UnicodeDecodeError", "failed", "crash", "result"}
        /\ timedOut => outcome' = "timeout"
        /\ outcome' = "result" => ~timedOut /\ output = job.length /\ job.answer = "ok"
    <3>1. job \in WorkerJob
      BY WorkerJobType
    <3>2. job.answer \in {"ok", "failure"}
      BY <3>1 DEF WorkerJob
    <3> QED BY <1>4, <3>2 DEF W!Judge, W!PluginVerdicts, W!IdsVerdict, W!Whole
  <2> QED BY <1>4, <2>1 DEF W!Judge
<1> QED BY <1>1, <1>2, <1>3, <1>4 DEF W!Parent

\* A step of the worker keeps the invariant.
LEMMA WorkerKeepsInv == ASSUME WorkerInv, W!Worker PROVE WorkerInv'
<1> USE DEF WorkerInv, W!TypeOK
<1>1. CASE W!Read \/ W!Compute
  BY <1>1 DEF W!Read, W!Compute
<1>2. CASE W!WritePiece
  BY <1>2, WorkerJobType DEF W!WritePiece
<1>3. CASE W!Exit
  BY <1>3 DEF W!Exit
<1>4. CASE W!Die
  BY <1>4 DEF W!Die, W!Alive
<1> QED BY <1>1, <1>2, <1>3, <1>4 DEF W!Worker

\* In every reachable state of a call of a worker process its invariant holds.
THEOREM WorkerInvariant == Spec => [](command = "worker" => WorkerInv)
<1>1. Init => (command = "worker" => WorkerInv)
  BY WorkerInvInit DEF Init, Component
<1>2. (command = "worker" => WorkerInv) /\ [Next]_vars => (command = "worker" => WorkerInv)'
  <2> SUFFICES ASSUME command = "worker" => WorkerInv, [Next]_vars, command' = "worker" PROVE WorkerInv'
    OBVIOUS
  <2>1. WorkerInv /\ [W!Next]_(W!vars)
    BY StepIsOfComponent
  <2>2. WorkerInv /\ UNCHANGED W!vars => WorkerInv'
    BY DEF WorkerInv, W!TypeOK, W!vars, W!process
  <2> QED BY <2>1, <2>2, ParentKeepsInv, WorkerKeepsInv DEF W!Next
<1> QED BY <1>1, <1>2, PTL DEF Spec

\* A result is the whole answer of a worker that ended in time, and the worker is dead and reaped before its
\* output is read and before the call returns.
THEOREM WorkersAccounted == Spec => []WorkersAreAccountedFor
<1>1. (command = "worker" => WorkerInv) => WorkersAreAccountedFor
  BY DEF WorkerInv, WorkersAreAccountedFor, W!ResultIsTheAnswer, W!NothingRunsOn
<1> QED BY WorkerInvariant, <1>1, PTL
(***************************************************************************)
(* Signing and verification: see Signing for the definitions with the      *)
(* prefix S!.                                                              *)
(***************************************************************************)
\* The cardinality that Signing counts with.
LEMMA Counting == \A T : S!Cardinality(T) = Cardinality(T)
BY DEF S!Cardinality, Cardinality

\* A sequence has its indices.
LEMMA SequenceFacts ==
  ASSUME NEW s, S!IsSequence(s)
  PROVE  /\ Len(s) \in Nat /\ DOMAIN s = 1..Len(s)
         /\ IsFiniteSet(DOMAIN s) /\ Cardinality(DOMAIN s) = Len(s)
<1>1. Len(s) \in Nat /\ DOMAIN s = 1..Len(s)
  BY DEF S!IsSequence
<1> QED BY <1>1, Counted

\* The names of a list are as many as its entries exactly when no two entries have one name.
LEMMA NamedOnce ==
  ASSUME NEW s, S!IsSequence(s)
  PROVE  /\ IsFiniteSet(S!Kids(s)) /\ Cardinality(S!Kids(s)) \in Nat
         /\ ~S!Duplicated(s) <=> \A i, j \in DOMAIN s : s[i].kid = s[j].kid => i = j
<1>1. PICK kid : kid = [i \in DOMAIN s |-> s[i].kid]
  OBVIOUS
<1>2. IsFiniteSet(DOMAIN s) /\ Cardinality(DOMAIN s) = Len(s)
  BY SequenceFacts
<1>3. kid \in Surjection(DOMAIN s, S!Kids(s))
  BY <1>1 DEF Surjection, S!Kids
<1>4. /\ IsFiniteSet(S!Kids(s))
      /\ Cardinality(S!Kids(s)) = Cardinality(DOMAIN s) <=> kid \in Injection(DOMAIN s, S!Kids(s))
  BY <1>2, <1>3, FS_Surjection
<1>5. kid \in [DOMAIN s -> S!Kids(s)]
  BY <1>3 DEF Surjection
<1>6. kid \in Injection(DOMAIN s, S!Kids(s)) <=> \A i, j \in DOMAIN s : kid[i] = kid[j] => i = j
  BY <1>5 DEF Injection, IsInjective
<1>7. Cardinality(S!Kids(s)) \in Nat
  BY <1>4, FS_CardinalityType
<1> QED BY <1>1, <1>2, <1>4, <1>6, <1>7, Counting DEF S!Duplicated

\* An entry put into a list in order: there is a place for it, and the list is in order again.
LEMMA OrderedIs ==
  ASSUME NEW s, S!IsNamed(s), \A i, j \in DOMAIN s : i < j => s[i].kid < s[j].kid,
         NEW e, e.kid \in Nat, e.kid \notin S!Kids(s),
         NEW o, o = S!Ordered(Append(s, e))
  PROVE  /\ S!IsNamed(o) /\ Len(o) = Len(s) + 1 /\ Range(o) = Range(s) \cup {e}
         /\ \A i, j \in DOMAIN o : i < j => o[i].kid < o[j].kid
<1>1. PICK n : n = Len(s)
  OBVIOUS
<1>2. n \in Nat /\ DOMAIN s = 1..n /\ s \in Seq(Range(s))
  BY <1>1, SequenceFacts DEF S!IsNamed, S!IsSequence, Range, S!Range
<1>3. \A i \in 1..n : s[i].kid \in Nat /\ s[i].kid # e.kid
  BY <1>2 DEF S!IsNamed, S!Kids
<1>4. PICK a : a = Append(s, e)
  OBVIOUS
<1>5. /\ DOMAIN a = 1..n + 1 /\ a[n + 1] = e
      /\ \A i \in 1..n : a[i] = s[i]
  BY <1>1, <1>2, <1>4
<1>6. Range(a) = Range(s) \cup {e}
  BY <1>2, <1>5 DEF Range
<1>7. PICK p \in 1..n + 1 : /\ \A i \in 1..n : i < p => s[i].kid < e.kid
                            /\ \A i \in 1..n : i >= p => e.kid < s[i].kid
  <2>1. PICK T : T = {k \in 1..n + 1 : k = n + 1 \/ e.kid < s[k].kid}
    OBVIOUS
  <2>2. T \in SUBSET Nat /\ n + 1 \in T
    BY <1>2, <2>1
  <2>3. PICK p \in T : \A k \in T : p <= k
    BY <2>2, Least
  <2>4. p \in 1..n + 1
    BY <2>1
  <2>5. \A i \in 1..n : i < p => s[i].kid < e.kid
    <3> SUFFICES ASSUME NEW i \in 1..n, i < p PROVE s[i].kid < e.kid
      OBVIOUS
    <3>1. i \notin T
      BY <1>2, <2>3, <2>4
    <3>2. ~(e.kid < s[i].kid)
      BY <1>2, <2>1, <3>1
    <3> QED BY <1>3, <3>2
  <2>6. \A i \in 1..n : i >= p => e.kid < s[i].kid
    <3> SUFFICES ASSUME NEW i \in 1..n, i >= p PROVE e.kid < s[i].kid
      OBVIOUS
    <3>1. p \in 1..n /\ e.kid < s[p].kid
      BY <1>2, <2>1, <2>4
    <3>2. CASE i = p
      BY <3>1, <3>2
    <3>3. CASE i # p
      <4>1. p < i
        BY <1>2, <3>1, <3>3
      <4>2. s[p].kid < s[i].kid
        BY <1>2, <3>1, <4>1
      <4> QED BY <1>3, <3>1, <4>2
    <3> QED BY <3>2, <3>3
  <2> QED BY <2>4, <2>5, <2>6
<1>8. PICK w : w = [i \in 1..n + 1 |-> IF i < p THEN s[i] ELSE IF i = p THEN e ELSE s[i - 1]]
  OBVIOUS
<1>9. /\ w \in [DOMAIN a -> Range(a)] /\ Range(w) = Range(a)
      /\ \A i, j \in DOMAIN a : i < j => w[i].kid < w[j].kid
  <2>1. \A x : x \in Range(s) <=> \E i \in 1..n : x = s[i]
    BY <1>2 DEF Range
  <2>2. \A i \in 1..n + 1 : w[i] \in Range(a)
    BY <1>2, <1>6, <1>8, <2>1
  <2>3. DOMAIN w = 1..n + 1 /\ w \in [DOMAIN a -> Range(a)]
    BY <1>5, <1>8, <2>2
  <2>4. \A x : x \in Range(w) <=> \E i \in 1..n + 1 : x = w[i]
    BY <2>3 DEF Range
  <2>5. w[p] = e
    BY <1>8
  <2>6. \A i \in 1..n : IF i < p THEN w[i] = s[i] ELSE w[i + 1] = s[i]
    BY <1>2, <1>8
  <2>7. \A i \in 1..n : s[i] \in Range(w)
    BY <1>2, <2>4, <2>6
  <2>8. Range(w) = Range(a)
    BY <1>6, <2>1, <2>2, <2>4, <2>5, <2>7
  <2>9. ASSUME NEW i \in 1..n + 1, NEW j \in 1..n + 1, i < j PROVE w[i].kid < w[j].kid
    <3>1. CASE j < p
      BY <1>2, <1>8, <2>9, <3>1
    <3>2. CASE j = p
      BY <1>2, <1>7, <1>8, <2>9, <3>2
    <3>3. CASE i = p
      BY <1>2, <1>7, <1>8, <2>9, <3>3
    <3>4. CASE i < p /\ p < j
      <4>1. w[i] = s[i] /\ w[j] = s[j - 1] /\ i \in 1..n /\ j - 1 \in 1..n
        BY <1>2, <1>8, <3>4
      <4>2. s[i].kid < e.kid /\ e.kid < s[j - 1].kid
        BY <1>2, <1>7, <3>4, <4>1
      <4> QED BY <1>3, <4>1, <4>2
    <3>5. CASE p < i
      <4>1. w[i] = s[i - 1] /\ w[j] = s[j - 1] /\ i - 1 \in 1..n /\ j - 1 \in 1..n
        BY <1>2, <1>8, <2>9, <3>5
      <4> QED BY <1>2, <2>9, <4>1
    <3> QED BY <1>2, <3>1, <3>2, <3>3, <3>4, <3>5
  <2> QED BY <1>5, <2>3, <2>8, <2>9
<1>10. /\ o \in [DOMAIN a -> Range(a)] /\ Range(o) = Range(a)
       /\ \A i, j \in DOMAIN a : i < j => o[i].kid < o[j].kid
  <2>1. o = CHOOSE sorted \in [DOMAIN a -> Range(a)] :
              /\ Range(sorted) = Range(a)
              /\ \A i, j \in DOMAIN a : i < j => sorted[i].kid < sorted[j].kid
    BY <1>4 DEF S!Ordered, Range, S!Range
  <2> QED BY <1>9, <2>1
<1>11. DOMAIN o = 1..n + 1 /\ o \in Seq(Range(o)) /\ Len(o) = n + 1
  <2>1. o \in [1..n + 1 -> Range(o)]
    BY <1>5, <1>10
  <2>2. n + 1 \in Nat
    BY <1>2
  <2>3. o \in Seq(Range(o))
    BY <2>1, <2>2, SeqDef
  <2> QED BY <1>2, <2>1, <2>2, <2>3
<1>12. \A i \in DOMAIN o : o[i].kid \in Nat
  <2> SUFFICES ASSUME NEW i \in DOMAIN o PROVE o[i].kid \in Nat
    OBVIOUS
  <2>1. o[i] \in Range(s) \cup {e}
    BY <1>5, <1>6, <1>10, <1>11
  <2>2. \A x \in Range(s) : x.kid \in Nat
    BY <1>2, <1>3 DEF Range
  <2> QED BY <2>1, <2>2
<1>13. S!IsNamed(o)
  BY <1>11, <1>12 DEF S!IsNamed, S!IsSequence, Range, S!Range
<1> QED BY <1>1, <1>5, <1>6, <1>10, <1>11, <1>13

\* A bundle that can be read: not too long, one algorithm, and its names are in order, each once.
LEMMA ReadableBundle ==
  ASSUME NEW s, S!IsNamed(s)
  PROVE  S!BundleDefect(s) = "none" <=>
           /\ ~(Len(s) > MaxSignatures)
           /\ \A i \in DOMAIN s : s[i].algorithm = "Ed25519"
           /\ \A i, j \in DOMAIN s : i < j => s[i].kid < s[j].kid
<1>1. S!IsSequence(s) /\ \A i \in DOMAIN s : i \in Nat /\ s[i].kid \in Nat
  BY SequenceFacts DEF S!IsNamed
<1>2. ~S!Duplicated(s) <=> \A i, j \in DOMAIN s : s[i].kid = s[j].kid => i = j
  BY <1>1, NamedOnce
<1>3. S!BundleDefect(s) = "none" <=>
        /\ ~(Len(s) > MaxSignatures)
        /\ ~\E i \in DOMAIN s : s[i].algorithm # "Ed25519"
        /\ ~S!Duplicated(s)
        /\ ~\E i, j \in DOMAIN s : i < j /\ s[i].kid > s[j].kid
  BY DEF S!BundleDefect
<1>4. ASSUME ~S!Duplicated(s), ~\E i, j \in DOMAIN s : i < j /\ s[i].kid > s[j].kid,
             NEW i \in DOMAIN s, NEW j \in DOMAIN s, i < j
      PROVE  s[i].kid < s[j].kid
  BY <1>1, <1>2, <1>4
<1>5. ASSUME \A i, j \in DOMAIN s : i < j => s[i].kid < s[j].kid
      PROVE  ~S!Duplicated(s) /\ ~\E i, j \in DOMAIN s : i < j /\ s[i].kid > s[j].kid
  <2>1. ASSUME NEW i \in DOMAIN s, NEW j \in DOMAIN s, s[i].kid = s[j].kid PROVE i = j
    <3>1. ~(i < j) /\ ~(j < i)
      BY <1>1, <1>5, <2>1
    <3> QED BY <1>1, <3>1
  <2>2. ASSUME NEW i \in DOMAIN s, NEW j \in DOMAIN s, i < j PROVE ~(s[i].kid > s[j].kid)
    BY <1>1, <1>5, <2>2
  <2> QED BY <1>2, <2>1, <2>2
<1> QED BY <1>3, <1>4, <1>5

\* What signing appends to a bundle that may be appended to can be read again.
LEMMA AppendedBundle ==
  ASSUME bundle # Nil => S!IsNamed(bundle), S!AppendDefect = "none",
         NEW e, e.kid = S!Signer.kid, e.kid \in Nat, e.algorithm = "Ed25519",
         NEW o, o = S!Ordered(Append(S!Entries, e))
  PROVE  S!IsNamed(o) /\ S!BundleDefect(o) = "none"
<1>1. PICK s : s = S!Entries
  OBVIOUS
<1>2. S!IsNamed(<<>>) /\ S!Kids(<<>>) = {} /\ Len(<<>>) = 0 /\ DOMAIN <<>> = {}
  BY DEF S!IsNamed, S!IsSequence, S!Range, S!Kids
<1>3. S!IsNamed(s)
  BY <1>1, <1>2 DEF S!Entries
<1>4. S!BundleDefect(s) = "none" /\ e.kid \notin S!Kids(s) /\ ~(Len(s) >= MaxSignatures)
  <2>1. CASE bundle = Nil
    <3>1. s = <<>>
      BY <1>1, <2>1 DEF S!Entries
    <3>2. ~(Len(s) > MaxSignatures) /\ ~(Len(s) >= MaxSignatures)
      BY <1>2, <3>1, SigningAssumption
    <3> QED BY <1>2, <1>3, <3>1, <3>2, ReadableBundle
  <2>2. CASE bundle # Nil
    BY <1>1, <2>2 DEF S!AppendDefect, S!Entries
  <2> QED BY <2>1, <2>2
<1>5. /\ Len(s) \in Nat
      /\ \A i \in DOMAIN s : s[i].algorithm = "Ed25519"
      /\ \A i, j \in DOMAIN s : i < j => s[i].kid < s[j].kid
  BY <1>3, <1>4, ReadableBundle, SequenceFacts DEF S!IsNamed
<1>6. /\ S!IsNamed(o) /\ Len(o) = Len(s) + 1 /\ Range(o) = Range(s) \cup {e}
      /\ \A i, j \in DOMAIN o : i < j => o[i].kid < o[j].kid
  BY <1>1, <1>3, <1>4, <1>5, OrderedIs
<1>7. ~(Len(o) > MaxSignatures)
  BY <1>4, <1>5, <1>6, SigningAssumption
<1>8. \A i \in DOMAIN o : o[i].algorithm = "Ed25519"
  <2>1. \A x \in Range(s) : x.algorithm = "Ed25519"
    BY <1>5 DEF Range
  <2>2. \A i \in DOMAIN o : o[i] \in Range(o)
    BY DEF Range
  <2> QED BY <1>6, <2>1, <2>2
<1> QED BY <1>6, <1>7, <1>8, ReadableBundle

(***************************************************************************)
(* The invariant: in a call the bundle was found readable, the package     *)
(* that was validated and the manifest that is signed or verified were at  *)
(* the path since the call began, and a verdict is the one of these.       *)
(***************************************************************************)
InOrder == (IF S!Signing THEN S!AppendDefect ELSE S!VerifyDefect) = "none"
Examined == validated \in history /\ validated.valid
Stated == \E c \in history : c.manifest = statement
Judged == result = IF bundle = Nil THEN S!Unsigned ELSE S!Verdict(bundle)

SigningInv ==
    /\ job \in SigningJobs
    /\ pc \in {"open", "validate", "manifest", "sign", "verify", "done"}
    /\ turn \in Nat \ {0}
    /\ IsFiniteSet(history) /\ content \in history
    /\ bundle # Nil => S!IsNamed(bundle)
    /\ S!BundlesStayReadable
    /\ pc = "sign" => S!Signing
    /\ pc \in {"verify", "done"} => ~S!Signing
    /\ pc \in {"validate", "manifest", "sign", "verify"} => InOrder
    /\ pc \in {"manifest", "sign", "verify"} => Examined
    /\ pc \in {"sign", "verify"} => Stated
    /\ pc # "done" => outcome = "running"
    /\ S!Concluded => InOrder /\ Examined /\ Stated /\ Judged

\* What is known of a job.
LEMMA SigningJobFacts == ASSUME job \in SigningJobs PROVE S!IsSigningJob(job)
BY SigningAssumption

\* The invariant holds before the first call.
LEMMA SigningInvInit == S!Init => SigningInv
<1> SUFFICES ASSUME S!Init PROVE SigningInv
  OBVIOUS
<1>1. /\ job \in SigningJobs /\ pc = "open" /\ turn \in Nat \ {0}
      /\ IsFiniteSet(history) /\ content \in history /\ outcome = "running" /\ bundle = job.bundle
  <2>1. IsFiniteSet({job.content})
    BY FS_Singleton
  <2>2. 1 \in Nat \ {0}
    OBVIOUS
  <2> QED BY <2>1, <2>2 DEF S!Init
<1>2. bundle # Nil => S!IsNamed(bundle)
  BY <1>1, SigningJobFacts DEF S!IsSigningJob
<1>3. S!BundlesStayReadable
  BY <1>1 DEF S!BundlesStayReadable
<1> QED BY <1>1, <1>2, <1>3 DEF SigningInv, S!Concluded

\* A call that fails: the next one begins, or it was the verification and all is over.
LEMMA FailureKeepsInv ==
  ASSUME SigningInv, pc # "done",
         UNCHANGED <<job, content, bundle>>, NEW defect, S!Fail(defect), defect # "verified"
  PROVE  SigningInv'
<1>1. IsFiniteSet({content})
  BY FS_Singleton
<1>2. CASE S!Signing
  <2>1. /\ turn' = turn + 1 /\ pc' = "open" /\ history' = {content} /\ outcome' = outcome
    BY <1>2 DEF S!Fail, S!NextCall
  <2> QED BY <1>1, <2>1 DEF SigningInv, S!BundlesStayReadable, S!Concluded
<1>3. CASE ~S!Signing
  <2>1. pc' = "done" /\ outcome' = defect /\ UNCHANGED <<turn, history>>
    BY <1>3 DEF S!Fail
  <2>2. ~S!Signing'
    BY <1>3, <2>1 DEF S!Signing
  <2> QED BY <2>1, <2>2 DEF SigningInv, S!BundlesStayReadable, S!Concluded
<1> QED BY <1>2, <1>3

\* No defect is called a verdict.
LEMMA DefectsAreNoVerdicts == S!AppendDefect # "verified" /\ S!VerifyDefect # "verified"
<1>1. \A s : S!BundleDefect(s) \in {"none", "INPUT_LIMIT_EXCEEDED", "HEADER_INVALID", "DUPLICATE_KID", "BUNDLE_ORDER_INVALID"}
  BY DEF S!BundleDefect
<1>2. \A s : S!RegistryDefect(s) \in {"none", "INPUT_LIMIT_EXCEEDED", "DUPLICATE_KID", "REGISTRY_INVALID"}
  BY DEF S!RegistryDefect
<1> QED BY <1>1, <1>2 DEF S!AppendDefect, S!VerifyDefect

\* The bundle is opened.
LEMMA OpenKeepsInv == ASSUME SigningInv, S!Open PROVE SigningInv'
<1> DEFINE defect == IF S!Signing THEN S!AppendDefect ELSE S!VerifyDefect
<1>1. CASE defect = "none"
  <2>1. pc' = "validate" /\ UNCHANGED <<turn, history, outcome, job, content, validated, statement, bundle, result>> /\ pc = "open"
    BY <1>1 DEF S!Open
  <2>2. InOrder'
    BY <1>1, <2>1 DEF InOrder, S!Signing, S!AppendDefect, S!VerifyDefect, S!Signer
  <2> QED BY <2>1, <2>2 DEF SigningInv, S!BundlesStayReadable, S!Concluded
<1>2. CASE defect # "none"
  <2>1. S!Fail(defect) /\ UNCHANGED <<job, content, bundle>> /\ pc # "done"
    BY <1>2 DEF S!Open
  <2>2. defect # "verified"
    BY DefectsAreNoVerdicts
  <2> QED BY <2>1, <2>2, FailureKeepsInv
<1> QED BY <1>1, <1>2

\* The package is validated.
LEMMA ValidateKeepsInv == ASSUME SigningInv, S!Validate PROVE SigningInv'
<1>1. CASE content.valid
  <2>1. /\ pc' = "manifest" /\ UNCHANGED <<turn, history, outcome, job, content, statement, bundle, result>>
        /\ pc = "validate" /\ validated' = content
    BY <1>1 DEF S!Validate
  <2>2. InOrder'
    BY <2>1 DEF SigningInv, InOrder, S!Signing, S!AppendDefect, S!VerifyDefect, S!Signer
  <2>3. Examined'
    BY <1>1, <2>1 DEF SigningInv, Examined
  <2> QED BY <2>1, <2>2, <2>3 DEF SigningInv, S!BundlesStayReadable, S!Concluded
<1>2. CASE ~content.valid
  <2>1. S!Fail("PACKAGE_INVALID") /\ UNCHANGED <<job, content, bundle>> /\ pc # "done"
    BY <1>2 DEF S!Validate
  <2> QED BY <2>1, FailureKeepsInv
<1> QED BY <1>1, <1>2

\* Its manifest is read again.
LEMMA ReadManifestKeepsInv == ASSUME SigningInv, S!ReadManifest PROVE SigningInv'
<1>1. /\ pc' = (IF S!Signing THEN "sign" ELSE "verify") /\ UNCHANGED <<turn, history, outcome, job, content, validated, bundle, result>>
      /\ pc = "manifest" /\ statement' = content.manifest
  BY DEF S!ReadManifest
<1>2. InOrder'
  BY <1>1 DEF SigningInv, InOrder, S!Signing, S!AppendDefect, S!VerifyDefect, S!Signer
<1>3. Examined' /\ Stated'
  BY <1>1 DEF SigningInv, Examined, Stated
<1>4. S!Signing' = S!Signing
  BY <1>1 DEF S!Signing
<1> QED BY <1>1, <1>2, <1>3, <1>4 DEF SigningInv, S!BundlesStayReadable, S!Concluded

\* A signature is appended.
LEMMA SignKeepsInv == ASSUME SigningInv, S!Sign PROVE SigningInv'
<1>1. PICK e : e = [kid |-> S!Signer.kid, algorithm |-> "Ed25519", bound |-> statement,
                     secret |-> S!Signer.secret, signed |-> statement]
  OBVIOUS
<1>2. /\ bundle' = S!Ordered(Append(S!Entries, e)) /\ turn' = turn + 1 /\ pc' = "open" /\ history' = {content}
      /\ UNCHANGED <<job, content, outcome>> /\ pc = "sign"
  BY <1>1 DEF S!Sign, S!NextCall
<1>3. S!Signer.kid \in Nat
  <2>1. S!IsNamed(job.signers) /\ turn \in Nat \ {0} /\ turn <= Len(job.signers)
    BY <1>2, SigningJobFacts DEF SigningInv, S!IsSigningJob, S!Signing
  <2>2. turn \in DOMAIN job.signers
    BY <2>1, SequenceFacts DEF S!IsNamed
  <2> QED BY <2>1, <2>2 DEF S!IsNamed, S!Signer
<1>4. S!IsNamed(bundle') /\ S!BundleDefect(bundle') = "none"
  <2>1. (bundle # Nil => S!IsNamed(bundle)) /\ S!AppendDefect = "none"
    BY <1>2 DEF SigningInv, InOrder
  <2>2. e.kid = S!Signer.kid /\ e.kid \in Nat /\ e.algorithm = "Ed25519"
    BY <1>1, <1>3
  <2> QED BY <1>2, <2>1, <2>2, AppendedBundle
<1>5. IsFiniteSet({content})
  BY FS_Singleton
<1> QED BY <1>2, <1>4, <1>5 DEF SigningInv, S!BundlesStayReadable, S!Concluded

\* A verdict depends on the job, the statement and the bundle.
LEMMA VerdictKept ==
  ASSUME UNCHANGED <<job, statement, bundle>> PROVE S!Unsigned' = S!Unsigned /\ S!Verdict(bundle)' = S!Verdict(bundle)
<1>1. \A kid : S!KeyOf(kid)' = S!KeyOf(kid)
  BY DEF S!KeyOf
<1>2. \A e, secret : S!Verifies(e, secret)' <=> S!Verifies(e, secret)
  BY DEF S!Verifies
<1>3. \A e : S!Verification(e)' = S!Verification(e)
  BY <1>1, <1>2 DEF S!Verification
<1>4. S!Verified(bundle)' = S!Verified(bundle)
  BY <1>3 DEF S!Verified, S!Authorized
<1>5. \A chain, instant : S!Chain(chain, instant)' = S!Chain(chain, instant)
  BY DEF S!Chain
<1>6. S!Crls' = S!Crls /\ \A chain : S!Matching(chain)' = S!Matching(chain)
  BY DEF S!Crls, S!Matching
<1>7. \A i, chain : S!IsLatest(i, chain)' <=> S!IsLatest(i, chain)
  BY <1>6 DEF S!IsLatest
<1>8. \A chain, instant : S!CrlStatus(chain, instant)' = S!CrlStatus(chain, instant)
  BY <1>6, <1>7 DEF S!CrlStatus
<1>9. \A token : S!TokenStatus(token)' = S!TokenStatus(token)
  BY <1>5, <1>8 DEF S!TokenStatus
<1>10. S!Archived' <=> S!Archived
  BY <1>9 DEF S!Archived
<1>11. \A kid : S!ConfigOf(kid)' = S!ConfigOf(kid)
  BY DEF S!ConfigOf
<1>12. \A config : S!Lifecycle(config)' = S!Lifecycle(config)
  BY <1>5, <1>8 DEF S!Lifecycle
<1>13. \A e : S!TrustedEntry(e)' <=> S!TrustedEntry(e)
  BY <1>2, <1>5, <1>11, <1>12 DEF S!TrustedEntry
<1>14. S!Countersigned(bundle)' = S!Countersigned(bundle)
  BY <1>5, <1>8 DEF S!Countersigned
<1>15. S!AdvancedVerified(bundle)' = S!AdvancedVerified(bundle)
  BY <1>10, <1>13, <1>14 DEF S!AdvancedVerified
<1> QED BY <1>4, <1>15 DEF S!Unsigned, S!Verdict

\* The signatures are verified.
LEMMA VerifyKeepsInv == ASSUME SigningInv, S!Verify PROVE SigningInv'
<1>1. /\ pc = "verify" /\ pc' = "done" /\ outcome' = "verified"
      /\ result' = (IF bundle = Nil THEN S!Unsigned ELSE S!Verdict(bundle))
      /\ UNCHANGED <<job, content, turn, validated, statement, bundle, history>>
  BY DEF S!Verify
<1>2. InOrder' /\ S!Signing' = S!Signing
  BY <1>1 DEF SigningInv, InOrder, S!Signing, S!AppendDefect, S!VerifyDefect, S!Signer
<1>3. Examined' /\ Stated'
  BY <1>1 DEF SigningInv, Examined, Stated
<1>4. Judged'
  <2>1. UNCHANGED <<job, statement, bundle>>
    BY <1>1
  <2>2. result' = IF bundle' = Nil THEN S!Unsigned' ELSE S!Verdict(bundle)'
    BY <1>1, <2>1, VerdictKept
  <2> QED BY <2>2 DEF Judged
<1> QED BY <1>1, <1>2, <1>3, <1>4 DEF SigningInv, S!BundlesStayReadable, S!Concluded

\* The package is replaced.
LEMMA ReplaceKeepsInv == ASSUME SigningInv, NEW new, S!Replace(new) PROVE SigningInv'
<1>1. /\ pc # "done" /\ content' = new /\ history' = history \cup {new}
      /\ UNCHANGED <<job, pc, turn, validated, statement, bundle, result, outcome>>
  BY DEF S!Replace
<1>2. IsFiniteSet(history \cup {new})
  BY FS_AddElement DEF SigningInv
<1>3. InOrder' = InOrder /\ S!Signing' = S!Signing
  BY <1>1 DEF InOrder, S!Signing, S!AppendDefect, S!VerifyDefect, S!Signer
<1>4. (Examined => Examined') /\ (Stated => Stated')
  BY <1>1 DEF Examined, Stated
<1> QED BY <1>1, <1>2, <1>3, <1>4 DEF SigningInv, S!BundlesStayReadable, S!Concluded

\* The invariant holds of every reachable state of a signing or verifying call.
THEOREM SigningInvariant == Spec => [](command = "sign" => SigningInv)
<1>1. Init => (command = "sign" => SigningInv)
  BY SigningInvInit DEF Init, Component
<1>2. (command = "sign" => SigningInv) /\ [Next]_vars => (command = "sign" => SigningInv)'
  <2> SUFFICES ASSUME command = "sign" => SigningInv, [Next]_vars, command' = "sign" PROVE SigningInv'
    OBVIOUS
  <2>1. SigningInv /\ [S!Next]_(S!vars)
    BY StepIsOfComponent
  <2>2. ASSUME UNCHANGED S!vars PROVE SigningInv'
    <3>1. UNCHANGED <<job, pc, content, turn, validated, statement, bundle, history, result, outcome>>
      BY <2>2 DEF S!vars, S!ledger
    <3>2. InOrder' = InOrder /\ S!Signing' = S!Signing
      BY <3>1 DEF InOrder, S!Signing, S!AppendDefect, S!VerifyDefect, S!Signer
    <3>3. (Examined => Examined') /\ (Stated => Stated')
      BY <3>1 DEF Examined, Stated
    <3>4. Judged' = Judged
      BY <3>1, VerdictKept DEF Judged
    <3> QED BY <2>1, <3>1, <3>2, <3>3, <3>4 DEF SigningInv, S!BundlesStayReadable, S!Concluded
  <2> QED
    BY <2>1, <2>2, OpenKeepsInv, ValidateKeepsInv, ReadManifestKeepsInv, SignKeepsInv, VerifyKeepsInv, ReplaceKeepsInv
    DEF S!Next
<1> QED BY <1>1, <1>2, PTL DEF Spec

(***************************************************************************)
(* What a verdict says.                                                    *)
(***************************************************************************)
\* When a verdict is reached the registry and the bundle have been found in order.
LEMMA VerdictIsInOrder ==
  ASSUME SigningInv, S!Concluded
  PROVE  /\ S!IsSigningJob(job) /\ InOrder /\ Examined /\ Stated /\ Judged
         /\ job.mode = "basic" => ~S!Duplicated(job.keys)
         /\ bundle # Nil => S!IsNamed(bundle) /\ S!BundleDefect(bundle) = "none"
<1>1. pc = "done" /\ ~S!Signing /\ InOrder
  BY DEF SigningInv, S!Concluded
<1>2. S!VerifyDefect = "none"
  BY <1>1 DEF InOrder
<1>3. job.mode = "basic" => S!RegistryDefect(job.keys) = "none"
  BY <1>2 DEF S!VerifyDefect
<1>4. job.mode = "basic" => ~S!Duplicated(job.keys)
  BY <1>3 DEF S!RegistryDefect
<1>5. bundle # Nil => S!BundleDefect(bundle) = "none"
  BY <1>2, <1>3 DEF S!VerifyDefect
<1> QED BY <1>1, <1>4, <1>5, SigningJobFacts DEF SigningInv

\* The key of a name in a registry in order is the only one with that name.
LEMMA KeyIs ==
  ASSUME S!IsSigningJob(job), ~S!Duplicated(job.keys), NEW k \in S!Range(job.keys)
  PROVE  S!KeyOf(k.kid) = k /\ k.kid \in S!Kids(job.keys) /\ S!IsKey(k)
<1>1. PICK i \in DOMAIN job.keys : k = job.keys[i]
  BY DEF S!Range
<1>2. S!IsSequence(job.keys)
  BY DEF S!IsSigningJob, S!IsNamed
<1>3. \A j \in DOMAIN job.keys : job.keys[j].kid = k.kid => job.keys[j] = k
  BY <1>1, <1>2, NamedOnce
<1>4. \A x \in S!Range(job.keys) : x.kid = k.kid => x = k
  BY <1>3 DEF S!Range
<1> QED BY <1>1, <1>4 DEF S!KeyOf, S!Kids, S!IsSigningJob

\* Who counts in the verification of a bundle with keys.
LEMMA BasicCounted ==
  ASSUME NEW b
  PROVE  S!Verified(b).counted =
           {b[i].kid : i \in {k \in DOMAIN b : S!Verification(b[k]).crypto = "valid"
                                                /\ S!Verification(b[k]).evaluation = S!AuthorizedEvaluation}}
BY DEF S!Verified, S!Authorized

\* ... and with certificates, with the countersignatures that are reported.
LEMMA AdvancedCounted ==
  ASSUME NEW b
  PROVE  /\ S!AdvancedVerified(b).counted = {b[i].kid : i \in {k \in DOMAIN b : S!TrustedEntry(b[k])}}
         /\ S!AdvancedVerified(b).countersigned = S!Countersigned(b)
BY DEF S!AdvancedVerified

\* An entry that counts with a key was made with it over the statement that is verified, and the key's evaluation authorises it.
LEMMA BasicEntry ==
  ASSUME NEW e, S!Verification(e).crypto = "valid"
  PROVE  /\ e.bound = statement /\ e.kid \in S!Kids(job.keys)
         /\ e.secret = S!KeyOf(e.kid).secret /\ e.signed = statement
         /\ S!Verification(e).evaluation =
              IF job.policy = Nil THEN S!NotEvaluated ELSE S!KeyEvaluation(S!KeyOf(e.kid), job.policy)
<1>1. e.bound = statement
  BY DEF S!Verification
<1>2. e.kid \in S!Kids(job.keys)
  BY <1>1 DEF S!Verification
<1>3. S!Verifies(e, S!KeyOf(e.kid).secret)
  BY <1>1, <1>2 DEF S!Verification
<1>4. S!Verification(e).evaluation =
        IF job.policy = Nil THEN S!NotEvaluated ELSE S!KeyEvaluation(S!KeyOf(e.kid), job.policy)
  BY <1>1, <1>2 DEF S!Verification
<1> QED BY <1>1, <1>2, <1>3, <1>4 DEF S!Verifies

\* A verdict is about the package as it was while it was verified.
LEMMA VerdictAboutPackage == ASSUME SigningInv PROVE S!VerdictIsAboutThisPackage
<1> SUFFICES ASSUME S!Concluded PROVE S!VerdictIsAboutThisPackage
  BY DEF S!VerdictIsAboutThisPackage
<1>1. /\ S!IsSigningJob(job) /\ Examined /\ Stated /\ Judged
      /\ job.mode = "basic" => ~S!Duplicated(job.keys)
  BY VerdictIsInOrder
<1>2. S!Cardinality(history) = 1 => \A c \in history : c.valid
  <2> SUFFICES ASSUME Cardinality(history) = 1 PROVE \A c \in history : c.valid
    BY Counting
  <2>1. IsFiniteSet(history)
    BY DEF SigningInv
  <2>2. PICK x : history = {x}
    BY <2>1, FS_Singleton
  <2> QED BY <1>1, <2>2 DEF Examined
<1>3. CASE bundle = Nil
  <2>1. result.counted = {} /\ S!Entries = <<>>
    BY <1>1, <1>3 DEF Judged, S!Unsigned, S!Entries
  <2> QED BY <1>1, <1>2, <2>1 DEF S!VerdictIsAboutThisPackage, S!SignedBy, Stated
<1>4. CASE bundle # Nil
  <2>1. S!Entries = bundle /\ result = S!Verdict(bundle)
    BY <1>1, <1>4 DEF Judged, S!Entries
  <2>2. \A kid \in result.counted : \E secret \in S!Secrets : S!SignedBy(kid, secret, statement)
    <3> SUFFICES ASSUME NEW kid \in result.counted PROVE \E secret \in S!Secrets : S!SignedBy(kid, secret, statement)
      OBVIOUS
    <3>1. CASE job.mode = "basic"
      <4>1. PICK i \in DOMAIN bundle : bundle[i].kid = kid /\ S!Verification(bundle[i]).crypto = "valid"
        BY <2>1, <3>1, BasicCounted DEF S!Verdict
      <4>2. bundle[i].bound = statement /\ bundle[i].signed = statement
        BY <4>1, BasicEntry
      <4> QED BY <2>1, <4>1, <4>2 DEF S!Secrets, S!SignedBy
    <3>2. CASE job.mode # "basic"
      <4>1. PICK i \in DOMAIN bundle : bundle[i].kid = kid /\ S!TrustedEntry(bundle[i])
        BY <2>1, <3>2, AdvancedCounted DEF S!Verdict
      <4>2. bundle[i].bound = statement /\ bundle[i].signed = statement
        BY <4>1 DEF S!TrustedEntry, S!Verifies
      <4> QED BY <2>1, <4>1, <4>2 DEF S!Secrets, S!SignedBy
    <3> QED BY <3>1, <3>2
  <2>3. ASSUME job.mode = "basic", job.policy # Nil, NEW k \in S!Range(job.keys),
               S!KeyEvaluation(k, job.policy) = S!AuthorizedEvaluation, S!SignedBy(k.kid, k.secret, statement)
        PROVE  k.kid \in result.counted
    <3>1. PICK i \in DOMAIN bundle :
             bundle[i].kid = k.kid /\ bundle[i].secret = k.secret /\ bundle[i].bound = statement /\ bundle[i].signed = statement
      BY <2>1, <2>3 DEF S!SignedBy
    <3>2. S!KeyOf(k.kid) = k /\ k.kid \in S!Kids(job.keys)
      BY <1>1, <2>3, KeyIs
    <3>3. S!Verifies(bundle[i], k.secret)
      BY <3>1 DEF S!Verifies
    <3>4. S!Verification(bundle[i]).crypto = "valid" /\ S!Verification(bundle[i]).evaluation = S!AuthorizedEvaluation
      BY <2>3, <3>1, <3>2, <3>3 DEF S!Verification
    <3>5. result.counted = S!Verified(bundle).counted
      BY <2>1, <2>3 DEF S!Verdict
    <3> QED BY <3>1, <3>4, <3>5, BasicCounted
  <2> QED BY <1>1, <1>2, <2>2, <2>3 DEF S!VerdictIsAboutThisPackage, Stated
<1> QED BY <1>3, <1>4

\* A key whose evaluation authorises it could sign at the time of the policy.
LEMMA KeyCouldSign ==
  ASSUME NEW k, S!IsKey(k), NEW policy, policy.time \in Nat, S!KeyEvaluation(k, policy) = S!AuthorizedEvaluation
  PROVE  /\ k.from <= policy.time /\ policy.time < k.until
         /\ k.revokedAt # Nil => policy.time < k.revokedAt
         /\ k.revocation # "unknown"
<1>1. S!KeyStatus(k, policy.time) = "valid"
  BY DEF S!KeyEvaluation, S!AuthorizedEvaluation
<1>2. k.from \in Nat /\ k.until \in Nat /\ (k.revokedAt # Nil => k.revokedAt \in Nat /\ k.revocation = "revoked")
  BY DEF S!IsKey
<1>3. ~(policy.time < k.from) /\ ~(policy.time >= k.until)
  BY <1>1, <1>2 DEF S!KeyStatus
<1>4. policy.time >= k.from /\ policy.time < k.until
  BY <1>2, <1>3
<1>5. k.revocation # "unknown"
  BY <1>1, <1>3, <1>4 DEF S!KeyStatus
<1>6. k.revocation = "revoked" => ~(policy.time >= k.revokedAt)
  BY <1>1, <1>3, <1>4 DEF S!KeyStatus
<1> QED BY <1>2, <1>4, <1>5, <1>6

\* A certificate that counts was valid at the time of the policy, and the latest list of its issuer does not revoke it then.
LEMMA CertificateCouldSign ==
  ASSUME S!IsSigningJob(job), job.mode = "advanced", NEW e, S!TrustedEntry(e),
         NEW s \in job.policy.signers, s.kid = e.kid
  PROVE  /\ s.chain.from <= job.policy.time /\ job.policy.time < s.chain.until
         /\ \A i \in S!Matching(s.chain) : S!IsLatest(i, s.chain) =>
              \A r \in S!Crls[i].revoked : r.serial = s.chain.serial => r.date > job.policy.time
<1>1. S!IsTrustPolicy(job.policy) /\ job.policy.time \in Nat
  BY DEF S!IsSigningJob
<1>2. S!ConfigOf(e.kid) = s
  BY <1>1 DEF S!ConfigOf, S!IsTrustPolicy
<1>3. S!Lifecycle(s) = "valid" /\ S!Chain(s.chain, job.policy.time).valid
  BY <1>2 DEF S!TrustedEntry
<1>4. PICK status : status = S!CrlStatus(s.chain, job.policy.time)
  OBVIOUS
<1>5. status \in {"unknown_status", "good", "revoked"}
  BY <1>4 DEF S!CrlStatus
<1>6. S!Chain(s.chain, job.policy.time).lifecycle = "valid" /\ status = "good"
  BY <1>3, <1>4, <1>5 DEF S!Lifecycle
<1>7. s.chain.from \in Nat /\ s.chain.until \in Nat
  BY <1>1 DEF S!IsTrustPolicy
<1>8. ~(job.policy.time < s.chain.from) /\ ~(job.policy.time >= s.chain.until)
  BY <1>6 DEF S!Chain
<1>9. ASSUME NEW i \in S!Matching(s.chain), S!IsLatest(i, s.chain),
             NEW r \in S!Crls[i].revoked, r.serial = s.chain.serial
      PROVE  r.date > job.policy.time
  <2>1. PICK k : k = CHOOSE j \in S!Matching(s.chain) : S!IsLatest(j, s.chain)
    OBVIOUS
  <2>2. k \in S!Matching(s.chain) /\ S!IsLatest(k, s.chain)
    BY <1>9, <2>1
  <2>3. i \in DOMAIN S!Crls /\ k \in DOMAIN S!Crls
    BY <1>9, <2>2 DEF S!Matching
  <2>4. i \in Nat /\ k \in Nat /\ S!Crls[i].last \in Nat /\ S!Crls[k].last \in Nat /\ r.date \in Nat
    BY <1>1, <1>9, <2>3, SequenceFacts DEF S!IsTrustPolicy, S!Crls
  <2>5. S!Crls[k].last < S!Crls[i].last \/ (S!Crls[k].last = S!Crls[i].last /\ i <= k)
    BY <1>9, <2>2 DEF S!IsLatest
  <2>6. S!Crls[i].last < S!Crls[k].last \/ (S!Crls[i].last = S!Crls[k].last /\ k <= i)
    BY <1>9, <2>2 DEF S!IsLatest
  <2>7. k = i
    BY <2>4, <2>5, <2>6
  <2>8. {x \in S!Crls[i].revoked : x.serial = s.chain.serial /\ x.date <= job.policy.time} = {}
    BY <1>4, <1>6, <1>9, <2>1, <2>7 DEF S!CrlStatus
  <2>9. ~(r.date <= job.policy.time)
    BY <1>9, <2>8
  <2> QED BY <1>1, <2>4, <2>9
<1> QED BY <1>1, <1>7, <1>8, <1>9

\* A verdict that the policy is satisfied counts as many as it asks for.
LEMMA SatisfiedByAsMany ==
  ASSUME NEW b
  PROVE  S!Verdict(b).satisfied =>
           /\ job.mode = "basic" => job.policy # Nil
           /\ Cardinality(S!Verdict(b).counted) >= job.policy.minimum
BY Counting DEF S!Verdict, S!Verified, S!AdvancedVerified

\* Who counts in a part of a bundle counts in all of it.
LEMMA CountedStay ==
  ASSUME NEW b, S!IsSequence(b), NEW n \in 0..Len(b)
  PROVE  /\ S!Verdict(SubSeq(b, 1, n)).counted \subseteq S!Verdict(b).counted
         /\ IsFiniteSet(S!Verdict(b).counted)
         /\ Cardinality(S!Verdict(SubSeq(b, 1, n)).counted) \in Nat
         /\ Cardinality(S!Verdict(b).counted) \in Nat
         /\ Cardinality(S!Verdict(SubSeq(b, 1, n)).counted) <= Cardinality(S!Verdict(b).counted)
<1>1. PICK part : part = SubSeq(b, 1, n)
  OBVIOUS
<1>2. Len(b) \in Nat /\ DOMAIN b = 1..Len(b) /\ b \in Seq(S!Range(b))
  BY SequenceFacts DEF S!IsSequence
<1>3. DOMAIN part = 1..n /\ \A i \in 1..n : part[i] = b[i]
  BY <1>1, <1>2
<1>4. S!Verdict(part).counted \subseteq S!Verdict(b).counted
  <2>1. CASE job.mode = "basic"
    <3>1. S!Verified(part).counted \subseteq S!Verified(b).counted
      BY <1>2, <1>3, BasicCounted
    <3> QED BY <2>1, <3>1 DEF S!Verdict
  <2>2. CASE job.mode # "basic"
    <3>1. S!AdvancedVerified(part).counted \subseteq S!AdvancedVerified(b).counted
      BY <1>2, <1>3, AdvancedCounted
    <3> QED BY <2>2, <3>1 DEF S!Verdict
  <2> QED BY <2>1, <2>2
<1>5. S!Verdict(b).counted \subseteq S!Kids(b)
  BY BasicCounted, AdvancedCounted DEF S!Verdict, S!Kids
<1>6. IsFiniteSet(S!Kids(b))
  BY NamedOnce
<1>7. IsFiniteSet(S!Verdict(b).counted) /\ IsFiniteSet(S!Verdict(part).counted)
  BY <1>4, <1>5, <1>6, FS_Subset
<1>8. Cardinality(S!Verdict(part).counted) <= Cardinality(S!Verdict(b).counted)
  BY <1>4, <1>7, FS_Subset
<1>9. Cardinality(S!Verdict(part).counted) \in Nat /\ Cardinality(S!Verdict(b).counted) \in Nat
  BY <1>7, FS_CardinalityType
<1> QED BY <1>1, <1>4, <1>7, <1>8, <1>9

\* A further signature does not unmake a verdict.
LEMMA SatisfiedStays ==
  ASSUME S!IsSigningJob(job), NEW b, S!IsSequence(b), NEW n \in 0..Len(b), S!Verdict(SubSeq(b, 1, n)).satisfied
  PROVE  S!Verdict(b).satisfied
<1>1. PICK part : part = SubSeq(b, 1, n)
  OBVIOUS
<1>2. /\ S!Verdict(part).satisfied
      /\ S!Verdict(part).counted \subseteq S!Verdict(b).counted
      /\ Cardinality(S!Verdict(part).counted) \in Nat
      /\ Cardinality(S!Verdict(b).counted) \in Nat
      /\ Cardinality(S!Verdict(part).counted) <= Cardinality(S!Verdict(b).counted)
  BY <1>1, CountedStay
<1>3. job.policy # Nil /\ job.policy.minimum \in Nat /\ Cardinality(S!Verdict(part).counted) >= job.policy.minimum
  BY <1>2, SatisfiedByAsMany DEF S!IsSigningJob
<1>4. Cardinality(S!Verdict(b).counted) >= job.policy.minimum
  BY <1>2, <1>3
<1>5. CASE job.mode = "basic"
  BY <1>3, <1>4, <1>5, Counting DEF S!Verdict, S!Verified
<1>6. CASE job.mode # "basic"
  <2>1. job.policy.archival => S!Verdict(part).counted # {} /\ S!Archived
    BY <1>2, <1>6 DEF S!Verdict, S!AdvancedVerified
  <2>2. job.policy.archival => S!Verdict(b).counted # {} /\ S!Archived
    BY <1>2, <2>1
  <2> QED BY <1>4, <1>6, <2>2, Counting DEF S!Verdict, S!AdvancedVerified
<1> QED BY <1>5, <1>6

\* A counted signer could sign then, a countersignature is by somebody else, and a verdict is not undone.
LEMMA CountedCould == ASSUME SigningInv PROVE S!CountedCouldSign
<1> SUFFICES ASSUME S!Concluded, bundle # Nil PROVE S!CountedCouldSign
  BY DEF S!CountedCouldSign
<1>1. /\ S!IsSigningJob(job) /\ result = S!Verdict(bundle) /\ S!IsNamed(bundle)
      /\ job.mode = "basic" => ~S!Duplicated(job.keys)
  BY VerdictIsInOrder DEF Judged
<1>2. S!IsSequence(bundle)
  BY <1>1 DEF S!IsNamed
<1>3. result.satisfied => S!Cardinality(result.counted) >= job.policy.minimum
  BY <1>1, SatisfiedByAsMany, Counting
<1>4. ASSUME job.mode = "basic", NEW k \in S!Range(job.keys), k.kid \in result.counted
      PROVE  /\ k.from <= job.policy.time /\ job.policy.time < k.until
             /\ k.revokedAt # Nil => job.policy.time < k.revokedAt
             /\ k.revocation # "unknown"
  <2>1. PICK i \in DOMAIN bundle : /\ bundle[i].kid = k.kid /\ S!Verification(bundle[i]).crypto = "valid"
                                   /\ S!Verification(bundle[i]).evaluation = S!AuthorizedEvaluation
    BY <1>1, <1>4, BasicCounted DEF S!Verdict
  <2>2. S!KeyOf(k.kid) = k /\ S!IsKey(k)
    BY <1>1, <1>4, KeyIs
  <2>3. S!AuthorizedEvaluation = IF job.policy = Nil THEN S!NotEvaluated ELSE S!KeyEvaluation(k, job.policy)
    BY <2>1, <2>2, BasicEntry
  <2>4. job.policy # Nil
    BY <2>3 DEF S!AuthorizedEvaluation, S!NotEvaluated
  <2>5. job.policy.time \in Nat /\ S!KeyEvaluation(k, job.policy) = S!AuthorizedEvaluation
    BY <1>1, <2>3, <2>4 DEF S!IsSigningJob
  <2> QED BY <2>2, <2>5, KeyCouldSign
<1>5. ASSUME job.mode = "advanced", NEW s \in job.policy.signers, s.kid \in result.counted
      PROVE  /\ s.chain.from <= job.policy.time /\ job.policy.time < s.chain.until
             /\ \A i \in S!Matching(s.chain) : S!IsLatest(i, s.chain) =>
                  \A r \in S!Crls[i].revoked : r.serial = s.chain.serial => r.date > job.policy.time
  <2>1. PICK i \in DOMAIN bundle : bundle[i].kid = s.kid /\ S!TrustedEntry(bundle[i])
    BY <1>1, <1>5, AdvancedCounted DEF S!Verdict
  <2> QED BY <1>1, <1>5, <2>1, CertificateCouldSign
<1>6. ASSUME job.mode = "advanced", NEW c \in result.countersigned
      PROVE  /\ \E i \in DOMAIN bundle : bundle[i] = c.target
             /\ S!KeysAreNamedOnce => \A s \in job.policy.signers : s.kid = c.target.kid => s.chain.secret # c.secret
  <2>1. c \in S!Countersigned(bundle)
    BY <1>1, <1>6, AdvancedCounted DEF S!Verdict
  <2>2. c.target \in S!Range(bundle) /\ c.kid # c.target.kid
    BY <2>1 DEF S!Countersigned
  <2>3. PICK a \in job.policy.authorities : a.kid = c.kid /\ c.secret = a.chain.secret
    BY <2>1 DEF S!Countersigned
  <2> QED BY <2>2, <2>3 DEF S!Range, S!KeysAreNamedOnce
<1>7. ASSUME NEW n \in 0..Len(bundle), S!Verdict(SubSeq(bundle, 1, n)).satisfied PROVE result.satisfied
  BY <1>1, <1>2, <1>7, SatisfiedStays
<1> QED BY <1>3, <1>4, <1>5, <1>6, <1>7 DEF S!CountedCouldSign

\* A verdict on signatures is about the package at its path, counts only those who could sign it then, and is not undone by a
\* further signature; a bundle that was written can be read.
THEOREM SignaturesAreCounted == Spec => []SignaturesCount
<1>1. (command = "sign" => SigningInv) => SignaturesCount
  BY VerdictAboutPackage, CountedCould DEF SignaturesCount, SigningInv
<1> QED BY SigningInvariant, <1>1, PTL

(***************************************************************************)
(* Ingests.  What each adapter ends with, and why.                         *)
(***************************************************************************)
\* Of a raster: every diagnostic has an identifier until the vision result is mapped, and then, unless it
\* was rejected or has no candidate.
Rejected == job.vision # Nil /\ (verdicts.vision = "rejected" \/ job.vision.candidates = <<>>)
Identified == \A d \in Items(diagnostics) : "id" \in DOMAIN d
RasterInv ==
  /\ IsList(diagnostics)
  /\ verdicts = [ocr |-> verdicts.ocr, vision |-> verdicts.vision]
  /\ pc \in {"arguments", "ocr", "vision"} => Identified
  /\ Identified \/ Rejected
  /\ outcome \in {"running", "refused", "written", "KeyError"}
  /\ pc # "done" => outcome = "running"
  /\ outcome = "KeyError" => Rejected

\* A step of the raster adapters keeps this.
LEMMA RasterKeeps == ASSUME RasterInv, [R!Next]_(R!vars) PROVE RasterInv'
<1> USE Short
<1>1. CASE UNCHANGED R!vars \/ R!Refuse
  BY <1>1 DEF RasterInv, Identified, Rejected, R!vars, R!Refuse, R!Stop
<1>2. CASE R!Extract
  BY <1>2 DEF RasterInv, Identified, Rejected, R!Extract, R!Goto
<1>3. CASE R!MapOcr
  <2>1. /\ UNCHANGED <<job, outcome>> /\ pc = "ocr"
        /\ verdicts' = [verdicts EXCEPT !.ocr = R!OcrVerdict(job)]
        /\ diagnostics' = diagnostics \/ diagnostics' = diagnostics \o R!OcrDiagnostics(job)
    BY <1>3 DEF R!MapOcr, R!Goto
  <2>2. verdicts'.vision = verdicts.vision /\ verdicts' = [ocr |-> verdicts'.ocr, vision |-> verdicts'.vision]
    BY <2>1 DEF RasterInv
  <2>3. IsList(R!OcrDiagnostics(job)) /\ \A d \in Items(R!OcrDiagnostics(job)) : "id" \in DOMAIN d
    <3>1. PICK first : first = IF R!OcrPrimitives(job) = <<>>
                               THEN <<R!Diagnostic(<<"diag_ocr", R!Target(job, job.ocr), "OCR_NO_TEXT_DETECTED">>, "OCR_NO_TEXT_DETECTED",
                                                   {R!Raster(R!Target(job, job.ocr)[1], R!Target(job, job.ocr)[2])})>>
                               ELSE <<>>
      OBVIOUS
    <3>2. PICK second : second = IF R!NativeText(job) \in {Nil, job.ocr.text} THEN <<>>
                                 ELSE <<R!Diagnostic(<<"diag_ocr", R!Target(job, job.ocr), "OCR_NATIVE_TEXT_CONFLICT">>,
                                                     "OCR_NATIVE_TEXT_CONFLICT",
                                                     {R!Native(R!Target(job, job.ocr)[1])} \cup R!Names(R!OcrPrimitives(job)))>>
      OBVIOUS
    <3>3. R!OcrDiagnostics(job) = first \o second
      BY <3>1, <3>2 DEF R!OcrDiagnostics
    <3>4. IsList(first) /\ IsList(second)
      BY <3>1, <3>2
    <3>5. \A d \in Items(first) \cup Items(second) : "id" \in DOMAIN d
      BY <3>1, <3>2 DEF R!Diagnostic
    <3> QED BY <3>3, <3>4, <3>5, Joined
  <2>4. IsList(diagnostics') /\ Identified'
    <3>1. CASE diagnostics' = diagnostics
      BY <2>1, <3>1 DEF RasterInv, Identified
    <3>2. CASE diagnostics' = diagnostics \o R!OcrDiagnostics(job)
      <4>1. IsList(diagnostics') /\ Items(diagnostics') = Items(diagnostics) \cup Items(R!OcrDiagnostics(job))
        BY <2>3, <3>2, Joined DEF RasterInv
      <4> QED BY <2>1, <2>3, <4>1 DEF RasterInv, Identified
    <3> QED BY <2>1, <3>1, <3>2
  <2> QED BY <1>3, <2>1, <2>2, <2>4 DEF RasterInv, Rejected, R!MapOcr, R!Goto
<1>4. CASE R!MapVision
  <2>1. PICK more : more = R!VisionDiagnostics(job, R!VisionVerdict(job))
    OBVIOUS
  <2>2. /\ UNCHANGED <<job, outcome>> /\ pc = "vision" /\ pc' = "losses"
        /\ verdicts' = [verdicts EXCEPT !.vision = R!VisionVerdict(job)]
        /\ diagnostics' = diagnostics \o more
    BY <1>4, <2>1 DEF R!MapVision, R!Goto
  <2>3. verdicts'.vision = R!VisionVerdict(job) /\ verdicts' = [ocr |-> verdicts'.ocr, vision |-> verdicts'.vision]
    BY <2>2 DEF RasterInv
  <2>4. /\ R!VisionVerdict(job) \in {"rejected", "accepted"} => job.vision # Nil
        /\ IsList(more)
        /\ R!VisionVerdict(job) = "rejected" \/ (R!VisionVerdict(job) = "accepted" /\ job.vision.candidates = <<>>) \/ Items(more) = {}
    BY <2>1 DEF R!VisionDiagnostics, R!VisionVerdict
  <2>5. IsList(diagnostics') /\ Items(diagnostics') = Items(diagnostics) \cup Items(more)
    BY <2>2, <2>4, Joined DEF RasterInv
  <2>6. Identified' \/ Rejected'
    BY <2>2, <2>3, <2>4, <2>5 DEF RasterInv, Identified, Rejected
  <2>7. outcome' # "KeyError" \/ Rejected'
    BY <2>2 DEF RasterInv
  <2> QED BY <2>2, <2>3, <2>5, <2>6, <2>7 DEF RasterInv
<1>5. CASE R!Declare
  <2>1. /\ UNCHANGED <<job, verdicts, outcome>> /\ pc = "losses" /\ pc' = "sort"
        /\ diagnostics' = R!Losses(job, verdicts.ocr) \o diagnostics
                          \o (IF verdicts.ocr \in {"absent", "accepted"} THEN <<>> ELSE <<R!Rejection(verdicts.ocr)>>)
    BY <1>5 DEF R!Declare, R!Goto
  <2>2. PICK before : before = R!Losses(job, verdicts.ocr)
    OBVIOUS
  <2>3. PICK after : after = IF verdicts.ocr \in {"absent", "accepted"} THEN <<>> ELSE <<R!Rejection(verdicts.ocr)>>
    OBVIOUS
  <2>4. IsList(before) /\ \A d \in Items(before) : "id" \in DOMAIN d
    <3>1. PICK first : first = <<R!Loss("3d_geometry", "HIDDEN_GEOMETRY_UNSUPPORTED")>>
      OBVIOUS
    <3>2. PICK second : second = IF R!TextLevel(job, verdicts.ocr) = "full" THEN <<>>
                                 ELSE <<R!Loss("text", R!TextReason(verdicts.ocr))>>
      OBVIOUS
    <3>3. before = first \o second
      BY <2>2, <3>1, <3>2 DEF R!Losses
    <3>4. IsList(first) /\ IsList(second)
      BY <3>1, <3>2
    <3>5. \A d \in Items(first) \cup Items(second) : "id" \in DOMAIN d
      BY <3>1, <3>2 DEF R!Loss, R!Diagnostic
    <3> QED BY <3>3, <3>4, <3>5, Joined
  <2>5. IsList(after) /\ \A d \in Items(after) : "id" \in DOMAIN d
    BY <2>3 DEF R!Rejection, R!Diagnostic
  <2>6. IsList(before \o diagnostics) /\ Items(before \o diagnostics) = Items(before) \cup Items(diagnostics)
    BY <2>4, Joined DEF RasterInv
  <2>7. /\ diagnostics' = (before \o diagnostics) \o after
        /\ IsList(diagnostics') /\ Items(diagnostics') = Items(before) \cup Items(diagnostics) \cup Items(after)
    BY <2>1, <2>2, <2>3, <2>5, <2>6, Joined
  <2>8. Identified' \/ Rejected'
    BY <2>1, <2>4, <2>5, <2>7 DEF RasterInv, Identified, Rejected
  <2> QED BY <2>1, <2>7, <2>8 DEF RasterInv
<1>6. CASE R!Sort
  <2>1. R!Range(diagnostics) = Items(diagnostics)
    BY DEF R!Range, Items
  <2> QED BY <1>6, <2>1 DEF RasterInv, Identified, Rejected, R!Sort, R!Stop
<1> QED BY <1>1, <1>2, <1>3, <1>4, <1>5, <1>6 DEF R!Next

\* A mesh ends with the library's own exception only for AECCTX 0.1.0, and an exchange format opaquely.
ExchangeInv ==
  /\ outcome = "opaque" => job.version = "0.1.0"
  /\ E!Bundled /\ (pc \in {"members", "events", "records"} \/ outcome \in {"written", "opaque"}) =>
       DOMAIN job.results = {e.path : e \in E!Members}
MeshInv == job \in MeshJobs /\ outcome # "opaque" /\ (outcome = "Exception" => job.version = "0.1.0")
IfcInv == outcome \in {"running", "ValueError", "written"}

(* A list of checks none of which fails with an opaque package or an exception of a library. *)
AreChecks(s) == IsList(s) /\ \A c \in Items(s) : c[2] \notin {"opaque", "Exception"}

\* Two such lists make one, and what fails is none of the two.
LEMMA ChecksJoined == ASSUME NEW s, NEW t, AreChecks(s), AreChecks(t) PROVE AreChecks(s \o t)
BY Joined DEF AreChecks

\* What such a list fails with is neither an opaque package nor an exception of a library.
LEMMA ChecksFail ==
  ASSUME NEW s, AreChecks(s) PROVE {E!FirstFailure(s), G!FirstFailure(s)} \cap {"opaque", "Exception"} = {}
<1>1. PICK codes : codes = {c[2] : c \in Items(s)}
  OBVIOUS
<1>2. \A c \in Items(s) : c[2] \in codes
  BY <1>1
<1>3. E!FirstFailure(s) \in codes \cup {"accepted"} /\ G!FirstFailure(s) \in codes \cup {"accepted"}
  BY <1>2, FailureIs DEF AreChecks
<1>4. \A x \in codes : x \notin {"opaque", "Exception"}
  BY <1>1 DEF AreChecks
<1> QED BY <1>3, <1>4

\* A step of the exchange adapters keeps this.
LEMMA ExchangeKeeps == ASSUME ExchangeInv, [E!Next]_(E!vars) PROVE ExchangeInv'
<1> USE DEF ExchangeInv, E!Stop
<1>6. ASSUME job' = job PROVE E!Bundled' = E!Bundled /\ E!Members' = E!Members
  BY <1>6 DEF E!Bundled, E!Members
<1>1. CASE UNCHANGED E!vars \/ E!Refuse \/ E!Begin \/ E!Write
  <2>1. job' = job /\ (UNCHANGED <<pc, outcome>> \/ E!Refuse \/ E!Begin \/ E!Write)
    BY <1>1 DEF E!vars, E!Refuse, E!Begin, E!Write
  <2>2. CASE UNCHANGED <<pc, outcome>>
    BY <2>1, <2>2, <1>6
  <2>3. CASE E!Refuse
    BY <2>1, <2>3, <1>6 DEF E!Refuse, E!Bundled
  <2>4. CASE E!Begin
    BY <2>1, <2>4, <1>6 DEF E!Begin
  <2>5. CASE E!Write
    BY <2>1, <2>5, <1>6 DEF E!Write
  <2> QED BY <2>1, <2>2, <2>3, <2>4, <2>5
<1>2. ASSUME NEW res PROVE AreChecks(E!DwgChecks(res))
  BY Short DEF E!DwgChecks, AreChecks
<1>3. ASSUME NEW res PROVE AreChecks(E!StepChecks(res))
  <2>1. PICK roots : roots = E!Succeeded(res.roots)
    OBVIOUS
  <2>2. PICK complete : complete = (res.expanded => res.complete = ({k \in DOMAIN res.roots : res.roots[k].status = "failed"} = {}))
    OBVIOUS
  <2>3. PICK named : named = \A k \in DOMAIN res.items : res.items[k].references \subseteq E!Ids(res.items)
    OBVIOUS
  <2>4. PICK shaped : shaped = \A k \in DOMAIN roots : roots[k].brep
    OBVIOUS
  <2>5. PICK healed : healed = \A k \in DOMAIN roots : roots[k].healed # "same"
    OBVIOUS
  <2>6. E!StepChecks(res) =
          << <<res.ok /\ res.provider = "step", "PROVIDER_RESULT_INVALID">>, <<res.sequential, "EVENT_INVALID">>,
             <<res.expanded \/ Len(res.roots) = 1, "EVENT_INVALID">>, <<roots # <<>>, "EVENT_INVALID">>,
             <<complete, "EVENT_INVALID">>, <<E!UniqueIds(res.items), "EVENT_INVALID">>, <<named, "EVENT_INVALID">>,
             <<shaped, "ARTIFACT_INVALID">>, <<healed, "BREP_INVALID">> >>
    BY <2>1, <2>2, <2>3, <2>4, <2>5 DEF E!StepChecks
  <2> QED BY <2>6, Short DEF AreChecks
<1>4. CASE E!CheckMember
  <2>1. PICK res : res = E!ResultOf(E!NextEntry.path)
    OBVIOUS
  <2>2. PICK last : last = << <<res.input = E!NextEntry.digest, "INPUT_HASH_MISMATCH">> >>
    OBVIOUS
  <2>3. AreChecks(last)
    BY <2>2, Short DEF AreChecks
  <2>4. E!FirstFailure(E!DwgChecks(res) \o last) # "opaque"
    BY <1>2, <2>3, ChecksJoined, ChecksFail
  <2>5. (job' = job /\ pc = "members" /\ outcome' # "opaque") \/ (UNCHANGED <<job, outcome>> /\ pc = "members")
    BY <1>4, <2>1, <2>2, <2>4 DEF E!CheckMember
  <2> QED BY <2>5, <1>6
<1>5. CASE E!CheckEvents
  <2>1. PICK res : res = E!RootResult
    OBVIOUS
  <2>2. PICK last : last = << <<res.input = job.source, "INPUT_HASH_MISMATCH">>, <<res.parses, "CONVERTED_DXF_INVALID">> >>
    OBVIOUS
  <2>3. AreChecks(last)
    BY <2>2, Short DEF AreChecks
  <2>4. E!FirstFailure(E!DwgChecks(res) \o last) # "opaque" /\ E!FirstFailure(E!StepChecks(res)) # "opaque"
    BY <1>2, <1>3, <2>3, ChecksJoined, ChecksFail
  <2>5. (job' = job /\ pc = "events" /\ outcome' # "opaque") \/ (UNCHANGED <<job, outcome>> /\ pc = "events")
    BY <1>5, <2>1, <2>2, <2>4 DEF E!CheckEvents
  <2> QED BY <2>5, <1>6
<1> QED BY <1>1, <1>4, <1>5 DEF E!Next

\* A step of the mesh adapter keeps this.
LEMMA GeometryKeeps == ASSUME MeshInv, [G!Next]_(G!vars) PROVE MeshInv'
<1> USE DEF MeshInv, G!Stop
<1>1. CASE UNCHANGED G!vars \/ G!Write
  BY <1>1 DEF G!vars, G!Write
<1>2. CASE G!Load
  <2>1. PICK first : first = G!ArgumentChecks
    OBVIOUS
  <2>2. PICK second : second = IF job.version = "0.2.0" THEN G!SceneChecks ELSE <<>>
    OBVIOUS
  <2>3. PICK third : third = G!CountChecks
    OBVIOUS
  <2>4. AreChecks(first)
    BY <2>1, Short DEF AreChecks, G!ArgumentChecks
  <2>5. AreChecks(second)
    BY <2>2, Short DEF AreChecks, G!SceneChecks
  <2>6. AreChecks(third)
    BY <2>3, Short DEF AreChecks, G!CountChecks
  <2>7. AreChecks((first \o second) \o third)
    BY <2>4, <2>5, <2>6, ChecksJoined
  <2>8. G!FirstFailure((first \o second) \o third) \notin {"opaque", "Exception"}
    BY <2>7, ChecksFail
  <2> QED BY <1>2, <2>1, <2>2, <2>3, <2>8 DEF G!Load
<1>3. CASE G!Solve
  <2>1. G!FirstFailure(G!RegistryChecks) \notin {"opaque", "Exception"}
    <3>1. AreChecks(G!RegistryChecks)
      BY Short DEF AreChecks, G!RegistryChecks
    <3> QED BY <3>1, ChecksFail
  <2>2. ASSUME job.profile # Nil PROVE G!ProfileVerdict \notin {"opaque", "Exception"}
    <3>1. CASE ~job.profile.valid \/ G!Conflicts # {}
      BY <3>1 DEF G!ProfileVerdict, G!Profile
    <3>2. CASE job.profile.valid /\ G!Conflicts = {}
      <4>1. job.profile.mode \in {"scale", "matrix", "similarity"}
        BY <2>2, <3>2, MeshAssumption DEF G!IsMeshJob
      <4>2. PICK specific : specific = CASE job.profile.mode = "scale" -> << <<job.profile.frame \in {Nil, job.profile.target}, "SCALE_FRAME_MISMATCH">> >>
                               [] job.profile.mode = "matrix" -> << <<job.profile.matrix # "projective", "MATRIX_NOT_AFFINE">> >>
                               [] job.profile.mode = "similarity" -> G!SimilarityChecks
        OBVIOUS
      <4>3. G!ModeChecks = specific \o G!MatrixChecks
        BY <4>1, <4>2 DEF G!ModeChecks, G!Profile
      <4>4. AreChecks(G!MatrixChecks)
        BY Short DEF AreChecks, G!MatrixChecks
      <4>5. AreChecks(specific)
        <5>1. CASE job.profile.mode = "similarity"
          <6>1. specific = G!SimilarityChecks
            BY <4>2, <5>1
          <6> QED BY <6>1, Short DEF AreChecks, G!SimilarityChecks
        <5>2. CASE job.profile.mode \in {"scale", "matrix"}
          BY <4>2, <5>2, Short DEF AreChecks
        <5> QED BY <4>1, <5>1, <5>2
      <4>6. G!FirstFailure(G!ModeChecks) \notin {"opaque", "Exception"}
        BY <4>3, <4>4, <4>5, ChecksJoined, ChecksFail, Zenon
      <4> QED BY <3>2, <4>6 DEF G!ProfileVerdict, G!Profile
    <3> QED BY <3>1, <3>2
  <2> QED BY <1>3, <2>1, <2>2 DEF G!Solve, G!Profile
<1> QED BY <1>1, <1>2, <1>3 DEF G!Next

\* A step of the IFC adapter keeps this.
LEMMA IfcKeeps == ASSUME IfcInv, [I!Next]_(I!vars) PROVE IfcInv'
BY Zenon DEF IfcInv, I!vars, I!Next, I!Refuse, I!Extract, I!Represent, I!Represented, I!Write

(***************************************************************************)
(* main: its tests, the component it calls and the code it exits with.     *)
(***************************************************************************)
Raised == Refusal(call) \in Uncaught
LibraryCause == call.missing # {} \/ call.source.raises
MainInv ==
  /\ stage \in {"main", "running", "exited"} /\ (stage = "main" => command \in Ingests)
  /\ command \in Ingests => job \in JobsOf[command] /\ call \in CallsFor(command, job)
  /\ command = "opaque" => outcome # "opaque"
  /\ stage = "running" /\ command \in Ingests => Refusal(call) = "none"
  /\ stage = "exited" =>
       \/ command \in Ingests /\ Refusal(call) # "none" /\ exit = (IF Raised THEN [code |-> 1, raised |-> TRUE] ELSE [code |-> 2, raised |-> FALSE])
       \/ command \in Ingests /\ Refusal(call) = "none" /\ LibraryCause /\ exit = [code |-> 1, raised |-> TRUE]
       \/ /\ command \in Ingests => Refusal(call) = "none"
          /\ command # "worker" /\ pc = "done" /\ exit = [code |-> IF Escapes THEN 1 ELSE Status, raised |-> Escapes]

\* main begins with it.
LEMMA MainInvInit == ASSUME Init PROVE MainInv
<1>1. command \in Ingests => job \in JobsOf[command] /\ (command = "opaque" => outcome # "opaque")
  BY DEF Init, Component, Opaque, Ingests, JobsOf, R!Init, D!Init, I!Init, E!Init, G!Init
<1> QED BY <1>1 DEF Init, MainInv, Ingests

\* An ingest is of one job and one command line from its beginning to its end.
LEMMA JobKept == ASSUME [Next]_vars, command \in Ingests PROVE UNCHANGED <<command, job, call>>
<1>1. command' = command
  BY StepIsOfComponent
<1>2. CASE UNCHANGED vars \/ Refuse \/ Run \/ Abort \/ Exit \/ IngestOpaque
  BY <1>2 DEF vars, main, Refuse, Run, Abort, Exit, IngestOpaque, Leave
<1>3. CASE Raster
  BY <1>3 DEF Raster, main, R!Next, R!Refuse, R!Extract, R!MapOcr, R!MapVision, R!Declare, R!Sort
<1>4. CASE Dxf
  BY <1>4 DEF Dxf, main, D!Next, D!Step, D!Manifest, D!AdmitMember, D!RejectMember, D!LoadDone, D!HashSource, D!OpenRoot,
              D!RefuseXref, D!OpenXref, D!Return, D!VisitDone, D!WriteRecords, D!Rewrite
<1>5. CASE Ifc
  BY <1>5, Zenon DEF Ifc, main, I!Next, I!Refuse, I!Extract, I!Represent, I!Represented, I!Write
<1>6. CASE Exchange
  BY <1>6 DEF Exchange, main, E!Next, E!Refuse, E!Begin, E!CheckMember, E!CheckEvents, E!Write
<1>7. CASE Geometry
  BY <1>7 DEF Geometry, main, G!Next, G!Load, G!Solve, G!Write
<1>8. CASE SignOrVerify \/ Read \/ Parent \/ Worker
  BY <1>8 DEF SignOrVerify, Read, Parent, Worker, Running, Ingests
<1> QED BY <1>1, <1>2, <1>3, <1>4, <1>5, <1>6, <1>7, <1>8 DEF Next

\* A component that runs leaves main where it is.
LEMMA MainWaits ==
  ASSUME Next, ~(Refuse \/ Run \/ Abort \/ Exit)
  PROVE  UNCHANGED main /\ stage = "running"
BY DEF Next, main, Raster, Dxf, Ifc, Exchange, Geometry, IngestOpaque, SignOrVerify, Read, Parent, Worker, Elsewhere, Running

\* What main exits with follows from what it leaves as it is.
LEMMA StatusKept ==
  ASSUME UNCHANGED <<command, call, job, pc, outcome, result, answer>>
  PROVE  /\ Escapes' = Escapes /\ Status' = Status /\ Raised' = Raised
         /\ LibraryCause' = LibraryCause /\ Refusal(call)' = Refusal(call)
<1>1. Q!SemanticChange(answer)' = Q!SemanticChange(answer)
  OBVIOUS
<1> QED BY <1>1 DEF Escapes, Status, Raised, LibraryCause

\* A step keeps what main has done.
LEMMA MainInvKeeps == ASSUME MainInv, [Next]_vars PROVE MainInv'
<1>1. command' = command /\ (command \in Ingests => UNCHANGED <<job, call>>)
  BY StepIsOfComponent, JobKept
<1>2. CASE UNCHANGED vars \/ Refuse \/ Run \/ Abort \/ Exit
  <2>1. UNCHANGED <<command, call, job, pc, outcome, result, answer>>
    BY <1>2 DEF vars, main, own, signing, reading, Refuse, Run, Abort, Exit, Leave
  <2>2. CallsFor(command, job)' = CallsFor(command, job) /\ JobsOf[command]' = JobsOf[command]
    BY <2>1
  <2>3. CASE UNCHANGED vars
    BY <2>1, <2>2, <2>3, StatusKept DEF MainInv, vars, main
  <2>4. CASE Refuse
    <3>1. stage = "main" /\ stage' = "exited" /\ Refusal(call) # "none" /\ exit' = (IF Raised THEN [code |-> 1, raised |-> TRUE] ELSE [code |-> 2, raised |-> FALSE])
      <4>1. (Raised /\ Leave(1, TRUE)) \/ (~Raised /\ Leave(2, FALSE))
        <5>1. CASE Refusal(call) \in Uncaught
          BY <2>4, <5>1 DEF Refuse, Raised
        <5>2. CASE Refusal(call) \notin Uncaught
          BY <2>4, <5>2 DEF Refuse, Raised
        <5> QED BY <5>1, <5>2
      <4> QED BY <2>4, <4>1 DEF Refuse, Leave
    <3> QED BY <2>1, <2>2, <3>1, StatusKept DEF MainInv
  <2>5. CASE Run
    <3>1. stage = "main" /\ stage' = "running" /\ Refusal(call) = "none"
      BY <2>5 DEF Run
    <3> QED BY <2>1, <2>2, <3>1, StatusKept DEF MainInv
  <2>6. CASE Exit
    <3>1. /\ stage = "running" /\ stage' = "exited" /\ command # "worker" /\ pc = "done"
          /\ exit' = [code |-> IF Escapes THEN 1 ELSE Status, raised |-> Escapes]
      BY <2>6 DEF Exit, Leave
    <3> QED BY <2>1, <2>2, <3>1, StatusKept DEF MainInv
  <2>7. CASE Abort
    <3>1. /\ stage = "running" /\ stage' = "exited" /\ command \in Ingests /\ LibraryCause
          /\ exit' = [code |-> 1, raised |-> TRUE]
      <4>1. LibraryFails => call.source.raises \/ "geometry" \in call.missing
        BY Zenon DEF LibraryFails
      <4> QED BY <2>7, <4>1 DEF Abort, Leave, LibraryCause
    <3> QED BY <2>1, <2>2, <3>1, StatusKept DEF MainInv
  <2> QED BY <1>2, <2>3, <2>4, <2>5, <2>6, <2>7
<1>3. CASE Next /\ ~(Refuse \/ Run \/ Abort \/ Exit)
  <2>1. stage = "running" /\ stage' = "running" /\ call' = call
    BY <1>3, MainWaits DEF main
  <2>2. command = "opaque" => outcome' # "opaque"
    BY <1>3, <2>1 DEF Next, Raster, Dxf, Ifc, Exchange, Geometry, SignOrVerify, Read, Parent, Worker, Running, IngestOpaque
  <2>3. Refusal(call)' = Refusal(call)
    BY <2>1
  <2> QED BY <1>1, <2>1, <2>2, <2>3 DEF MainInv
<1> QED BY <1>2, <1>3

\* No exit code of a DXF ingest is that of an opaque package.
LEMMA DxfIsNotOpaque == ASSUME outcome # "opaque", [D!Next]_(D!vars) PROVE outcome' # "opaque"
<1>1. D!MemberDefect # "opaque"
  BY DEF D!MemberDefect
<1> QED BY <1>1 DEF D!vars, D!Next, D!Step, D!Manifest, D!AdmitMember, D!RejectMember, D!LoadDone, D!HashSource, D!OpenRoot,
              D!RefuseXref, D!OpenXref, D!Return, D!VisitDone, D!WriteRecords, D!Rewrite, D!Stop

(* What holds of an ingest, and of main. *)
IngestInv ==
  /\ MainInv
  /\ command = "raster" => RasterInv
  /\ command = "dxf" => DxfInv /\ outcome # "opaque"
  /\ command = "ifc" => IfcInv
  /\ command = "exchange" => ExchangeInv
  /\ command = "geometry" => MeshInv

\* In every reachable state it holds.
THEOREM IngestInvariant == Spec => []IngestInv
<1>1. Init => IngestInv
  <2> SUFFICES ASSUME Init PROVE IngestInv
    OBVIOUS
  <2>1. command = "raster" => RasterInv
    BY Short DEF Init, Component, R!Init, RasterInv, Identified
  <2>2. command = "dxf" => DxfInv /\ outcome # "opaque"
    BY DxfInvInit DEF Init, Component, D!Init
  <2>3. command = "ifc" => IfcInv
    BY DEF Init, Component, I!Init, IfcInv
  <2>4. command = "exchange" => ExchangeInv
    BY DEF Init, Component, E!Init, ExchangeInv
  <2>5. command = "geometry" => MeshInv
    BY DEF Init, Component, G!Init, MeshInv
  <2> QED BY <2>1, <2>2, <2>3, <2>4, <2>5, MainInvInit DEF IngestInv
<1>2. IngestInv /\ [Next]_vars => IngestInv'
  BY StepIsOfComponent, MainInvKeeps, RasterKeeps, DxfKeeps, DxfIsNotOpaque, IfcKeeps, ExchangeKeeps, GeometryKeeps DEF IngestInv
<1> QED BY <1>1, <1>2, PTL DEF Spec

\* A command line is let through when it passes every test, and an exception that leaves main is one of a broken corpus or of a missing library.
LEMMA RefusalIs ==
  ASSUME NEW c
  PROVE  /\ Refusal(c) = "none" =>
              /\ c.version = "0.2.0" => Adapter(c) \in Governed
              /\ c.coordinate # "none" => V02(c, {"geometry"})
              /\ c.crs # "none" => V02(c, {"geometry"})
              /\ Given(c.inference) => V02(c, {"pdf", "image"})
              /\ Given(c.vision) => V02(c, {"pdf", "image"})
              /\ Given(c.provider) => V02(c, {"step-iges", "dwg"})
         /\ Refusal(c) \in Uncaught =>
              "broken" \in {c.inference.corpus, c.vision.corpus, c.provider.corpus} \/ c.missing # {}
<1>1. PICK checks : checks = IngestChecks(c)
  OBVIOUS
<1>2. DOMAIN checks = 1..19
  BY <1>1 DEF IngestChecks
<1>3. PICK failed : failed = {k \in DOMAIN checks : ~checks[k][1]}
  OBVIOUS
<1>4. \A k \in 1..19 : checks[k][2] \in {"OSError", "ValueError"} \cup Uncaught
  BY <1>1 DEF IngestChecks, Uncaught
<1>5. failed # {} => \E k \in failed : Refusal(c) = checks[k][2]
  <2> SUFFICES ASSUME failed # {} PROVE \E k \in failed : Refusal(c) = checks[k][2]
    OBVIOUS
  <2>1. 19 \in Nat /\ failed \in SUBSET (1..19)
    BY <1>2, <1>3
  <2>2. Min(failed) \in failed
    BY <2>1, LeastFails DEF Min
  <2>3. Refusal(c) = checks[Min(failed)][2]
    BY <1>1, <1>3 DEF Refusal
  <2> QED BY <2>2, <2>3
<1>6. ASSUME Refusal(c) = "none" PROVE \A k \in 1..19 : checks[k][1]
  BY <1>2, <1>3, <1>4, <1>5, <1>6 DEF Uncaught
<1>7. ASSUME Refusal(c) = "none"
      PROVE  /\ c.version = "0.2.0" => Adapter(c) \in Governed
             /\ c.coordinate # "none" => V02(c, {"geometry"})
             /\ c.crs # "none" => V02(c, {"geometry"})
             /\ Given(c.inference) => V02(c, {"pdf", "image"})
             /\ Given(c.vision) => V02(c, {"pdf", "image"})
             /\ Given(c.provider) => V02(c, {"step-iges", "dwg"})
  <2>1. checks[4][1] /\ checks[5][1] /\ checks[6][1] /\ checks[8][1] /\ checks[11][1] /\ checks[15][1]
    BY <1>6, <1>7
  <2>2. /\ checks[4][1] = (c.version = "0.2.0" => Adapter(c) \in Governed)
        /\ checks[5][1] = (c.coordinate # "none" => V02(c, {"geometry"}) /\ c.coordinate = "sound")
        /\ checks[6][1] = (c.crs # "none" => V02(c, {"geometry"}) /\ c.coordinate = "none" /\ c.crs = "sound")
        /\ checks[8][1] = (Given(c.inference) => V02(c, {"pdf", "image"}))
        /\ checks[11][1] = (Given(c.vision) => V02(c, {"pdf", "image"}))
        /\ checks[15][1] = (Given(c.provider) => V02(c, {"step-iges", "dwg"}))
    BY <1>1 DEF IngestChecks
  <2> QED BY <2>1, <2>2
<1>8. ASSUME Refusal(c) \in Uncaught
      PROVE  "broken" \in {c.inference.corpus, c.vision.corpus, c.provider.corpus} \/ c.missing # {}
  <2>1. failed # {}
    BY <1>1, <1>3, <1>8 DEF Refusal, Uncaught
  <2>2. PICK k \in 1..19 : ~checks[k][1] /\ checks[k][2] \in Uncaught
    BY <1>2, <1>3, <1>5, <1>8, <2>1
  <2>3. k \in {1, 3, 9, 12, 16, 19}
    BY <1>1, <2>2 DEF IngestChecks, Uncaught
  <2>4. /\ checks[9][1] = Loads(c.inference) /\ checks[12][1] = Loads(c.vision) /\ checks[16][1] = Loads(c.provider)
        /\ checks[1][1] = (c.adapter = "auto" => "geometry" \notin c.missing)
        /\ checks[3][1] = (ProbesImage(c) => "image" \notin c.missing)
        /\ checks[19][1] = (Imported(c) \cap c.missing = {})
    BY <1>1 DEF IngestChecks
  <2> QED BY <2>2, <2>3, <2>4 DEF Loads
<1> QED BY <1>7, <1>8

\* What an ingest that is let through was given goes into its job, and AECCTX 0.2.0 is never written opaquely.
LEMMA LetThrough ==
  ASSUME MainInv, command \in Ingests, Refusal(call) = "none"
  PROVE  /\ Supplied(call) \ Unmatched(call) = Used(command, job)
         /\ Unmatched(call) # {} => command = "exchange" /\ job.form = "bundle"
         /\ call.version = "0.2.0" => command # "opaque"
         /\ command # "opaque" => job.version = call.version
<1>1. Carries(call, command, job)
  BY CallsAssumption DEF MainInv
<1>2. Supplied(call) \subseteq Takes[command]
  <2> USE RefusalIs DEF V02
  <2>1. Adapter(call) \in AdaptersOf[command]
    BY <1>1 DEF Carries
  <2>2. CASE command = "raster"
    BY <2>1, <2>2 DEF Supplied, Takes, AdaptersOf
  <2>3. CASE command = "dxf"
    BY <2>1, <2>3 DEF Supplied, Takes, AdaptersOf
  <2>4. CASE command = "ifc"
    BY <2>1, <2>4 DEF Supplied, Takes, AdaptersOf
  <2>5. CASE command = "exchange"
    BY <2>1, <2>5 DEF Supplied, Takes, AdaptersOf
  <2>6. CASE command = "geometry"
    BY <2>1, <2>6 DEF Supplied, Takes, AdaptersOf
  <2>7. CASE command = "opaque"
    BY <2>1, <2>7 DEF Supplied, Takes, AdaptersOf
  <2> QED BY <2>2, <2>3, <2>4, <2>5, <2>6, <2>7 DEF Ingests
<1>3. Supplied(call) \ Unmatched(call) = Used(command, job)
  BY <1>1, <1>2 DEF Carries
<1>5. Unmatched(call) # {} => command = "exchange" /\ job.form = "bundle"
  BY <1>1 DEF Unmatched, Carries, AdaptersOf, Ingests
<1>4. call.version = "0.2.0" => command # "opaque"
  <2>1. "opaque" \notin Governed
    <3>1. Governed = {"ifc", "step-iges", "dwg", "dxf", "pdf", "geometry", "image"}
      BY DEF Governed, Formats, Range
    <3> QED BY <3>1
  <2>2. command = "opaque" => Adapter(call) = "opaque"
    BY <1>1 DEF Carries, AdaptersOf
  <2> QED BY <2>1, <2>2, RefusalIs
<1> QED BY <1>1, <1>3, <1>4, <1>5 DEF Carries

\* A bundle that is written has a result for each of its members, and there is one.
LEMMA BundleHasResults ==
  ASSUME ExchangeInv, job \in ExchangeJobs, job.form = "bundle", outcome \in {"written", "opaque"}
  PROVE  job.results # <<>>
<1>1. DOMAIN job.results = {e.path : e \in E!Members}
  BY DEF ExchangeInv, E!Bundled
<1>2. PICK root \in E!Members : root.role = "root"
  BY ExchangeAssumption DEF E!IsExchangeJob, E!Members, E!Range, Range
<1>3. DOMAIN job.results # {}
  BY <1>1, <1>2
<1> QED BY <1>3

\* An ingest that ends with 0 has written a package, and one that main is left from by an exception has its cause.
LEMMA IngestExits ==
  ASSUME IngestInv, stage = "exited", command \in Ingests
  PROVE  /\ exit.code = 0 => /\ outcome \in {"written", "opaque"}
                             /\ call.version = "0.2.0" => outcome = "written" /\ command # "opaque"
                             /\ Supplied(call) = Used(command, job)
         /\ exit.raised => \/ "broken" \in {call.inference.corpus, call.vision.corpus, call.provider.corpus}
                           \/ call.missing # {} \/ call.source.raises
                           \/ command = "raster" /\ Rejected
                           \/ command = "geometry" /\ call.version = "0.1.0"
<1>1. CASE Refusal(call) # "none"
  <2>1. exit = (IF Raised THEN [code |-> 1, raised |-> TRUE] ELSE [code |-> 2, raised |-> FALSE])
    BY <1>1 DEF IngestInv, MainInv
  <2>2. exit.code # 0 /\ (exit.raised => Raised)
    BY <2>1
  <2>3. Raised => "broken" \in {call.inference.corpus, call.vision.corpus, call.provider.corpus} \/ call.missing # {}
    BY RefusalIs DEF Raised
  <2> QED BY <2>2, <2>3
<1>2. CASE LibraryCause /\ exit = [code |-> 1, raised |-> TRUE]
  <2>1. exit.code # 0
    BY <1>2
  <2> QED BY <1>2, <2>1 DEF LibraryCause
<1>3. CASE Refusal(call) = "none" /\ pc = "done" /\ exit = [code |-> IF Escapes THEN 1 ELSE Status, raised |-> Escapes]
  <2>1. exit.code = (IF Escapes THEN 1 ELSE Status) /\ exit.raised = Escapes
    BY <1>3
  <2>2. Status = IF outcome \in {"written", "opaque"} THEN 0 ELSE 2
    BY DEF Status, Ingests
  <2>3. /\ Supplied(call) \ Unmatched(call) = Used(command, job)
        /\ Unmatched(call) # {} => command = "exchange" /\ job.form = "bundle"
        /\ call.version = "0.2.0" => command # "opaque"
        /\ command # "opaque" => job.version = call.version
    BY <1>3, LetThrough DEF IngestInv
  <2>4. outcome = "opaque" => call.version = "0.1.0"
    BY <2>3 DEF IngestInv, MainInv, RasterInv, IfcInv, ExchangeInv, MeshInv, Ingests
  <2>5. Escapes => (command = "raster" /\ Rejected) \/ (command = "geometry" /\ call.version = "0.1.0")
    BY <2>3 DEF IngestInv, RasterInv, MeshInv, Escapes, Ingests
  <2>6. ASSUME outcome \in {"written", "opaque"} PROVE Supplied(call) = Used(command, job)
    <3>1. CASE Unmatched(call) = {}
      BY <2>3, <3>1
    <3>2. CASE Unmatched(call) # {}
      <4>1. command = "exchange" /\ job.form = "bundle" /\ job \in ExchangeJobs
        BY <2>3, <3>2 DEF IngestInv, MainInv, JobsOf, Ingests
      <4>2. job.results # <<>>
        BY <4>1, <2>6, BundleHasResults DEF IngestInv
      <4>3. Used(command, job) = {"provider"}
        BY <4>1, <4>2 DEF Used
      <4> QED BY <2>3, <3>2, <4>3 DEF Unmatched
    <3> QED BY <3>1, <3>2
  <2> QED BY <2>1, <2>2, <2>3, <2>4, <2>5, <2>6
<1> QED BY <1>1, <1>2, <1>3 DEF IngestInv, MainInv

\* A verification ends with 0 only for a policy, and when as many signers count as it asks for.
LEMMA VerificationExits ==
  ASSUME MainInv, SigningInv, command = "sign", stage = "exited"
  PROVE  /\ exit.code = 0 => job.policy # Nil /\ Cardinality(result.counted) >= job.policy.minimum
         /\ ~exit.raised
<1>1. /\ exit = [code |-> IF Escapes THEN 1 ELSE Status, raised |-> Escapes] /\ pc = "done"
      /\ Status = IF outcome # "verified" THEN 2 ELSE IF result.satisfied THEN 0 ELSE 1
      /\ Escapes = FALSE
  BY DEF MainInv, Ingests, Status, Escapes
<1>2. exit.code = Status /\ exit.raised = FALSE
  BY <1>1
<1>3. ASSUME exit.code = 0 PROVE job.policy # Nil /\ Cardinality(result.counted) >= job.policy.minimum
  <2>1. outcome = "verified" /\ result.satisfied
    BY <1>1, <1>2, <1>3
  <2>2. result = IF bundle = Nil THEN S!Unsigned ELSE S!Verdict(bundle)
    BY <1>1, <2>1 DEF SigningInv, S!Concluded, Judged
  <2>3. result = S!Verdict(bundle)
    BY <2>1, <2>2 DEF S!Unsigned
  <2>4. (job.mode = "basic" => job.policy # Nil) /\ Cardinality(result.counted) >= job.policy.minimum
    BY <2>1, <2>3, SatisfiedByAsMany
  <2>5. job.mode # "basic" => job.policy # Nil
    BY SigningJobFacts DEF SigningInv, S!IsSigningJob
  <2> QED BY <2>4, <2>5
<1> QED BY <1>2, <1>3

\* A diff ends with 0 only for packages that assert the same, and a command that reads leaves main by an exception only if
\* a package was replaced while it was opened or one is missing or invalid.
LEMMA ReadingExits ==
  ASSUME MainInv, ReadingInv, ProjectionsAreExact, command = "read", stage = "exited"
  PROVE  /\ exit.code = 0 /\ job.command = "diff" /\ Q!Undisturbed => Q!Asserted(Q!Opened(1)) = Q!Asserted(Q!Opened(2))
         /\ exit.raised => ~Q!Undisturbed \/ \E side \in DOMAIN seen : \E c \in seen[side] : c = Nil \/ ~c.valid
<1>1. /\ exit = [code |-> IF Escapes THEN 1 ELSE Status, raised |-> Escapes]
      /\ Status = IF outcome # "answered" THEN 2 ELSE IF job.command = "diff" /\ Q!SemanticChange(answer) THEN 1 ELSE 0
      /\ Escapes = (outcome = "PackageReadError" \/ (job.command = "diff" /\ outcome = "ValueError"))
  BY DEF MainInv, Ingests, Status, Escapes
<1>2. exit.code = (IF Escapes THEN 1 ELSE Status) /\ exit.raised = Escapes
  BY <1>1
<1>3. ASSUME exit.code = 0, job.command = "diff", Q!Undisturbed PROVE Q!Asserted(Q!Opened(1)) = Q!Asserted(Q!Opened(2))
  <2>1. outcome = "answered" /\ ~Q!SemanticChange(answer)
    BY <1>1, <1>2, <1>3
  <2>2. Q!SemanticChange(answer) = (Q!Asserted(Q!Opened(1)) # Q!Asserted(Q!Opened(2)))
    BY <1>3, <2>1 DEF ProjectionsAreExact, Q!DiffIsExact, Q!Answered
  <2> QED BY <2>1, <2>2
<1>4. ASSUME outcome = "PackageReadError" PROVE ~Q!Undisturbed
  <2>1. PICK k \in DOMAIN seen : \A c \in seen[k] : seen[k] # {c}
    BY <1>4 DEF ReadingInv, Ends
  <2>2. IsFiniteSet(seen[k])
    BY <2>1 DEF ReadingInv, ReadingTypeOK
  <2>3. Cardinality(seen[k]) # 1
    BY <2>1, <2>2, FS_Singleton
  <2> QED BY <2>1, <2>3 DEF Q!Undisturbed, Q!Cardinality, Cardinality
<1>5. ASSUME job.command = "diff", outcome = "ValueError"
      PROVE  \E side \in DOMAIN seen : \E c \in seen[side] : c = Nil \/ ~c.valid
  BY <1>5 DEF ReadingInv, Ends, Sound
<1> QED BY <1>1, <1>2, <1>3, <1>4, <1>5

\* The exit code tells what happened.
THEOREM ExitCodes == Spec => []ExitTellsTheOutcome
<1>1. IngestInv /\ (command = "sign" => SigningInv) /\ (command = "read" => ReadingInv) /\ ProjectionsAreExact => ExitTellsTheOutcome
  <2> SUFFICES ASSUME IngestInv, command = "sign" => SigningInv, command = "read" => ReadingInv, ProjectionsAreExact, stage = "exited"
      PROVE  ExitTellsTheOutcome
    BY DEF ExitTellsTheOutcome
  <2>1. MainInv /\ command # "worker"
    BY DEF IngestInv, MainInv, Ingests
  <2>2. command \in Ingests \cup {"sign", "read"} \/ ~exit.raised
    <3> SUFFICES ASSUME command \notin Ingests \cup {"sign", "read"} PROVE ~exit.raised
      OBVIOUS
    <3>1. Escapes = FALSE
      BY DEF Escapes, Ingests
    <3>2. exit = [code |-> IF Escapes THEN 1 ELSE Status, raised |-> Escapes]
      BY <2>1 DEF MainInv
    <3> QED BY <3>1, <3>2
  <2>3. command = "dxf" => D!RefusedWithCause
    BY DEF IngestInv, DxfInv
  <2>4. command \in Ingests => command \notin {"sign", "read"}
    BY DEF Ingests
  <2>5. command \in Ingests => ExitTellsTheOutcome
    BY <2>3, <2>4, IngestExits DEF ExitTellsTheOutcome, Rejected
  <2>6. command = "sign" => ExitTellsTheOutcome
    BY <2>1, <2>3, <2>4, VerificationExits DEF ExitTellsTheOutcome
  <2>7. command = "read" => ExitTellsTheOutcome
    BY <2>1, <2>3, <2>4, ReadingExits DEF ExitTellsTheOutcome
  <2>8. command \notin Ingests \cup {"sign", "read"} => ExitTellsTheOutcome
    BY <2>2, <2>3, <2>4 DEF ExitTellsTheOutcome, Ingests
  <2> QED BY <2>5, <2>6, <2>7, <2>8
<1> QED BY IngestInvariant, SigningInvariant, ReadingInvariant, Projections, <1>1, PTL

(***************************************************************************)
(* Meshes and their coordinates.                                           *)
(***************************************************************************)

(***************************************************************************)
(* Meshes.                                                                 *)
(***************************************************************************)
MeshChecked == job.meshes # <<>> /\ Nil \in {job.profile, job.registry}
MeshSolved ==
  /\ MeshChecked /\ solution \in {"none", "known", "conflicted"}
  /\ solution = "none" <=> job.profile = Nil /\ job.registry = Nil
  /\ solution = "conflicted" <=> job.profile # Nil /\ G!Conflicts # {}
MeshRecords ==
  CASE job.profile # Nil -> G!Baseline \o G!Calibrated(G!Baseline)
    [] job.registry # Nil -> G!Baseline \o G!Datum(G!Baseline)
    [] OTHER -> G!Baseline
MeshArtifacts == G!geometry_refs \cup (IF job.registry # Nil THEN {"datum-transformed-mesh.json"} ELSE {})
MeshBuilt ==
  /\ pc = "arguments" => outcome = "running"
  /\ pc = "coordinates" => MeshChecked
  /\ pc = "records" => MeshSolved
  /\ outcome = "written" => MeshSolved /\ records = MeshRecords /\ diagnostics = G!Diagnostics /\ artifacts = MeshArtifacts
  /\ pc # "done" => outcome = "running"

\* What is made of a mesh follows from the call and from what became of its coordinates.
LEMMA MeshKept ==
  ASSUME UNCHANGED <<job, solution>>
  PROVE  /\ MeshRecords' = MeshRecords /\ G!Diagnostics' = G!Diagnostics /\ MeshArtifacts' = MeshArtifacts
         /\ (MeshChecked' <=> MeshChecked) /\ (MeshSolved' <=> MeshSolved)
<1>1. G!declared_units' = G!declared_units /\ G!declared_frame' = G!declared_frame
  BY DEF G!declared_units, G!declared_frame
<1>2. G!Profile' = G!Profile /\ G!geometry_refs' = G!geometry_refs /\ G!Conflicts' = G!Conflicts
  BY <1>1 DEF G!Profile, G!geometry_refs, G!Conflicts
<1>3. G!Baseline' = G!Baseline
  BY <1>2 DEF G!Baseline
<1>4. MeshRecords' = MeshRecords
  BY <1>3 DEF MeshRecords, G!Calibrated, G!Datum, G!MeshIds
<1>5. G!Diagnostics' = G!Diagnostics
  BY <1>1, <1>2 DEF G!Diagnostics, G!GeoreferencingReason, G!georeferencing, G!ConflictFields, G!Profile
<1>6. MeshArtifacts' = MeshArtifacts
  BY <1>2 DEF MeshArtifacts
<1>7. (MeshChecked' <=> MeshChecked) /\ (MeshSolved' <=> MeshSolved)
  BY <1>2 DEF MeshChecked, MeshSolved
<1> QED BY <1>4, <1>5, <1>6, <1>7

\* What a similarity is checked for.
LEMMA SimilarityRefuses == Refusals(G!SimilarityChecks)
<1>1. PICK enough, distinct, flat, mirrored, apart :
         /\ enough = (Len(job.profile.points) >= 3) /\ distinct = (G!Cardinality(G!Range(job.profile.points)) = Len(job.profile.points))
         /\ flat = (job.profile.shape # "collinear") /\ mirrored = (job.profile.shape # "reflected") /\ apart = (job.profile.shape # "apart")
  OBVIOUS
<1>2. G!SimilarityChecks = << <<enough, "CONTROL_POINTS_INSUFFICIENT">>, <<distinct, "PROFILE_INVALID">>, <<flat, "CONTROL_POINTS_COLLINEAR">>,
                              <<mirrored, "REGISTRATION_REFLECTION_UNSUPPORTED">>, <<apart, "REGISTRATION_TOLERANCE_EXCEEDED">> >>
  BY <1>1 DEF G!SimilarityChecks, G!Profile
<1>3. \A x \in {"CONTROL_POINTS_INSUFFICIENT", "PROFILE_INVALID", "CONTROL_POINTS_COLLINEAR", "REGISTRATION_REFLECTION_UNSUPPORTED",
               "REGISTRATION_TOLERANCE_EXCEEDED"} : x \notin NoFailures
  BY DEF NoFailures
<1>4. PICK checks : checks = G!SimilarityChecks
  OBVIOUS
<1> QED BY <1>2, <1>3, <1>4, Short DEF Refusals

\* A step of the mesh adapter keeps this.
LEMMA MeshBuiltKeeps == ASSUME MeshInv, MeshBuilt, [G!Next]_(G!vars) PROVE MeshBuilt'
<1> USE DEF MeshBuilt, G!Stop
<1>1. CASE UNCHANGED G!vars
  BY <1>1, MeshKept DEF G!vars
<1>2. CASE G!Load
  <2>1. PICK first : first = G!ArgumentChecks
    OBVIOUS
  <2>2. PICK second : second = IF job.version = "0.2.0" THEN G!SceneChecks ELSE <<>>
    OBVIOUS
  <2>3. PICK third : third = G!CountChecks
    OBVIOUS
  <2>4. Refusals(first)
    BY <2>1, Short DEF Refusals, NoFailures, G!ArgumentChecks
  <2>5. Refusals(second)
    BY <2>2, Short DEF Refusals, NoFailures, G!SceneChecks
  <2>6. Refusals(third)
    BY <2>3, Short DEF Refusals, NoFailures, G!CountChecks
  <2>7. Refusals(first \o second) /\ Refusals((first \o second) \o third)
    BY <2>4, <2>5, <2>6, RefusalsJoined
  <2>8. Items((first \o second) \o third) = Items(first) \cup Items(second) \cup Items(third)
    BY <2>4, <2>5, <2>6, <2>7, Joined DEF Refusals
  <2>9. PICK verdict : verdict = G!FirstFailure((first \o second) \o third)
    OBVIOUS
  <2>10. verdict \notin NoFailures \/ (verdict = "accepted" /\ \A c \in Items(first) \cup Items(third) : c[1])
    BY <2>7, <2>8, <2>9, RefusalsFail
  <2>11. verdict = "accepted" => MeshChecked
    <3>1. <<Nil \in {job.profile, job.registry}, "ValueError">> \in Items(first)
      BY <2>1, Short DEF G!ArgumentChecks, G!Profile
    <3>2. <<job.meshes # <<>>, "ValueError">> \in Items(third)
      BY <2>3, Short DEF G!CountChecks
    <3>3. ASSUME verdict = "accepted" PROVE MeshChecked
      <4>1. \A c \in Items(first) \cup Items(third) : c[1]
        BY <2>10, <3>3 DEF NoFailures
      <4>2. <<Nil \in {job.profile, job.registry}, "ValueError">>[1] /\ <<job.meshes # <<>>, "ValueError">>[1]
        BY <3>1, <3>2, <4>1
      <4> QED BY <4>2 DEF MeshChecked
    <3> QED BY <3>3
  <2>12. /\ pc = "arguments" /\ UNCHANGED <<job, solution, artifacts, records, diagnostics>>
         /\ \/ pc' = "done" /\ outcome' = "Exception"
            \/ verdict = "accepted" /\ pc' = "coordinates" /\ UNCHANGED outcome
            \/ verdict # "accepted" /\ pc' = "done" /\ outcome' = verdict
    BY <1>2, <2>1, <2>2, <2>3, <2>9 DEF G!Load
  <2>13. outcome' # "written" /\ (pc' # "done" => outcome' = "running")
    BY <2>10, <2>12 DEF NoFailures
  <2>14. pc' = "coordinates" => MeshChecked'
    BY <2>11, <2>12 DEF MeshChecked
  <2> QED BY <2>12, <2>13, <2>14
<1>3. CASE G!Solve
  <2>1. PICK registry : registry = G!FirstFailure(G!RegistryChecks)
    OBVIOUS
  <2>2. registry \notin NoFailures \/ registry = "accepted"
    <3>1. Refusals(G!RegistryChecks)
      <4>1. \A x \in {"CRS_REGISTRY_INVALID", "CRS_REGISTRY_CONFLICT", "CRS_REGISTRY_DIGEST_MISMATCH", "CRS_DEPENDENCY_MISSING",
                     "CRS_RUNTIME_UNSUPPORTED", "CRS_POINT_LIMIT_EXCEEDED", "CRS_POINT_INVALID", "CRS_ROUND_TRIP_TOLERANCE_EXCEEDED"} : x \notin NoFailures
        BY DEF NoFailures
      <4> QED BY <4>1, Short DEF Refusals, G!RegistryChecks
    <3> QED BY <2>1, <3>1, RefusalsFail
  <2>3. PICK profile : profile = G!ProfileVerdict
    OBVIOUS
  <2>4. ASSUME job.profile # Nil
        PROVE  /\ profile \notin NoFailures \/ profile \in {"accepted", "conflicted"}
               /\ profile = "conflicted" => G!Conflicts # {}
               /\ profile = "accepted" => G!Conflicts = {}
    <3>1. CASE ~job.profile.valid \/ G!Conflicts # {}
      BY <2>3, <3>1 DEF G!ProfileVerdict, G!Profile, NoFailures
    <3>2. CASE job.profile.valid /\ G!Conflicts = {}
      <4>1. job.profile.mode \in {"scale", "matrix", "similarity"}
        BY <2>4, <3>2, MeshAssumption DEF G!IsMeshJob, MeshInv
      <4>2. PICK specific : specific = CASE job.profile.mode = "scale" -> << <<job.profile.frame \in {Nil, job.profile.target}, "SCALE_FRAME_MISMATCH">> >>
                               [] job.profile.mode = "matrix" -> << <<job.profile.matrix # "projective", "MATRIX_NOT_AFFINE">> >>
                               [] job.profile.mode = "similarity" -> G!SimilarityChecks
        OBVIOUS
      <4>3. G!ModeChecks = specific \o G!MatrixChecks
        BY <4>1, <4>2 DEF G!ModeChecks, G!Profile
      <4>4. Refusals(G!MatrixChecks)
        BY Short DEF Refusals, NoFailures, G!MatrixChecks
      <4>5. Refusals(specific)
        <5>1. CASE job.profile.mode = "similarity"
          <6>1. specific = G!SimilarityChecks
            BY <4>2, <5>1
          <6> QED BY <6>1, SimilarityRefuses
        <5>2. CASE job.profile.mode \in {"scale", "matrix"}
          BY <4>2, <5>2, Short DEF Refusals, NoFailures
        <5> QED BY <4>1, <5>1, <5>2
      <4>6. G!FirstFailure(G!ModeChecks) \notin NoFailures \/ G!FirstFailure(G!ModeChecks) = "accepted"
        BY <4>3, <4>4, <4>5, RefusalsJoined, RefusalsFail
      <4> QED BY <2>3, <3>2, <4>6 DEF G!ProfileVerdict, G!Profile, NoFailures
    <3> QED BY <3>1, <3>2
  <2>5. PICK verdict : verdict = CASE job.profile # Nil -> profile [] job.profile = Nil /\ job.registry # Nil -> registry [] OTHER -> "none"
    OBVIOUS
  <2>6. /\ pc = "coordinates" /\ UNCHANGED <<job, artifacts, records, diagnostics>>
        /\ \/ verdict = "accepted" /\ solution' = "known" /\ pc' = "records" /\ UNCHANGED outcome
           \/ verdict \in {"none", "conflicted"} /\ solution' = verdict /\ pc' = "records" /\ UNCHANGED outcome
           \/ verdict \notin {"accepted", "none", "conflicted"} /\ pc' = "done" /\ outcome' = verdict
    <3>1. /\ pc = "coordinates" /\ UNCHANGED <<job, artifacts, records, diagnostics>>
          /\ LET found == CASE job.profile # Nil -> profile [] job.registry # Nil -> registry [] OTHER -> "none"
             IN  CASE found = "accepted" -> solution' = "known" /\ pc' = "records" /\ UNCHANGED outcome
                   [] found \in {"none", "conflicted"} -> solution' = found /\ pc' = "records" /\ UNCHANGED outcome
                   [] OTHER -> pc' = "done" /\ outcome' = found /\ UNCHANGED solution
      BY <1>3, <2>1, <2>3 DEF G!Solve, G!Profile
    <3>2. Nil \in {job.profile, job.registry}
      BY <3>1 DEF MeshChecked
    <3>3. verdict = CASE job.profile # Nil -> profile [] job.registry # Nil -> registry [] OTHER -> "none"
      BY <2>5, <3>2
    <3> QED BY <3>1, <3>3
  <2>7. outcome' # "written" /\ (pc' # "done" => outcome' = "running")
    BY <2>2, <2>4, <2>5, <2>6 DEF NoFailures
  <2>8. pc' = "records" => MeshSolved'
    <3> SUFFICES ASSUME pc' = "records" PROVE MeshSolved'
      OBVIOUS
    <3>1. MeshChecked' /\ G!Conflicts' = G!Conflicts
      BY <2>6 DEF MeshChecked, G!Conflicts, G!Profile, G!declared_units, G!declared_frame
    <3>2. CASE job.profile # Nil
      BY <2>4, <2>5, <2>6, <3>1, <3>2 DEF MeshSolved, NoFailures
    <3>3. CASE job.profile = Nil
      BY <2>2, <2>5, <2>6, <3>1, <3>3 DEF MeshSolved, NoFailures
    <3> QED BY <3>2, <3>3
  <2> QED BY <2>6, <2>7, <2>8
<1>4. CASE G!Write
  <2>1. pc = "records" /\ pc' = "done" /\ outcome' = "written" /\ UNCHANGED <<job, solution>> /\ MeshSolved
    BY <1>4 DEF G!Write
  <2>2. records' = MeshRecords /\ diagnostics' = G!Diagnostics /\ artifacts' = MeshArtifacts
    BY <1>4, <2>1 DEF G!Write, G!Profile, MeshRecords, MeshArtifacts, MeshSolved, MeshChecked
  <2>3. MeshRecords' = MeshRecords /\ G!Diagnostics' = G!Diagnostics /\ MeshArtifacts' = MeshArtifacts /\ MeshSolved'
    BY <2>1, MeshKept
  <2> QED BY <2>1, <2>2, <2>3
<1> QED BY <1>1, <1>2, <1>3, <1>4 DEF G!Next

\* What the records of a mesh are made from.
LEMMA MeshScene ==
  ASSUME MeshInv
  PROVE  /\ IsList(job.meshes) /\ IsList(job.edges) /\ \A k, l \in DOMAIN job.meshes : job.meshes[k] = job.meshes[l] => k = l
<1>1. G!IsMeshJob(job)
  BY MeshAssumption DEF MeshInv
<1>2. \A s : G!IsList(s) => IsList(s)
  BY DEF G!IsList, G!Items, IsList, Items
<1> QED BY <1>1, <1>2 DEF G!IsMeshJob, G!IsScene

\* What is filtered from a list whose items tell their places comes from different places.
LEMMA NumberedFiltered ==
  ASSUME NEW s, IsList(s), \A k \in DOMAIN s : s[k][1] = k, NEW T
  PROVE  /\ IsList(Filtered(s, T))
         /\ \A i, j \in DOMAIN Filtered(s, T) : Filtered(s, T)[i][1] = Filtered(s, T)[j][1] => i = j
<1>1. PICK r, at : r = Filtered(s, T) /\ at = {k \in DOMAIN s : s[k] \in T}
  OBVIOUS
<1>2. IsList(r) /\ \E place \in Bijection(DOMAIN r, {k \in DOMAIN s : s[k] \in T}) : \A i \in DOMAIN r : r[i] = s[place[i]]
  BY <1>1, FilteredIs
<1>3. PICK place \in Bijection(DOMAIN r, {k \in DOMAIN s : s[k] \in T}) : \A i \in DOMAIN r : r[i] = s[place[i]]
  BY <1>2
<1>4. place \in Bijection(DOMAIN r, at)
  BY <1>1, <1>3
<1>5. \A i \in DOMAIN r : place[i] \in at /\ \A j \in DOMAIN r : place[i] = place[j] => i = j
  <2>1. place \in [DOMAIN r -> at]
    BY <1>4 DEF Bijection, Injection
  <2>2. \A i, j \in DOMAIN r : place[i] = place[j] => i = j
    BY <1>4 DEF Bijection, Injection, IsInjective
  <2> QED BY <2>1, <2>2
<1>6. \A i \in DOMAIN r : r[i][1] = place[i]
  BY <1>1, <1>3, <1>5
<1> QED BY <1>1, <1>2, <1>5, <1>6

\* What a record of a mesh says.
LEMMA MeshRecordIs ==
  \A id, refs, class, shown :
    /\ G!Record(id, refs, class, shown).id = id /\ G!Record(id, refs, class, shown).refs = refs
    /\ G!Record(id, refs, class, shown).class = class /\ G!Record(id, refs, class, shown).shown = shown
BY DEF G!Record

\* The records of a mesh file itself.
LEMMA BaselineIs ==
  ASSUME MeshInv
  PROVE  /\ Distinct(G!Baseline)
         /\ Ids(G!Baseline) = {G!Source} \cup {G!Mesh(job.meshes[k]) : k \in DOMAIN job.meshes}
                              \cup {r.id : r \in {x \in Items(G!Baseline) : x.id[1] \in {"entity_mesh", "prim_mesh_transform"}}}
         /\ \A r \in Items(G!Baseline) : r.class = "observed" /\ r.refs \subseteq Ids(G!Baseline) /\ r.shown \in {{}, G!geometry_refs}
         /\ job.meshes # <<>> => \E r \in Items(G!Baseline) : r.shown = G!geometry_refs
         /\ \A r \in Items(G!Baseline) : r.id[1] \in {"src", "prim_mesh", "entity_mesh", "prim_mesh_transform"}
         /\ G!MeshIds(G!Baseline) = {G!Mesh(job.meshes[k]) : k \in DOMAIN job.meshes}
<1>1. PICK n \in Nat : n = Len(job.meshes) /\ DOMAIN job.meshes = 1..n
  BY MeshScene, ListIs
<1>2. \A k, l \in 1..n : job.meshes[k] = job.meshes[l] => k = l
  BY <1>1, MeshScene
<1>3. PICK indexed : indexed = [k \in DOMAIN job.edges |-> <<k, job.edges[k]>>]
  OBVIOUS
<1>0. PICK matrices : matrices = {e \in Items(indexed) : e[2].matrix}
  OBVIOUS
<1>4. PICK placed : placed = Filtered(indexed, matrices)
  OBVIOUS
<1>5. IsList(placed) /\ \A i, j \in DOMAIN placed : placed[i][1] = placed[j][1] => i = j
  <2>1. PICK l \in Nat : l = Len(job.edges) /\ DOMAIN job.edges = 1..l
    BY MeshScene, ListIs
  <2>2. IsList(indexed) /\ DOMAIN indexed = 1..l
    BY <1>3, <2>1, FunctionIsList
  <2>3. \A k \in DOMAIN indexed : indexed[k][1] = k
    BY <1>3, <2>1, <2>2
  <2> QED BY <1>4, <2>2, <2>3, NumberedFiltered
<1>6. PICK m \in Nat : m = Len(placed) /\ DOMAIN placed = 1..m
  BY <1>5, ListIs
<1>7. PICK source, meshes, entities, transforms :
         /\ source = <<G!Record(G!Source, {}, "observed", {})>>
         /\ meshes = [k \in 1..n |-> G!Record(G!Mesh(job.meshes[k]), {G!Source}, "observed", {})]
         /\ entities = [k \in 1..n |-> G!Record(<<"entity_mesh", job.meshes[k]>>, {G!Mesh(job.meshes[k])}, "observed", G!geometry_refs)]
         /\ transforms = IF job.version = "0.1.0" THEN <<>>
                         ELSE [k \in 1..m |-> G!Record(<<"prim_mesh_transform", placed[k][2].from, placed[k][2].to, placed[k][1]>>, {G!Source}, "observed", {})]
  BY Zenon
<1>8. G!Baseline = ((source \o meshes) \o entities) \o transforms
  <2>1. G!Filtered(indexed, {e \in G!Range(indexed) : e[2].matrix}) = placed
    BY <1>0, <1>4, SameLists
  <2> QED BY <1>1, <1>3, <1>6, <1>7, <2>1, Zenon DEF G!Baseline
<1>9. Distinct(source) /\ Ids(source) = {G!Source} /\ Items(source) = {G!Record(G!Source, {}, "observed", {})}
  BY <1>7, DistinctTogether, MeshRecordIs
<1>10. /\ Distinct(meshes) /\ Ids(meshes) = {G!Mesh(job.meshes[k]) : k \in 1..n}
       /\ Items(meshes) = {G!Record(G!Mesh(job.meshes[k]), {G!Source}, "observed", {}) : k \in 1..n}
  <2>0. \A k \in 1..n : meshes[k] = G!Record(G!Mesh(job.meshes[k]), {G!Source}, "observed", {})
    BY <1>7
  <2>1. \A k \in 1..n : meshes[k].id = G!Mesh(job.meshes[k])
    BY <2>0, MeshRecordIs
  <2>2. \A i, j \in 1..n : meshes[i].id = meshes[j].id => i = j
    BY <1>2, <2>1 DEF G!Mesh
  <2>3. Distinct(meshes) /\ Ids(meshes) = {meshes[k].id : k \in 1..n} /\ Items(meshes) = {meshes[k] : k \in 1..n}
    <3>1. DistinctOver(meshes, n)
      BY <1>7, <2>2 DEF DistinctOver
    <3> QED BY <3>1, DistinctTable
  <2>4. {meshes[k].id : k \in 1..n} = {G!Mesh(job.meshes[k]) : k \in 1..n}
    BY <2>1
  <2>5. {meshes[k] : k \in 1..n} = {G!Record(G!Mesh(job.meshes[k]), {G!Source}, "observed", {}) : k \in 1..n}
    BY <2>0
  <2> QED BY <2>3, <2>4, <2>5
<1>11. /\ Distinct(entities) /\ Ids(entities) = {<<"entity_mesh", job.meshes[k]>> : k \in 1..n}
       /\ Items(entities) = {G!Record(<<"entity_mesh", job.meshes[k]>>, {G!Mesh(job.meshes[k])}, "observed", G!geometry_refs) : k \in 1..n}
  <2>0. \A k \in 1..n : entities[k] = G!Record(<<"entity_mesh", job.meshes[k]>>, {G!Mesh(job.meshes[k])}, "observed", G!geometry_refs)
    BY <1>7
  <2>1. ASSUME NEW k \in 1..n PROVE entities[k].id = <<"entity_mesh", job.meshes[k]>>
    <3>1. PICK id, refs : id = <<"entity_mesh", job.meshes[k]>> /\ refs = {G!Mesh(job.meshes[k])}
      OBVIOUS
    <3>2. entities[k] = G!Record(id, refs, "observed", G!geometry_refs)
      BY <2>0, <3>1
    <3> QED BY <3>1, <3>2, MeshRecordIs
  <2>2. \A i, j \in 1..n : entities[i].id = entities[j].id => i = j
    BY <1>2, <2>1
  <2>3. Distinct(entities) /\ Ids(entities) = {entities[k].id : k \in 1..n} /\ Items(entities) = {entities[k] : k \in 1..n}
    <3>1. DistinctOver(entities, n)
      BY <1>7, <2>2 DEF DistinctOver
    <3> QED BY <3>1, DistinctTable
  <2>4. {entities[k].id : k \in 1..n} = {<<"entity_mesh", job.meshes[k]>> : k \in 1..n}
    BY <2>1
  <2>5. {entities[k] : k \in 1..n} = {G!Record(<<"entity_mesh", job.meshes[k]>>, {G!Mesh(job.meshes[k])}, "observed", G!geometry_refs) : k \in 1..n}
    BY <2>0
  <2> QED BY <2>3, <2>4, <2>5
<1>12. /\ Distinct(transforms) /\ \A x \in Ids(transforms) : x[1] = "prim_mesh_transform"
       /\ \A r \in Items(transforms) : r.refs = {G!Source} /\ r.class = "observed" /\ r.shown = {} /\ r.id[1] = "prim_mesh_transform"
  <2>1. CASE job.version = "0.1.0"
    BY <1>7, <2>1, Short DEF Distinct, Ids
  <2>2. CASE job.version # "0.1.0"
    <3>1. transforms = [k \in 1..m |-> G!Record(<<"prim_mesh_transform", placed[k][2].from, placed[k][2].to, placed[k][1]>>, {G!Source}, "observed", {})]
      BY <1>7, <2>2
    <3>2. ASSUME NEW k \in 1..m
          PROVE  /\ transforms[k].id[4] = placed[k][1] /\ transforms[k].id[1] = "prim_mesh_transform"
                 /\ transforms[k].refs = {G!Source} /\ transforms[k].class = "observed" /\ transforms[k].shown = {}
      <4>1. PICK from, to, at : from = placed[k][2].from /\ to = placed[k][2].to /\ at = placed[k][1]
        OBVIOUS
      <4>2. transforms[k] = [id |-> <<"prim_mesh_transform", from, to, at>>, refs |-> {G!Source}, class |-> "observed", shown |-> {}]
        BY <3>1, <4>1 DEF G!Record
      <4> QED BY <4>1, <4>2
    <3>3. \A i, j \in 1..m : transforms[i].id = transforms[j].id => i = j
      BY <1>5, <1>6, <3>2
    <3>4. Distinct(transforms) /\ Ids(transforms) = {transforms[k].id : k \in 1..m} /\ Items(transforms) = {transforms[k] : k \in 1..m}
      <4>1. transforms = [k \in 1..m |-> transforms[k]]
        BY <3>1
      <4> QED BY <1>6, <3>3, <4>1, DistinctFunction, SMTT(60)
    <3> QED BY <3>2, <3>4
  <2> QED BY <2>1, <2>2
<1>13. Distinct(source \o meshes) /\ Ids(source \o meshes) = {G!Source} \cup Ids(meshes) /\ Items(source \o meshes) = Items(source) \cup Items(meshes)
  <2>1. \A x \in Ids(source) : x \notin Ids(meshes)
    BY <1>9, <1>10 DEF G!Source, G!Mesh
  <2>2. PICK both : both = source \o meshes
    OBVIOUS
  <2>3. Distinct(both) /\ Ids(both) = Ids(source) \cup Ids(meshes) /\ Items(both) = Items(source) \cup Items(meshes)
    BY <1>9, <1>10, <2>1, <2>2, DistinctPair
  <2> QED BY <1>9, <2>2, <2>3
<1>14. PICK first : first = source \o meshes
  OBVIOUS
<1>15. /\ Distinct(first \o entities) /\ Ids(first \o entities) = {G!Source} \cup Ids(meshes) \cup Ids(entities)
       /\ Items(first \o entities) = Items(source) \cup Items(meshes) \cup Items(entities)
  <2>1. \A x \in Ids(first) : x \notin Ids(entities)
    BY <1>10, <1>11, <1>13, <1>14 DEF G!Source, G!Mesh
  <2>2. PICK both : both = first \o entities
    OBVIOUS
  <2>3. Distinct(both) /\ Ids(both) = Ids(first) \cup Ids(entities) /\ Items(both) = Items(first) \cup Items(entities)
    BY <1>11, <1>13, <1>14, <2>1, <2>2, DistinctPair
  <2> QED BY <1>13, <1>14, <2>2, <2>3
<1>16. PICK second : second = first \o entities
  OBVIOUS
<1>17. /\ Distinct(G!Baseline) /\ Ids(G!Baseline) = {G!Source} \cup Ids(meshes) \cup Ids(entities) \cup Ids(transforms)
       /\ Items(G!Baseline) = Items(source) \cup Items(meshes) \cup Items(entities) \cup Items(transforms)
  <2>1. G!Baseline = second \o transforms
    BY <1>8, <1>14, <1>16
  <2>2. \A x \in Ids(second) : x[1] # "prim_mesh_transform"
    BY <1>10, <1>11, <1>15, <1>16 DEF G!Source, G!Mesh
  <2>3. \A x \in Ids(second) : x \notin Ids(transforms)
    BY <1>12, <2>2
  <2> QED BY <1>12, <1>15, <1>16, <2>1, <2>3, DistinctPair
<1>18. \A r \in Items(source) : r.id = G!Source /\ r.refs = {} /\ r.class = "observed" /\ r.shown = {} /\ r.id[1] = "src"
  BY <1>9 DEF G!Record, G!Source
<1>19. \A r \in Items(meshes) : \E k \in 1..n : r.id = G!Mesh(job.meshes[k]) /\ r.refs = {G!Source} /\ r.class = "observed" /\ r.shown = {} /\ r.id[1] = "prim_mesh"
  BY <1>10 DEF G!Record, G!Mesh
<1>20. \A r \in Items(entities) : \E k \in 1..n : /\ r.id = <<"entity_mesh", job.meshes[k]>> /\ r.refs = {G!Mesh(job.meshes[k])}
                                                  /\ r.class = "observed" /\ r.shown = G!geometry_refs /\ r.id[1] = "entity_mesh"
  BY <1>11 DEF G!Record
<1>21. /\ \A x \in Ids(entities) : x[1] = "entity_mesh"
       /\ Ids(entities) \cup Ids(transforms) = {r.id : r \in {x \in Items(G!Baseline) : x.id[1] \in {"entity_mesh", "prim_mesh_transform"}}}
  <2>1. \A x \in Ids(entities) : x[1] = "entity_mesh"
    BY <1>11
  <2>2. Ids(entities) = {r.id : r \in Items(entities)} /\ Ids(transforms) = {r.id : r \in Items(transforms)}
    BY IdsAre
  <2>3. {x \in Items(G!Baseline) : x.id[1] \in {"entity_mesh", "prim_mesh_transform"}} = Items(entities) \cup Items(transforms)
    BY <1>12, <1>17, <1>18, <1>19, <1>20
  <2> QED BY <2>1, <2>2, <2>3
<1>22. ASSUME NEW r \in Items(G!Baseline)
       PROVE  /\ r.class = "observed" /\ r.refs \subseteq Ids(G!Baseline) /\ r.shown \in {{}, G!geometry_refs}
              /\ r.id[1] \in {"src", "prim_mesh", "entity_mesh", "prim_mesh_transform"}
  <2>1. G!Source \in Ids(G!Baseline) /\ \A k \in 1..n : G!Mesh(job.meshes[k]) \in Ids(G!Baseline)
    BY <1>10, <1>17
  <2>2. r \in Items(source) \/ r \in Items(meshes) \/ r \in Items(entities) \/ r \in Items(transforms)
    BY <1>17
  <2>3. CASE r \in Items(source)
    BY <1>18, <2>3
  <2>4. CASE r \in Items(meshes)
    BY <1>19, <2>1, <2>4
  <2>5. CASE r \in Items(entities)
    BY <1>20, <2>1, <2>5
  <2>6. CASE r \in Items(transforms)
    BY <1>12, <2>1, <2>6
  <2> QED BY <2>2, <2>3, <2>4, <2>5, <2>6
<1>23. ASSUME job.meshes # <<>> PROVE \E r \in Items(G!Baseline) : r.shown = G!geometry_refs
  <2>1. 1 \in 1..n
    BY <1>1, <1>23, MeshScene, ListIs
  <2>2. G!Record(<<"entity_mesh", job.meshes[1]>>, {G!Mesh(job.meshes[1])}, "observed", G!geometry_refs) \in Items(G!Baseline)
    BY <1>11, <1>17, <2>1
  <2> QED BY <2>2 DEF G!Record
<1>24. G!MeshIds(G!Baseline) = Ids(meshes)
  <2>1. {x \in G!Range(G!Baseline) : x.id[1] \in {"prim_mesh", "prim_mesh_calibrated", "prim_mesh_datum"}} = Items(meshes)
    BY <1>12, <1>17, <1>18, <1>19, <1>20, SameLists
  <2> QED BY <2>1, IdsAre DEF G!MeshIds
<1> QED BY <1>1, <1>10, <1>17, <1>21, <1>22, <1>23, <1>24

\* One and one are two.
LEMMA JoinedOnes == \A a, b : <<a>> \o <<b>> = <<a, b>> /\ <<a>> \o <<>> = <<a>>
<1>1. ASSUME NEW a, NEW b PROVE <<a>> \o <<b>> = <<a, b>>
  <2>1. PICK s, t, both, pair : s = <<a>> /\ t = <<b>> /\ both = s \o t /\ pair = <<a, b>>
    OBVIOUS
  <2>2. IsList(s) /\ IsList(t) /\ IsList(pair) /\ Items(s) = {a} /\ Items(t) = {b} /\ Items(pair) = {a, b}
    BY <2>1, Short
  <2>3. Len(s) = 1 /\ Len(t) = 1 /\ Len(pair) = 2 /\ s[1] = a /\ t[1] = b /\ pair[1] = a /\ pair[2] = b
    BY <2>1
  <2>4. IsList(both) /\ Items(both) = {a, b} /\ Len(both) = 2 /\ both[1] = a /\ both[2] = b
    <3>0. IsList(both) /\ Items(both) = Items(s) \cup Items(t)
      BY <2>1, <2>2, Joined
    <3>1. IsList(both) /\ Items(both) = {a, b}
      BY <2>2, <3>0
    <3>2. /\ Len(both) = Len(s) + Len(t) /\ \A i \in 1..Len(s) : both[i] = s[i]
          /\ \A i \in 1..Len(s) + Len(t) : i > Len(s) => both[i] = t[i - Len(s)]
      BY <2>1, <2>2, JoinedPlaces
    <3>3. 1 \in 1..Len(s) /\ 2 \in 1..Len(s) + Len(t) /\ 2 > Len(s) /\ 2 - Len(s) = 1 /\ Len(s) + Len(t) = 2
      BY <2>3
    <3> QED BY <2>3, <3>1, <3>2, <3>3
  <2>5. both = pair
    BY <2>2, <2>3, <2>4, SeqEqual DEF IsList
  <2> QED BY <2>1, <2>5
<1>2. ASSUME NEW a PROVE <<a>> \o <<>> = <<a>>
  <2>1. PICK s : s = <<a>>
    OBVIOUS
  <2>2. IsList(s)
    BY <2>1, Short
  <2> QED BY <2>1, <2>2, ConcatEmptySeq DEF IsList
<1> QED BY <1>1, <1>2

\* What is added to them: an assertion of the caller, and what follows from it.
MeshAssertion == IF job.profile # Nil THEN G!Registration ELSE <<"assert_mesh_datum">>
MeshManual == G!Record(MeshAssertion, {G!Source}, "manual", {})
MeshDerived ==
  G!Record(IF job.profile # Nil THEN <<"prim_mesh_calibrated">> ELSE <<"prim_mesh_datum">>, {MeshAssertion} \cup G!MeshIds(G!Baseline),
           "derived", IF job.profile # Nil THEN {"calibrated-scene.glb"} ELSE {"datum-transformed-mesh.json"})
MeshAdded == IF solution = "none" THEN <<>> ELSE IF solution = "known" THEN <<MeshManual, MeshDerived>> ELSE <<MeshManual>>

LEMMA MeshAddedIs == ASSUME MeshInv, MeshSolved PROVE MeshRecords = G!Baseline \o MeshAdded
<1>1. IsList(G!Baseline)
  BY BaselineIs DEF Distinct
<1>2. PICK base : base = G!Baseline
  OBVIOUS
<1>3. \A a, b : <<a>> \o <<b>> = <<a, b>> /\ <<a>> \o <<>> = <<a>>
  BY JoinedOnes
<1>4. CASE job.profile = Nil /\ job.registry = Nil
  <2>1. base \o <<>> = base
    BY <1>1, <1>2, ConcatEmptySeq DEF IsList
  <2> QED BY <1>2, <1>4, <2>1 DEF MeshRecords, MeshAdded, MeshSolved
<1>5. CASE job.profile # Nil
  <2>1. solution \in {"known", "conflicted"}
    BY <1>5 DEF MeshSolved
  <2>2. PICK derived : derived = MeshDerived
    OBVIOUS
  <2>3. G!Calibrated(base) = <<MeshManual>> \o (IF solution # "known" THEN <<>> ELSE <<derived>>)
    BY <1>2, <1>5, <2>2 DEF G!Calibrated, MeshManual, MeshDerived, MeshAssertion
  <2>4. G!Calibrated(base) = MeshAdded
    BY <1>3, <2>1, <2>2, <2>3 DEF MeshAdded
  <2>5. job.registry = Nil
    BY <1>5 DEF MeshSolved, MeshChecked
  <2> QED BY <1>2, <1>5, <2>4, <2>5 DEF MeshRecords
<1>6. CASE job.profile = Nil /\ job.registry # Nil
  <2>1. solution = "known"
    BY <1>6 DEF MeshSolved
  <2>2. G!Datum(base) = <<MeshManual, MeshDerived>>
    BY <1>2, <1>6 DEF G!Datum, MeshManual, MeshDerived, MeshAssertion
  <2> QED BY <1>2, <1>6, <2>1, <2>2 DEF MeshRecords, MeshAdded
<1> QED BY <1>4, <1>5, <1>6

\* The items of a written mesh, and what they are called.
LEMMA MeshWritten ==
  ASSUME MeshInv, MeshSolved, records = MeshRecords
  PROVE  /\ Items(MeshAdded) = IF solution = "none" THEN {} ELSE IF solution = "known" THEN {MeshManual, MeshDerived} ELSE {MeshManual}
         /\ Distinct(records) /\ Ids(records) = Ids(G!Baseline) \cup Ids(MeshAdded) /\ Items(records) = Items(G!Baseline) \cup Items(MeshAdded)
         /\ \A x \in Ids(G!Baseline) : x[1] \in {"src", "prim_mesh", "entity_mesh", "prim_mesh_transform"}
         /\ Ids(MeshAdded) = IF solution = "none" THEN {} ELSE IF solution = "known" THEN {MeshManual.id, MeshDerived.id} ELSE {MeshManual.id}
<1>1. PICK manual, derived : manual = MeshManual /\ derived = MeshDerived
  OBVIOUS
<1>2. /\ manual.id = MeshAssertion /\ derived.id = IF job.profile # Nil THEN <<"prim_mesh_calibrated">> ELSE <<"prim_mesh_datum">>
  BY <1>1, MeshRecordIs DEF MeshManual, MeshDerived
<1>3. manual.id # derived.id /\ {manual.id[1], derived.id[1]} \cap {"src", "prim_mesh", "entity_mesh", "prim_mesh_transform"} = {}
  BY <1>2 DEF MeshAssertion, G!Registration
<1>4. PICK single, pair : single = <<manual>> /\ pair = <<manual, derived>>
  OBVIOUS
<1>5. Distinct(single) /\ Ids(single) = {manual.id} /\ Items(single) = {manual}
  BY <1>4, DistinctTogether
<1>6. Distinct(pair) /\ Ids(pair) = {manual.id, derived.id} /\ Items(pair) = {manual, derived}
  <2>1. IsList(pair) /\ Items(pair) = {manual, derived} /\ DOMAIN pair = {1, 2} /\ pair[1] = manual /\ pair[2] = derived
    BY <1>4, Short
  <2> QED BY <1>3, <2>1 DEF Distinct, Ids
<1>7. PICK added : added = MeshAdded
  OBVIOUS
<1>8. Distinct(added) /\ Ids(added) = (IF solution = "none" THEN {} ELSE IF solution = "known" THEN {manual.id, derived.id} ELSE {manual.id})
      /\ Items(added) = IF solution = "none" THEN {} ELSE IF solution = "known" THEN {manual, derived} ELSE {manual}
  BY <1>1, <1>4, <1>5, <1>6, <1>7, DistinctTogether DEF MeshAdded
<1>9. \A x \in Ids(G!Baseline) : x[1] \in {"src", "prim_mesh", "entity_mesh", "prim_mesh_transform"}
  BY BaselineIs, IdsAre
<1>10. \A x \in Ids(G!Baseline) : x \notin Ids(added)
  BY <1>3, <1>8, <1>9
<1>11. records = G!Baseline \o added
  BY <1>7, MeshAddedIs
<1>12. Distinct(records) /\ Ids(records) = Ids(G!Baseline) \cup Ids(added) /\ Items(records) = Items(G!Baseline) \cup Items(added)
  BY <1>8, <1>10, <1>11, BaselineIs, DistinctPair
<1> QED BY <1>1, <1>7, <1>8, <1>9, <1>12

(***************************************************************************)
(* A calibration cites the assertion of the caller and all the meshes, and *)
(* what the file itself says is left as it is.                             *)
(***************************************************************************)
LEMMA CalibrationRests == ASSUME MeshInv, MeshBuilt PROVE G!CalibrationRestsOnSource
<1> SUFFICES ASSUME outcome = "written" PROVE G!CalibrationRestsOnSource
  BY DEF G!CalibrationRestsOnSource, G!Written
<1>1. MeshSolved /\ records = MeshRecords
  BY DEF MeshBuilt
<1>2. PICK base, added, manual, derived : base = G!Baseline /\ added = MeshAdded /\ manual = MeshManual /\ derived = MeshDerived
  OBVIOUS
<1>3. /\ manual.id = MeshAssertion /\ manual.class = "manual" /\ derived.class = "derived"
      /\ derived.refs = {MeshAssertion} \cup {G!Mesh(job.meshes[k]) : k \in DOMAIN job.meshes}
  BY <1>2, MeshRecordIs, BaselineIs DEF MeshManual, MeshDerived
<1>4. Items(added) = IF solution = "none" THEN {} ELSE IF solution = "known" THEN {manual, derived} ELSE {manual}
  BY <1>1, <1>2, MeshWritten
<1>5. Items(records) = Items(base) \cup Items(added) /\ IsList(base) /\ IsList(added) /\ records = base \o added
  <2>1. IsList(added)
    BY <1>2, Short DEF MeshAdded
  <2> QED BY <1>1, <1>2, <2>1, MeshWritten, MeshAddedIs, BaselineIs DEF Distinct
<1>6. \A r \in Items(base) : r.class = "observed"
  BY <1>2, BaselineIs
<1>7. PICK observed, asserted, made :
        /\ observed = {r \in Items(records) : r.class = "observed"}
        /\ asserted = {r \in Items(records) : r.class = "manual"}
        /\ made = {r \in Items(records) : r.class = "derived"}
  OBVIOUS
<1>8. Filtered(records, observed) = base
  <2>1. Items(base) \subseteq observed /\ \A r \in Items(added) : r \notin observed
    BY <1>3, <1>4, <1>5, <1>6, <1>7
  <2> QED BY <1>5, <2>1, FilteredPrefix
<1>9. asserted = (IF solution = "none" THEN {} ELSE {manual}) /\ made = IF solution = "known" THEN {derived} ELSE {}
  BY <1>3, <1>4, <1>5, <1>6, <1>7
<1>10. PICK names : names = {r.id : r \in asserted}
  OBVIOUS
<1>11. names = IF solution = "none" THEN {} ELSE {MeshAssertion}
  BY <1>3, <1>9, <1>10
<1>12. Cardinality(made) = IF solution = "known" THEN 1 ELSE 0
  BY <1>9, FS_EmptySet, FS_Singleton
<1>13. Cardinality(names) = IF job.profile = Nil /\ job.registry = Nil THEN 0 ELSE 1
  BY <1>1, <1>11, FS_EmptySet, FS_Singleton DEF MeshSolved
<1>14. \A r \in made : r.refs = names \cup {G!Mesh(job.meshes[k]) : k \in DOMAIN job.meshes}
  BY <1>3, <1>9, <1>11
<1> QED BY <1>2, <1>7, <1>8, <1>10, <1>12, <1>13, <1>14, SameLists DEF G!CalibrationRestsOnSource, G!Profile

\* The diagnostics of a mesh.
MeshConflicts == IF solution = "conflicted" THEN G!Conflicts ELSE {}

LEMMA MeshDiagnosticIs ==
  \A id, why, refs :
    /\ G!Diagnostic(id, why, refs).id = id /\ G!Diagnostic(id, why, refs).code = why /\ G!Diagnostic(id, why, refs).refs = refs
BY DEF G!Diagnostic

LEMMA MeshDiagnosticsAre ==
  /\ Distinct(G!Diagnostics)
  /\ Ids(G!Diagnostics) = {<<"diag_mesh_loss", "georeferencing">>, <<"diag_preview">>}
                           \cup (IF G!declared_units # Nil THEN {} ELSE {<<"diag_mesh_units">>})
                           \cup {<<"diag_mesh_coordinate_conflict", f>> : f \in MeshConflicts}
  /\ \A d \in Items(G!Diagnostics) : d.refs = {G!Source} \/ (d.refs = {G!Registration} /\ MeshConflicts # {})
  /\ \E d \in Items(G!Diagnostics) : d.code = G!GeoreferencingReason
<1>1. PICK fields : fields = <<"units", "frame">>
  OBVIOUS
<1>2. IsList(fields) /\ Items(fields) = {"units", "frame"} /\ DOMAIN fields = {1, 2} /\ fields[1] = "units" /\ fields[2] = "frame"
  BY <1>1, Short
<1>3. PICK conflicts : conflicts = Filtered(fields, MeshConflicts)
  OBVIOUS
<1>4. conflicts = G!ConflictFields
  BY <1>1, <1>3, SameLists DEF G!ConflictFields, MeshConflicts
<1>5. IsList(conflicts) /\ Items(conflicts) = MeshConflicts
  <2>1. MeshConflicts \subseteq {"units", "frame"}
    BY DEF MeshConflicts, G!Conflicts
  <2>2. IsList(conflicts) /\ Items(conflicts) = Items(fields) \cap MeshConflicts
    BY <1>2, <1>3, FilteredIs
  <2> QED BY <1>2, <2>1, <2>2
<1>6. \A i, j \in DOMAIN conflicts : conflicts[i] = conflicts[j] => i = j
  <2>1. \A i, j \in DOMAIN fields : fields[i] = fields[j] => i = j
    BY <1>2
  <2>2. \E place \in Bijection(DOMAIN conflicts, {k \in DOMAIN fields : fields[k] \in MeshConflicts}) : \A i \in DOMAIN conflicts : conflicts[i] = fields[place[i]]
    BY <1>2, <1>3, FilteredIs
  <2>3. PICK place \in Bijection(DOMAIN conflicts, {k \in DOMAIN fields : fields[k] \in MeshConflicts}) : \A i \in DOMAIN conflicts : conflicts[i] = fields[place[i]]
    BY <2>2
  <2>4. \A i, j \in DOMAIN conflicts : place[i] \in DOMAIN fields /\ place[j] \in DOMAIN fields /\ (place[i] = place[j] => i = j)
    BY <2>3 DEF Bijection, Injection, IsInjective
  <2> QED BY <2>1, <2>3, <2>4
<1>7. PICK n \in Nat : n = Len(conflicts) /\ DOMAIN conflicts = 1..n
  BY <1>5, ListIs
<1>8. PICK loss, units, found, drawn :
        /\ loss = <<G!Diagnostic(<<"diag_mesh_loss", "georeferencing">>, G!GeoreferencingReason, {G!Source})>>
        /\ units = IF G!declared_units # Nil THEN <<>> ELSE <<G!Diagnostic(<<"diag_mesh_units">>, "UNITS_NOT_DECLARED", {G!Source})>>
        /\ found = [k \in 1..n |-> G!Diagnostic(<<"diag_mesh_coordinate_conflict", conflicts[k]>>, "SOURCE_MANUAL_CONFLICT", {G!Registration})]
        /\ drawn = <<G!Diagnostic(<<"diag_preview">>, "PREVIEW_RENDERED", {G!Source})>>
  OBVIOUS
<1>9. G!Diagnostics = ((loss \o units) \o found) \o drawn
  BY <1>4, <1>7, <1>8 DEF G!Diagnostics
<1>10. /\ Distinct(loss) /\ Ids(loss) = {<<"diag_mesh_loss", "georeferencing">>}
       /\ Items(loss) = {G!Diagnostic(<<"diag_mesh_loss", "georeferencing">>, G!GeoreferencingReason, {G!Source})}
  <2>1. PICK d : d = G!Diagnostic(<<"diag_mesh_loss", "georeferencing">>, G!GeoreferencingReason, {G!Source})
    OBVIOUS
  <2>2. loss = <<d>> /\ d.id = <<"diag_mesh_loss", "georeferencing">>
    BY <1>8, <2>1, MeshDiagnosticIs
  <2> QED BY <2>1, <2>2, DistinctTogether
<1>11. /\ Distinct(units) /\ Ids(units) = IF G!declared_units # Nil THEN {} ELSE {<<"diag_mesh_units">>}
       /\ \A d \in Items(units) : d.refs = {G!Source}
  <2>1. CASE G!declared_units # Nil
    BY <1>8, <2>1, DistinctTogether
  <2>2. CASE G!declared_units = Nil
    BY <1>8, <2>2, DistinctTogether, MeshDiagnosticIs
  <2> QED BY <2>1, <2>2
<1>12. /\ Distinct(found) /\ Ids(found) = {<<"diag_mesh_coordinate_conflict", f>> : f \in MeshConflicts}
       /\ \A d \in Items(found) : d.refs = {G!Registration} /\ MeshConflicts # {}
  <2>1. ASSUME NEW k \in 1..n
        PROVE  found[k].id = <<"diag_mesh_coordinate_conflict", conflicts[k]>> /\ found[k].refs = {G!Registration} /\ conflicts[k] \in MeshConflicts
    <3>1. PICK id, refs : id = <<"diag_mesh_coordinate_conflict", conflicts[k]>> /\ refs = {G!Registration}
      OBVIOUS
    <3>2. found[k] = G!Diagnostic(id, "SOURCE_MANUAL_CONFLICT", refs)
      BY <1>8, <3>1
    <3>3. conflicts[k] \in MeshConflicts
      BY <1>5, <1>7 DEF Items
    <3> QED BY <3>1, <3>2, <3>3, MeshDiagnosticIs
  <2>2. \A i, j \in 1..n : found[i].id = found[j].id => i = j
    BY <1>6, <1>7, <2>1
  <2>3. found = [k \in 1..n |-> found[k]]
    BY <1>8
  <2>4. Distinct(found) /\ Ids(found) = {found[k].id : k \in 1..n} /\ Items(found) = {found[k] : k \in 1..n}
    BY <1>7, <2>2, <2>3, DistinctFunction, SMTT(60)
  <2>5. {found[k].id : k \in 1..n} = {<<"diag_mesh_coordinate_conflict", f>> : f \in MeshConflicts}
    <3>1. MeshConflicts = {conflicts[k] : k \in 1..n}
      BY <1>5, <1>7 DEF Items
    <3>2. \A k \in 1..n : found[k].id = <<"diag_mesh_coordinate_conflict", conflicts[k]>>
      BY <2>1
    <3> QED BY <3>1, <3>2
  <2> QED BY <2>1, <2>4, <2>5
<1>13. Distinct(drawn) /\ Ids(drawn) = {<<"diag_preview">>} /\ \A d \in Items(drawn) : d.refs = {G!Source}
  BY <1>8, DistinctTogether, MeshDiagnosticIs
<1>14. PICK first : first = loss \o units
  OBVIOUS
<1>15. Distinct(first) /\ Ids(first) = Ids(loss) \cup Ids(units) /\ Items(first) = Items(loss) \cup Items(units)
  <2>1. \A x \in Ids(loss) : x \notin Ids(units)
    BY <1>10, <1>11
  <2> QED BY <1>10, <1>11, <1>14, <2>1, DistinctPair
<1>16. PICK second : second = first \o found
  OBVIOUS
<1>17. Distinct(second) /\ Ids(second) = Ids(first) \cup Ids(found) /\ Items(second) = Items(first) \cup Items(found)
  <2>1. (\A x \in Ids(first) : x[1] # "diag_mesh_coordinate_conflict") /\ \A x \in Ids(found) : x[1] = "diag_mesh_coordinate_conflict"
    BY <1>10, <1>11, <1>12, <1>15
  <2>2. \A x \in Ids(first) : x \notin Ids(found)
    BY <2>1
  <2> QED BY <1>12, <1>15, <1>16, <2>2, DistinctPair
<1>18. /\ Distinct(G!Diagnostics) /\ Ids(G!Diagnostics) = Ids(second) \cup Ids(drawn)
       /\ Items(G!Diagnostics) = Items(second) \cup Items(drawn)
  <2>1. \A x \in Ids(second) : x[1] # "diag_preview"
    BY <1>10, <1>11, <1>12, <1>15, <1>17
  <2>2. \A x \in Ids(second) : x \notin Ids(drawn)
    BY <1>13, <2>1
  <2>3. G!Diagnostics = second \o drawn
    BY <1>9, <1>14, <1>16
  <2> QED BY <1>13, <1>17, <2>2, <2>3, DistinctPair
<1>19. \A d \in Items(loss) : d.refs = {G!Source} /\ d.code = G!GeoreferencingReason
  BY <1>10, MeshDiagnosticIs
<1>20. \A d \in Items(G!Diagnostics) : d.refs = {G!Source} \/ (d.refs = {G!Registration} /\ MeshConflicts # {})
  BY <1>11, <1>12, <1>13, <1>15, <1>17, <1>18, <1>19
<1>21. \E d \in Items(G!Diagnostics) : d.code = G!GeoreferencingReason
  BY <1>10, <1>15, <1>17, <1>18, <1>19
<1> QED BY <1>10, <1>11, <1>12, <1>13, <1>15, <1>17, <1>18, <1>20, <1>21

(***************************************************************************)
(* What is declared of the coordinates is what is known of them.           *)
(***************************************************************************)
LEMMA CoordinatesDeclared == ASSUME MeshInv, MeshBuilt PROVE G!CoordinatesAreDeclared
<1> SUFFICES ASSUME outcome = "written" PROVE G!CoordinatesAreDeclared
  BY DEF G!CoordinatesAreDeclared, G!Written
<1>1. MeshSolved /\ records = MeshRecords /\ diagnostics = G!Diagnostics
  BY DEF MeshBuilt
<1>2. PICK all : all = G!All
  OBVIOUS
<1>3. all = Ids(records) \cup Ids(diagnostics)
  BY <1>2 DEF G!All, G!Names, Ids
<1>4. PICK base, added : base = Ids(G!Baseline) /\ added = Ids(MeshAdded)
  OBVIOUS
<1>5. \A x \in base : x[1] \in {"src", "prim_mesh", "entity_mesh", "prim_mesh_transform"}
  BY <1>1, <1>4, MeshWritten
<1>6. added = IF solution = "none" THEN {} ELSE IF solution = "known" THEN {MeshManual.id, MeshDerived.id} ELSE {MeshManual.id}
  BY <1>1, <1>4, MeshWritten
<1>7. /\ MeshManual.id \in {<<"assert_mesh_coordinate">>, <<"assert_mesh_datum">>}
      /\ MeshDerived.id = IF job.profile # Nil THEN <<"prim_mesh_calibrated">> ELSE <<"prim_mesh_datum">>
  BY MeshRecordIs DEF MeshManual, MeshDerived, MeshAssertion, G!Registration
<1>8. PICK said : said = {<<"diag_mesh_loss", "georeferencing">>, <<"diag_preview">>}
                         \cup (IF G!declared_units # Nil THEN {} ELSE {<<"diag_mesh_units">>})
                         \cup {<<"diag_mesh_coordinate_conflict", f>> : f \in MeshConflicts}
  OBVIOUS
<1>9. all = base \cup added \cup said
  BY <1>1, <1>3, <1>4, <1>8, MeshWritten, MeshDiagnosticsAre
<1>10. \A x \in base \cup added : x # <<"diag_mesh_units">> /\ \A f : x # <<"diag_mesh_coordinate_conflict", f>>
  <2>1. \A x \in added : x[1] \in {"assert_mesh_coordinate", "assert_mesh_datum", "prim_mesh_calibrated", "prim_mesh_datum"}
    BY <1>6, <1>7
  <2> QED BY <1>5, <2>1
<1>11. <<"diag_mesh_units">> \in all <=> G!declared_units = Nil
  BY <1>8, <1>9, <1>10
<1>12. \A f : <<"diag_mesh_coordinate_conflict", f>> \in all <=> f \in MeshConflicts
  BY <1>8, <1>9, <1>10
<1>13. /\ <<"prim_mesh_calibrated">> \in all <=> solution = "known" /\ job.profile # Nil
       /\ <<"prim_mesh_datum">> \in all <=> solution = "known" /\ job.profile = Nil
  <2>1. \A x \in base \cup said : x # <<"prim_mesh_calibrated">> /\ x # <<"prim_mesh_datum">>
    BY <1>5, <1>8
  <2> QED BY <1>6, <1>7, <1>9, <2>1
<1>14. ASSUME job.profile # Nil, NEW f \in {"units", "frame"}
       PROVE  LET said_ == IF f = "units" THEN job.profile.units ELSE job.profile.frame
                  own_ == IF f = "units" THEN G!declared_units ELSE G!declared_frame
                  conflict == <<"diag_mesh_coordinate_conflict", f>> \in all
              IN  /\ conflict <=> (Nil \notin {said_, own_} /\ said_ # own_)
                  /\ conflict => <<"prim_mesh_calibrated">> \notin all
  <2>1. f \in G!Conflicts <=> LET said_ == IF f = "units" THEN job.profile.units ELSE job.profile.frame
                                  own_ == IF f = "units" THEN G!declared_units ELSE G!declared_frame
                              IN  Nil \notin {said_, own_} /\ said_ # own_
    BY DEF G!Conflicts, G!Profile
  <2>2. f \in MeshConflicts <=> f \in G!Conflicts
    BY <1>1, <1>14 DEF MeshConflicts, MeshSolved
  <2>3. f \in MeshConflicts => solution # "known"
    BY DEF MeshConflicts
  <2> QED BY <1>12, <1>13, <2>1, <2>2, <2>3
<1>15. G!GeoreferencingReason = CASE <<"prim_mesh_datum">> \in all -> "CALLER_CRS_QUALIFIED_NOT_SURVEYED"
                                  [] <<"prim_mesh_calibrated">> \in all /\ job.profile.crs # Nil -> "MANUAL_CRS_UNVERIFIED"
                                  [] OTHER -> "GEOREFERENCING_UNSUPPORTED"
  <2>1. CASE job.registry # Nil
    <3>1. job.profile = Nil /\ solution = "known"
      BY <1>1, <2>1 DEF MeshSolved, MeshChecked
    <3> QED BY <1>13, <2>1, <3>1 DEF G!GeoreferencingReason
  <2>2. CASE job.registry = Nil
    <3>1. solution = "known" => job.profile # Nil
      BY <1>1, <2>2 DEF MeshSolved
    <3> QED BY <1>13, <2>2, <3>1 DEF G!GeoreferencingReason, G!georeferencing, G!Profile
  <2> QED BY <2>1, <2>2
<1>16. \E d \in Items(diagnostics) : d.code = G!GeoreferencingReason
  BY <1>1, MeshDiagnosticsAre
<1> QED BY <1>2, <1>11, <1>14, <1>15, <1>16, SameLists DEF G!CoordinatesAreDeclared, G!Profile

(***************************************************************************)
(* The package of a mesh holds together.                                   *)
(***************************************************************************)
LEMMA MeshClosed == ASSUME MeshInv, MeshBuilt PROVE G!MeshIsClosed
<1> SUFFICES ASSUME outcome = "written" PROVE G!MeshIsClosed
  BY DEF G!MeshIsClosed, G!Written
<1>1. MeshSolved /\ records = MeshRecords /\ diagnostics = G!Diagnostics /\ artifacts = MeshArtifacts
  BY DEF MeshBuilt
<1>2. PICK base, added : base = G!Baseline /\ added = MeshAdded
  OBVIOUS
<1>3. /\ Distinct(records) /\ Ids(records) = Ids(base) \cup Ids(added) /\ Items(records) = Items(base) \cup Items(added)
      /\ \A x \in Ids(base) : x[1] \in {"src", "prim_mesh", "entity_mesh", "prim_mesh_transform"}
      /\ Ids(added) = (IF solution = "none" THEN {} ELSE IF solution = "known" THEN {MeshManual.id, MeshDerived.id} ELSE {MeshManual.id})
      /\ Items(added) = IF solution = "none" THEN {} ELSE IF solution = "known" THEN {MeshManual, MeshDerived} ELSE {MeshManual}
  BY <1>1, <1>2, MeshWritten
<1>4. /\ MeshManual.id = MeshAssertion /\ MeshManual.refs = {G!Source} /\ MeshManual.shown = {}
      /\ MeshDerived.id = (IF job.profile # Nil THEN <<"prim_mesh_calibrated">> ELSE <<"prim_mesh_datum">>)
      /\ MeshDerived.refs = {MeshAssertion} \cup {G!Mesh(job.meshes[k]) : k \in DOMAIN job.meshes}
      /\ MeshDerived.shown = (IF job.profile # Nil THEN {"calibrated-scene.glb"} ELSE {"datum-transformed-mesh.json"})
  BY MeshRecordIs, BaselineIs DEF MeshManual, MeshDerived
<1>5. MeshAssertion = IF job.profile # Nil THEN G!Registration ELSE <<"assert_mesh_datum">>
  BY DEF MeshAssertion
<1>6. G!Source \in Ids(base) /\ \A k \in DOMAIN job.meshes : G!Mesh(job.meshes[k]) \in Ids(base)
  BY <1>2, BaselineIs
<1>7. PICK all : all = G!All
  OBVIOUS
<1>8. all = Ids(records) \cup Ids(diagnostics)
  BY <1>7 DEF G!All, G!Names, Ids
<1>9. Cardinality(all) = Len(records) + Len(diagnostics)
  <2>1. Distinct(diagnostics) /\ \A x \in Ids(diagnostics) : x[1] \in {"diag_mesh_loss", "diag_preview", "diag_mesh_units", "diag_mesh_coordinate_conflict"}
    BY <1>1, MeshDiagnosticsAre
  <2>2. \A x \in Ids(records) : x[1] \in {"src", "prim_mesh", "entity_mesh", "prim_mesh_transform", "assert_mesh_coordinate", "assert_mesh_datum",
                                           "prim_mesh_calibrated", "prim_mesh_datum"}
    <3>1. \A x \in Ids(added) : x[1] \in {"assert_mesh_coordinate", "assert_mesh_datum", "prim_mesh_calibrated", "prim_mesh_datum"}
      BY <1>3, <1>4, <1>5 DEF G!Registration
    <3> QED BY <1>3, <3>1
  <2>3. \A x \in Ids(records) : x \notin Ids(diagnostics)
    BY <2>1, <2>2
  <2>4. PICK both : both = records \o diagnostics
    OBVIOUS
  <2>5. Distinct(both) /\ Ids(both) = all
    BY <1>3, <1>8, <2>1, <2>3, <2>4, DistinctPair
  <2>6. Cardinality(all) = Len(both)
    BY <2>5, DistinctCounted
  <2>7. Len(both) = Len(records) + Len(diagnostics)
    BY <1>3, <2>1, <2>4, JoinedPlaces DEF Distinct
  <2> QED BY <2>6, <2>7
<1>10. \A r \in Items(records) \cup Items(diagnostics) : r.refs \subseteq all
  <2>1. \A r \in Items(base) : r.refs \subseteq all
    BY <1>2, <1>3, <1>8, BaselineIs
  <2>2. ASSUME NEW r \in Items(added) PROVE r.refs \subseteq all
    <3>1. MeshManual.id \in all
      BY <1>3, <1>8, <2>2
    <3>2. G!Source \in all /\ \A k \in DOMAIN job.meshes : G!Mesh(job.meshes[k]) \in all
      BY <1>3, <1>6, <1>8
    <3>3. r = MeshManual \/ r = MeshDerived
      BY <1>3, <2>2
    <3> QED BY <1>4, <3>1, <3>2, <3>3
  <2>3. ASSUME NEW d \in Items(diagnostics) PROVE d.refs \subseteq all
    <3>1. d.refs = {G!Source} \/ (d.refs = {G!Registration} /\ MeshConflicts # {})
      BY <1>1, <2>3, MeshDiagnosticsAre
    <3>2. G!Source \in all
      BY <1>3, <1>6, <1>8
    <3>3. ASSUME MeshConflicts # {} PROVE G!Registration \in all
      <4>1. solution = "conflicted" /\ job.profile # Nil
        BY <1>1, <3>3 DEF MeshConflicts, MeshSolved
      <4> QED BY <1>3, <1>4, <1>5, <1>8, <4>1
    <3> QED BY <3>1, <3>2, <3>3
  <2> QED BY <1>3, <2>1, <2>2, <2>3
<1>11. UNION {r.shown : r \in Items(records)} = artifacts
  <2>1. PICK scene : scene = G!geometry_refs
    OBVIOUS
  <2>2. (\A r \in Items(base) : r.shown \in {{}, scene}) /\ \E r \in Items(base) : r.shown = scene
    <3>1. job.meshes # <<>>
      BY <1>1 DEF MeshSolved, MeshChecked
    <3> QED BY <1>2, <2>1, <3>1, BaselineIs
  <2>3. UNION {r.shown : r \in Items(base)} = scene
    BY <2>2
  <2>4. UNION {r.shown : r \in Items(added)} = IF solution = "known" THEN MeshDerived.shown ELSE {}
    <3>1. CASE solution = "none"
      BY <1>3, <3>1
    <3>2. CASE solution = "known"
      BY <1>3, <1>4, <3>2
    <3>3. CASE solution \notin {"none", "known"}
      BY <1>3, <1>4, <3>3
    <3> QED BY <3>1, <3>2, <3>3
  <2>5. UNION {r.shown : r \in Items(records)} = scene \cup (IF solution = "known" THEN MeshDerived.shown ELSE {})
    BY <1>3, <2>3, <2>4
  <2>6. CASE job.registry # Nil
    <3>1. job.profile = Nil /\ solution = "known"
      BY <1>1, <2>6 DEF MeshSolved, MeshChecked
    <3> QED BY <1>1, <1>4, <2>1, <2>5, <2>6, <3>1 DEF MeshArtifacts
  <2>7. CASE job.registry = Nil /\ solution = "known"
    <3>1. job.profile # Nil
      BY <1>1, <2>7 DEF MeshSolved
    <3>2. {"calibrated-scene.glb"} \subseteq scene
      BY <2>1, <2>7, <3>1 DEF G!geometry_refs, G!Profile
    <3> QED BY <1>1, <1>4, <2>1, <2>5, <2>7, <3>1, <3>2 DEF MeshArtifacts
  <2>8. CASE job.registry = Nil /\ solution # "known"
    BY <1>1, <2>1, <2>5, <2>8 DEF MeshArtifacts
  <2> QED BY <2>6, <2>7, <2>8
<1> QED BY <1>7, <1>9, <1>10, <1>11, SameLists DEF G!MeshIsClosed

(***************************************************************************)
(* STEP, IGES and DWG.                                                     *)
(***************************************************************************)
ExchangeHeld ==
  IF E!Bundled THEN DOMAIN job.results = {e.path : e \in E!Members} /\ \A e \in E!Members : E!ResultOf(e.path).input = e.digest
  ELSE job.result # Nil
ExchangeChecked ==
  /\ ExchangeHeld
  /\ job.adapter = "step" => /\ E!RootResult.expanded \/ Len(E!RootResult.roots) = 1
                             /\ E!Succeeded(E!RootResult.roots) # <<>> /\ E!UniqueIds(E!RootResult.items)
  /\ job.adapter = "dwg" => E!RootResult.conflicts = E!Repeated(E!RootResult.objects) /\ E!RootResult.input = job.source
ExchangeRetained == E!Bundled => \A e \in Items(E!Children) : e.path \in E!RootResult.retained
ExchangeRecords ==
  IF job.adapter = "step" THEN E!StepRecords(E!RootResult)
  ELSE E!DwgRecords(E!RootResult)
       \o (IF E!Bundled THEN E!Concat([k \in DOMAIN E!Children |-> E!MemberRecords(E!Children[k])]) ELSE <<>>)
ExchangeArtifacts == IF job.adapter = "step" THEN E!StepArtifacts(E!RootResult) ELSE {}
ExchangeDiagnostics == E!ForEach([c \in E!Codes |-> E!Record(<<"diag", c>>, {E!Source}, "observed")])
ExchangeBuilt ==
  /\ job \in ExchangeJobs
  /\ pc # "done" => outcome = "running"
  /\ \A e \in checked : E!ResultOf(e.path).input = e.digest
  /\ pc = "members" => E!Bundled /\ DOMAIN job.results = {e.path : e \in E!Members}
  /\ pc = "events" => ExchangeHeld
  /\ pc = "records" => ExchangeChecked
  /\ outcome = "written" => /\ ExchangeChecked /\ ExchangeRetained
                            /\ records = ExchangeRecords /\ diagnostics = ExchangeDiagnostics /\ artifacts = ExchangeArtifacts

\* What is made of a result follows from the call.
LEMMA ExchangeKept ==
  ASSUME UNCHANGED job
  PROVE  /\ E!RootResult' = E!RootResult /\ (E!Bundled' <=> E!Bundled) /\ E!Members' = E!Members /\ \A p : E!ResultOf(p)' = E!ResultOf(p)
         /\ (ExchangeHeld' <=> ExchangeHeld) /\ (ExchangeChecked' <=> ExchangeChecked) /\ (ExchangeRetained' <=> ExchangeRetained)
         /\ ExchangeRecords' = ExchangeRecords /\ ExchangeArtifacts' = ExchangeArtifacts /\ ExchangeDiagnostics' = ExchangeDiagnostics
<1>1. (E!Bundled' <=> E!Bundled) /\ E!Members' = E!Members
  BY DEF E!Bundled, E!Members
<1>2. \A p : E!ResultOf(p)' = E!ResultOf(p)
  BY DEF E!ResultOf
<1>3. E!RootEntry' = E!RootEntry
  BY <1>1 DEF E!RootEntry
<1>4. E!RootResult' = E!RootResult
  BY <1>1, <1>2, <1>3 DEF E!RootResult, E!ResultOf
<1>5. E!Children' = E!Children
  BY <1>1 DEF E!Children
<1>6. E!Codes' = E!Codes
  BY <1>4 DEF E!Codes
<1>7. ExchangeHeld' <=> ExchangeHeld
  BY <1>1, <1>2 DEF ExchangeHeld
<1>8. ExchangeChecked' <=> ExchangeChecked
  BY <1>4, <1>7 DEF ExchangeChecked
<1>9. ExchangeRetained' <=> ExchangeRetained
  BY <1>1, <1>4, <1>5 DEF ExchangeRetained
<1>10. ExchangeRecords' = ExchangeRecords
  BY <1>1, <1>4, <1>5 DEF ExchangeRecords
<1>11. ExchangeArtifacts' = ExchangeArtifacts /\ ExchangeDiagnostics' = ExchangeDiagnostics
  BY <1>4, <1>6 DEF ExchangeArtifacts, ExchangeDiagnostics
<1> QED BY <1>1, <1>2, <1>4, <1>7, <1>8, <1>9, <1>10, <1>11

\* What evidence is checked for.
LEMMA DwgRefuses ==
  ASSUME NEW res
  PROVE  /\ Refusals(E!DwgChecks(res))
         /\ (\A c \in Items(E!DwgChecks(res)) : c[1]) => res.conflicts = E!Repeated(res.objects)
<1>1. PICK sound, agreed : sound = (res.conflicts = E!Repeated(res.objects)) /\ agreed = (res.ok /\ res.provider = "dwg")
  OBVIOUS
<1>2. PICK same : same = (res.input = res.converted)
  OBVIOUS
<1>3. E!DwgChecks(res) = << <<agreed, "PROVIDER_RESULT_INVALID">>, <<res.sequential, "EVENT_INVALID">>, <<same, "EVENT_INVALID">>,
                           <<res.artifact, "ARTIFACT_INVALID">>, <<res.counted, "SOURCE_INVALID">>, <<sound, "SOURCE_INVALID">> >>
  BY <1>1, <1>2 DEF E!DwgChecks
<1>4. \A x \in {"PROVIDER_RESULT_INVALID", "EVENT_INVALID", "ARTIFACT_INVALID", "SOURCE_INVALID"} : x \notin NoFailures
  BY DEF NoFailures
<1>8. PICK a, b, c, d, e, f :
         /\ a = <<agreed, "PROVIDER_RESULT_INVALID">> /\ b = <<res.sequential, "EVENT_INVALID">> /\ c = <<same, "EVENT_INVALID">>
         /\ d = <<res.artifact, "ARTIFACT_INVALID">> /\ e = <<res.counted, "SOURCE_INVALID">> /\ f = <<sound, "SOURCE_INVALID">>
  OBVIOUS
<1>5. IsList(E!DwgChecks(res)) /\ Items(E!DwgChecks(res)) = {a, b, c, d, e, f}
  <2>1. E!DwgChecks(res) = <<a, b, c, d, e, f>>
    BY <1>3, <1>8
  <2> QED BY <2>1, Short
<1>6. Refusals(E!DwgChecks(res))
  BY <1>4, <1>5, <1>8 DEF Refusals
<1>7. f[1] = sound /\ f \in Items(E!DwgChecks(res))
  BY <1>5, <1>8
<1> QED BY <1>1, <1>6, <1>7

LEMMA StepRefuses ==
  ASSUME NEW res
  PROVE  /\ Refusals(E!StepChecks(res))
         /\ (\A c \in Items(E!StepChecks(res)) : c[1]) =>
              (res.expanded \/ Len(res.roots) = 1) /\ E!Succeeded(res.roots) # <<>> /\ E!UniqueIds(res.items)
<1>1. PICK roots : roots = E!Succeeded(res.roots)
  OBVIOUS
<1>2. PICK complete : complete = (res.expanded => res.complete = ({k \in DOMAIN res.roots : res.roots[k].status = "failed"} = {}))
  OBVIOUS
<1>3. PICK named : named = \A k \in DOMAIN res.items : res.items[k].references \subseteq E!Ids(res.items)
  OBVIOUS
<1>4. PICK shaped : shaped = \A k \in DOMAIN roots : roots[k].brep
  OBVIOUS
<1>5. PICK healed : healed = \A k \in DOMAIN roots : roots[k].healed # "same"
  OBVIOUS
<1>6. PICK agreed, single, some, unique :
         /\ agreed = (res.ok /\ res.provider = "step") /\ single = (res.expanded \/ Len(res.roots) = 1)
         /\ some = (roots # <<>>) /\ unique = E!UniqueIds(res.items)
  OBVIOUS
<1>7. E!StepChecks(res) =
        << <<agreed, "PROVIDER_RESULT_INVALID">>, <<res.sequential, "EVENT_INVALID">>, <<single, "EVENT_INVALID">>, <<some, "EVENT_INVALID">>,
           <<complete, "EVENT_INVALID">>, <<unique, "EVENT_INVALID">>, <<named, "EVENT_INVALID">>,
           <<shaped, "ARTIFACT_INVALID">>, <<healed, "BREP_INVALID">> >>
  BY <1>1, <1>2, <1>3, <1>4, <1>5, <1>6 DEF E!StepChecks
<1>8. \A x \in {"PROVIDER_RESULT_INVALID", "EVENT_INVALID", "ARTIFACT_INVALID", "BREP_INVALID"} : x \notin NoFailures
  BY DEF NoFailures
<1>12. PICK a, b, c, d, e, f, g, h, i :
          /\ a = <<agreed, "PROVIDER_RESULT_INVALID">> /\ b = <<res.sequential, "EVENT_INVALID">> /\ c = <<single, "EVENT_INVALID">>
          /\ d = <<some, "EVENT_INVALID">> /\ e = <<complete, "EVENT_INVALID">> /\ f = <<unique, "EVENT_INVALID">>
          /\ g = <<named, "EVENT_INVALID">> /\ h = <<shaped, "ARTIFACT_INVALID">> /\ i = <<healed, "BREP_INVALID">>
  OBVIOUS
<1>9. IsList(E!StepChecks(res)) /\ Items(E!StepChecks(res)) = {a, b, c, d, e, f, g, h, i}
  <2>1. E!StepChecks(res) = <<a, b, c, d, e, f, g, h, i>>
    BY <1>7, <1>12
  <2> QED BY <2>1, Short
<1>10. Refusals(E!StepChecks(res))
  BY <1>8, <1>9, <1>12 DEF Refusals
<1>11. ASSUME \A x \in Items(E!StepChecks(res)) : x[1] PROVE single /\ some /\ unique
  <2>1. c[1] /\ d[1] /\ f[1]
    BY <1>9, <1>11
  <2> QED BY <1>12, <2>1
<1> QED BY <1>1, <1>6, <1>10, <1>11

\* A step of the exchange adapters keeps this.
LEMMA ExchangeBuiltKeeps == ASSUME ExchangeBuilt, [E!Next]_(E!vars) PROVE ExchangeBuilt'
<1> USE DEF ExchangeBuilt, E!Stop
<1>0. UNCHANGED job
  BY DEF E!vars, E!Next, E!Refuse, E!Begin, E!CheckMember, E!CheckEvents, E!Write
<1>1. CASE UNCHANGED E!vars
  BY <1>0, <1>1, ExchangeKept DEF E!vars
<1>2. CASE E!Refuse
  <2>1. pc' = "done" /\ outcome' # "written" /\ UNCHANGED checked
    BY <1>2 DEF E!Refuse
  <2> QED BY <1>0, <2>1, ExchangeKept
<1>3. CASE E!Begin
  <2>1. /\ pc' = (IF E!Bundled THEN "members" ELSE "events") /\ UNCHANGED <<checked, outcome>> /\ outcome = "running"
        /\ IF E!Bundled THEN DOMAIN job.results = {e.path : e \in E!Members} ELSE job.result # Nil
    BY <1>3 DEF E!Begin
  <2>2. pc' = "events" => ExchangeHeld
    BY <2>1 DEF ExchangeHeld
  <2> QED BY <1>0, <2>1, <2>2, ExchangeKept
<1>4. CASE E!CheckMember
  <2>1. CASE checked = E!Members
    <3>1. pc' = "events" /\ UNCHANGED <<checked, outcome>> /\ outcome = "running" /\ ExchangeHeld
      BY <1>4, <2>1 DEF E!CheckMember, ExchangeHeld
    <3> QED BY <1>0, <3>1, ExchangeKept
  <2>2. CASE checked # E!Members
    <3>1. PICK entry, res : entry = E!NextEntry /\ res = E!ResultOf(E!NextEntry.path)
      OBVIOUS
    <3>2. PICK last : last = << <<res.input = entry.digest, "INPUT_HASH_MISMATCH">> >>
      OBVIOUS
    <3>3. Refusals(last) /\ Items(last) = {<<res.input = entry.digest, "INPUT_HASH_MISMATCH">>}
      BY <3>2, Short DEF Refusals, NoFailures
    <3>4. PICK verdict : verdict = E!FirstFailure(E!DwgChecks(res) \o last)
      OBVIOUS
    <3>5. Refusals(E!DwgChecks(res) \o last) /\ Items(E!DwgChecks(res) \o last) = Items(E!DwgChecks(res)) \cup Items(last)
      BY <3>3, DwgRefuses, RefusalsJoined, Joined DEF Refusals
    <3>6. verdict \notin NoFailures \/ (verdict = "accepted" /\ \A c \in Items(last) : c[1])
      BY <3>4, <3>5, RefusalsFail
    <3>7. verdict = "accepted" => res.input = entry.digest
      <4>1. <<res.input = entry.digest, "INPUT_HASH_MISMATCH">>[1] <=> res.input = entry.digest
        OBVIOUS
      <4> QED BY <3>3, <3>6, <4>1 DEF NoFailures
    <3>8. /\ pc = "members" /\ \/ verdict = "accepted" /\ checked' = checked \cup {entry} /\ UNCHANGED <<pc, outcome>>
                               \/ verdict # "accepted" /\ pc' = "done" /\ outcome' = verdict /\ UNCHANGED checked
      BY <1>4, <2>2, <3>1, <3>2, <3>4 DEF E!CheckMember
    <3>9. verdict # "accepted" => verdict # "written"
      BY <3>6 DEF NoFailures
    <3>10. \A e \in checked' : E!ResultOf(e.path).input = e.digest
      BY <3>1, <3>7, <3>8
    <3> QED BY <1>0, <3>8, <3>9, <3>10, ExchangeKept
  <2> QED BY <2>1, <2>2
<1>5. CASE E!CheckEvents
  <2>1. PICK res : res = E!RootResult
    OBVIOUS
  <2>2. PICK last : last = << <<res.input = job.source, "INPUT_HASH_MISMATCH">>, <<res.parses, "CONVERTED_DXF_INVALID">> >>
    OBVIOUS
  <2>3. Refusals(last) /\ <<res.input = job.source, "INPUT_HASH_MISMATCH">> \in Items(last)
    BY <2>2, Short DEF Refusals, NoFailures
  <2>4. PICK step, dwg : step = E!FirstFailure(E!StepChecks(res)) /\ dwg = E!FirstFailure(E!DwgChecks(res) \o last)
    OBVIOUS
  <2>5. Refusals(E!DwgChecks(res) \o last) /\ Items(E!DwgChecks(res) \o last) = Items(E!DwgChecks(res)) \cup Items(last)
    BY <2>3, DwgRefuses, RefusalsJoined, Joined DEF Refusals
  <2>6. dwg \notin NoFailures \/ (dwg = "accepted" /\ \A c \in Items(E!DwgChecks(res)) \cup Items(last) : c[1])
    BY <2>4, <2>5, RefusalsFail
  <2>7. dwg = "accepted" => res.conflicts = E!Repeated(res.objects) /\ res.input = job.source
    <3>1. <<res.input = job.source, "INPUT_HASH_MISMATCH">>[1] <=> res.input = job.source
      OBVIOUS
    <3> QED BY <2>3, <2>6, <3>1, DwgRefuses DEF NoFailures
  <2>8. step \notin NoFailures \/ (step = "accepted" /\ \A c \in Items(E!StepChecks(res)) : c[1])
    BY <2>4, StepRefuses, RefusalsFail
  <2>9. step = "accepted" => (res.expanded \/ Len(res.roots) = 1) /\ E!Succeeded(res.roots) # <<>> /\ E!UniqueIds(res.items)
    BY <2>8, StepRefuses DEF NoFailures
  <2>10. PICK verdict : verdict = IF job.adapter = "step" THEN step ELSE dwg
    OBVIOUS
  <2>11. /\ pc = "events" /\ UNCHANGED checked
         /\ \/ verdict = "accepted" /\ pc' = "records" /\ UNCHANGED outcome
            \/ verdict # "accepted" /\ pc' = "done" /\ outcome' = verdict
    BY <1>5, <2>1, <2>2, <2>4, <2>10 DEF E!CheckEvents
  <2>12. verdict # "accepted" => verdict # "written"
    BY <2>6, <2>8, <2>10 DEF NoFailures
  <2>13. verdict = "accepted" => ExchangeChecked
    BY <2>1, <2>7, <2>9, <2>10, <2>11 DEF ExchangeChecked
  <2> QED BY <1>0, <2>11, <2>12, <2>13, ExchangeKept
<1>6. CASE E!Write
  <2>1. pc = "records" /\ pc' = "done" /\ UNCHANGED checked /\ ExchangeChecked
    BY <1>6 DEF E!Write
  <2>2. CASE E!Bundled /\ \E e \in E!Range(E!Children) : e.path \notin E!RootResult.retained
    <3>1. outcome' = "BUNDLE_XREF_UNREACHABLE"
      BY <1>6, <2>2 DEF E!Write
    <3> QED BY <1>0, <2>1, <3>1, ExchangeKept
  <2>3. CASE ~(E!Bundled /\ \E e \in E!Range(E!Children) : e.path \notin E!RootResult.retained)
    <3>1. records' = ExchangeRecords /\ artifacts' = ExchangeArtifacts /\ diagnostics' = ExchangeDiagnostics /\ ExchangeRetained
      BY <1>6, <2>3, SameLists DEF E!Write, ExchangeRecords, ExchangeArtifacts, ExchangeDiagnostics, ExchangeRetained
    <3> QED BY <1>0, <2>1, <3>1, ExchangeKept
  <2> QED BY <2>2, <2>3
<1> QED BY <1>1, <1>2, <1>3, <1>4, <1>5, <1>6 DEF E!Next

\* A function that tells its arguments apart has as many values.
LEMMA ValuesCounted ==
  ASSUME NEW P, IsFiniteSet(P), NEW f, f = [x \in P |-> f[x]], \A x, y \in P : f[x] = f[y] => x = y
  PROVE  IsFiniteSet({f[x] : x \in P}) /\ Cardinality({f[x] : x \in P}) = Cardinality(P)
<1>1. PICK V : V = {f[x] : x \in P}
  OBVIOUS
<1>2. f \in [P -> V] /\ \A v \in V : \E x \in P : f[x] = v
  BY <1>1
<1>3. f \in Surjection(P, V) /\ f \in Injection(P, V)
  BY <1>2 DEF Injection, Surjection, IsInjective
<1> QED BY <1>1, <1>3, FS_Surjection

\* Identifiers as many as items are distinct.
LEMMA UniqueIsDistinct == ASSUME NEW s, IsList(s), E!UniqueIds(s) PROVE Distinct(s)
<1>1. PICK n \in Nat : n = Len(s) /\ DOMAIN s = 1..n
  BY ListIs
<1>2. PICK id : id = [i \in 1..n |-> s[i].id]
  OBVIOUS
<1>3. PICK all : all = {s[i].id : i \in 1..n}
  OBVIOUS
<1>4. id \in [1..n -> all] /\ \A x \in all : \E i \in 1..n : id[i] = x
  BY <1>2, <1>3
<1>5. id \in Surjection(1..n, all)
  BY <1>4 DEF Surjection
<1>6. IsFiniteSet(1..n) /\ Cardinality(1..n) = n
  BY Counted
<1>7. Cardinality(all) = n
  BY <1>1, <1>3, SameLists, Zenon DEF E!UniqueIds, E!Ids
<1>8. \A i, j \in 1..n : id[i] = id[j] => i = j
  <2>1. id \in Injection(1..n, all)
    BY <1>5, <1>6, <1>7, FS_Surjection
  <2> QED BY <2>1 DEF Injection, IsInjective
<1> QED BY <1>1, <1>2, <1>8 DEF Distinct

\* What is filtered from items with different numbers has different numbers.
LEMMA NumbersFiltered ==
  ASSUME NEW s, IsList(s), NEW T, \A i, j \in DOMAIN s : s[i].number = s[j].number => i = j
  PROVE  \A i, j \in DOMAIN Filtered(s, T) : Filtered(s, T)[i].number = Filtered(s, T)[j].number => i = j
<1>1. PICK r : r = Filtered(s, T)
  OBVIOUS
<1>2. IsList(r) /\ \E place \in Bijection(DOMAIN r, {k \in DOMAIN s : s[k] \in T}) : \A i \in DOMAIN r : r[i] = s[place[i]]
  BY <1>1, FilteredIs
<1>3. PICK place \in Bijection(DOMAIN r, {k \in DOMAIN s : s[k] \in T}) : \A i \in DOMAIN r : r[i] = s[place[i]]
  BY <1>2
<1>4. \A i, j \in DOMAIN r : place[i] \in DOMAIN s /\ place[j] \in DOMAIN s /\ (place[i] = place[j] => i = j)
  BY <1>3 DEF Bijection, Injection, IsInjective
<1> QED BY <1>1, <1>3, <1>4

\* Records whose identifiers begin with one of some tags, and two lists of them without a tag in common.
Tagged(s, tags) == Distinct(s) /\ \A x \in Ids(s) : x[1] \in tags

LEMMA TaggedPair ==
  ASSUME NEW s, NEW t, NEW some, NEW others, Tagged(s, some), Tagged(t, others), \A x \in some : x \notin others
  PROVE  Tagged(s \o t, some \cup others) /\ Ids(s \o t) = Ids(s) \cup Ids(t) /\ Items(s \o t) = Items(s) \cup Items(t)
<1>1. Distinct(s) /\ Distinct(t) /\ \A x \in Ids(s) : x \notin Ids(t)
  BY DEF Tagged
<1>2. Distinct(s \o t) /\ Ids(s \o t) = Ids(s) \cup Ids(t) /\ Items(s \o t) = Items(s) \cup Items(t)
  BY <1>1, DistinctPair
<1> QED BY <1>2 DEF Tagged

\* What a record of an exchange format says.
LEMMA ExchangeRecordIs ==
  \A id, refs, class :
    E!Record(id, refs, class).id = id /\ E!Record(id, refs, class).refs = refs /\ E!Record(id, refs, class).class = class
BY DEF E!Record

\* Records by their identifiers.
LEMMA NamedAlike ==
  ASSUME NEW P, NEW s, NEW name, NEW tag, \A k \in P : s[k].id = <<tag, name[k]>>
  PROVE  {s[k].id : k \in P} = {<<tag, name[k]>> : k \in P}
<1>1. PICK f : f = [k \in P |-> <<tag, name[k]>>]
  OBVIOUS
<1>2. PICK g : g = [k \in P |-> s[k].id]
  OBVIOUS
<1>3. {s[k].id : k \in P} = {g[k] : k \in P}
  BY <1>2
<1>4. {<<tag, name[k]>> : k \in P} = {f[k] : k \in P}
  BY <1>1
<1>5. \A k \in P : f[k] = g[k]
  BY <1>1, <1>2
<1>6. {f[k] : k \in P} = {g[k] : k \in P}
  BY <1>5
<1> QED BY <1>3, <1>4, <1>6

(* One record for each item of a list, by its identifier. *)
OneEach(s, P, tag, name, refs, class) ==
  /\ IsList(s) /\ DOMAIN s = P /\ \A i, j \in P : name[i] = name[j] => i = j
  /\ \A k \in P : s[k] = E!Record(<<tag, name[k]>>, refs[k], class)
Says(r, P, tag, name, refs, class) == \E k \in P : r.id = <<tag, name[k]>> /\ r.refs = refs[k] /\ r.class = class
NamedBy(s, P, tag, name) == Ids(s) = {<<tag, name[k]>> : k \in P}

LEMMA OneForEach ==
  ASSUME NEW s, NEW P, NEW tag, NEW name, NEW refs, NEW class, OneEach(s, P, tag, name, refs, class)
  PROVE  /\ Tagged(s, {tag}) /\ NamedBy(s, P, tag, name)
         /\ \A r \in Items(s) : Says(r, P, tag, name, refs, class)
<1>0. IsList(s) /\ DOMAIN s = P /\ \A i, j \in P : name[i] = name[j] => i = j
  BY DEF OneEach
<1>1. ASSUME NEW k \in P PROVE s[k].id = <<tag, name[k]>> /\ s[k].refs = refs[k] /\ s[k].class = class
  <2>1. PICK id, to : id = <<tag, name[k]>> /\ to = refs[k]
    OBVIOUS
  <2>2. s[k] = E!Record(id, to, class)
    BY <2>1 DEF OneEach
  <2> QED BY <2>1, <2>2, ExchangeRecordIs
<1>2. \A i, j \in P : s[i].id = s[j].id => i = j
  BY <1>0, <1>1
<1>3. Ids(s) = {s[k].id : k \in P}
  BY <1>0 DEF Ids
<1>4. NamedBy(s, P, tag, name)
  <2>1. \A k \in P : s[k].id = <<tag, name[k]>>
    BY <1>1
  <2>2. {s[k].id : k \in P} = {<<tag, name[k]>> : k \in P}
    BY <2>1, NamedAlike
  <2> QED BY <1>3, <2>2 DEF NamedBy
<1>5. \A x \in Ids(s) : x[1] = tag
  BY <1>4 DEF NamedBy
<1>6. \A r \in Items(s) : Says(r, P, tag, name, refs, class)
  BY <1>0, <1>1 DEF Items, Says
<1> QED BY <1>0, <1>2, <1>4, <1>5, <1>6 DEF Tagged, Distinct

(* A result that was accepted. *)
StepSound(res) ==
  /\ IsList(res.items) /\ IsList(res.roots) /\ IsList(res.labels)
  /\ \A k \in DOMAIN res.roots : res.roots[k].number = k
  /\ \A k, l \in DOMAIN res.labels : res.labels[k].entry = res.labels[l].entry => k = l
  /\ res.expanded \/ Len(res.roots) = 1
  /\ E!Succeeded(res.roots) # <<>> /\ E!UniqueIds(res.items)

\* The roots that were translated have different numbers; there is one at least, and only one when the result is not expanded.
LEMMA TranslatedAre ==
  ASSUME NEW res, StepSound(res), NEW t, t = E!Succeeded(res.roots)
  PROVE  /\ IsList(t) /\ Len(t) > 0 /\ t[1] \in Items(t) /\ E!Shape(res) = t[1]
         /\ \A i, j \in DOMAIN t : t[i].number = t[j].number => i = j
         /\ ~res.expanded => Len(t) = 1
<1>1. PICK good : good = {r \in Items(res.roots) : r.status = "success"}
  OBVIOUS
<1>2. t = Filtered(res.roots, good)
  BY <1>1, SameLists DEF E!Succeeded
<1>3. PICK n \in Nat : n = Len(res.roots) /\ DOMAIN res.roots = 1..n
  BY ListIs DEF StepSound
<1>4. IsList(t)
  BY <1>2, FilteredIs DEF StepSound
<1>5. PICK m \in Nat : m = Len(t) /\ DOMAIN t = 1..m
  BY <1>4, ListIs
<1>6. m > 0
  <2>1. t # <<>>
    BY DEF StepSound
  <2> QED BY <1>4, <1>5, <2>1, EmptySeq DEF IsList
<1>7. t[1] \in Items(t) /\ E!Shape(res) = t[1]
  BY <1>5, <1>6 DEF Items, E!Shape
<1>8. \A i, j \in DOMAIN t : t[i].number = t[j].number => i = j
  <2>1. \A i, j \in DOMAIN res.roots : res.roots[i].number = res.roots[j].number => i = j
    BY DEF StepSound
  <2> QED BY <1>2, <2>1, NumbersFiltered DEF StepSound
<1>9. ~res.expanded => m = 1
  <2>1. PICK places : places = {k \in DOMAIN res.roots : res.roots[k] \in good}
    OBVIOUS
  <2>2. m = Cardinality(places)
    BY <1>2, <1>5, <2>1, FilteredCounted DEF StepSound
  <2>3. IsFiniteSet(1..n) /\ Cardinality(1..n) = n
    BY Counted
  <2>4. m <= n
    BY <1>3, <2>1, <2>2, <2>3, FS_Subset
  <2> QED BY <1>3, <1>6, <2>4 DEF StepSound
<1> QED BY <1>4, <1>5, <1>6, <1>7, <1>8, <1>9

\* The records of the items of a file, and of its labels.
LEMMA ItemPrimsAre ==
  ASSUME NEW items, Distinct(items), NEW s, s = E!ItemPrims(items)
  PROVE  /\ Tagged(s, {"prim_step_iges"}) /\ Ids(s) = {E!StepPrim(n) : n \in Ids(items)}
         /\ \A r \in Items(s) : r.class = "observed" /\ r.refs = {E!Source}
<1>1. PICK n \in Nat : n = Len(items) /\ DOMAIN items = 1..n
  BY ListIs DEF Distinct
<1>2. PICK name : name = [k \in 1..n |-> items[k].id]
  OBVIOUS
<1>3. PICK refs : refs = [k \in 1..n |-> {E!Source}]
  OBVIOUS
<1>4. DOMAIN s = 1..n /\ \A k \in 1..n : s[k] = E!Record(<<"prim_step_iges", name[k]>>, refs[k], "observed")
  BY <1>1, <1>2, <1>3 DEF E!ItemPrims, E!StepPrim
<1>5. IsList(s)
  <2>1. s = [k \in 1..n |-> s[k]]
    BY <1>1 DEF E!ItemPrims
  <2> QED BY <2>1, FunctionIsList
<1>6. \A i, j \in 1..n : name[i] = name[j] => i = j
  BY <1>1, <1>2 DEF Distinct
<1>7. Tagged(s, {"prim_step_iges"}) /\ NamedBy(s, 1..n, "prim_step_iges", name) /\ \A r \in Items(s) : Says(r, 1..n, "prim_step_iges", name, refs, "observed")
  <2>1. OneEach(s, 1..n, "prim_step_iges", name, refs, "observed")
    BY <1>4, <1>5, <1>6 DEF OneEach
  <2> QED BY <2>1, OneForEach
<1>8. {<<"prim_step_iges", name[k]>> : k \in 1..n} = {E!StepPrim(x) : x \in Ids(items)}
  BY <1>1, <1>2 DEF E!StepPrim, Ids
<1> QED BY <1>3, <1>7, <1>8 DEF NamedBy, Says

LEMMA IndexingIs ==
  ASSUME NEW items, Distinct(items), NEW tag, NEW s, s = E!Indexing(tag, items)
  PROVE  /\ Tagged(s, {tag})
         /\ \A r \in Items(s) : r.class = "observed" /\ r.refs \subseteq {E!StepPrim(n) : n \in Ids(items)}
<1>1. PICK n \in Nat : n = Len(items) /\ DOMAIN items = 1..n
  BY ListIs DEF Distinct
<1>2. PICK name : name = [k \in 1..n |-> items[k].id]
  OBVIOUS
<1>3. PICK refs : refs = [k \in 1..n |-> {E!StepPrim(items[k].id)}]
  OBVIOUS
<1>4. DOMAIN s = 1..n /\ \A k \in 1..n : s[k] = E!Record(<<tag, name[k]>>, refs[k], "observed")
  BY <1>1, <1>2, <1>3 DEF E!Indexing
<1>5. IsList(s)
  <2>1. s = [k \in 1..n |-> s[k]]
    BY <1>1 DEF E!Indexing
  <2> QED BY <2>1, FunctionIsList
<1>6. \A i, j \in 1..n : name[i] = name[j] => i = j
  BY <1>1, <1>2 DEF Distinct
<1>7. Tagged(s, {tag}) /\ NamedBy(s, 1..n, tag, name) /\ \A r \in Items(s) : Says(r, 1..n, tag, name, refs, "observed")
  <2>1. OneEach(s, 1..n, tag, name, refs, "observed")
    BY <1>4, <1>5, <1>6 DEF OneEach
  <2> QED BY <2>1, OneForEach
<1>8. \A k \in 1..n : refs[k] \subseteq {E!StepPrim(x) : x \in Ids(items)}
  BY <1>1, <1>3 DEF Ids
<1> QED BY <1>7, <1>8 DEF NamedBy, Says

LEMMA LabelPrimsAre ==
  ASSUME NEW res, IsList(res.labels), \A k, l \in DOMAIN res.labels : res.labels[k].entry = res.labels[l].entry => k = l,
         NEW s, s = E!LabelPrims(res)
  PROVE  /\ Tagged(s, {"prim_step_iges_xde"}) /\ Ids(s) = {E!Xde(l.entry) : l \in Items(res.labels)}
         /\ \A r \in Items(s) : r.class = "observed" /\ r.refs \subseteq {E!Source} \cup E!Observed(res)
<1>0. PICK labels : labels = res.labels
  OBVIOUS
<1>1. PICK n \in Nat : n = Len(labels) /\ DOMAIN labels = 1..n
  BY <1>0, ListIs
<1>2. PICK name : name = [k \in 1..n |-> labels[k].entry]
  OBVIOUS
<1>3. PICK refs : refs = [k \in 1..n |-> E!LabelParents(res, labels[k])]
  OBVIOUS
<1>4. DOMAIN s = 1..n /\ \A k \in 1..n : s[k] = E!Record(<<"prim_step_iges_xde", name[k]>>, refs[k], "observed")
  BY <1>0, <1>1, <1>2, <1>3 DEF E!LabelPrims, E!Xde
<1>5. IsList(s)
  <2>1. s = [k \in 1..n |-> s[k]]
    BY <1>0, <1>1 DEF E!LabelPrims
  <2> QED BY <2>1, FunctionIsList
<1>6. \A i, j \in 1..n : name[i] = name[j] => i = j
  BY <1>0, <1>1, <1>2
<1>7. Tagged(s, {"prim_step_iges_xde"}) /\ NamedBy(s, 1..n, "prim_step_iges_xde", name) /\ \A r \in Items(s) : Says(r, 1..n, "prim_step_iges_xde", name, refs, "observed")
  <2>1. OneEach(s, 1..n, "prim_step_iges_xde", name, refs, "observed")
    BY <1>4, <1>5, <1>6 DEF OneEach
  <2> QED BY <2>1, OneForEach
<1>8. {<<"prim_step_iges_xde", name[k]>> : k \in 1..n} = {E!Xde(l.entry) : l \in Items(res.labels)}
  BY <1>0, <1>1, <1>2 DEF E!Xde, Items
<1>9. \A l : E!LabelParents(res, l) \subseteq {E!Source} \cup E!Observed(res)
  BY DEF E!LabelParents, E!Observed
<1> QED BY <1>3, <1>7, <1>8, <1>9 DEF NamedBy, Says

\* The records of the roots that were translated, and of those that were healed.
LEMMA RootPrimsAre ==
  ASSUME NEW res, NEW roots, IsList(roots), \A i, j \in DOMAIN roots : roots[i].number = roots[j].number => i = j,
         NEW s, s = E!RootPrims(res, roots)
  PROVE  /\ Tagged(s, {"prim_step_iges_brep"}) /\ Ids(s) = {E!Brep(r.number) : r \in Items(roots)}
         /\ \A r \in Items(s) : r.class = "derived" /\ \E root \in Items(roots) : r.refs = E!RootParents(res, root)
<1>1. PICK n \in Nat : n = Len(roots) /\ DOMAIN roots = 1..n
  BY ListIs
<1>2. PICK name : name = [k \in 1..n |-> roots[k].number]
  OBVIOUS
<1>3. PICK refs : refs = [k \in 1..n |-> E!RootParents(res, roots[k])]
  OBVIOUS
<1>4. DOMAIN s = 1..n /\ \A k \in 1..n : s[k] = E!Record(<<"prim_step_iges_brep", name[k]>>, refs[k], "derived")
  BY <1>1, <1>2, <1>3 DEF E!RootPrims, E!Brep
<1>5. IsList(s)
  <2>1. s = [k \in 1..n |-> s[k]]
    BY <1>1 DEF E!RootPrims
  <2> QED BY <2>1, FunctionIsList
<1>6. \A i, j \in 1..n : name[i] = name[j] => i = j
  BY <1>1, <1>2
<1>7. Tagged(s, {"prim_step_iges_brep"}) /\ NamedBy(s, 1..n, "prim_step_iges_brep", name) /\ \A r \in Items(s) : Says(r, 1..n, "prim_step_iges_brep", name, refs, "derived")
  <2>1. OneEach(s, 1..n, "prim_step_iges_brep", name, refs, "derived")
    BY <1>4, <1>5, <1>6 DEF OneEach
  <2> QED BY <2>1, OneForEach
<1>8. {<<"prim_step_iges_brep", name[k]>> : k \in 1..n} = {E!Brep(r.number) : r \in Items(roots)}
  BY <1>1, <1>2 DEF E!Brep, Items
<1>9. \A k \in 1..n : roots[k] \in Items(roots)
  BY <1>1 DEF Items
<1> QED BY <1>3, <1>7, <1>8, <1>9 DEF NamedBy, Says

LEMMA HealedPrimsAre ==
  ASSUME NEW roots, IsList(roots), \A i, j \in DOMAIN roots : roots[i].number = roots[j].number => i = j,
         NEW s, s = E!HealedPrims(roots)
  PROVE  /\ Tagged(s, {"prim_step_iges_healed"}) /\ Ids(s) = {<<"prim_step_iges_healed", r.number>> : r \in Items(roots)}
         /\ \A r \in Items(s) : r.class = "derived" /\ \E root \in Items(roots) : r.refs = {E!Brep(root.number)}
<1>1. PICK n \in Nat : n = Len(roots) /\ DOMAIN roots = 1..n
  BY ListIs
<1>2. PICK name : name = [k \in 1..n |-> roots[k].number]
  OBVIOUS
<1>3. PICK refs : refs = [k \in 1..n |-> {E!Brep(roots[k].number)}]
  OBVIOUS
<1>4. DOMAIN s = 1..n /\ \A k \in 1..n : s[k] = E!Record(<<"prim_step_iges_healed", name[k]>>, refs[k], "derived")
  BY <1>1, <1>2, <1>3 DEF E!HealedPrims
<1>5. IsList(s)
  <2>1. s = [k \in 1..n |-> s[k]]
    BY <1>1 DEF E!HealedPrims
  <2> QED BY <2>1, FunctionIsList
<1>6. \A i, j \in 1..n : name[i] = name[j] => i = j
  BY <1>1, <1>2
<1>7. Tagged(s, {"prim_step_iges_healed"}) /\ NamedBy(s, 1..n, "prim_step_iges_healed", name) /\ \A r \in Items(s) : Says(r, 1..n, "prim_step_iges_healed", name, refs, "derived")
  <2>1. OneEach(s, 1..n, "prim_step_iges_healed", name, refs, "derived")
    BY <1>4, <1>5, <1>6 DEF OneEach
  <2> QED BY <2>1, OneForEach
<1>8. {<<"prim_step_iges_healed", name[k]>> : k \in 1..n} = {<<"prim_step_iges_healed", r.number>> : r \in Items(roots)}
  BY <1>1, <1>2 DEF Items
<1>9. \A k \in 1..n : roots[k] \in Items(roots)
  BY <1>1 DEF Items
<1> QED BY <1>3, <1>7, <1>8, <1>9 DEF NamedBy, Says

(* The identifiers of the shapes of a file and of what was healed of them. *)
Breps(res) ==
  {E!Brep(1)} \cup (IF res.expanded THEN {E!Brep(r.number) : r \in Items(E!Others(E!Succeeded(res.roots)))} ELSE {})
HealedIds(res) ==
  IF res.expanded THEN {<<"prim_step_iges_healed", r.number>> : r \in Items(E!Healed(E!Succeeded(res.roots)))} ELSE {}

\* The roots other than the first and those that were healed are among those that were translated.
LEMMA RootsAre ==
  ASSUME NEW res, StepSound(res), NEW t, t = E!Succeeded(res.roots)
  PROVE  /\ IsList(E!Others(t)) /\ IsList(E!Healed(t))
         /\ Items(E!Others(t)) = {r \in Items(t) : r.number # 1} /\ Items(E!Healed(t)) = {r \in Items(t) : r.healed = "applied"}
         /\ \A i, j \in DOMAIN E!Others(t) : E!Others(t)[i].number = E!Others(t)[j].number => i = j
         /\ \A i, j \in DOMAIN E!Healed(t) : E!Healed(t)[i].number = E!Healed(t)[j].number => i = j
<1>1. PICK other : other = {r \in Items(t) : r.number # 1}
  OBVIOUS
<1>2. PICK healed : healed = {r \in Items(t) : r.healed = "applied"}
  OBVIOUS
<1>3. E!Others(t) = Filtered(t, other) /\ E!Healed(t) = Filtered(t, healed)
  BY <1>1, <1>2, SameLists DEF E!Others, E!Healed
<1>4. IsList(t) /\ \A i, j \in DOMAIN t : t[i].number = t[j].number => i = j
  BY TranslatedAre
<1>5. IsList(Filtered(t, other)) /\ Items(Filtered(t, other)) = Items(t) \cap other
  BY <1>4, FilteredIs
<1>6. IsList(Filtered(t, healed)) /\ Items(Filtered(t, healed)) = Items(t) \cap healed
  BY <1>4, FilteredIs
<1>7. Items(E!Others(t)) = {r \in Items(t) : r.number # 1} /\ Items(E!Healed(t)) = {r \in Items(t) : r.healed = "applied"}
  BY <1>1, <1>2, <1>3, <1>5, <1>6
<1>8. \A T : \A i, j \in DOMAIN Filtered(t, T) : Filtered(t, T)[i].number = Filtered(t, T)[j].number => i = j
  BY <1>4, NumbersFiltered
<1> QED BY <1>3, <1>5, <1>6, <1>7, <1>8

\* The records of the roots that are not the first one and of what was healed.
LEMMA FurtherRoots ==
  ASSUME NEW res, StepSound(res), NEW s,
         s = IF res.expanded THEN E!RootPrims(res, E!Others(E!Succeeded(res.roots))) \o E!HealedPrims(E!Healed(E!Succeeded(res.roots))) ELSE <<>>
  PROVE  /\ Tagged(s, {"prim_step_iges_brep", "prim_step_iges_healed"})
         /\ E!Brep(1) \notin Ids(s) /\ Ids(s) \cup {E!Brep(1)} = Breps(res) \cup HealedIds(res)
         /\ \A r \in Items(s) : /\ r.class = "derived" /\ res.expanded
                               /\ \/ \E root : r.refs = E!RootParents(res, root)
                                  \/ \E x \in Breps(res) : r.refs = {x}
<1>1. PICK t : t = E!Succeeded(res.roots)
  OBVIOUS
<1>2. PICK others, healed : others = E!Others(t) /\ healed = E!Healed(t)
  OBVIOUS
<1>3. /\ IsList(others) /\ IsList(healed)
      /\ Items(others) = {r \in Items(t) : r.number # 1} /\ Items(healed) \subseteq Items(t)
      /\ \A i, j \in DOMAIN others : others[i].number = others[j].number => i = j
      /\ \A i, j \in DOMAIN healed : healed[i].number = healed[j].number => i = j
  BY <1>1, <1>2, RootsAre
<1>4. PICK a, b : a = E!RootPrims(res, others) /\ b = E!HealedPrims(healed)
  OBVIOUS
<1>5. /\ Tagged(a, {"prim_step_iges_brep"}) /\ Ids(a) = {E!Brep(r.number) : r \in Items(others)}
      /\ \A r \in Items(a) : r.class = "derived" /\ \E root \in Items(others) : r.refs = E!RootParents(res, root)
  BY <1>3, <1>4, RootPrimsAre
<1>6. /\ Tagged(b, {"prim_step_iges_healed"}) /\ Ids(b) = {<<"prim_step_iges_healed", r.number>> : r \in Items(healed)}
      /\ \A r \in Items(b) : r.class = "derived" /\ \E root \in Items(healed) : r.refs = {E!Brep(root.number)}
  BY <1>3, <1>4, HealedPrimsAre
<1>7. /\ Tagged(a \o b, {"prim_step_iges_brep"} \cup {"prim_step_iges_healed"})
      /\ Ids(a \o b) = Ids(a) \cup Ids(b) /\ Items(a \o b) = Items(a) \cup Items(b)
  <2>1. PICK one, two : one = {"prim_step_iges_brep"} /\ two = {"prim_step_iges_healed"}
    OBVIOUS
  <2>2. Tagged(a, one) /\ Tagged(b, two) /\ \A x \in one : x \notin two
    BY <1>5, <1>6, <2>1
  <2> QED BY <2>1, <2>2, TaggedPair
<1>8. CASE res.expanded
  <2>1. s = a \o b
    BY <1>1, <1>2, <1>4, <1>8
  <2>2. Breps(res) = {E!Brep(1)} \cup Ids(a) /\ HealedIds(res) = Ids(b)
    BY <1>1, <1>2, <1>5, <1>6, <1>8 DEF Breps, HealedIds
  <2>3. E!Brep(1) \notin Ids(a)
    BY <1>3, <1>5 DEF E!Brep
  <2>4. E!Brep(1) \notin Ids(b)
    BY <1>6 DEF E!Brep
  <2>5. ASSUME NEW root \in Items(healed) PROVE E!Brep(root.number) \in Breps(res)
    <3>1. root \in Items(t)
      BY <1>3
    <3>2. CASE root.number = 1
      BY <2>2, <3>2
    <3>3. CASE root.number # 1
      BY <1>3, <1>5, <2>2, <3>1, <3>3
    <3> QED BY <3>2, <3>3
  <2>6. Tagged(s, {"prim_step_iges_brep", "prim_step_iges_healed"})
    <3>1. {"prim_step_iges_brep"} \cup {"prim_step_iges_healed"} = {"prim_step_iges_brep", "prim_step_iges_healed"}
      OBVIOUS
    <3> QED BY <1>7, <2>1, <3>1
  <2>7. E!Brep(1) \notin Ids(s) /\ Ids(s) \cup {E!Brep(1)} = Breps(res) \cup HealedIds(res)
    <3>1. PICK all, some, rest, one : all = Ids(s) /\ some = Ids(a) /\ rest = Ids(b) /\ one = E!Brep(1)
      OBVIOUS
    <3>2. all = some \cup rest /\ one \notin some /\ one \notin rest
      BY <1>7, <2>1, <2>3, <2>4, <3>1
    <3>3. Breps(res) = {one} \cup some /\ HealedIds(res) = rest
      BY <2>2, <3>1
    <3>4. one \notin all /\ all \cup {one} = ({one} \cup some) \cup rest
      BY <3>2
    <3> QED BY <3>1, <3>3, <3>4
  <2>8. \A r \in Items(a) : r.class = "derived" /\ \E root : r.refs = E!RootParents(res, root)
    BY <1>5
  <2>9. \A r \in Items(b) : r.class = "derived" /\ \E x \in Breps(res) : r.refs = {x}
    BY <1>6, <2>5
  <2> QED BY <1>7, <1>8, <2>1, <2>6, <2>7, <2>8, <2>9
<1>9. CASE ~res.expanded
  <2>1. s = <<>>
    BY <1>9
  <2>2. Distinct(s) /\ Ids(s) = {} /\ Items(s) = {}
    BY <2>1, DistinctTogether
  <2>3. Breps(res) = {E!Brep(1)} /\ HealedIds(res) = {}
    BY <1>9 DEF Breps, HealedIds
  <2> QED BY <2>2, <2>3 DEF Tagged
<1> QED BY <1>8, <1>9

\* The records of a STEP or IGES file: distinct, closed, and what was translated rests on its items.
LEMMA StepRecordsAre ==
  ASSUME NEW res, StepSound(res), NEW s, s = E!StepRecords(res)
  PROVE  /\ Distinct(s) /\ {E!Source} \cup E!Observed(res) \cup Breps(res) \cup HealedIds(res) \subseteq Ids(s)
         /\ \A x \in Ids(s) : x[1] \in {"prim_step_iges_brep", "prim_step_iges_healed"} <=> x \in Breps(res) \cup HealedIds(res)
         /\ \A r \in Items(s) : r.refs \subseteq Ids(s) /\ r.id[1] # "diag"
         /\ \A r \in Items(s) : r.class = "derived" /\ r.refs = {} => E!Observed(res) = {}
<1>1. Distinct(res.items)
  BY UniqueIsDistinct DEF StepSound
<1>2. PICK products, usages : /\ products = E!OfClass(res.items, "PRODUCT")
                             /\ usages = E!OfClass(res.items, "NEXT_ASSEMBLY_USAGE_OCCURRENCE")
  OBVIOUS
<1>3. /\ Distinct(products) /\ Ids(products) \subseteq Ids(res.items) /\ Distinct(usages) /\ Ids(usages) \subseteq Ids(res.items)
  <2>1. ASSUME NEW class PROVE Distinct(E!OfClass(res.items, class)) /\ Ids(E!OfClass(res.items, class)) \subseteq Ids(res.items)
    <3>1. PICK T : T = {i \in Items(res.items) : i.class = class}
      OBVIOUS
    <3>2. E!OfClass(res.items, class) = Filtered(res.items, T)
      BY <3>1, SameLists DEF E!OfClass
    <3>3. Distinct(Filtered(res.items, T))
      BY <1>1, DistinctFiltered
    <3>4. Items(Filtered(res.items, T)) \subseteq Items(res.items)
      BY <1>1, FilteredIs DEF Distinct
    <3> QED BY <3>2, <3>3, <3>4, IdsAre
  <2> QED BY <1>2, <2>1
<1>4. E!Observed(res) = {E!StepPrim(n) : n \in Ids(res.items)}
  BY DEF E!Observed, E!Ids, Ids
<1>5. PICK a, b, c, d, e, f, g :
        /\ a = <<E!Record(E!Source, {}, "observed")>> /\ b = E!ItemPrims(res.items)
        /\ c = E!Indexing("entity_step_product", products) /\ d = E!Indexing("relation_step_assembly", usages)
        /\ e = (IF res.expanded THEN E!LabelPrims(res) ELSE <<>>)
        /\ f = <<E!Record(E!Brep(1), E!Observed(res), "derived")>>
        /\ g = (IF res.expanded THEN E!RootPrims(res, E!Others(E!Succeeded(res.roots))) \o E!HealedPrims(E!Healed(E!Succeeded(res.roots))) ELSE <<>>)
  OBVIOUS
<1>6. s = (((((a \o b) \o c) \o d) \o e) \o f) \o g
  BY <1>2, <1>5 DEF E!StepRecords
<1>7. Tagged(a, {"src"}) /\ Ids(a) = {E!Source} /\ \A r \in Items(a) : r.class = "observed" /\ r.refs = {}
  <2>1. PICK r : r = E!Record(E!Source, {}, "observed")
    OBVIOUS
  <2>2. r.id = E!Source /\ r.refs = {} /\ r.class = "observed" /\ E!Source[1] = "src"
    BY <2>1, ExchangeRecordIs DEF E!Source
  <2>3. a = <<r>>
    BY <1>5, <2>1
  <2>4. Distinct(a) /\ Ids(a) = {r.id} /\ Items(a) = {r}
    BY <2>3, DistinctTogether
  <2> QED BY <2>2, <2>4 DEF Tagged
<1>8. /\ Tagged(b, {"prim_step_iges"}) /\ Ids(b) = E!Observed(res)
      /\ \A r \in Items(b) : r.class = "observed" /\ r.refs = {E!Source}
  BY <1>1, <1>4, <1>5, ItemPrimsAre
<1>9. Tagged(c, {"entity_step_product"}) /\ \A r \in Items(c) : r.class = "observed" /\ r.refs \subseteq E!Observed(res)
  <2>1. /\ Tagged(c, {"entity_step_product"})
        /\ \A r \in Items(c) : r.class = "observed" /\ r.refs \subseteq {E!StepPrim(n) : n \in Ids(products)}
    BY <1>3, <1>5, IndexingIs
  <2>2. {E!StepPrim(n) : n \in Ids(products)} \subseteq E!Observed(res)
    BY <1>3, <1>4
  <2> QED BY <2>1, <2>2
<1>10. Tagged(d, {"relation_step_assembly"}) /\ \A r \in Items(d) : r.class = "observed" /\ r.refs \subseteq E!Observed(res)
  <2>1. /\ Tagged(d, {"relation_step_assembly"})
        /\ \A r \in Items(d) : r.class = "observed" /\ r.refs \subseteq {E!StepPrim(n) : n \in Ids(usages)}
    BY <1>3, <1>5, IndexingIs
  <2>2. {E!StepPrim(n) : n \in Ids(usages)} \subseteq E!Observed(res)
    BY <1>3, <1>4
  <2> QED BY <2>1, <2>2
<1>11. /\ Tagged(e, {"prim_step_iges_xde"})
       /\ res.expanded => Ids(e) = {E!Xde(l.entry) : l \in Items(res.labels)}
       /\ \A r \in Items(e) : r.class = "observed" /\ r.refs \subseteq {E!Source} \cup E!Observed(res)
  <2>1. CASE res.expanded
    <3>1. e = E!LabelPrims(res)
      BY <1>5, <2>1
    <3> QED BY <3>1, LabelPrimsAre DEF StepSound
  <2>2. CASE ~res.expanded
    <3>1. e = <<>>
      BY <1>5, <2>2
    <3>2. Distinct(e) /\ Ids(e) = {} /\ Items(e) = {}
      BY <3>1, DistinctTogether
    <3> QED BY <2>2, <3>2 DEF Tagged
  <2> QED BY <2>1, <2>2
<1>12. /\ Tagged(f, {"prim_step_iges_brep"}) /\ Ids(f) = {E!Brep(1)}
       /\ \A r \in Items(f) : r.refs = E!Observed(res)
  <2>1. PICK r : r = E!Record(E!Brep(1), E!Observed(res), "derived")
    OBVIOUS
  <2>2. r.id = E!Brep(1) /\ r.refs = E!Observed(res) /\ E!Brep(1)[1] = "prim_step_iges_brep"
    BY <2>1, ExchangeRecordIs DEF E!Brep
  <2>3. f = <<r>>
    BY <1>5, <2>1
  <2>4. Distinct(f) /\ Ids(f) = {r.id} /\ Items(f) = {r}
    BY <2>3, DistinctTogether
  <2> QED BY <2>2, <2>4 DEF Tagged
<1>13. /\ Tagged(g, {"prim_step_iges_brep", "prim_step_iges_healed"})
       /\ E!Brep(1) \notin Ids(g) /\ Ids(g) \cup {E!Brep(1)} = Breps(res) \cup HealedIds(res)
       /\ \A r \in Items(g) : /\ res.expanded
                             /\ \/ \E root : r.refs = E!RootParents(res, root)
                                \/ \E x \in Breps(res) : r.refs = {x}
  BY <1>5, FurtherRoots
<1>0. PICK second, third, fourth, fifth, sixth :
         /\ second = {"prim_step_iges"} /\ third = {"entity_step_product"} /\ fourth = {"relation_step_assembly"}
         /\ fifth = {"prim_step_iges_xde"} /\ sixth = {"prim_step_iges_brep"}
  OBVIOUS
<1>14. PICK one, two, three, four, five :
         /\ one = {"src"} /\ two = one \cup second /\ three = two \cup third
         /\ four = three \cup fourth /\ five = four \cup fifth
  OBVIOUS
<1>15. PICK ab, abc, abcd, abcde, abcdef :
         ab = a \o b /\ abc = ab \o c /\ abcd = abc \o d /\ abcde = abcd \o e /\ abcdef = abcde \o f
  OBVIOUS
<1>16. Tagged(ab, two) /\ Ids(ab) = Ids(a) \cup Ids(b) /\ Items(ab) = Items(a) \cup Items(b)
  <2>1. Tagged(a, one) /\ Tagged(b, second) /\ \A x \in one : x \notin second
    BY <1>0, <1>7, <1>8, <1>14
  <2>2. Tagged(a \o b, one \cup second) /\ Ids(a \o b) = Ids(a) \cup Ids(b) /\ Items(a \o b) = Items(a) \cup Items(b)
    BY <2>1, TaggedPair
  <2> QED BY <1>14, <1>15, <2>2
<1>17. Tagged(abc, three) /\ Ids(abc) = Ids(ab) \cup Ids(c) /\ Items(abc) = Items(ab) \cup Items(c)
  <2>1. Tagged(ab, two) /\ Tagged(c, third) /\ \A x \in two : x \notin third
    BY <1>0, <1>9, <1>14, <1>16
  <2>2. Tagged(ab \o c, two \cup third) /\ Ids(ab \o c) = Ids(ab) \cup Ids(c) /\ Items(ab \o c) = Items(ab) \cup Items(c)
    BY <2>1, TaggedPair
  <2> QED BY <1>14, <1>15, <2>2
<1>18. Tagged(abcd, four) /\ Ids(abcd) = Ids(abc) \cup Ids(d) /\ Items(abcd) = Items(abc) \cup Items(d)
  <2>1. Tagged(abc, three) /\ Tagged(d, fourth) /\ \A x \in three : x \notin fourth
    BY <1>0, <1>10, <1>14, <1>17
  <2>2. Tagged(abc \o d, three \cup fourth) /\ Ids(abc \o d) = Ids(abc) \cup Ids(d) /\ Items(abc \o d) = Items(abc) \cup Items(d)
    BY <2>1, TaggedPair
  <2> QED BY <1>14, <1>15, <2>2
<1>19. Tagged(abcde, five) /\ Ids(abcde) = Ids(abcd) \cup Ids(e) /\ Items(abcde) = Items(abcd) \cup Items(e)
  <2>1. Tagged(abcd, four) /\ Tagged(e, fifth) /\ \A x \in four : x \notin fifth
    BY <1>0, <1>11, <1>14, <1>18
  <2>2. Tagged(abcd \o e, four \cup fifth) /\ Ids(abcd \o e) = Ids(abcd) \cup Ids(e) /\ Items(abcd \o e) = Items(abcd) \cup Items(e)
    BY <2>1, TaggedPair
  <2> QED BY <1>14, <1>15, <2>2
<1>20. Tagged(abcdef, five \cup sixth) /\ Ids(abcdef) = Ids(abcde) \cup Ids(f) /\ Items(abcdef) = Items(abcde) \cup Items(f)
  <2>1. Tagged(abcde, five) /\ Tagged(f, sixth) /\ \A x \in five : x \notin sixth
    BY <1>0, <1>12, <1>14, <1>19
  <2>2. Tagged(abcde \o f, five \cup sixth) /\ Ids(abcde \o f) = Ids(abcde) \cup Ids(f) /\ Items(abcde \o f) = Items(abcde) \cup Items(f)
    BY <2>1, TaggedPair
  <2> QED BY <1>15, <2>2
<1>21. \A x \in five : x \notin {"prim_step_iges_brep", "prim_step_iges_healed", "diag"}
  BY <1>0, <1>14
<1>22. Distinct(s) /\ Ids(s) = Ids(abcdef) \cup Ids(g) /\ Items(s) = Items(abcdef) \cup Items(g)
  <2>1. ASSUME NEW x \in Ids(abcdef) PROVE x \notin Ids(g)
    <3>1. CASE x \in Ids(abcde)
      BY <1>13, <1>19, <1>21, <3>1 DEF Tagged
    <3>2. CASE x = E!Brep(1)
      BY <1>13, <3>2
    <3> QED BY <1>12, <1>20, <3>1, <3>2
  <2>2. Distinct(abcdef) /\ Distinct(g)
    BY <1>13, <1>20 DEF Tagged
  <2>3. s = abcdef \o g
    BY <1>6, <1>15
  <2> QED BY <2>1, <2>2, <2>3, DistinctPair
<1>23. Ids(s) = Ids(abcde) \cup (Breps(res) \cup HealedIds(res))
  BY <1>12, <1>13, <1>20, <1>22
<1>24. {E!Source} \cup E!Observed(res) \cup Breps(res) \cup HealedIds(res) \subseteq Ids(s)
  BY <1>7, <1>8, <1>16, <1>17, <1>18, <1>19, <1>23
<1>25. res.expanded => {E!Xde(l.entry) : l \in Items(res.labels)} \subseteq Ids(s)
  BY <1>11, <1>19, <1>23
<1>26. Items(s) = Items(a) \cup Items(b) \cup Items(c) \cup Items(d) \cup Items(e) \cup Items(f) \cup Items(g)
  BY <1>16, <1>17, <1>18, <1>19, <1>20, <1>22
<1>27. \A x \in Ids(s) : x[1] # "diag"
  BY <1>0, <1>13, <1>20, <1>21, <1>22 DEF Tagged
<1>28. \A x \in Ids(s) : x[1] \in {"prim_step_iges_brep", "prim_step_iges_healed"} <=> x \in Breps(res) \cup HealedIds(res)
  <2>1. \A x \in Ids(abcde) : x[1] \notin {"prim_step_iges_brep", "prim_step_iges_healed"}
    BY <1>19, <1>21 DEF Tagged
  <2>2. \A x \in Ids(g) \cup {E!Brep(1)} : x[1] \in {"prim_step_iges_brep", "prim_step_iges_healed"}
    BY <1>13 DEF Tagged, E!Brep
  <2> QED BY <1>13, <1>23, <2>1, <2>2
<1>29. ASSUME NEW root, res.expanded
       PROVE  E!RootParents(res, root) \subseteq Ids(s) /\ (E!RootParents(res, root) = {} => E!Observed(res) = {})
  <2>1. PICK entries : entries = {l.entry : l \in Items(res.labels)}
    OBVIOUS
  <2>2. E!RootParents(res, root) = IF root.entry \in entries THEN {E!Xde(root.entry)} ELSE E!Observed(res)
    BY <2>1, SameLists DEF E!RootParents
  <2>3. root.entry \in entries => E!Xde(root.entry) \in Ids(s)
    BY <1>25, <1>29, <2>1
  <2> QED BY <1>24, <2>2, <2>3
<1>30. \A r \in Items(g) : r.refs \subseteq Ids(s) /\ (r.refs = {} => E!Observed(res) = {})
  BY <1>13, <1>24, <1>29
<1>31. \A r \in Items(s) : r.refs \subseteq Ids(s)
  BY <1>7, <1>8, <1>9, <1>10, <1>11, <1>12, <1>24, <1>26, <1>30
<1>32. \A r \in Items(s) : r.class = "derived" /\ r.refs = {} => E!Observed(res) = {}
  BY <1>7, <1>8, <1>9, <1>10, <1>11, <1>12, <1>26, <1>30
<1>33. \A r \in Items(s) : r.id[1] # "diag"
  BY <1>27, IdsAre
<1> QED BY <1>22, <1>24, <1>28, <1>31, <1>32, <1>33

\* The result that the records are made from is one that a provider can give.
LEMMA RootSound ==
  ASSUME ExchangeBuilt, ExchangeHeld PROVE E!IsResult(job.adapter, E!RootResult) /\ job.adapter \in {"step", "dwg"}
<1>1. E!IsExchangeJob(job)
  BY ExchangeAssumption DEF ExchangeBuilt
<1>2. CASE ~E!Bundled
  <2>1. E!RootResult = job.result /\ job.result # Nil
    BY <1>2 DEF E!RootResult, ExchangeHeld
  <2> QED BY <1>1, <2>1 DEF E!IsExchangeJob
<1>3. CASE E!Bundled
  <2>1. \E e \in E!Members : e.role = "root"
    BY <1>1, <1>3 DEF E!IsExchangeJob, E!Bundled, E!Members
  <2>2. E!RootEntry \in E!Members
    BY <2>1 DEF E!RootEntry
  <2>3. E!RootEntry.path \in DOMAIN job.results
    BY <1>3, <2>2 DEF ExchangeHeld
  <2>4. E!RootResult = job.results[E!RootEntry.path]
    BY <1>3 DEF E!RootResult, E!ResultOf
  <2> QED BY <1>1, <1>3, <2>3, <2>4 DEF E!IsExchangeJob, E!Bundled
<1> QED BY <1>2, <1>3

\* A STEP file that was written was accepted.
LEMMA RootStepSound ==
  ASSUME ExchangeBuilt, outcome = "written", job.adapter = "step" PROVE StepSound(E!RootResult)
<1>1. ExchangeChecked /\ ExchangeHeld
  BY DEF ExchangeBuilt, ExchangeChecked
<1>2. E!IsResult("step", E!RootResult)
  BY <1>1, RootSound
<1>3. \A s : E!IsList(s) => IsList(s)
  BY DEF E!IsList, E!Items, IsList, Items
<1> QED BY <1>1, <1>2, <1>3 DEF E!IsResult, StepSound, ExchangeChecked

\* As many shapes are written as roots were translated, when the first root was.
LEMMA BrepsCounted ==
  ASSUME NEW res, StepSound(res), E!Shape(res).number = 1, NEW s, s = E!StepRecords(res)
  PROVE  Cardinality({a \in DOMAIN s : s[a].id[1] = "prim_step_iges_brep"}) = Len(E!Succeeded(res.roots))
<1>1. PICK t : t = E!Succeeded(res.roots)
  OBVIOUS
<1>2. /\ IsList(t) /\ Len(t) > 0 /\ t[1] \in Items(t) /\ t[1].number = 1
      /\ \A i, j \in DOMAIN t : t[i].number = t[j].number => i = j
      /\ ~res.expanded => Len(t) = 1
  BY <1>1, TranslatedAre
<1>3. PICK n \in Nat : n = Len(t) /\ DOMAIN t = 1..n
  BY <1>2, ListIs
<1>4. Breps(res) = {E!Brep(t[k].number) : k \in 1..n}
  <2>1. CASE res.expanded
    <3>1. Items(E!Others(t)) = {r \in Items(t) : r.number # 1}
      BY <1>1, RootsAre
    <3>2. Breps(res) = {E!Brep(1)} \cup {E!Brep(r.number) : r \in {x \in Items(t) : x.number # 1}}
      BY <1>1, <2>1, <3>1 DEF Breps
    <3>3. Breps(res) = {E!Brep(r.number) : r \in Items(t)}
      BY <1>2, <3>2
    <3> QED BY <1>3, <3>3 DEF Items
  <2>2. CASE ~res.expanded
    <3>1. Breps(res) = {E!Brep(1)}
      BY <2>2 DEF Breps
    <3>2. 1..n = {1}
      BY <1>2, <1>3, <2>2
    <3> QED BY <1>2, <3>1, <3>2
  <2> QED BY <2>1, <2>2
<1>5. IsFiniteSet(Breps(res)) /\ Cardinality(Breps(res)) = n
  <2>1. PICK f : f = [k \in 1..n |-> E!Brep(t[k].number)]
    OBVIOUS
  <2>2. \A i, j \in 1..n : f[i] = f[j] => i = j
    BY <1>2, <1>3, <2>1 DEF E!Brep
  <2>3. f = [k \in 1..n |-> f[k]] /\ IsFiniteSet(1..n) /\ Cardinality(1..n) = n
    BY <2>1, Counted
  <2>4. IsFiniteSet({f[k] : k \in 1..n}) /\ Cardinality({f[k] : k \in 1..n}) = n
    BY <2>2, <2>3, ValuesCounted
  <2>5. Breps(res) = {f[k] : k \in 1..n}
    BY <1>4, <2>1
  <2> QED BY <2>4, <2>5
<1>6. /\ Distinct(s) /\ Breps(res) \subseteq Ids(s)
      /\ \A x \in Ids(s) : x[1] \in {"prim_step_iges_brep", "prim_step_iges_healed"} <=> x \in Breps(res) \cup HealedIds(res)
  BY StepRecordsAre
<1>7. \A x \in Ids(s) : x[1] = "prim_step_iges_brep" <=> x \in Breps(res)
  <2>1. \A x \in Breps(res) : x[1] = "prim_step_iges_brep"
    BY <1>4 DEF E!Brep
  <2>2. \A x \in HealedIds(res) : x[1] = "prim_step_iges_healed"
    BY DEF HealedIds
  <2> QED BY <1>6, <2>1, <2>2
<1>8. PICK at : at = {a \in DOMAIN s : s[a].id[1] = "prim_step_iges_brep"}
  OBVIOUS
<1>9. PICK id : id = [a \in at |-> s[a].id]
  OBVIOUS
<1>10. id \in Bijection(at, Breps(res))
  <2>1. \A a \in at : id[a] \in Breps(res)
    BY <1>7, <1>8, <1>9 DEF Ids
  <2>2. \A a, b \in at : id[a] = id[b] => a = b
    BY <1>6, <1>8, <1>9 DEF Distinct
  <2>3. \A x \in Breps(res) : \E a \in at : id[a] = x
    BY <1>6, <1>7, <1>8, <1>9 DEF Ids
  <2>4. id \in [at -> Breps(res)]
    BY <1>9, <2>1
  <2>5. id \in Injection(at, Breps(res)) /\ id \in Surjection(at, Breps(res))
    BY <2>2, <2>3, <2>4 DEF Injection, IsInjective, Surjection
  <2> QED BY <2>5 DEF Bijection
<1>11. IsFiniteSet(at)
  <2>1. PICK m \in Nat : m = Len(s) /\ DOMAIN s = 1..m
    BY <1>6, ListIs DEF Distinct
  <2>2. IsFiniteSet(1..m) /\ at \subseteq 1..m
    BY <1>8, <2>1, Counted
  <2> QED BY <2>2, FS_Subset
<1>12. Cardinality(at) = n
  <2>1. id \in Surjection(at, Breps(res)) /\ id \in Injection(at, Breps(res))
    BY <1>10 DEF Bijection
  <2> QED BY <1>5, <1>11, <2>1, FS_Surjection
<1> QED BY <1>1, <1>3, <1>8, <1>12

\* What was translated of a STEP file rests on its items.
LEMMA StepGrounded ==
  ASSUME ExchangeBuilt, outcome = "written", job.adapter = "step", E!FirstRootTranslated
  PROVE  /\ \A a \in DOMAIN records : records[a].class = "derived" /\ records[a].refs = {} => E!RootResult.items = <<>>
         /\ Cardinality({a \in DOMAIN records : records[a].id[1] = "prim_step_iges_brep"}) = Len(E!Succeeded(E!RootResult.roots))
<1>1. PICK res : res = E!RootResult
  OBVIOUS
<1>2. StepSound(res) /\ records = E!StepRecords(res) /\ E!Shape(res).number = 1
  BY <1>1, RootStepSound DEF ExchangeBuilt, ExchangeRecords, E!FirstRootTranslated
<1>3. \A r \in Items(records) : r.class = "derived" /\ r.refs = {} => E!Observed(res) = {}
  BY <1>2, StepRecordsAre
<1>4. E!Observed(res) = {} => res.items = <<>>
  <2>1. E!Observed(res) = {} => DOMAIN res.items = {}
    BY DEF E!Observed, E!Ids
  <2>2. PICK n \in Nat : n = Len(res.items) /\ DOMAIN res.items = 1..n
    BY <1>2, ListIs DEF StepSound
  <2>3. DOMAIN res.items = {} => n = 0
    <3>1. n # 0 => 1 \in 1..n
      OBVIOUS
    <3>2. n # 0 => 1 \in DOMAIN res.items
      BY <2>2, <3>1
    <3> QED BY <3>2
  <2>4. n = 0 => res.items = <<>>
    BY <1>2, <2>2, EmptySeq DEF StepSound, IsList
  <2> QED BY <2>1, <2>3, <2>4
<1>5. \A a \in DOMAIN records : records[a] \in Items(records)
  BY DEF Items
<1> QED BY <1>1, <1>2, <1>3, <1>4, <1>5, BrepsCounted

\* A handle that is not in conflict is that of one object at most.
LEMMA NotRepeated ==
  ASSUME NEW objects, IsList(objects), NEW h, h \notin E!Repeated(objects), NEW k \in DOMAIN objects, objects[k].handle = h,
         NEW m \in DOMAIN objects, objects[m].handle = h
  PROVE  k = m
<1>1. PICK at : at = {x \in DOMAIN objects : objects[x].handle = h}
  OBVIOUS
<1>2. PICK n \in Nat : n = Len(objects) /\ DOMAIN objects = 1..n
  BY ListIs
<1>3. IsFiniteSet(at) /\ Cardinality(at) \in Nat
  <2>1. at \subseteq 1..n
    BY <1>1, <1>2
  <2> QED BY <2>1, Counted, FS_Subset, FS_CardinalityType
<1>4. ~(Cardinality(at) > 1)
  BY <1>1, SameLists DEF E!Repeated, E!Handles
<1>5. ASSUME k # m PROVE FALSE
  <2>1. PICK one : one = {k}
    OBVIOUS
  <2>5. IsFiniteSet(one) /\ Cardinality(one) = 1 /\ m \notin one
    BY <1>5, <2>1, FS_Singleton
  <2>6. IsFiniteSet(one \cup {m}) /\ Cardinality(one \cup {m}) = Cardinality(one) + 1
    BY <2>5, FS_AddElement
  <2>2. IsFiniteSet({k} \cup {m}) /\ Cardinality({k} \cup {m}) = 2
    BY <2>1, <2>5, <2>6
  <2>3. {k} \cup {m} \subseteq at
    BY <1>1
  <2>4. 2 <= Cardinality(at)
    BY <1>3, <2>2, <2>3, FS_Subset
  <2> QED BY <1>3, <1>4, <2>4
<1> QED BY <1>5

(* What a derived record of a drawing rests on. *)
DwgGrounded(res, r) ==
  /\ Cardinality(r.refs) = 1
  /\ r.refs = {E!Source} => E!Unmatched(res) # {}
  /\ r.refs # {E!Source} =>
       \E k \in DOMAIN res.objects : /\ res.objects[k].handle = r.id[2]
                                    /\ \A m \in DOMAIN res.objects : res.objects[m].handle = r.id[2] => m = k

\* A primitive of the converted drawing rests on the one object with its handle, or on the source.
LEMMA ConvertedGrounded ==
  ASSUME NEW res, IsList(res.objects), res.conflicts = E!Repeated(res.objects), NEW k \in E!FirstSeen(res), NEW refs,
         refs = IF k \in E!Unmatched(res) THEN {E!Source} ELSE E!ObservedAs(res, res.dxf[k].handle), NEW r,
         r.id = <<"prim_dwg_dxf", res.dxf[k].handle>>, r.refs = refs
  PROVE  DwgGrounded(res, r)
<1>1. PICK h : h = res.dxf[k].handle
  OBVIOUS
<1>2. r.id[2] = h
  BY <1>1
<1>3. CASE k \in E!Unmatched(res)
  <2>1. refs = {E!Source}
    BY <1>3
  <2>2. Cardinality(refs) = 1
    BY <2>1, FS_Singleton
  <2> QED BY <1>3, <2>1, <2>2 DEF DwgGrounded
<1>4. CASE k \notin E!Unmatched(res)
  <2>1. refs = E!ObservedAs(res, h) /\ refs # {}
    BY <1>1, <1>4 DEF E!Unmatched
  <2>2. PICK m \in DOMAIN res.objects : res.objects[m].handle = h /\ h \notin res.conflicts
    BY <2>1 DEF E!ObservedAs
  <2>3. refs = {<<"prim_dwg", <<h>>>>}
    <3>1. \A x \in DOMAIN res.objects : res.objects[x].handle = h => E!Locator(res, x) = <<h>>
      BY <2>2 DEF E!Locator
    <3> QED BY <2>1, <2>2, <3>1 DEF E!ObservedAs
  <2>4. Cardinality(refs) = 1
    BY <2>3, FS_Singleton
  <2>5. refs # {E!Source}
    <3>1. <<"prim_dwg", <<h>>>>[1] = "prim_dwg" /\ E!Source[1] = "src"
      BY DEF E!Source
    <3> QED BY <2>3, <3>1
  <2>6. \A x \in DOMAIN res.objects : res.objects[x].handle = h => x = m
    BY <2>2, NotRepeated
  <2> QED BY <1>2, <2>2, <2>4, <2>5, <2>6 DEF DwgGrounded
<1> QED BY <1>3, <1>4

\* One record for each of some places of a list.
LEMMA PlacesFinite ==
  ASSUME NEW s, IsList(s) PROVE IsFiniteSet(DOMAIN s) /\ \A T : T \subseteq DOMAIN s => IsFiniteSet(T)
<1>1. PICK n \in Nat : n = Len(s) /\ DOMAIN s = 1..n
  BY ListIs
<1> QED BY <1>1, Counted, FS_Subset

(* The records of the objects of a drawing, of those that are indexed, and of what was converted. *)
ObjectPart(res) == [k \in DOMAIN res.objects |-> E!Record(<<"prim_dwg", E!Locator(res, k)>>, {E!Source}, "observed")]
IndexedAt(res) == {k \in DOMAIN res.objects : res.objects[k].class \in E!Indexed}
IndexPart(res) == [k \in IndexedAt(res) |-> E!Record(<<"entity_dwg", E!Locator(res, k)>>, {<<"prim_dwg", E!Locator(res, k)>>}, "observed")]
ConvertedPart(res) ==
  [k \in E!FirstSeen(res) |->
     E!Record(<<"prim_dwg_dxf", res.dxf[k].handle>>,
              IF k \in E!Unmatched(res) THEN {E!Source} ELSE E!ObservedAs(res, res.dxf[k].handle), "derived")]

LEMMA DwgRecordsBy ==
  ASSUME NEW res
  PROVE  E!DwgRecords(res) = <<E!Record(E!Source, {}, "observed")>> \o ForEach(ObjectPart(res)) \o ForEach(IndexPart(res))
                             \o ForEach(ConvertedPart(res))
<1>1. PICK a, b, c : a = ObjectPart(res) /\ b = IndexPart(res) /\ c = ConvertedPart(res)
  OBVIOUS
<1>2. E!DwgRecords(res) = <<E!Record(E!Source, {}, "observed")>> \o E!ForEach(a) \o E!ForEach(b) \o E!ForEach(c)
  BY <1>1 DEF E!DwgRecords, ObjectPart, IndexPart, ConvertedPart, IndexedAt
<1> QED BY <1>1, <1>2, SameLists

\* The records of the members of a bundle were observed.
LEMMA MembersObserved ==
  ASSUME E!Bundled, IsList(job.entries), NEW s, s = E!Concat([k \in DOMAIN E!Children |-> E!MemberRecords(E!Children[k])])
  PROVE  IsList(s) /\ \A r \in Items(s) : r.class = "observed"
<1>1. PICK children : children = E!Children
  OBVIOUS
<1>2. IsList(children)
  <2>1. PICK T : T = {e \in E!Members : e.role # "root"}
    OBVIOUS
  <2>2. children = Filtered(job.entries, T)
    BY <1>1, <2>1, SameLists DEF E!Children
  <2> QED BY <2>2, FilteredIs
<1>3. PICK n \in Nat : n = Len(children) /\ DOMAIN children = 1..n
  BY <1>2, ListIs
<1>4. PICK lists : lists = [k \in 1..n |-> E!MemberRecords(children[k])]
  OBVIOUS
<1>5. IsList(lists) /\ DOMAIN lists = 1..n
  <2>1. lists = [k \in 1..n |-> lists[k]]
    BY <1>4
  <2> QED BY <2>1, FunctionIsList
<1>6. ASSUME NEW k \in 1..n PROVE IsList(lists[k]) /\ \A r \in Items(lists[k]) : r.class = "observed"
  <2>1. PICK a, b : /\ a = E!Record(E!ChildSource(children[k]), {}, "observed")
                    /\ b = E!Record(<<"relation_dwg_xref", children[k].path>>, {E!Source, E!ChildSource(children[k])}, "observed")
    OBVIOUS
  <2>2. lists[k] = <<a, b>>
    BY <1>4, <2>1 DEF E!MemberRecords
  <2>3. IsList(lists[k]) /\ Items(lists[k]) = {a, b}
    BY <2>2, Short
  <2>4. a.class = "observed" /\ b.class = "observed"
    BY <2>1, ExchangeRecordIs
  <2> QED BY <2>3, <2>4
<1>7. s = Concat(lists)
  BY <1>1, <1>3, <1>4, SameLists
<1>8. IsList(Concat(lists)) /\ Items(Concat(lists)) = Joins(lists)
  BY <1>5, <1>6, ConcatIs
<1>9. \A r \in Joins(lists) : \E k \in 1..n : r \in Items(lists[k])
  BY <1>5 DEF Joins
<1> QED BY <1>6, <1>7, <1>8, <1>9

\* The derived records of a drawing rest on its objects or on the source.
LEMMA DwgRecordsAre ==
  ASSUME NEW res, IsList(res.objects), IsList(res.dxf), res.conflicts = E!Repeated(res.objects), NEW s, s = E!DwgRecords(res)
  PROVE  IsList(s) /\ \A r \in Items(s) : r.class = "derived" => DwgGrounded(res, r)
<1>1. PICK a, b, c, d : /\ a = <<E!Record(E!Source, {}, "observed")>> /\ b = ForEach(ObjectPart(res))
                        /\ c = ForEach(IndexPart(res)) /\ d = ForEach(ConvertedPart(res))
  OBVIOUS
<1>2. s = ((a \o b) \o c) \o d
  BY <1>1, DwgRecordsBy
<1>3. IsList(a) /\ \A r \in Items(a) : r.class = "observed"
  <2>1. PICK r : r = E!Record(E!Source, {}, "observed")
    OBVIOUS
  <2>2. IsList(<<r>>) /\ Items(<<r>>) = {r} /\ r.class = "observed"
    BY <2>1, Short, ExchangeRecordIs
  <2> QED BY <1>1, <2>1, <2>2
<1>4. IsList(b) /\ \A r \in Items(b) : r.class = "observed"
  <2>1. PICK f : f = ObjectPart(res)
    OBVIOUS
  <2>2. IsFiniteSet(DOMAIN f)
    BY <2>1, PlacesFinite DEF ObjectPart
  <2>3. IsList(b) /\ Items(b) = {f[x] : x \in DOMAIN f}
    BY <1>1, <2>1, <2>2, ForEachIs
  <2>4. \A x \in DOMAIN f : f[x].class = "observed"
    BY <2>1, ExchangeRecordIs DEF ObjectPart
  <2> QED BY <2>3, <2>4
<1>5. IsList(c) /\ \A r \in Items(c) : r.class = "observed"
  <2>1. PICK f : f = IndexPart(res)
    OBVIOUS
  <2>2. IsFiniteSet(DOMAIN f)
    BY <2>1, PlacesFinite DEF IndexPart, IndexedAt
  <2>3. IsList(c) /\ Items(c) = {f[x] : x \in DOMAIN f}
    BY <1>1, <2>1, <2>2, ForEachIs
  <2>4. \A x \in DOMAIN f : f[x].class = "observed"
    BY <2>1, ExchangeRecordIs DEF IndexPart
  <2> QED BY <2>3, <2>4
<1>6. IsList(d) /\ \A r \in Items(d) : DwgGrounded(res, r)
  <2>1. PICK f : f = ConvertedPart(res)
    OBVIOUS
  <2>2. IsFiniteSet(DOMAIN f)
    BY <2>1, PlacesFinite DEF ConvertedPart, E!FirstSeen
  <2>3. IsList(d) /\ Items(d) = {f[x] : x \in DOMAIN f}
    BY <1>1, <2>1, <2>2, ForEachIs
  <2>4. ASSUME NEW k \in DOMAIN f PROVE DwgGrounded(res, f[k])
    <3>1. k \in E!FirstSeen(res)
      BY <2>1 DEF ConvertedPart
    <3>2. PICK id, refs : /\ id = <<"prim_dwg_dxf", res.dxf[k].handle>>
                          /\ refs = IF k \in E!Unmatched(res) THEN {E!Source} ELSE E!ObservedAs(res, res.dxf[k].handle)
      OBVIOUS
    <3>3. f[k] = E!Record(id, refs, "derived")
      BY <2>1, <3>1, <3>2 DEF ConvertedPart
    <3>4. f[k].id = id /\ f[k].refs = refs
      BY <3>3, ExchangeRecordIs
    <3> QED BY <3>1, <3>2, <3>4, ConvertedGrounded
  <2> QED BY <2>3, <2>4
<1>7. IsList(s) /\ Items(s) = Items(a) \cup Items(b) \cup Items(c) \cup Items(d)
  <2>1. IsList(a \o b) /\ Items(a \o b) = Items(a) \cup Items(b)
    BY <1>3, <1>4, Joined
  <2>2. IsList((a \o b) \o c) /\ Items((a \o b) \o c) = Items(a \o b) \cup Items(c)
    BY <1>5, <2>1, Joined
  <2> QED BY <1>2, <1>6, <2>1, <2>2, Joined
<1> QED BY <1>3, <1>4, <1>5, <1>6, <1>7

\* What was translated of a drawing rests on its objects, or on the source with a diagnostic.
LEMMA DrawingGrounded ==
  ASSUME ExchangeBuilt, outcome = "written", job.adapter = "dwg"
  PROVE  /\ \A a \in DOMAIN records : records[a].class = "derived" => DwgGrounded(E!RootResult, records[a])
         /\ E!Unmatched(E!RootResult) # {} => <<"diag", "DXF_HANDLE_UNMATCHED">> \in E!Named
<1>1. PICK res : res = E!RootResult
  OBVIOUS
<1>2. \A s : E!IsList(s) => IsList(s)
  BY DEF E!IsList, E!Items, IsList, Items
<1>3. ExchangeChecked /\ ExchangeHeld /\ records = ExchangeRecords /\ diagnostics = ExchangeDiagnostics
  BY DEF ExchangeBuilt, ExchangeChecked
<1>4. /\ IsList(res.objects) /\ IsList(res.dxf) /\ E!IsFiniteSet(res.codes)
      /\ res.conflicts = E!Repeated(res.objects)
  <2>1. E!IsResult("dwg", res)
    BY <1>1, <1>3, RootSound
  <2> QED BY <1>1, <1>2, <1>3, <2>1 DEF E!IsResult, ExchangeChecked
<1>5. PICK s : s = E!DwgRecords(res)
  OBVIOUS
<1>6. IsList(s) /\ \A r \in Items(s) : r.class = "derived" => DwgGrounded(res, r)
  BY <1>4, <1>5, DwgRecordsAre
<1>7. IsList(records) /\ \A r \in Items(records) : r.class = "derived" => DwgGrounded(res, r)
  <2>1. CASE E!Bundled
    <3>1. PICK t : t = E!Concat([k \in DOMAIN E!Children |-> E!MemberRecords(E!Children[k])])
      OBVIOUS
    <3>2. IsList(job.entries)
      BY <1>2, <2>1, ExchangeAssumption DEF ExchangeBuilt, E!IsExchangeJob, E!Bundled
    <3>3. IsList(t) /\ \A r \in Items(t) : r.class = "observed"
      BY <2>1, <3>1, <3>2, MembersObserved
    <3>4. records = s \o t
      BY <1>1, <1>3, <1>5, <2>1, <3>1 DEF ExchangeRecords
    <3> QED BY <1>6, <3>3, <3>4, Joined
  <2>2. CASE ~E!Bundled
    <3>1. records = s \o <<>>
      BY <1>1, <1>3, <1>5, <2>2 DEF ExchangeRecords
    <3>2. IsList(<<>>) /\ Items(<<>>) = {}
      BY Short
    <3>3. IsList(s \o <<>>) /\ Items(s \o <<>>) = Items(s) \cup Items(<<>>)
      BY <1>6, <3>2, Joined
    <3> QED BY <1>6, <3>1, <3>2, <3>3
  <2> QED BY <2>1, <2>2
<1>8. \A a \in DOMAIN records : records[a] \in Items(records)
  BY DEF Items
<1>9. ASSUME E!Unmatched(res) # {} PROVE <<"diag", "DXF_HANDLE_UNMATCHED">> \in E!Named
  <2>1. PICK f : f = [c \in E!Codes |-> E!Record(<<"diag", c>>, {E!Source}, "observed")]
    OBVIOUS
  <2>2. IsFiniteSet(E!Codes) /\ "DXF_HANDLE_UNMATCHED" \in E!Codes
    <3>1. IsFiniteSet(res.codes)
      BY <1>4 DEF E!IsFiniteSet, IsFiniteSet
    <3>2. E!Codes = res.codes \cup {"DXF_HANDLE_UNMATCHED"}
      BY <1>1, <1>9 DEF E!Codes, E!DwgCodes
    <3>3. IsFiniteSet(res.codes \cup {"DXF_HANDLE_UNMATCHED"})
      BY <3>1, FS_AddElement
    <3> QED BY <3>2, <3>3
  <2>3. DOMAIN f = E!Codes /\ \A c \in E!Codes : f[c].id = <<"diag", c>>
    BY <2>1, ExchangeRecordIs
  <2>4. diagnostics = ForEach(f)
    BY <1>3, <2>1, SameLists DEF ExchangeDiagnostics
  <2>5. IsList(diagnostics) /\ Items(diagnostics) = {f[c] : c \in DOMAIN f}
    BY <2>2, <2>3, <2>4, ForEachIs
  <2>6. f["DXF_HANDLE_UNMATCHED"] \in Items(records \o diagnostics)
    BY <1>7, <2>2, <2>3, <2>5, Joined
  <2>7. f["DXF_HANDLE_UNMATCHED"].id = <<"diag", "DXF_HANDLE_UNMATCHED">>
    BY <2>2, <2>3
  <2>8. f["DXF_HANDLE_UNMATCHED"].id \in E!Named
    BY <2>6 DEF E!Named, E!All, Items
  <2> QED BY <2>7, <2>8
<1> QED BY <1>1, <1>7, <1>8, <1>9

\* Every member of a bundle was decoded from its own bytes, and the root's evidence names it.
LEMMA MembersHeld ==
  ASSUME ExchangeBuilt, outcome = "written", E!Bundled
  PROVE  \A e \in E!Members : E!ResultOf(e.path).input = e.digest /\ (e.role = "root" \/ e.path \in E!RootResult.retained)
<1>1. ExchangeHeld /\ ExchangeRetained
  BY DEF ExchangeBuilt, ExchangeChecked
<1>2. PICK T : T = {e \in E!Members : e.role # "root"}
  OBVIOUS
<1>3. E!Children = Filtered(job.entries, T)
  BY <1>2, SameLists DEF E!Children
<1>4. IsList(job.entries)
  <2>1. \A s : E!IsList(s) => IsList(s)
    BY DEF E!IsList, E!Items, IsList, Items
  <2> QED BY <2>1, ExchangeAssumption DEF ExchangeBuilt, E!IsExchangeJob, E!Bundled
<1>5. Items(E!Children) = T
  <2>1. Items(E!Children) = Items(job.entries) \cap T
    BY <1>3, <1>4, FilteredIs
  <2>2. Items(job.entries) = E!Members
    BY SameLists DEF E!Members
  <2> QED BY <1>2, <2>1, <2>2
<1> QED BY <1>1, <1>2, <1>5 DEF ExchangeHeld, ExchangeRetained

\* Translations rest on what was observed.
LEMMA TranslationsGrounded == ASSUME ExchangeBuilt PROVE E!DerivedIsGrounded
<1> SUFFICES ASSUME outcome = "written", E!FirstRootTranslated PROVE E!DerivedIsGrounded
  BY DEF E!DerivedIsGrounded, E!Written
<1>1. job.adapter \in {"step", "dwg"} /\ ExchangeChecked
  BY RootSound DEF ExchangeBuilt, ExchangeChecked
<1>2. \A T : E!Cardinality(T) = Cardinality(T)
  BY SameLists
<1>3. CASE job.adapter = "step"
  <2>1. /\ \A a \in DOMAIN records : records[a].class = "derived" /\ records[a].refs = {} => E!RootResult.items = <<>>
        /\ Cardinality({a \in DOMAIN records : records[a].id[1] = "prim_step_iges_brep"}) = Len(E!Succeeded(E!RootResult.roots))
    BY <1>3, StepGrounded
  <2>2. E!Bundled => \A e \in E!Members : E!ResultOf(e.path).input = e.digest /\ (e.role = "root" \/ e.path \in E!RootResult.retained)
    BY MembersHeld
  <2>3. job.adapter # "dwg"
    BY <1>3
  <2> QED BY <1>2, <1>3, <2>1, <2>2, <2>3 DEF E!DerivedIsGrounded
<1>4. CASE job.adapter = "dwg"
  <2>1. PICK res : res = E!RootResult
    OBVIOUS
  <2>2. E!Unmatched(res) # {} => <<"diag", "DXF_HANDLE_UNMATCHED">> \in E!Named
    BY <1>4, <2>1, DrawingGrounded
  <2>3. ASSUME NEW a \in DOMAIN records, records[a].class = "derived"
        PROVE  /\ E!Cardinality(records[a].refs) = 1
               /\ records[a].refs = {E!Source} => <<"diag", "DXF_HANDLE_UNMATCHED">> \in E!Named
               /\ records[a].refs # {E!Source} =>
                    \E k \in DOMAIN res.objects : /\ res.objects[k].handle = records[a].id[2]
                                                 /\ \A m \in DOMAIN res.objects : res.objects[m].handle = records[a].id[2] => m = k
    <3>1. DwgGrounded(res, records[a])
      BY <1>4, <2>1, <2>3, DrawingGrounded
    <3> QED BY <1>2, <2>2, <3>1 DEF DwgGrounded
  <2>4. \A a \in DOMAIN records : records[a].class = "derived" => records[a].refs # {}
    <3> SUFFICES ASSUME NEW a \in DOMAIN records, records[a].class = "derived", records[a].refs = {} PROVE FALSE
      OBVIOUS
    <3>1. PICK refs : refs = records[a].refs
      OBVIOUS
    <3>2. E!Cardinality(refs) = 1
      BY <2>3, <3>1
    <3>3. Cardinality(refs) = 1 /\ refs = {}
      BY <1>2, <3>1, <3>2
    <3> QED BY <3>3, FS_EmptySet
  <2>5. E!Bundled => \A e \in E!Members : E!ResultOf(e.path).input = e.digest /\ (e.role = "root" \/ e.path \in E!RootResult.retained)
    BY MembersHeld
  <2>6. job.adapter # "step" /\ E!RootResult.input = job.source
    BY <1>1, <1>4 DEF ExchangeChecked
  <2> QED BY <1>4, <2>1, <2>3, <2>4, <2>5, <2>6 DEF E!DerivedIsGrounded
<1> QED BY <1>1, <1>3, <1>4

(***************************************************************************)
(* What the adapters have made of their source so far, in every reachable  *)
(* state: IngestInv says how far an ingest is, this says what its records, *)
(* its diagnostics and its artifacts are.                                  *)
(***************************************************************************)
BuiltInv ==
  /\ IngestInv
  /\ command = "raster" => RasterBuilt
  /\ command = "ifc" => IfcBuilt
  /\ command = "exchange" => ExchangeBuilt
  /\ command = "geometry" => MeshBuilt

\* At the start of a call nothing is made yet.
LEMMA BuiltInit ==
  /\ R!Init => RasterBuilt
  /\ I!Init => IfcBuilt
  /\ E!Init => ExchangeBuilt
  /\ G!Init => MeshBuilt
<1>1. R!Init => RasterBuilt
  BY DEF R!Init, RasterBuilt
<1>2. I!Init => IfcBuilt
  BY NoRepeatShort, Short DEF I!Init, I!Idle, IfcBuilt
<1>3. E!Init => ExchangeBuilt
  BY DEF E!Init, ExchangeBuilt
<1>4. G!Init => MeshBuilt
  BY DEF G!Init, MeshBuilt
<1> QED BY <1>1, <1>2, <1>3, <1>4

(***************************************************************************)
(* In every reachable state the records, the diagnostics and the artifacts *)
(* of a call are exactly what its adapter makes of its source at that      *)
(* point.                                                                  *)
(***************************************************************************)
THEOREM BuiltInvariant == Spec => []BuiltInv
<1>1. Init /\ IngestInv => BuiltInv
  <2> SUFFICES ASSUME Init, IngestInv PROVE BuiltInv
    OBVIOUS
  <2>1. /\ command = "raster" => R!Init
        /\ command = "ifc" => I!Init
        /\ command = "exchange" => E!Init
        /\ command = "geometry" => G!Init
    BY DEF Init, Component
  <2> QED BY <2>1, BuiltInit DEF BuiltInv
<1>2. BuiltInv /\ IngestInv' /\ [Next]_vars => BuiltInv'
  <2> SUFFICES ASSUME BuiltInv, IngestInv', [Next]_vars PROVE BuiltInv'
    OBVIOUS
  <2>1. /\ command' = command
        /\ command = "raster" => [R!Next]_(R!vars)
        /\ command = "ifc" => [I!Next]_(I!vars)
        /\ command = "exchange" => [E!Next]_(E!vars)
        /\ command = "geometry" => [G!Next]_(G!vars)
    BY StepIsOfComponent
  <2>2. CASE command = "raster"
    BY <2>1, <2>2, RasterBuiltKeeps DEF BuiltInv
  <2>3. CASE command = "ifc"
    BY <2>1, <2>3, IfcBuiltKeeps DEF BuiltInv
  <2>4. CASE command = "exchange"
    BY <2>1, <2>4, ExchangeBuiltKeeps DEF BuiltInv
  <2>5. CASE command = "geometry"
    BY <2>1, <2>5, MeshBuiltKeeps DEF BuiltInv, IngestInv
  <2>6. CASE command \notin {"raster", "ifc", "exchange", "geometry"}
    BY <2>1, <2>6 DEF BuiltInv
  <2> QED BY <2>2, <2>3, <2>4, <2>5, <2>6
<1> QED BY <1>1, <1>2, IngestInvariant, PTL DEF Spec

(***************************************************************************)
(* What is written as derived, calibrated or located rests on evidence     *)
(* that is in the package or in the call: inference adds to the baseline   *)
(* and never replaces it, a grounded relation names two objects of the     *)
(* drawing, a calibration the source, a location a declaration of the      *)
(* file.                                                                   *)
(***************************************************************************)
THEOREM DerivedRests == Spec => []DerivedRestsOnEvidence
<1>1. BuiltInv => DerivedRestsOnEvidence
  <2> SUFFICES ASSUME BuiltInv PROVE DerivedRestsOnEvidence
    OBVIOUS
  <2>1. command = "raster" => R!InferenceOnlyAdds /\ R!ResultsAreDeclared
    BY InferenceAdds, ResultsDeclared DEF BuiltInv
  <2>2. command = "exchange" => E!DerivedIsGrounded
    BY TranslationsGrounded DEF BuiltInv
  <2>3. command = "geometry" => G!CalibrationRestsOnSource /\ G!CoordinatesAreDeclared
    BY CalibrationRests, CoordinatesDeclared DEF BuiltInv, IngestInv
  <2>4. command = "ifc" => I!LocationIsDeclared
    BY LocationDeclared DEF BuiltInv
  <2> QED BY <2>1, <2>2, <2>3, <2>4 DEF DerivedRestsOnEvidence
<1> QED BY BuiltInvariant, <1>1, PTL

(***************************************************************************)
(* The package of a drawing or of a STEP file.                             *)
(***************************************************************************)
\* A record for each of a finite set, named by its kind and by a name that tells what it is for.
NamedByKind(f, kind, name) == \A x \in DOMAIN f : f[x].id = <<kind, name[x]>>
TellsApart(f, name) == \A x, y \in DOMAIN f : name[x] = name[y] => x = y
LEMMA KindTable ==
  ASSUME NEW f, IsFiniteSet(DOMAIN f), NEW kind, NEW name, NamedByKind(f, kind, name), TellsApart(f, name)
  PROVE  OfKinds(ForEach(f), {kind}) /\ Ids(ForEach(f)) = {<<kind, name[x]>> : x \in DOMAIN f} /\ Items(ForEach(f)) = {f[x] : x \in DOMAIN f}
<1>1. \A x, y \in DOMAIN f : f[x].id = f[y].id => x = y
  <2> SUFFICES ASSUME NEW x \in DOMAIN f, NEW y \in DOMAIN f, f[x].id = f[y].id PROVE x = y
    OBVIOUS
  <2>1. PICK a, b : a = name[x] /\ b = name[y]
    OBVIOUS
  <2>2. f[x].id = <<kind, a>> /\ f[y].id = <<kind, b>>
    BY <2>1 DEF NamedByKind
  <2>3. <<kind, a>> = <<kind, b>>
    BY <2>2
  <2>4. a = b
    BY <2>3
  <2> QED BY <2>1, <2>4 DEF TellsApart
<1>2. Distinct(ForEach(f)) /\ Ids(ForEach(f)) = {f[x].id : x \in DOMAIN f}
  BY <1>1, DistinctEach
<1>3. Items(ForEach(f)) = {f[x] : x \in DOMAIN f}
  BY ForEachIs
<1>4. {f[x].id : x \in DOMAIN f} = {<<kind, name[x]>> : x \in DOMAIN f}
  BY NamedAlike DEF NamedByKind
<1>5. \A x : <<kind, x>>[1] = kind
  OBVIOUS
<1> QED BY <1>2, <1>3, <1>4, <1>5 DEF OfKinds

(* A result that was accepted. *)
DwgSound(res) == IsList(res.objects) /\ IsList(res.dxf) /\ IsFiniteSet(res.codes) /\ res.conflicts = E!Repeated(res.objects)

\* The locators of the objects of a drawing are distinct, conflicts included.
LEMMA LocatorsApart ==
  ASSUME NEW res, DwgSound(res), NEW k \in DOMAIN res.objects, NEW l \in DOMAIN res.objects, E!Locator(res, k) = E!Locator(res, l)
  PROVE  k = l
<1>1. PICK n \in Nat : n = Len(res.objects) /\ DOMAIN res.objects = 1..n
  BY ListIs DEF DwgSound
<1>2. PICK h, g : h = res.objects[k].handle /\ g = res.objects[l].handle
  OBVIOUS
<1>3. PICK before : before = [x \in 1..n |-> {m \in 1..(x - 1) : res.objects[m].handle = h}]
  OBVIOUS
<1>4. h = g
  <2>1. \A x \in DOMAIN res.objects : E!Locator(res, x)[1] = res.objects[x].handle
    BY DEF E!Locator
  <2> QED BY <1>2, <2>1
<1>5. CASE h \notin res.conflicts
  BY <1>2, <1>4, <1>5, NotRepeated DEF DwgSound
<1>6. CASE h \in res.conflicts
  <2>1. PICK a, b : a = Cardinality(before[k]) /\ b = Cardinality(before[l])
    OBVIOUS
  <2>2. E!Locator(res, k) = <<h, a>> /\ E!Locator(res, l) = <<h, b>>
    <3>1. before[k] = {m \in 1..(k - 1) : res.objects[m].handle = h} /\ before[l] = {m \in 1..(l - 1) : res.objects[m].handle = h}
      BY <1>1, <1>3
    <3> QED BY <1>2, <1>4, <1>6, <2>1, <3>1, SameLists DEF E!Locator
  <2>3. a = b
    <3>1. <<h, a>> = <<h, b>>
      BY <2>2
    <3> QED BY <3>1
  <2>4. ASSUME NEW x \in 1..n, NEW y \in 1..n, x < y, res.objects[x].handle = h PROVE Cardinality(before[x]) # Cardinality(before[y])
    <3>1. before[x] \subseteq before[y] /\ x \in before[y] /\ x \notin before[x]
      <4>1. x \in 1..(y - 1) /\ x \notin 1..(x - 1) /\ \A m \in 1..(x - 1) : m \in 1..(y - 1)
        BY <2>4
      <4> QED BY <1>3, <2>4, <4>1
    <3>2. IsFiniteSet(before[y])
      <4>1. before[y] \subseteq 1..n
        BY <1>3
      <4> QED BY <4>1, Counted, FS_Subset
    <3> QED BY <3>1, <3>2, FS_Subset
  <2>5. ~(k < l) /\ ~(l < k)
    BY <1>1, <1>2, <1>4, <2>1, <2>3, <2>4
  <2> QED BY <1>1, <2>5
<1> QED BY <1>5, <1>6

(* The names of the objects of a drawing. *)
DwgPrims(res) == {<<"prim_dwg", E!Locator(res, k)>> : k \in DOMAIN res.objects}

\* The objects.
LEMMA DwgObjects ==
  ASSUME NEW res, DwgSound(res), NEW s, s = ForEach(ObjectPart(res))
  PROVE  OfKinds(s, {"prim_dwg"}) /\ Ids(s) = DwgPrims(res) /\ \A r \in Items(s) : r.refs = {E!Source}
<1>1. PICK f, name, refs : /\ f = ObjectPart(res) /\ name = [k \in DOMAIN res.objects |-> E!Locator(res, k)] /\ refs = {E!Source}
  OBVIOUS
<1>2. DOMAIN f = DOMAIN res.objects
  BY <1>1 DEF ObjectPart
<1>3. ASSUME NEW k \in DOMAIN f PROVE f[k].id = <<"prim_dwg", name[k]>> /\ f[k].refs = refs
  <2>1. PICK id : id = <<"prim_dwg", E!Locator(res, k)>>
    OBVIOUS
  <2>2. f[k] = E!Record(id, refs, "observed")
    BY <1>1, <1>2, <2>1 DEF ObjectPart
  <2>3. f[k].id = id /\ f[k].refs = refs
    BY <2>2, ExchangeRecordIs
  <2> QED BY <1>1, <1>2, <2>1, <2>3
<1>4. PICK kind : kind = "prim_dwg"
  OBVIOUS
<1>5. NamedByKind(f, kind, name) /\ TellsApart(f, name) /\ IsFiniteSet(DOMAIN f)
  <2>1. \A x, y \in DOMAIN f : name[x] = name[y] => x = y
    BY <1>1, <1>2, LocatorsApart
  <2> QED BY <1>2, <1>3, <1>4, <2>1, PlacesFinite DEF NamedByKind, TellsApart, DwgSound
<1>6. OfKinds(ForEach(f), {kind}) /\ Ids(ForEach(f)) = {<<kind, name[x]>> : x \in DOMAIN f} /\ Items(ForEach(f)) = {f[x] : x \in DOMAIN f}
  BY <1>5, KindTable
<1>7. {<<kind, name[x]>> : x \in DOMAIN f} = DwgPrims(res)
  BY <1>1, <1>2, <1>4 DEF DwgPrims
<1>8. \A r \in Items(ForEach(f)) : r.refs = refs
  BY <1>3, <1>6
<1> QED BY <1>1, <1>4, <1>6, <1>7, <1>8

\* Those that are indexed.
LEMMA DwgIndex ==
  ASSUME NEW res, DwgSound(res), NEW s, s = ForEach(IndexPart(res))
  PROVE  OfKinds(s, {"entity_dwg"}) /\ \A r \in Items(s) : r.refs \subseteq DwgPrims(res)
<1>1. PICK f, name : f = IndexPart(res) /\ name = [k \in DOMAIN res.objects |-> E!Locator(res, k)]
  OBVIOUS
<1>2. DOMAIN f \subseteq DOMAIN res.objects
  BY <1>1 DEF IndexPart, IndexedAt
<1>3. ASSUME NEW k \in DOMAIN f PROVE f[k].id = <<"entity_dwg", name[k]>> /\ f[k].refs \subseteq DwgPrims(res)
  <2>1. PICK id, refs : id = <<"entity_dwg", E!Locator(res, k)>> /\ refs = {<<"prim_dwg", E!Locator(res, k)>>}
    OBVIOUS
  <2>2. f[k] = E!Record(id, refs, "observed")
    BY <1>1, <2>1 DEF IndexPart
  <2>3. f[k].id = id /\ f[k].refs = refs
    BY <2>2, ExchangeRecordIs
  <2>4. refs \subseteq DwgPrims(res)
    BY <1>2, <2>1 DEF DwgPrims
  <2> QED BY <1>1, <1>2, <2>1, <2>3, <2>4
<1>4. PICK kind : kind = "entity_dwg"
  OBVIOUS
<1>5. NamedByKind(f, kind, name) /\ TellsApart(f, name) /\ IsFiniteSet(DOMAIN f)
  <2>1. \A x, y \in DOMAIN f : name[x] = name[y] => x = y
    BY <1>1, <1>2, LocatorsApart
  <2> QED BY <1>2, <1>3, <1>4, <2>1, PlacesFinite DEF NamedByKind, TellsApart, DwgSound
<1>6. OfKinds(ForEach(f), {kind}) /\ Items(ForEach(f)) = {f[x] : x \in DOMAIN f}
  BY <1>5, KindTable
<1> QED BY <1>1, <1>3, <1>4, <1>6

\* What was converted: the first entity with each handle.
LEMMA DwgConverted ==
  ASSUME NEW res, DwgSound(res), NEW s, s = ForEach(ConvertedPart(res))
  PROVE  OfKinds(s, {"prim_dwg_dxf"}) /\ \A r \in Items(s) : r.refs \subseteq {E!Source} \cup DwgPrims(res)
<1>1. PICK f, name : f = ConvertedPart(res) /\ name = [k \in DOMAIN res.dxf |-> res.dxf[k].handle]
  OBVIOUS
<1>2. DOMAIN f = E!FirstSeen(res) /\ DOMAIN f \subseteq DOMAIN res.dxf
  BY <1>1 DEF ConvertedPart, E!FirstSeen
<1>3. ASSUME NEW k \in DOMAIN f PROVE f[k].id = <<"prim_dwg_dxf", name[k]>> /\ f[k].refs \subseteq {E!Source} \cup DwgPrims(res)
  <2>1. PICK id, refs, h : /\ id = <<"prim_dwg_dxf", res.dxf[k].handle>> /\ h = res.dxf[k].handle
                         /\ refs = IF k \in E!Unmatched(res) THEN {E!Source} ELSE E!ObservedAs(res, res.dxf[k].handle)
    OBVIOUS
  <2>2. f[k] = E!Record(id, refs, "derived")
    BY <1>1, <1>2, <2>1 DEF ConvertedPart
  <2>3. f[k].id = id /\ f[k].refs = refs
    BY <2>2, ExchangeRecordIs
  <2>4. E!ObservedAs(res, h) \subseteq DwgPrims(res)
    BY DEF E!ObservedAs, DwgPrims
  <2>5. refs \subseteq {E!Source} \cup DwgPrims(res)
    BY <2>1, <2>4
  <2> QED BY <1>1, <1>2, <2>1, <2>3, <2>5
<1>4. PICK kind : kind = "prim_dwg_dxf"
  OBVIOUS
<1>5. NamedByKind(f, kind, name) /\ TellsApart(f, name) /\ IsFiniteSet(DOMAIN f)
  <2>1. ASSUME NEW x \in DOMAIN f, NEW y \in DOMAIN f, name[x] = name[y] PROVE x = y
    <3>1. PICK n \in Nat : n = Len(res.dxf) /\ DOMAIN res.dxf = 1..n
      BY ListIs DEF DwgSound
    <3>2. /\ res.dxf[x].class \in E!Converted /\ \A m \in 1..(x - 1) : res.dxf[m].class \in E!Converted => res.dxf[m].handle # res.dxf[x].handle
          /\ res.dxf[y].class \in E!Converted /\ \A m \in 1..(y - 1) : res.dxf[m].class \in E!Converted => res.dxf[m].handle # res.dxf[y].handle
      BY <1>2 DEF E!FirstSeen
    <3>3. res.dxf[x].handle = res.dxf[y].handle
      BY <1>1, <1>2, <2>1
    <3>4. x \in 1..n /\ y \in 1..n
      BY <1>2, <3>1
    <3>5. ~(x < y) /\ ~(y < x)
      <4>1. x < y => x \in 1..(y - 1)
        BY <3>4
      <4>2. y < x => y \in 1..(x - 1)
        BY <3>4
      <4> QED BY <3>2, <3>3, <4>1, <4>2
    <3> QED BY <3>4, <3>5
  <2> QED BY <1>2, <1>3, <1>4, <2>1, PlacesFinite DEF NamedByKind, TellsApart, DwgSound
<1>6. OfKinds(ForEach(f), {kind}) /\ Items(ForEach(f)) = {f[x] : x \in DOMAIN f}
  BY <1>5, KindTable
<1> QED BY <1>1, <1>3, <1>4, <1>6

\* The records of a drawing.
DwgKinds == {"src", "prim_dwg", "entity_dwg", "prim_dwg_dxf"}
LEMMA DwgDrawn ==
  ASSUME NEW res, DwgSound(res), NEW s, s = E!DwgRecords(res)
  PROVE  /\ OfKinds(s, DwgKinds) /\ E!Source \in Ids(s) /\ \A x \in Ids(s) : x[1] = "src" => x = E!Source
         /\ \A r \in Items(s) : r.refs \subseteq Ids(s)
<1>1. PICK first, b, c, d : /\ first = E!Record(E!Source, {}, "observed") /\ b = ForEach(ObjectPart(res))
                            /\ c = ForEach(IndexPart(res)) /\ d = ForEach(ConvertedPart(res))
  OBVIOUS
<1>2. PICK ab, abc : ab = <<first>> \o b /\ abc = ab \o c
  OBVIOUS
<1>3. s = abc \o d
  BY <1>1, <1>2, DwgRecordsBy
<1>4. OfKinds(<<first>>, {"src"}) /\ Ids(<<first>>) = {E!Source} /\ Items(<<first>>) = {first} /\ first.refs = {}
  <2>1. first.id = E!Source /\ first.refs = {} /\ E!Source[1] = "src"
    BY <1>1, ExchangeRecordIs DEF E!Source
  <2> QED BY <2>1, KindsFew
<1>5. OfKinds(b, {"prim_dwg"}) /\ Ids(b) = DwgPrims(res) /\ \A r \in Items(b) : r.refs = {E!Source}
  BY <1>1, DwgObjects
<1>6. OfKinds(c, {"entity_dwg"}) /\ \A r \in Items(c) : r.refs \subseteq DwgPrims(res)
  BY <1>1, DwgIndex
<1>7. OfKinds(d, {"prim_dwg_dxf"}) /\ \A r \in Items(d) : r.refs \subseteq {E!Source} \cup DwgPrims(res)
  BY <1>1, DwgConverted
<1>8. PICK one, two, three : one = {"src"} /\ two = {"src"} \cup {"prim_dwg"} /\ three = two \cup {"entity_dwg"}
  OBVIOUS
<1>9. OfKinds(ab, two) /\ Ids(ab) = {E!Source} \cup DwgPrims(res) /\ Items(ab) = {first} \cup Items(b)
  <2>1. one \cap {"prim_dwg"} = {}
    BY <1>8
  <2>2. OfKinds(ab, one \cup {"prim_dwg"}) /\ Ids(ab) = Ids(<<first>>) \cup Ids(b) /\ Items(ab) = Items(<<first>>) \cup Items(b)
    BY <1>2, <1>4, <1>5, <1>8, <2>1, KindsJoined
  <2> QED BY <1>4, <1>5, <1>8, <2>2
<1>10. OfKinds(abc, three) /\ Ids(abc) = Ids(ab) \cup Ids(c) /\ Items(abc) = Items(ab) \cup Items(c)
  <2>1. two \cap {"entity_dwg"} = {}
    BY <1>8
  <2> QED BY <1>2, <1>6, <1>8, <1>9, <2>1, KindsJoined
<1>11. OfKinds(s, three \cup {"prim_dwg_dxf"}) /\ Ids(s) = Ids(abc) \cup Ids(d) /\ Items(s) = Items(abc) \cup Items(d)
  <2>1. three \cap {"prim_dwg_dxf"} = {}
    BY <1>8
  <2>2. /\ OfKinds(abc \o d, three \cup {"prim_dwg_dxf"}) /\ Ids(abc \o d) = Ids(abc) \cup Ids(d)
        /\ Items(abc \o d) = Items(abc) \cup Items(d)
    BY <1>7, <1>10, <2>1, KindsJoined
  <2> QED BY <1>3, <2>2
<1>12. three \cup {"prim_dwg_dxf"} = DwgKinds
  BY <1>8 DEF DwgKinds
<1>13. {E!Source} \cup DwgPrims(res) \subseteq Ids(s)
  BY <1>9, <1>10, <1>11
<1>14. \A x \in Ids(s) : x[1] = "src" => x = E!Source
  <2>1. \A x \in DwgPrims(res) : x[1] = "prim_dwg"
    BY <1>5 DEF OfKinds
  <2>2. \A x \in Ids(c) \cup Ids(d) : x[1] \in {"entity_dwg", "prim_dwg_dxf"}
    BY <1>6, <1>7 DEF OfKinds
  <2> QED BY <1>9, <1>10, <1>11, <2>1, <2>2
<1>15. \A r \in Items(s) : r.refs \subseteq {E!Source} \cup DwgPrims(res)
  BY <1>4, <1>5, <1>6, <1>7, <1>9, <1>10, <1>11
<1> QED BY <1>11, <1>12, <1>13, <1>14, <1>15

\* The members of a bundle that are not its root, each with a path of its own.
LEMMA ChildrenAre ==
  ASSUME ExchangeBuilt, E!Bundled, NEW children, children = E!Children
  PROVE  /\ IsList(children) /\ Items(children) = E!Range(children)
         /\ \A i, k \in DOMAIN children : children[i].path = children[k].path => i = k
<1>1. PICK T : T = {e \in E!Members : e.role # "root"}
  OBVIOUS
<1>2. children = Filtered(job.entries, T)
  BY <1>1, SameLists DEF E!Children
<1>3. IsList(job.entries) /\ \A k, l \in DOMAIN job.entries : job.entries[k].path = job.entries[l].path => k = l
  <2>1. \A s : E!IsList(s) => IsList(s)
    BY DEF E!IsList, E!Items, IsList, Items
  <2> QED BY <2>1, ExchangeAssumption DEF ExchangeBuilt, E!IsExchangeJob, E!Bundled
<1>4. PICK entries : entries = job.entries
  OBVIOUS
<1>5. IsList(children) /\ \E place \in Bijection(DOMAIN children, {k \in DOMAIN entries : entries[k] \in T}) :
                            \A i \in DOMAIN children : children[i] = entries[place[i]]
  BY <1>2, <1>3, <1>4, FilteredIs
<1>6. PICK place \in Bijection(DOMAIN children, {k \in DOMAIN entries : entries[k] \in T}) :
             \A i \in DOMAIN children : children[i] = entries[place[i]]
  BY <1>5
<1>7. \A i, j \in DOMAIN children : place[i] \in DOMAIN entries /\ place[j] \in DOMAIN entries /\ (place[i] = place[j] => i = j)
  BY <1>6 DEF Bijection, Injection, IsInjective
<1>8. \A i, k \in DOMAIN children : children[i].path = children[k].path => i = k
  BY <1>3, <1>4, <1>6, <1>7
<1> QED BY <1>5, <1>8, SameLists

\* Their records: a source by its content, and a relation by its path.
LEMMA DwgMembers ==
  ASSUME ExchangeBuilt, E!Bundled, E!DistinctMembers, NEW s, s = E!Concat([k \in DOMAIN E!Children |-> E!MemberRecords(E!Children[k])])
  PROVE  /\ Distinct(s) /\ (\A x \in Ids(s) : x[1] = "relation_dwg_xref" \/ (x[1] = "src" /\ x # E!Source))
         /\ \A r \in Items(s) : r.refs \subseteq {E!Source} \cup Ids(s)
<1>1. PICK children : children = E!Children
  OBVIOUS
<1>2. IsList(children) /\ \A i, k \in DOMAIN children : children[i].path = children[k].path => i = k
  BY <1>1, ChildrenAre
<1>3. \A i, k \in DOMAIN children : children[i].digest = children[k].digest => i = k
  <2>1. \A e, f \in Items(children) : e.digest = f.digest => e = f
    BY <1>1, ChildrenAre DEF E!DistinctMembers
  <2> QED BY <1>2, <2>1 DEF Items
<1>4. PICK n \in Nat : n = Len(children) /\ DOMAIN children = 1..n
  BY <1>2, ListIs
<1>5. PICK lists : lists = [k \in 1..n |-> E!MemberRecords(children[k])]
  OBVIOUS
<1>6. IsList(lists) /\ DOMAIN lists = 1..n
  <2>1. lists = [k \in 1..n |-> lists[k]]
    BY <1>5
  <2> QED BY <2>1, FunctionIsList
<1>7. PICK source, relation : /\ source = [k \in 1..n |-> <<"src", children[k].digest>>]
                              /\ relation = [k \in 1..n |-> <<"relation_dwg_xref", children[k].path>>]
  OBVIOUS
<1>8. ASSUME NEW k \in 1..n
      PROVE  /\ Distinct(lists[k]) /\ Ids(lists[k]) = {source[k], relation[k]}
             /\ \A r \in Items(lists[k]) : r.refs \subseteq {E!Source} \cup {source[k]}
  <2>1. PICK x, y, refs : x = source[k] /\ y = relation[k] /\ refs = {E!Source, x}
    OBVIOUS
  <2>2. x[1] = "src" /\ y[1] = "relation_dwg_xref"
    BY <1>7, <2>1
  <2>3. PICK a, b : a = E!Record(x, {}, "observed") /\ b = E!Record(y, refs, "observed")
    OBVIOUS
  <2>4. a.id = x /\ a.refs = {} /\ b.id = y /\ b.refs = refs
    BY <2>3, ExchangeRecordIs
  <2>5. lists[k] = <<a, b>>
    BY <1>5, <1>7, <2>1, <2>3 DEF E!MemberRecords, E!ChildSource
  <2>6. IsList(<<a, b>>) /\ Items(<<a, b>>) = {a, b}
    BY Short
  <2>7. \A i, j \in DOMAIN <<a, b>> : <<a, b>>[i].id = <<a, b>>[j].id => i = j
    BY <2>2, <2>4
  <2>8. Ids(<<a, b>>) = {x, y}
    BY <2>4, <2>6, IdsAre
  <2>10. Distinct(lists[k]) /\ Ids(lists[k]) = {x, y} /\ Items(lists[k]) = {a, b}
    BY <2>5, <2>6, <2>7, <2>8 DEF Distinct
  <2> QED BY <2>1, <2>4, <2>10
<1>9. ASSUME NEW j \in 1..n, NEW k \in 1..n, NEW x \in Ids(lists[j]), x \in Ids(lists[k]) PROVE j = k
  <2>1. x \in {source[j], relation[j]} /\ x \in {source[k], relation[k]}
    BY <1>8, <1>9
  <2>2. \A i \in 1..n : /\ source[i][1] = "src" /\ source[i][2] = children[i].digest
                         /\ relation[i][1] = "relation_dwg_xref" /\ relation[i][2] = children[i].path
    BY <1>7
  <2>3. CASE x = source[j]
    <3>1. x = source[k] /\ children[j].digest = children[k].digest
      BY <2>1, <2>2, <2>3
    <3> QED BY <1>3, <1>4, <3>1
  <2>4. CASE x = relation[j]
    <3>1. x = relation[k] /\ children[j].path = children[k].path
      BY <2>1, <2>2, <2>4
    <3> QED BY <1>2, <1>4, <3>1
  <2> QED BY <2>1, <2>3, <2>4
<1>10. PICK all : all = Concat(lists)
  OBVIOUS
<1>11. Distinct(all) /\ Items(all) = Joins(lists)
  <2>1. \A k \in DOMAIN lists : Distinct(lists[k]) /\ IsList(lists[k])
    BY <1>6, <1>8 DEF Distinct
  <2>2. \A j, k \in DOMAIN lists : \A x \in Ids(lists[j]) : x \in Ids(lists[k]) => j = k
    BY <1>6, <1>9
  <2> QED BY <1>6, <1>10, <2>1, <2>2, ConcatIs
<1>12. s = all
  BY <1>1, <1>4, <1>5, <1>10, SameLists
<1>13. ASSUME NEW k \in 1..n PROVE Ids(lists[k]) \subseteq Ids(all)
  <2>1. Items(lists[k]) \subseteq Items(all)
    BY <1>6, <1>11 DEF Joins
  <2> QED BY <2>1, IdsAre
<1>14. ASSUME NEW r \in Items(all) 
       PROVE  /\ r.refs \subseteq {E!Source} \cup Ids(all)
              /\ r.id[1] = "relation_dwg_xref" \/ (r.id[1] = "src" /\ r.id # E!Source)
  <2>1. PICK k \in 1..n : r \in Items(lists[k])
    BY <1>6, <1>11 DEF Joins
  <2>2. r.refs \subseteq {E!Source} \cup {source[k]} /\ source[k] \in Ids(all)
    BY <1>8, <1>13, <2>1
  <2>3. r.id \in {source[k], relation[k]}
    <3>1. r.id \in Ids(lists[k])
      BY <2>1, IdsAre
    <3>2. Ids(lists[k]) = {source[k], relation[k]}
      BY <1>8
    <3> QED BY <3>1, <3>2
  <2>4. source[k][1] = "src" /\ relation[k][1] = "relation_dwg_xref" /\ source[k] # E!Source
    <3>1. PICK d : d = children[k].digest
      OBVIOUS
    <3>2. source[k] = <<"src", d>> /\ relation[k][1] = "relation_dwg_xref"
      BY <1>7, <3>1
    <3>3. <<"src", d>> # <<"src">>
      <4>1. Len(<<"src", d>>) = 2 /\ Len(<<"src">>) = 1
        OBVIOUS
      <4> QED BY <4>1
    <3> QED BY <3>2, <3>3 DEF E!Source
  <2> QED BY <2>2, <2>3, <2>4
<1>15. \A x \in Ids(all) : x[1] = "relation_dwg_xref" \/ (x[1] = "src" /\ x # E!Source)
  BY <1>14, IdsAre
<1>16. \A r \in Items(all) : r.refs \subseteq {E!Source} \cup Ids(all)
  BY <1>14
<1> QED BY <1>11, <1>12, <1>15, <1>16

\* The records of a drawing and of its members: distinct, closed, and without an artifact.
DwgWrites(s) ==
  /\ Distinct(s) /\ E!Source \in Ids(s) /\ \A r \in Items(s) : r.refs \subseteq Ids(s)
  /\ \A x \in Ids(s) : x[1] \in DwgKinds \cup {"relation_dwg_xref"}
LEMMA DwgRecorded ==
  ASSUME ExchangeBuilt, job.adapter = "dwg", DwgSound(E!RootResult), E!DistinctMembers PROVE DwgWrites(ExchangeRecords)
<1>1. PICK s, t : /\ s = E!DwgRecords(E!RootResult) /\ t = E!Concat([k \in DOMAIN E!Children |-> E!MemberRecords(E!Children[k])])
  OBVIOUS
<1>2. /\ OfKinds(s, DwgKinds) /\ E!Source \in Ids(s) /\ \A r \in Items(s) : r.refs \subseteq Ids(s)
  BY <1>1, DwgDrawn
<1>3. \A x \in Ids(s) : x[1] = "src" => x = E!Source
  BY <1>1, DwgDrawn
<1>4. CASE ~E!Bundled
  <2>1. ExchangeRecords = s \o <<>>
    BY <1>1, <1>4 DEF ExchangeRecords
  <2>2. Distinct(<<>>) /\ Ids(<<>>) = {} /\ Items(<<>>) = {}
    BY DistinctTogether
  <2>3. Distinct(s \o <<>>) /\ Ids(s \o <<>>) = Ids(s) \cup {} /\ Items(s \o <<>>) = Items(s) \cup {}
    BY <1>2, <2>2, DistinctPair DEF OfKinds
  <2> QED BY <1>2, <2>1, <2>3 DEF OfKinds, DwgWrites
<1>5. CASE E!Bundled
  <2>1. ExchangeRecords = s \o t
    BY <1>1, <1>5 DEF ExchangeRecords
  <2>2. Distinct(t) /\ \A r \in Items(t) : r.refs \subseteq {E!Source} \cup Ids(t)
    BY <1>1, <1>5, DwgMembers
  <2>3. \A x \in Ids(t) : x[1] = "relation_dwg_xref" \/ (x[1] = "src" /\ x # E!Source)
    BY <1>1, <1>5, DwgMembers
  <2>4. \A x \in Ids(s) : x \notin Ids(t)
    BY <1>2, <1>3, <2>3 DEF OfKinds, DwgKinds
  <2>5. Distinct(s \o t) /\ Ids(s \o t) = Ids(s) \cup Ids(t) /\ Items(s \o t) = Items(s) \cup Items(t)
    BY <1>2, <2>2, <2>4, DistinctPair DEF OfKinds
  <2>6. \A x \in Ids(s) \cup Ids(t) : x[1] \in DwgKinds \cup {"relation_dwg_xref"}
    BY <1>2, <2>3 DEF OfKinds, DwgKinds
  <2>7. \A r \in Items(s) \cup Items(t) : r.refs \subseteq Ids(s) \cup Ids(t)
    BY <1>2, <2>2
  <2> QED BY <1>2, <2>1, <2>5, <2>6, <2>7 DEF DwgWrites
<1> QED BY <1>4, <1>5

\* Its diagnostics name the source.
LEMMA ExchangeDiagnosed ==
  ASSUME IsFiniteSet(E!Codes)
  PROVE  OfKinds(ExchangeDiagnostics, {"diag"}) /\ \A r \in Items(ExchangeDiagnostics) : r.refs = {E!Source}
<1>1. PICK refs, f : refs = {E!Source} /\ f = [c \in E!Codes |-> E!Record(<<"diag", c>>, refs, "observed")]
  OBVIOUS
<1>2. DOMAIN f = E!Codes /\ \A c \in E!Codes : f[c].id = <<"diag", c>> /\ f[c].refs = refs
  BY <1>1, ExchangeRecordIs
<1>3. ExchangeDiagnostics = ForEach(f)
  BY <1>1, SameLists DEF ExchangeDiagnostics
<1>4. PICK kind : kind = "diag"
  OBVIOUS
<1>5. ByKind(f, kind)
  BY <1>2, <1>4 DEF ByKind
<1>6. OfKinds(ForEach(f), {kind}) /\ Items(ForEach(f)) = {f[x] : x \in DOMAIN f}
  BY <1>2, <1>5, KindEach
<1> QED BY <1>1, <1>2, <1>3, <1>4, <1>6

\* The codes of a result are few.
LEMMA CodesFinite ==
  ASSUME ExchangeBuilt, ExchangeHeld PROVE IsFiniteSet(E!Codes) /\ (job.adapter = "dwg" => IsFiniteSet(E!RootResult.codes))
<1>1. IsFiniteSet(E!RootResult.codes)
  <2>1. E!IsFiniteSet(E!RootResult.codes)
    BY RootSound DEF E!IsResult
  <2> QED BY <2>1 DEF E!IsFiniteSet, IsFiniteSet
<1>2. IsFiniteSet(E!DwgCodes(E!RootResult))
  <2>1. IsFiniteSet(E!RootResult.codes \cup {"DXF_HANDLE_UNMATCHED"}) /\ IsFiniteSet(E!RootResult.codes \cup {})
    BY <1>1, FS_AddElement
  <2> QED BY <2>1 DEF E!DwgCodes
<1> QED BY <1>1, <1>2 DEF E!Codes

\* The artifacts of a STEP file are those its derived records name.
LEMMA StepArtifactsAre ==
  ASSUME NEW res, StepSound(res), E!Shape(res).number = 1
  PROVE  UNION {E!ArtifactOf(x) : x \in Breps(res) \cup HealedIds(res)} = E!StepArtifacts(res)
<1>1. PICK t : t = E!Succeeded(res.roots)
  OBVIOUS
<1>2. /\ IsList(t) /\ t[1] \in Items(t) /\ t[1].number = 1
  BY <1>1, TranslatedAre
<1>3. \A n : E!ArtifactOf(E!Brep(n)) = {<<"translated", n>>} /\ E!ArtifactOf(<<"prim_step_iges_healed", n>>) = {<<"healed", n>>}
  BY DEF E!ArtifactOf, E!Brep
<1>4. CASE ~res.expanded
  <2>1. Breps(res) \cup HealedIds(res) = {E!Brep(1)}
    BY <1>4 DEF Breps, HealedIds
  <2>2. UNION {E!ArtifactOf(x) : x \in {E!Brep(1)}} = {<<"translated", 1>>}
    BY <1>3
  <2> QED BY <1>4, <2>1, <2>2 DEF E!StepArtifacts
<1>5. CASE res.expanded
  <2>1. PICK healed : healed = Items(E!Healed(t))
    OBVIOUS
  <2>2. Breps(res) = {E!Brep(r.number) : r \in Items(t)}
    <3>1. Items(E!Others(t)) = {r \in Items(t) : r.number # 1}
      BY <1>1, RootsAre
    <3>2. Breps(res) = {E!Brep(1)} \cup {E!Brep(r.number) : r \in {x \in Items(t) : x.number # 1}}
      BY <1>1, <1>5, <3>1 DEF Breps
    <3> QED BY <1>2, <3>2
  <2>3. HealedIds(res) = {<<"prim_step_iges_healed", r.number>> : r \in healed}
    BY <1>1, <1>5, <2>1 DEF HealedIds
  <2>4. E!StepArtifacts(res) = {<<"translated", r.number>> : r \in Items(t)} \cup {<<"healed", r.number>> : r \in healed}
    BY <1>1, <1>5, <2>1, SameLists DEF E!StepArtifacts
  <2>5. UNION {E!ArtifactOf(x) : x \in Breps(res)} = {<<"translated", r.number>> : r \in Items(t)}
    BY <1>3, <2>2
  <2>6. UNION {E!ArtifactOf(x) : x \in HealedIds(res)} = {<<"healed", r.number>> : r \in healed}
    <3>1. \A x \in HealedIds(res) : \E r \in healed : E!ArtifactOf(x) = {<<"healed", r.number>>}
      BY <1>3, <2>3
    <3>2. ASSUME NEW r \in healed PROVE \E x \in HealedIds(res) : E!ArtifactOf(x) = {<<"healed", r.number>>}
      <4>1. <<"prim_step_iges_healed", r.number>> \in HealedIds(res)
        BY <2>3
      <4> QED BY <1>3, <4>1
    <3> QED BY <3>1, <3>2
  <2>7. UNION {E!ArtifactOf(x) : x \in Breps(res) \cup HealedIds(res)}
        = (UNION {E!ArtifactOf(x) : x \in Breps(res)}) \cup (UNION {E!ArtifactOf(x) : x \in HealedIds(res)})
    OBVIOUS
  <2> QED BY <2>4, <2>5, <2>6, <2>7
<1> QED BY <1>4, <1>5

(***************************************************************************)
(* What ingest_step_iges and ingest_dwg write has unique identifiers,      *)
(* names only records of the package, and exactly the artifacts that the   *)
(* derived records name.                                                   *)
(***************************************************************************)
LEMMA ExchangeClosed == ASSUME ExchangeBuilt PROVE E!ExchangeIsClosed
<1> SUFFICES ASSUME outcome = "written", E!DistinctMembers, E!FirstRootTranslated
             PROVE  /\ E!Cardinality(E!Named) = Len(E!All) /\ \A a \in DOMAIN E!All : E!All[a].refs \subseteq E!Named
                    /\ UNION {E!ArtifactOf(i) : i \in E!Named} = artifacts
  BY DEF E!ExchangeIsClosed, E!Written
<1>1. PICK s, t, all, res : s = ExchangeRecords /\ t = ExchangeDiagnostics /\ all = s \o t /\ res = E!RootResult
  OBVIOUS
<1>2. ExchangeChecked /\ ExchangeHeld /\ records = s /\ diagnostics = t /\ artifacts = ExchangeArtifacts
  BY <1>1 DEF ExchangeBuilt, ExchangeChecked
<1>3. E!All = all /\ E!Named = Ids(all)
  <2>1. E!All = all
    BY <1>1, <1>2 DEF E!All
  <2> QED BY <2>1 DEF E!Named, Ids
<1>4. job.adapter \in {"step", "dwg"}
  BY <1>2, RootSound
<1>5. /\ Distinct(s) /\ E!Source \in Ids(s) /\ \A r \in Items(s) : r.refs \subseteq Ids(s)
      /\ \A x \in Ids(s) : x[1] # "diag"
      /\ UNION {E!ArtifactOf(x) : x \in Ids(s)} = artifacts
  <2>1. CASE job.adapter = "dwg"
    <3>1. DwgSound(res)
      <4>1. \A l : E!IsList(l) => IsList(l)
        BY DEF E!IsList, E!Items, IsList, Items
      <4>2. E!IsResult("dwg", res)
        BY <1>1, <1>2, <2>1, RootSound
      <4>3. IsFiniteSet(res.codes)
        BY <1>1, <1>2, <2>1, CodesFinite
      <4> QED BY <1>1, <1>2, <2>1, <4>1, <4>2, <4>3 DEF E!IsResult, ExchangeChecked, DwgSound
    <3>2. DwgWrites(s)
      BY <1>1, <2>1, <3>1, DwgRecorded
    <3>3. \A x \in Ids(s) : x[1] \notin {"diag", "prim_step_iges_brep", "prim_step_iges_healed"}
      BY <3>2 DEF DwgWrites, DwgKinds
    <3>4. \A x \in Ids(s) : E!ArtifactOf(x) = {}
      BY <3>3 DEF E!ArtifactOf
    <3>5. artifacts = {}
      BY <1>2, <2>1 DEF ExchangeArtifacts
    <3>6. UNION {E!ArtifactOf(x) : x \in Ids(s)} = artifacts
      BY <3>4, <3>5
    <3> QED BY <3>2, <3>3, <3>6 DEF DwgWrites
  <2>2. CASE job.adapter = "step"
    <3>1. StepSound(res) /\ E!Shape(res).number = 1 /\ s = E!StepRecords(res)
      BY <1>1, <2>2, RootStepSound DEF ExchangeRecords, E!FirstRootTranslated
    <3>2. /\ Distinct(s) /\ {E!Source} \cup E!Observed(res) \cup Breps(res) \cup HealedIds(res) \subseteq Ids(s)
          /\ \A r \in Items(s) : r.refs \subseteq Ids(s) /\ r.id[1] # "diag"
      BY <3>1, StepRecordsAre
    <3>3. \A x \in Ids(s) : x[1] \in {"prim_step_iges_brep", "prim_step_iges_healed"} <=> x \in Breps(res) \cup HealedIds(res)
      BY <3>1, StepRecordsAre
    <3>4. PICK shapes : shapes = Breps(res) \cup HealedIds(res)
      OBVIOUS
    <3>5. \A x \in Ids(s) : x \notin shapes => E!ArtifactOf(x) = {}
      BY <3>3, <3>4 DEF E!ArtifactOf
    <3>6. shapes \subseteq Ids(s)
      BY <3>2, <3>4
    <3>7. UNION {E!ArtifactOf(x) : x \in Ids(s)} = UNION {E!ArtifactOf(x) : x \in shapes}
      BY <3>5, <3>6
    <3>8. UNION {E!ArtifactOf(x) : x \in shapes} = artifacts
      BY <1>1, <1>2, <2>2, <3>1, <3>4, StepArtifactsAre DEF ExchangeArtifacts
    <3>9. \A x \in Ids(s) : x[1] # "diag"
      BY <3>2, IdsAre
    <3> QED BY <3>2, <3>7, <3>8, <3>9
  <2> QED BY <1>4, <2>1, <2>2
<1>6. OfKinds(t, {"diag"}) /\ \A r \in Items(t) : r.refs = {E!Source}
  BY <1>1, <1>2, CodesFinite, ExchangeDiagnosed
<1>7. \A x \in Ids(t) : E!ArtifactOf(x) = {} /\ x \notin Ids(s)
  BY <1>5, <1>6 DEF OfKinds, E!ArtifactOf
<1>8. Distinct(all) /\ Ids(all) = Ids(s) \cup Ids(t) /\ Items(all) = Items(s) \cup Items(t)
  <2>1. \A x \in Ids(s) : x \notin Ids(t)
    BY <1>7
  <2> QED BY <1>1, <1>5, <1>6, <2>1, DistinctPair DEF OfKinds
<1>9. Cardinality(Ids(all)) = Len(all)
  BY <1>8, DistinctCounted
<1>10. \A r \in Items(all) : r.refs \subseteq Ids(all)
  BY <1>5, <1>6, <1>8
<1>11. \A a \in DOMAIN all : all[a].refs \subseteq Ids(all)
  BY <1>10 DEF Items
<1>12. UNION {E!ArtifactOf(x) : x \in Ids(all)} = artifacts
  <2>1. UNION {E!ArtifactOf(x) : x \in Ids(all)} = UNION {E!ArtifactOf(x) : x \in Ids(s)}
    BY <1>7, <1>8
  <2> QED BY <1>5, <2>1
<1> QED BY <1>3, <1>9, <1>11, <1>12, SameLists

(***************************************************************************)
(* The records of a DXF document and of a bundle.                          *)
(***************************************************************************)

\* What was admitted, hashed and taken up, as long as no file has changed: it is what the files hold.
ReadBuilt ==
  /\ \A e \in admitted : disk[e.path] = e.digest
  /\ pc = "parse" \/ documents # <<>> => digest = disk[0]
  /\ \A k \in DOMAIN documents : documents[k].doc = disk[documents[k].path].doc
DxfRead == rewrites = 0 => ReadBuilt

LEMMA ReadBuiltStill ==
  ASSUME ReadBuilt, UNCHANGED <<disk, admitted, digest, documents>>, pc' = "parse" => pc = "parse" PROVE ReadBuilt'
BY DEF ReadBuilt

LEMMA ReadBuiltKeeps == ASSUME DxfInv, DxfBuilt, ReadBuilt, D!Step PROVE ReadBuilt'
<1>1. UNCHANGED disk
  BY DEF D!Step, D!Manifest, D!AdmitMember, D!RejectMember, D!LoadDone, D!HashSource, D!OpenRoot, D!RefuseXref, D!OpenXref,
         D!Return, D!VisitDone, D!WriteRecords
<1>2. CASE D!Manifest \/ D!RejectMember \/ D!LoadDone \/ D!RefuseXref \/ D!Return \/ D!VisitDone \/ D!WriteRecords
  <2>1. UNCHANGED <<admitted, digest, documents>> /\ (pc' = "parse" => pc = "parse")
    BY <1>2 DEF D!Manifest, D!RejectMember, D!LoadDone, D!RefuseXref, D!Return, D!VisitDone, D!WriteRecords, D!Stop,
                D!loading, D!visiting
  <2> QED BY <1>1, <2>1, ReadBuiltStill
<1>3. CASE D!AdmitMember
  <2>1. PICK e : e = [path |-> D!Entry.path, role |-> D!Entry.role, digest |-> D!Entry.digest]
    OBVIOUS
  <2>2. UNCHANGED <<pc, digest, documents>> /\ D!MemberDefect = "none" /\ admitted' = admitted \cup {e}
    BY <1>3, <2>1 DEF D!AdmitMember, D!visiting
  <2>3. disk[D!Entry.path] = D!Entry.digest
    BY <2>2 DEF D!MemberDefect
  <2> QED BY <1>1, <2>1, <2>2, <2>3 DEF ReadBuilt
<1>4. CASE D!HashSource
  <2>1. UNCHANGED <<admitted, documents>> /\ documents = <<>> /\ (pc' = "parse" => digest' = disk[0])
    BY <1>4 DEF D!HashSource, D!Stop, D!loading, DxfBuilt, DocumentsBuilt, Before
  <2> QED BY <1>1, <2>1 DEF ReadBuilt
<1>5. CASE D!OpenRoot
  <2>1. PICK doc : doc = D!Document(0)
    OBVIOUS
  <2>2. /\ UNCHANGED <<admitted, digest>> /\ pc = "parse" /\ pc' # "parse"
        /\ documents' = documents \/ (doc # Broken /\ documents' = <<[path |-> 0, doc |-> doc]>>)
    BY <1>5, <2>1 DEF D!OpenRoot, D!Stop, D!loading
  <2>3. digest' = disk'[0]
    BY <1>1, <2>2 DEF ReadBuilt
  <2>4. CASE documents' = documents
    BY <1>1, <2>2, <2>3, <2>4 DEF ReadBuilt
  <2>5. CASE doc # Broken /\ documents' = <<[path |-> 0, doc |-> doc]>>
    <3>1. doc = disk[0].doc
      BY <2>1, <2>5 DEF D!Document
    <3>2. \A k \in DOMAIN documents' : documents'[k].path = 0 /\ documents'[k].doc = doc
      BY <2>5
    <3> QED BY <1>1, <2>2, <2>3, <3>1, <3>2 DEF ReadBuilt
  <2> QED BY <2>2, <2>4, <2>5
<1>6. CASE D!OpenXref
  <2>1. PICK x, doc : x = D!NextXref /\ doc = D!Document(x)
    OBVIOUS
  <2>2. /\ UNCHANGED <<admitted, digest>> /\ pc = "visit" /\ pc' # "parse"
        /\ documents' = documents \/ (doc # Broken /\ documents' = Append(documents, [path |-> x, doc |-> doc]))
    BY <1>6, <2>1 DEF D!OpenXref, D!Looking, D!Stop, D!loading
  <2>3. IsList(documents) /\ documents # <<>>
    BY <2>2 DEF DxfInv, DxfBuilt, DocumentsBuilt
  <2>4. CASE documents' = documents
    BY <1>1, <2>2, <2>4 DEF ReadBuilt
  <2>5. CASE doc # Broken /\ documents' = Append(documents, [path |-> x, doc |-> doc])
    <3>1. doc = disk[x].doc
      BY <2>1, <2>5 DEF D!Document
    <3>2. PICK more : more = [path |-> x, doc |-> doc]
      OBVIOUS
    <3>3. PICK n \in Nat : n = Len(documents) /\ DOMAIN documents = 1..n
      BY <2>3, ListIs
    <3>4. /\ DOMAIN documents' = 1..n + 1 /\ documents'[n + 1] = more
          /\ \A k \in 1..n : documents'[k] = documents[k]
      BY <2>3, <2>5, <3>2, <3>3, AppendIs
    <3>5. ASSUME NEW k \in DOMAIN documents' PROVE documents'[k].doc = disk'[documents'[k].path].doc
      <4>1. CASE k = n + 1
        BY <1>1, <3>1, <3>2, <3>4, <4>1
      <4>2. CASE k # n + 1
        <5>1. k \in 1..n
          BY <3>4, <4>2
        <5> QED BY <1>1, <3>3, <3>4, <5>1 DEF ReadBuilt
      <4> QED BY <4>1, <4>2
    <3> QED BY <1>1, <2>2, <2>3, <3>5 DEF ReadBuilt
  <2> QED BY <2>2, <2>4, <2>5
<1> QED BY <1>2, <1>3, <1>4, <1>5, <1>6 DEF D!Step

LEMMA DxfReadKeeps == ASSUME DxfInv, DxfBuilt, DxfRead, [D!Next]_(D!vars) PROVE DxfRead'
<1>1. CASE D!Step
  <2>1. UNCHANGED rewrites
    BY <1>1 DEF D!Step, D!Manifest, D!AdmitMember, D!RejectMember, D!LoadDone, D!HashSource, D!OpenRoot, D!RefuseXref,
                D!OpenXref, D!Return, D!VisitDone, D!WriteRecords
  <2> QED BY <1>1, <2>1, ReadBuiltKeeps DEF DxfRead
<1>2. CASE \E path \in DOMAIN disk : \E new \in job.variants : D!Rewrite(path, new)
  <2>1. rewrites \in Nat /\ rewrites' = rewrites + 1
    BY <1>2 DEF D!Rewrite, DxfInv
  <2>2. rewrites' # 0
    BY <2>1
  <2> QED BY <2>2 DEF DxfRead
<1>3. CASE UNCHANGED D!vars
  BY <1>3, ReadBuiltStill DEF D!vars, D!loading, D!visiting, DxfRead
<1> QED BY <1>1, <1>2, <1>3 DEF D!Next

LEMMA DxfReadInit == ASSUME D!Init PROVE DxfRead
<1>1. admitted = {} /\ documents = <<>> /\ pc # "parse" /\ DOMAIN documents = {}
  BY DEF D!Init
<1> QED BY <1>1 DEF DxfRead, ReadBuilt

\* What follows when a bundle was accepted.
LEMMA AcceptedClosed == ASSUME DxfInv, DxfBuilt, DxfRead PROVE D!AcceptedIsClosed
<1>1. MembersBuilt /\ DocumentsBuilt /\ EndBuilt /\ IsList(documents) /\ index \in Nat
  BY DEF DxfBuilt, DxfInv
<1>2. ASSUME D!Bundled, opened # <<>> PROVE D!Cardinality(admitted) = Len(job.manifest)
  <2>1. Loaded
    BY <1>1, <1>2 DEF MembersBuilt
  <2>2. Cardinality(admitted) = index - 1 /\ index - 1 \in 0..Len(job.manifest)
    BY <1>1 DEF MembersBuilt
  <2>3. D!Cardinality(admitted) = Cardinality(admitted)
    BY DEF D!Cardinality, Cardinality
  <2>4. PICK n : n = Len(job.manifest)
    OBVIOUS
  <2>5. job \in DxfJobs
    BY DEF DxfInv
  <2>6. n \in Nat
    BY <2>4, <2>5, DxfAssumption DEF D!IsDxfJob
  <2> QED BY <2>1, <2>2, <2>3, <2>4, <2>6 DEF Loaded
<1>3. ASSUME D!Bundled, D!Written
      PROVE  /\ D!Taken = {e.path : e \in admitted} /\ Len(documents) = D!Cardinality(D!Taken)
             /\ 0 \in D!Taken /\ D!ReachedFromRoot
             /\ \A p \in D!Taken : D!XrefsOf(p) \subseteq D!Taken
             /\ D!Acyclic
  <2>1. documents # <<>> /\ StackBuilt /\ LeftBuilt /\ stack = <<>> /\ \A e \in admitted : e.role = "xref" => D!Visited(e.path)
    BY <1>1, <1>3 DEF D!Written, DxfBuilt, DocumentsBuilt, EndBuilt
  <2>2. Loaded
    BY <1>1, <1>3, <2>1 DEF MembersBuilt
  <2>3. PICK n \in Nat : n = Len(documents) /\ DOMAIN documents = 1..n
    BY <1>1, ListIs
  <2>4. 1 \in 1..n
    <3>1. n # 0
      BY <1>1, <2>1, <2>3, ListIs
    <3> QED BY <3>1
  <2>5. documents[1].path = 0
    BY <1>1, <2>3, <2>4 DEF DocumentsBuilt
  <2>6. \A k \in 1..n : k # 1 => D!Declared(documents[k].path) /\ \E j \in 1..(k - 1) : documents[k].path \in documents[j].doc.xrefs
    BY <1>1, <2>3 DEF DocumentsBuilt
  <2>7. 0 \in D!Taken
    BY <2>3, <2>4, <2>5 DEF D!Taken
  <2>8. OpenPaths = {} /\ LeftPaths = D!Taken
    BY <2>1 DEF OpenPaths, LeftPaths
  <2>9. \A p \in D!Taken : D!XrefsOf(p) \subseteq D!Taken
    BY <2>1, <2>8 DEF LeftBuilt
  <2>10. D!Acyclic
    BY <2>1, <2>8 DEF LeftBuilt, D!Acyclic
  <2>11. D!Taken = {e.path : e \in admitted}
    <3>1. ASSUME NEW k \in 1..n PROVE \E e \in admitted : e.path = documents[k].path
      <4>1. CASE k = 1
        <5>1. 0 \in D!RootPaths
          BY <2>2 DEF Loaded
        <5> QED BY <2>5, <4>1, <5>1 DEF D!RootPaths
      <4>2. CASE k # 1
        BY <2>6, <4>2 DEF D!Declared
      <4> QED BY <4>1, <4>2
    <3>2. ASSUME NEW e \in admitted PROVE e.path \in D!Taken
      <4>1. CASE e.role = "xref"
        BY <2>1, <4>1 DEF D!Visited, D!Taken
      <4>2. CASE e.role = "root"
        <5>1. e.path \in D!RootPaths
          BY <4>2 DEF D!RootPaths
        <5> QED BY <2>2, <2>7, <5>1 DEF Loaded
      <4>3. e.role \in {"root", "xref"}
        BY <1>1 DEF MembersBuilt
      <4> QED BY <4>1, <4>2, <4>3
    <3> QED BY <2>3, <3>1, <3>2 DEF D!Taken
  <2>12. Len(documents) = D!Cardinality(D!Taken)
    <3>1. PICK path : path = [k \in 1..n |-> documents[k].path]
      OBVIOUS
    <3>2. path \in Surjection(1..n, D!Taken) /\ path \in Injection(1..n, D!Taken)
      BY <1>1, <2>3, <3>1 DEF Surjection, Injection, IsInjective, D!Taken, DocumentsBuilt
    <3>3. IsFiniteSet(1..n) /\ Cardinality(1..n) = n
      BY Counted
    <3>4. Cardinality(D!Taken) = n
      BY <3>2, <3>3, FS_Surjection
    <3>5. D!Cardinality(D!Taken) = Cardinality(D!Taken)
      BY DEF D!Cardinality, Cardinality
    <3> QED BY <2>3, <3>4, <3>5
  <2>13. D!ReachedFromRoot
    <3>1. ASSUME NEW some \in SUBSET D!Taken, 0 \in some, \A p \in some : D!XrefsOf(p) \cap D!Taken \subseteq some
          PROVE  some = D!Taken
      <4>1. PICK T : T = {m \in 0..n : \A k \in 1..m : documents[k].path \in some}
        OBVIOUS
      <4>2. 0 \in T
        BY <4>1
      <4>3. ASSUME NEW m \in 1..n, m - 1 \in T PROVE m \in T
        <5>1. \A k \in 1..(m - 1) : documents[k].path \in some
          BY <4>1, <4>3
        <5>2. documents[m].path \in some
          <6>1. CASE m = 1
            BY <2>5, <3>1, <6>1
          <6>2. CASE m # 1
            <7>1. PICK j \in 1..(m - 1) : documents[m].path \in documents[j].doc.xrefs
              BY <2>6, <6>2
            <7>2. j \in 1..n
              BY <7>1
            <7>3. D!XrefsOf(documents[j].path) = documents[j].doc.xrefs
              BY <1>1, <2>3, <7>2, XrefsAre
            <7>4. documents[m].path \in D!Taken
              BY <2>3 DEF D!Taken
            <7> QED BY <3>1, <5>1, <7>1, <7>3, <7>4
          <6> QED BY <6>1, <6>2
        <5>3. \A k \in 1..m : k = m \/ k \in 1..(m - 1)
          OBVIOUS
        <5> QED BY <4>1, <5>1, <5>2, <5>3
      <4>4. n \in T
        <5>1. 0..n \subseteq T
          BY <4>2, <4>3, InductionTo
        <5> QED BY <5>1
      <4> QED BY <2>3, <4>1, <4>4 DEF D!Taken
    <3> QED BY <3>1 DEF D!ReachedFromRoot
  <2> QED BY <2>7, <2>9, <2>10, <2>11, <2>12, <2>13
<1>4. ASSUME D!Written, rewrites = 0 PROVE D!ReadAsClaimed
  <2>1. ReadBuilt /\ digest = disk[0]
    BY <1>1, <1>4 DEF DxfRead, ReadBuilt, D!Written, DocumentsBuilt
  <2>2. ASSUME NEW k \in DOMAIN documents PROVE documents[k].doc = D!Claimed(k).doc
    <3>1. documents[k].doc = disk[documents[k].path].doc
      BY <2>1 DEF ReadBuilt
    <3>2. CASE k = 1
      BY <1>1, <2>1, <3>1, <3>2 DEF DocumentsBuilt, D!Claimed
    <3>3. CASE k # 1
      <4>1. PICK path : path = documents[k].path
        OBVIOUS
      <4>2. \E e \in admitted : e.path = path
        BY <1>1, <3>3, <4>1 DEF DocumentsBuilt, D!Declared
      <4>3. PICK e : e = CHOOSE d \in admitted : d.path = path
        OBVIOUS
      <4>4. e \in admitted /\ e.path = path
        BY <4>2, <4>3
      <4>5. D!Digest(path) = disk[path]
        BY <2>1, <4>3, <4>4 DEF ReadBuilt, D!Digest
      <4> QED BY <3>1, <3>3, <4>1, <4>5 DEF D!Claimed
    <3> QED BY <3>2, <3>3
  <2> QED BY <2>2 DEF D!ReadAsClaimed
<1> QED BY <1>2, <1>3, <1>4 DEF D!AcceptedIsClosed

\* What the adapter calls lists, and its finite sets.
LEMMA DxfSame ==
  /\ \A s : D!IsList(s) <=> IsList(s)
  /\ \A s : D!Range(s) = Items(s)
  /\ \A f : D!ForEach(f) = ForEach(f) /\ \A lists : D!Concat(lists) = Concat(lists)
  /\ \A T : D!Cardinality(T) = Cardinality(T) /\ (D!IsFiniteSet(T) <=> IsFiniteSet(T))
<1>1. \A s : D!IsList(s) <=> IsList(s)
  BY DEF D!IsList, D!Items, IsList, Items
<1>2. \A s : D!Range(s) = Items(s)
  BY DEF D!Range, Items
<1>3. \A T : D!Cardinality(T) = Cardinality(T)
  BY DEF D!Cardinality, Cardinality
<1>4. \A f : D!ForEach(f) = ForEach(f)
  BY DEF D!ForEach, ForEach, D!Enumeration, Enumeration, D!Some, Some, D!Cardinality, Cardinality
<1>5. \A lists : D!Concat(lists) = Concat(lists)
  BY DEF D!Concat, Concat
<1>6. \A T : D!IsFiniteSet(T) <=> IsFiniteSet(T)
  BY DEF D!IsFiniteSet, IsFiniteSet
<1> QED BY <1>1, <1>2, <1>3, <1>4, <1>5, <1>6

LEMMA DxfRecordIs == \A id, refs : D!Record(id, refs).id = id /\ D!Record(id, refs).refs = refs
BY DEF D!Record

\* The values of a function on a finite set are finite.
LEMMA FiniteValues ==
  ASSUME NEW f, IsFiniteSet(DOMAIN f) PROVE IsFiniteSet({f[x] : x \in DOMAIN f})
<1>1. PICK A, B, g : A = DOMAIN f /\ B = {f[x] : x \in A} /\ g = [x \in A |-> f[x]]
  OBVIOUS
<1>2. g \in [A -> B] /\ \A y \in B : \E x \in A : g[x] = y
  BY <1>1
<1>3. g \in Surjection(A, B)
  BY <1>2 DEF Surjection
<1> QED BY <1>1, <1>3, FS_Surjection

\* A document is finite.
LEMMA DocumentFinite ==
  ASSUME NEW doc, D!IsDocument(doc)
  PROVE  /\ IsFiniteSet(D!Handles(doc)) /\ IsFiniteSet(DOMAIN doc.blocks) /\ IsFiniteSet(doc.xrefs)
         /\ IsFiniteSet(D!Inserts(doc)) /\ IsFiniteSet(D!Solids(doc))
<1>1. PICK blocks : blocks = DOMAIN doc.blocks
  OBVIOUS
<1>2. IsFiniteSet(blocks) /\ IsFiniteSet(doc.xrefs) /\ IsList(doc.space) /\ \A b \in blocks : IsList(doc.blocks[b])
  BY <1>1, DxfSame DEF D!IsDocument
<1>3. ASSUME NEW b, NEW n \in Nat PROVE IsFiniteSet({<<b, i>> : i \in 1..n})
  <2>1. PICK f : f = [i \in 1..n |-> <<b, i>>]
    OBVIOUS
  <2>2. IsFiniteSet(1..n)
    BY FS_Interval
  <2>3. IsFiniteSet({f[i] : i \in DOMAIN f})
    BY <2>1, <2>2, FiniteValues
  <2>4. {f[i] : i \in DOMAIN f} = {<<b, i>> : i \in 1..n}
    BY <2>1
  <2> QED BY <2>3, <2>4
<1>4. PICK space : space = {<<"space", i>> : i \in 1..Len(doc.space)}
  OBVIOUS
<1>5. IsFiniteSet(space)
  <2>1. Len(doc.space) \in Nat
    BY <1>2, ListIs
  <2> QED BY <1>3, <1>4, <2>1
<1>6. PICK of : of = [b \in blocks |-> {<<b, i>> : i \in 1..Len(doc.blocks[b])}]
  OBVIOUS
<1>7. \A b \in blocks : IsFiniteSet(of[b])
  <2>1. \A b \in blocks : Len(doc.blocks[b]) \in Nat
    BY <1>2, ListIs
  <2> QED BY <1>3, <1>6, <2>1
<1>8. PICK parts : parts = {of[b] : b \in blocks}
  OBVIOUS
<1>9. IsFiniteSet(parts) /\ \A part \in parts : IsFiniteSet(part)
  <2>1. IsFiniteSet({of[b] : b \in DOMAIN of})
    BY <1>2, <1>6, FiniteValues
  <2> QED BY <1>6, <1>7, <1>8, <2>1
<1>10. IsFiniteSet(UNION parts)
  BY <1>9, FS_UNION
<1>11. D!Handles(doc) = space \cup UNION parts
  <2>1. parts = {{<<b, i>> : i \in 1..Len(doc.blocks[b])} : b \in DOMAIN doc.blocks}
    BY <1>1, <1>6, <1>8
  <2> QED BY <1>4, <2>1 DEF D!Handles
<1>12. IsFiniteSet(D!Handles(doc))
  BY <1>5, <1>10, <1>11, FS_Union
<1>13. D!Inserts(doc) \subseteq D!Handles(doc) /\ D!Solids(doc) \subseteq D!Handles(doc)
  BY DEF D!Inserts, D!Solids
<1> QED BY <1>1, <1>2, <1>12, <1>13, FS_Subset

(* What a walk may find: faces of the document, and INSERTs that it did not follow. *)
WalkCodes == {"INSERT_CYCLE", "INSERT_DEPTH_LIMIT", "INSERT_TRANSFORM_UNSUPPORTED"}
Walking(doc) == [faces : Seq(D!Handles(doc)), issues : SUBSET (WalkCodes \X D!Handles(doc))]

LEMMA WalksJoined ==
  ASSUME NEW doc, NEW n \in Nat, NEW walks \in [1..n -> Walking(doc)] PROVE D!Joined(walks) \in Walking(doc)
<1>1. PICK handles, found : handles = D!Handles(doc) /\ found = WalkCodes \X handles
  OBVIOUS
<1>2. \A i \in 1..n : walks[i].faces \in Seq(handles) /\ walks[i].issues \subseteq found
  BY <1>1 DEF Walking
<1>3. PICK lists : lists = [i \in 1..n |-> walks[i].faces]
  OBVIOUS
<1>4. IsList(lists) /\ DOMAIN lists = 1..n /\ \A i \in 1..n : lists[i] = walks[i].faces
  <2>1. lists = [i \in 1..n |-> lists[i]]
    BY <1>3
  <2> QED BY <1>3, <2>1, FunctionIsList
<1>5. \A i \in 1..n : IsList(lists[i]) /\ Items(lists[i]) \subseteq handles
  <2>1. ASSUME NEW i \in 1..n PROVE IsList(lists[i]) /\ Items(lists[i]) \subseteq handles
    <3>1. PICK s : s = lists[i]
      OBVIOUS
    <3>2. s \in Seq(handles)
      BY <1>2, <1>4, <3>1
    <3>3. IsList(s)
      BY <3>2, ListIs
    <3>4. \A k \in DOMAIN s : s[k] \in handles
      BY <3>2
    <3> QED BY <3>1, <3>3, <3>4 DEF Items
  <2> QED BY <2>1
<1>6. PICK faces : faces = Concat(lists)
  OBVIOUS
<1>7. IsList(faces) /\ Items(faces) = Joins(lists)
  BY <1>4, <1>5, <1>6, ConcatIs
<1>8. Joins(lists) \subseteq handles
  BY <1>4, <1>5 DEF Joins
<1>9. faces \in Seq(handles)
  BY <1>7, <1>8, SeqMonotonic DEF IsList
<1>10. PICK issued : issued = UNION {walks[i].issues : i \in 1..n}
  OBVIOUS
<1>11. issued \subseteq found
  BY <1>2, <1>10
<1>12. D!Joined(walks) = [faces |-> faces, issues |-> issued]
  BY <1>3, <1>6, <1>10, DxfSame DEF D!Joined
<1> QED BY <1>1, <1>9, <1>11, <1>12 DEF Walking

LEMMA WalkEnds ==
  /\ \A doc : \A h \in D!Handles(doc) : D!Face(doc, h) \in Walking(doc)
  /\ \A doc : \A h \in D!Handles(doc) : \A tag \in WalkCodes : D!Issue(tag, h) \in Walking(doc)
<1>1. ASSUME NEW doc, NEW h \in D!Handles(doc) PROVE D!Face(doc, h) \in Walking(doc)
  <2>1. PICK faces : faces = IF D!Child(doc, h).kind = "FACE" THEN <<h>> ELSE <<>>
    OBVIOUS
  <2>2. faces \in Seq(D!Handles(doc))
    BY <1>1, <2>1
  <2>3. D!Face(doc, h) = [faces |-> faces, issues |-> {}]
    BY <2>1 DEF D!Face
  <2> QED BY <2>2, <2>3 DEF Walking
<1>2. ASSUME NEW doc, NEW h \in D!Handles(doc), NEW tag \in WalkCodes PROVE D!Issue(tag, h) \in Walking(doc)
  <2>1. PICK x : x = <<tag, h>>
    OBVIOUS
  <2>2. x \in WalkCodes \X D!Handles(doc)
    BY <1>2, <2>1
  <2>3. D!Issue(tag, h) = [faces |-> <<>>, issues |-> {x}]
    BY <2>1 DEF D!Issue
  <2>4. <<>> \in Seq(D!Handles(doc))
    OBVIOUS
  <2> QED BY <2>2, <2>3, <2>4 DEF Walking
<1> QED BY <1>1, <1>2

\* An INSERT is not followed, or leads to the children of its block.
LEMMA WalkedIs ==
  ASSUME NEW doc, D!IsDocument(doc), NEW left, NEW h \in D!Inserts(doc), NEW path \in SUBSET DOMAIN doc.blocks,
         NEW enlarged \in BOOLEAN, NEW deeper, left = 0 \/ deeper \in [D!Walks(doc) -> Walking(doc)]
  PROVE  /\ D!Walked(doc, left, h, path, enlarged, deeper) \in Walking(doc)
         /\ left = 0 => \A any : D!Walked(doc, left, h, path, enlarged, any) = D!Walked(doc, left, h, path, enlarged, deeper)
<1>1. PICK insert, children, joins : /\ insert = D!Child(doc, h) /\ children = D!ChildrenOf(doc, insert.block)
        /\ joins = [i \in DOMAIN children |->
                      IF D!Child(doc, children[i]).kind = "INSERT"
                      THEN deeper[<<children[i], path \cup {insert.block}, enlarged \/ insert.huge>>]
                      ELSE D!Face(doc, children[i])]
  OBVIOUS
<1>2. h \in D!Handles(doc)
  BY DEF D!Inserts
<1>3. CASE insert.block \in path
  <2>1. \A any : D!Walked(doc, left, h, path, enlarged, any) = D!Issue("INSERT_CYCLE", h)
    BY <1>1, <1>3 DEF D!Walked
  <2> QED BY <1>2, <2>1, WalkEnds DEF WalkCodes
<1>4. CASE insert.block \notin path /\ left = 0
  <2>1. \A any : D!Walked(doc, left, h, path, enlarged, any) = D!Issue("INSERT_DEPTH_LIMIT", h)
    BY <1>1, <1>4 DEF D!Walked
  <2> QED BY <1>2, <2>1, WalkEnds DEF WalkCodes
<1>5. CASE insert.block \notin path /\ left # 0 /\ (enlarged /\ insert.huge)
  <2>1. D!Walked(doc, left, h, path, enlarged, deeper) = D!Issue("INSERT_TRANSFORM_UNSUPPORTED", h)
    BY <1>1, <1>5 DEF D!Walked
  <2> QED BY <1>2, <1>5, <2>1, WalkEnds DEF WalkCodes
<1>6. CASE insert.block \notin path /\ left # 0 /\ ~(enlarged /\ insert.huge)
  <2>1. D!Walked(doc, left, h, path, enlarged, deeper) = D!Joined(joins)
    BY <1>1, <1>6 DEF D!Walked
  <2>2. insert.block \in DOMAIN doc.blocks
    BY <1>1 DEF D!IsDocument
  <2>3. PICK n \in Nat : n = Len(doc.blocks[insert.block])
    <3>1. IsList(doc.blocks[insert.block])
      BY <2>2, DxfSame DEF D!IsDocument
    <3> QED BY <3>1, ListIs
  <2>4. DOMAIN children = 1..n /\ \A i \in 1..n : children[i] = <<insert.block, i>>
    BY <1>1, <2>3 DEF D!ChildrenOf
  <2>5. \A i \in 1..n : children[i] \in D!Handles(doc)
    <3>1. PICK b, part, parts : /\ b = insert.block /\ part = {<<b, i>> : i \in 1..Len(doc.blocks[b])}
                                /\ parts = {{<<x, i>> : i \in 1..Len(doc.blocks[x])} : x \in DOMAIN doc.blocks}
      OBVIOUS
    <3>2. part \in parts
      BY <2>2, <3>1
    <3>3. \A i \in 1..n : children[i] \in part
      BY <2>3, <2>4, <3>1
    <3>4. UNION parts \subseteq D!Handles(doc)
      BY <3>1 DEF D!Handles
    <3> QED BY <3>2, <3>3, <3>4
  <2>6. ASSUME NEW i \in 1..n PROVE joins[i] \in Walking(doc)
    <3>1. CASE D!Child(doc, children[i]).kind = "INSERT"
      <4>1. children[i] \in D!Inserts(doc)
        BY <2>5, <2>6, <3>1 DEF D!Inserts
      <4>2. PICK longer, larger : longer = path \cup {insert.block} /\ larger = (enlarged \/ insert.huge)
        OBVIOUS
      <4>3. longer \in SUBSET DOMAIN doc.blocks /\ larger \in BOOLEAN
        BY <2>2, <4>2
      <4>4. <<children[i], longer, larger>> \in D!Walks(doc)
        BY <4>1, <4>3 DEF D!Walks
      <4>5. joins[i] = deeper[<<children[i], longer, larger>>]
        BY <1>1, <2>4, <2>6, <3>1, <4>2
      <4> QED BY <1>6, <4>4, <4>5
    <3>2. CASE D!Child(doc, children[i]).kind # "INSERT"
      <4>1. joins[i] = D!Face(doc, children[i])
        BY <1>1, <2>4, <2>6, <3>2
      <4> QED BY <2>5, <2>6, <4>1, WalkEnds
    <3> QED BY <3>1, <3>2
  <2>7. joins \in [1..n -> Walking(doc)]
    BY <1>1, <2>4, <2>6
  <2> QED BY <1>6, <2>1, <2>7, WalksJoined
<1> QED BY <1>3, <1>4, <1>5, <1>6

\* The walk finds faces and INSERTs of the document, however deep its blocks are nested.
LEMMA WalkInsertIs ==
  ASSUME NEW doc, D!IsDocument(doc) PROVE D!WalkInsert(doc) \in [D!Walks(doc) -> Walking(doc)]
<1>1. PICK n \in Nat : n = MaxInsertDepth
  BY DxfAssumption
<1>2. PICK any, walks : walks = D!Walks(doc) /\ any = [walks -> Walking(doc)]
  OBVIOUS
<1>4. \A w \in walks : w[1] \in D!Inserts(doc) /\ w[2] \in SUBSET DOMAIN doc.blocks /\ w[3] \in BOOLEAN
  BY <1>2 DEF D!Walks
<1>5. ASSUME NEW k \in 0..n, NEW b, k = 0 \/ b \in any
      PROVE  \A w \in walks : /\ D!Walked(doc, k, w[1], w[2], w[3], b) \in Walking(doc)
                              /\ k = 0 => \A other : D!Walked(doc, k, w[1], w[2], w[3], other) = D!Walked(doc, k, w[1], w[2], w[3], b)
  <2>1. ASSUME NEW w \in walks
        PROVE  /\ D!Walked(doc, k, w[1], w[2], w[3], b) \in Walking(doc)
               /\ k = 0 => \A other : D!Walked(doc, k, w[1], w[2], w[3], other) = D!Walked(doc, k, w[1], w[2], w[3], b)
    <3>1. PICK h, path, enlarged : h = w[1] /\ path = w[2] /\ enlarged = w[3]
      OBVIOUS
    <3>2. h \in D!Inserts(doc) /\ path \in SUBSET DOMAIN doc.blocks /\ enlarged \in BOOLEAN
      BY <1>4, <2>1, <3>1
    <3>3. /\ D!Walked(doc, k, h, path, enlarged, b) \in Walking(doc)
          /\ k = 0 => \A other : D!Walked(doc, k, h, path, enlarged, other) = D!Walked(doc, k, h, path, enlarged, b)
      BY <1>2, <1>5, <3>2, WalkedIs
    <3> QED BY <3>1, <3>3
  <2> QED BY <2>1
<1>6. PICK base : base = [w \in walks |-> D!Walked(doc, 0, w[1], w[2], w[3], <<>>)]
  OBVIOUS
<1>7. base \in any
  <2>1. 0 \in 0..n
    BY <1>1
  <2>2. \A w \in walks : D!Walked(doc, 0, w[1], w[2], w[3], <<>>) \in Walking(doc)
    BY <1>5, <2>1
  <2> QED BY <1>2, <1>6, <2>2
<1>8. PICK step : step = [k \in 1..n |-> [b \in any |-> [w \in walks |-> D!Walked(doc, k, w[1], w[2], w[3], b)]]]
  OBVIOUS
<1>9. ASSUME NEW k \in 1..n, NEW b \in any PROVE [w \in walks |-> D!Walked(doc, k, w[1], w[2], w[3], b)] \in any
  <2>1. k \in 0..n
    BY <1>1
  <2>2. \A w \in walks : D!Walked(doc, k, w[1], w[2], w[3], b) \in Walking(doc)
    BY <1>5, <2>1
  <2> QED BY <1>2, <2>2
<1>10. step \in [1..n -> [any -> any]]
  BY <1>8, <1>9
<1>11. PICK g : g \in Recursions(n, any, base, step)
  BY <1>7, <1>10, Recursion
<1>12. g \in [0..n -> any] /\ g[0] = base /\ \A k \in 1..n : g[k] = step[k][g[k - 1]]
  BY <1>11 DEF Recursions
<1>13. PICK walk : walk = CHOOSE f : f = [k \in 0..n |-> [w \in walks |-> D!Walked(doc, k, w[1], w[2], w[3], f[k - 1])]]
  OBVIOUS
<1>14. g = [k \in 0..n |-> [w \in walks |-> D!Walked(doc, k, w[1], w[2], w[3], g[k - 1])]]
  <2>1. ASSUME NEW k \in 0..n PROVE g[k] = [w \in walks |-> D!Walked(doc, k, w[1], w[2], w[3], g[k - 1])]
    <3>1. CASE k = 0
      <4>1. PICK b : b = g[k - 1]
        OBVIOUS
      <4>2. \A w \in walks : D!Walked(doc, 0, w[1], w[2], w[3], b) = D!Walked(doc, 0, w[1], w[2], w[3], <<>>)
        BY <1>5, <2>1, <3>1
      <4>3. base = [w \in walks |-> D!Walked(doc, 0, w[1], w[2], w[3], b)]
        BY <1>6, <4>2
      <4> QED BY <1>12, <3>1, <4>1, <4>3
    <3>2. CASE k # 0
      <4>1. k \in 1..n /\ k - 1 \in 0..n
        BY <1>1, <3>2
      <4>2. g[k - 1] \in any
        BY <1>12, <4>1
      <4>3. step[k] = [b \in any |-> [w \in walks |-> D!Walked(doc, k, w[1], w[2], w[3], b)]]
        BY <1>8, <4>1
      <4> QED BY <1>12, <4>1, <4>2, <4>3
    <3> QED BY <3>1, <3>2
  <2> QED BY <1>12, <2>1
<1>15. walk = [k \in 0..n |-> [w \in walks |-> D!Walked(doc, k, w[1], w[2], w[3], walk[k - 1])]]
  BY <1>13, <1>14
<1>16. \A k \in 0..n : walk[k] \in any
  <2>1. PICK U : U = {k \in 0..n : walk[k] \in any}
    OBVIOUS
  <2>2. 0 \in U
    <3>1. 0 \in 0..n
      BY <1>1
    <3>2. walk[0] = [w \in walks |-> D!Walked(doc, 0, w[1], w[2], w[3], walk[0 - 1])]
      BY <1>15, <3>1
    <3>3. \A w \in walks : D!Walked(doc, 0, w[1], w[2], w[3], walk[0 - 1]) \in Walking(doc)
      BY <1>5, <3>1
    <3> QED BY <1>2, <2>1, <3>1, <3>2, <3>3
  <2>3. ASSUME NEW k \in 1..n, k - 1 \in U PROVE k \in U
    <3>1. walk[k - 1] \in any /\ k \in 0..n
      BY <1>1, <2>1, <2>3
    <3>2. walk[k] = [w \in walks |-> D!Walked(doc, k, w[1], w[2], w[3], walk[k - 1])]
      BY <1>15, <3>1
    <3> QED BY <1>9, <2>1, <2>3, <3>1, <3>2
  <2> QED BY <1>1, <2>1, <2>2, <2>3, InductionTo
<1>17. D!WalkInsert(doc) = walk[n]
  BY <1>1, <1>2, <1>13 DEF D!WalkInsert
<1> QED BY <1>1, <1>2, <1>16, <1>17

\* The mesh of the model space is of faces of the document.
LEMMA MeshIs == ASSUME NEW doc, D!IsDocument(doc) PROVE D!Mesh(doc) \in Walking(doc)
<1>1. PICK n \in Nat : n = Len(doc.space)
  <2>1. IsList(doc.space)
    BY DxfSame DEF D!IsDocument
  <2> QED BY <2>1, ListIs
<1>2. PICK walks : walks = [i \in 1..n |-> IF doc.space[i].kind = "INSERT" THEN D!WalkInsert(doc)[<< <<"space", i>>, {}, FALSE >>]
                                            ELSE D!Face(doc, <<"space", i>>)]
  OBVIOUS
<1>3. D!Mesh(doc) = D!Joined(walks)
  BY <1>1, <1>2 DEF D!Mesh
<1>4. ASSUME NEW i \in 1..n PROVE walks[i] \in Walking(doc)
  <2>1. PICK h : h = <<"space", i>>
    OBVIOUS
  <2>2. h \in D!Handles(doc)
    BY <1>1, <1>4, <2>1 DEF D!Handles
  <2>3. D!Child(doc, h) = doc.space[i]
    BY <2>1 DEF D!Child
  <2>4. CASE doc.space[i].kind = "INSERT"
    <3>1. h \in D!Inserts(doc)
      BY <2>2, <2>3, <2>4 DEF D!Inserts
    <3>2. <<h, {}, FALSE>> \in D!Walks(doc)
      BY <3>1 DEF D!Walks
    <3>3. walks[i] = D!WalkInsert(doc)[<<h, {}, FALSE>>]
      BY <1>2, <1>4, <2>1, <2>4
    <3> QED BY <3>2, <3>3, WalkInsertIs
  <2>5. CASE doc.space[i].kind # "INSERT"
    <3>1. walks[i] = D!Face(doc, h)
      BY <1>2, <1>4, <2>1, <2>5
    <3> QED BY <2>2, <3>1, WalkEnds
  <2> QED BY <2>4, <2>5
<1>5. walks \in [1..n -> Walking(doc)]
  BY <1>2, <1>4
<1> QED BY <1>3, <1>5, WalksJoined

(* A list of some kinds of records that name only what is in a set. *)
Naming(s, kinds, names) == OfKinds(s, kinds) /\ \A r \in Items(s) : r.refs \subseteq names
LEMMA NamingJoined ==
  ASSUME NEW s, NEW t, NEW A, NEW B, NEW names, Naming(s, A, names), Naming(t, B, names), A \cap B = {}
  PROVE  Naming(s \o t, A \cup B, names) /\ Ids(s \o t) = Ids(s) \cup Ids(t)
<1>1. OfKinds(s, A) /\ OfKinds(t, B)
  BY DEF Naming
<1>2. OfKinds(s \o t, A \cup B) /\ Ids(s \o t) = Ids(s) \cup Ids(t) /\ Items(s \o t) = Items(s) \cup Items(t)
  BY <1>1, KindsJoined
<1> QED BY <1>2 DEF Naming

NamedAs(f, kind, names) == \A x \in DOMAIN f : f[x].id = <<kind, x>> /\ f[x].refs \subseteq names
LEMMA NamingEach ==
  ASSUME NEW f, IsFiniteSet(DOMAIN f), NEW kind, NEW names, NamedAs(f, kind, names)
  PROVE  Naming(D!ForEach(f), {kind}, names) /\ Ids(D!ForEach(f)) = {<<kind, x>> : x \in DOMAIN f}
<1>1. ByKind(f, kind)
  BY DEF NamedAs, ByKind
<1>2. OfKinds(ForEach(f), {kind}) /\ Ids(ForEach(f)) = {<<kind, x>> : x \in DOMAIN f} /\ Items(ForEach(f)) = {f[x] : x \in DOMAIN f}
  BY <1>1, KindEach
<1>3. \A r \in Items(ForEach(f)) : r.refs \subseteq names
  BY <1>2 DEF NamedAs
<1> QED BY <1>2, <1>3, DxfSame DEF Naming

(* The records of a document that others name. *)
DxfPrims(doc) == {D!Prim(h) : h \in D!Handles(doc)}
DxfEntities(doc) == {D!Entity(h) : h \in D!Handles(doc)}
DxfBlocks(doc) == {D!Block(b) : b \in DOMAIN doc.blocks}
DxfNames(doc) == {D!RootSource} \cup (DxfPrims(doc) \cup DxfEntities(doc) \cup DxfBlocks(doc))

PrimTable(doc) == [h \in D!Handles(doc) |-> D!Record(D!Prim(h), {D!RootSource})]
EntityTable(doc) == [h \in D!Handles(doc) |-> D!Record(D!Entity(h), {D!Prim(h)})]
Tessellated(doc, version) ==
  IF version = "0.2.0" /\ D!Range(D!Mesh(doc).faces) # {}
  THEN <<D!Record(<<"prim_dxf_tessellation">>, {D!Prim(h) : h \in D!Range(D!Mesh(doc).faces)})>> ELSE <<>>
BlockTable(doc) == [b \in DOMAIN doc.blocks |-> D!Record(D!Block(b), {D!RootSource})]
InsertRefs(doc, h) == {D!Entity(h), D!Block(D!Child(doc, h).block), D!Prim(h)}
InsertTable(doc) == [h \in D!Inserts(doc) |-> D!Record(<<"relation_dxf_insert", h>>, InsertRefs(doc, h))]
LayerTable(doc) == [h \in D!Handles(doc) |-> D!Record(<<"assert_dxf_layer", h>>, {D!Prim(h), D!Entity(h)})]

LEMMA RootTables ==
  ASSUME NEW doc, D!IsDocument(doc)
  PROVE  /\ NamedAs(PrimTable(doc), "prim_dxf", DxfNames(doc)) /\ NamedAs(EntityTable(doc), "entity_dxf", DxfNames(doc))
         /\ NamedAs(BlockTable(doc), "entity_dxf_block", DxfNames(doc)) /\ NamedAs(InsertTable(doc), "relation_dxf_insert", DxfNames(doc))
         /\ NamedAs(LayerTable(doc), "assert_dxf_layer", DxfNames(doc))
<1>1. PICK names, handles : names = DxfNames(doc) /\ handles = D!Handles(doc)
  OBVIOUS
<1>2. /\ D!RootSource \in names /\ \A h \in handles : D!Prim(h) \in names /\ D!Entity(h) \in names
      /\ \A b \in DOMAIN doc.blocks : D!Block(b) \in names
  BY <1>1 DEF DxfNames, DxfPrims, DxfEntities, DxfBlocks
<1>3. NamedAs(PrimTable(doc), "prim_dxf", names)
  <2>1. ASSUME NEW h \in handles PROVE PrimTable(doc)[h].id = <<"prim_dxf", h>> /\ PrimTable(doc)[h].refs \subseteq names
    <3>1. PICK refs : refs = {D!RootSource}
      OBVIOUS
    <3>2. PrimTable(doc)[h] = D!Record(D!Prim(h), refs)
      BY <1>1, <2>1, <3>1 DEF PrimTable
    <3>3. PrimTable(doc)[h].id = D!Prim(h) /\ PrimTable(doc)[h].refs = refs
      BY <3>2, DxfRecordIs
    <3> QED BY <1>2, <3>1, <3>3 DEF D!Prim
  <2>2. DOMAIN PrimTable(doc) = handles
    BY <1>1 DEF PrimTable
  <2> QED BY <2>1, <2>2 DEF NamedAs
<1>4. NamedAs(EntityTable(doc), "entity_dxf", names)
  <2>1. ASSUME NEW h \in handles PROVE EntityTable(doc)[h].id = <<"entity_dxf", h>> /\ EntityTable(doc)[h].refs \subseteq names
    <3>1. PICK refs : refs = {D!Prim(h)}
      OBVIOUS
    <3>2. EntityTable(doc)[h] = D!Record(D!Entity(h), refs)
      BY <1>1, <2>1, <3>1 DEF EntityTable
    <3>3. EntityTable(doc)[h].id = D!Entity(h) /\ EntityTable(doc)[h].refs = refs
      BY <3>2, DxfRecordIs
    <3> QED BY <1>2, <2>1, <3>1, <3>3 DEF D!Entity
  <2>2. DOMAIN EntityTable(doc) = handles
    BY <1>1 DEF EntityTable
  <2> QED BY <2>1, <2>2 DEF NamedAs
<1>5. NamedAs(BlockTable(doc), "entity_dxf_block", names)
  <2>1. ASSUME NEW b \in DOMAIN doc.blocks PROVE BlockTable(doc)[b].id = <<"entity_dxf_block", b>> /\ BlockTable(doc)[b].refs \subseteq names
    <3>1. PICK refs : refs = {D!RootSource}
      OBVIOUS
    <3>2. BlockTable(doc)[b] = D!Record(D!Block(b), refs)
      BY <2>1, <3>1 DEF BlockTable
    <3>3. BlockTable(doc)[b].id = D!Block(b) /\ BlockTable(doc)[b].refs = refs
      BY <3>2, DxfRecordIs
    <3> QED BY <1>2, <3>1, <3>3 DEF D!Block
  <2>2. DOMAIN BlockTable(doc) = DOMAIN doc.blocks
    BY DEF BlockTable
  <2> QED BY <2>1, <2>2 DEF NamedAs
<1>6. NamedAs(InsertTable(doc), "relation_dxf_insert", names)
  <2>1. ASSUME NEW h \in D!Inserts(doc) PROVE InsertTable(doc)[h].id = <<"relation_dxf_insert", h>> /\ InsertTable(doc)[h].refs \subseteq names
    <3>1. PICK x, refs, b : x = <<"relation_dxf_insert", h>> /\ refs = InsertRefs(doc, h) /\ b = D!Child(doc, h).block
      OBVIOUS
    <3>2. InsertTable(doc)[h] = D!Record(x, refs)
      BY <2>1, <3>1 DEF InsertTable
    <3>3. InsertTable(doc)[h].id = x /\ InsertTable(doc)[h].refs = refs
      BY <3>2, DxfRecordIs
    <3>4. h \in handles /\ b \in DOMAIN doc.blocks
      BY <1>1, <2>1, <3>1 DEF D!IsDocument, D!Inserts
    <3>5. refs = {D!Entity(h), D!Block(b), D!Prim(h)}
      BY <3>1 DEF InsertRefs
    <3> QED BY <1>2, <3>1, <3>3, <3>4, <3>5
  <2>2. DOMAIN InsertTable(doc) = D!Inserts(doc)
    BY DEF InsertTable
  <2> QED BY <2>1, <2>2 DEF NamedAs
<1>7. NamedAs(LayerTable(doc), "assert_dxf_layer", names)
  <2>1. ASSUME NEW h \in handles PROVE LayerTable(doc)[h].id = <<"assert_dxf_layer", h>> /\ LayerTable(doc)[h].refs \subseteq names
    <3>1. PICK x, refs : x = <<"assert_dxf_layer", h>> /\ refs = {D!Prim(h), D!Entity(h)}
      OBVIOUS
    <3>2. LayerTable(doc)[h] = D!Record(x, refs)
      BY <1>1, <2>1, <3>1 DEF LayerTable
    <3>3. LayerTable(doc)[h].id = x /\ LayerTable(doc)[h].refs = refs
      BY <3>2, DxfRecordIs
    <3> QED BY <1>2, <2>1, <3>1, <3>3
  <2>2. DOMAIN LayerTable(doc) = handles
    BY <1>1 DEF LayerTable
  <2> QED BY <2>1, <2>2 DEF NamedAs
<1> QED BY <1>1, <1>3, <1>4, <1>5, <1>6, <1>7

RootKinds == {"prim_dxf", "entity_dxf", "prim_dxf_tessellation", "entity_dxf_block", "relation_dxf_insert", "assert_dxf_layer"}
LEMMA RootRecorded ==
  ASSUME NEW doc, D!IsDocument(doc), NEW version
  PROVE  /\ Naming(D!RootRecords(doc, version), RootKinds, DxfNames(doc))
         /\ DxfNames(doc) \subseteq {D!RootSource} \cup Ids(D!RootRecords(doc, version))
<1>1. PICK names : names = DxfNames(doc)
  OBVIOUS
<1>2. PICK f1, f2, f4, f5, f6 : f1 = PrimTable(doc) /\ f2 = EntityTable(doc) /\ f4 = BlockTable(doc) /\ f5 = InsertTable(doc) /\ f6 = LayerTable(doc)
  OBVIOUS
<1>3. PICK s1, s2, s3, s4, s5, s6 : /\ s1 = D!ForEach(f1) /\ s2 = D!ForEach(f2) /\ s3 = Tessellated(doc, version)
                                    /\ s4 = D!ForEach(f4) /\ s5 = D!ForEach(f5) /\ s6 = D!ForEach(f6)
  OBVIOUS
<1>4. D!RootRecords(doc, version) = ((((s1 \o s2) \o s3) \o s4) \o s5) \o s6
  BY <1>2, <1>3 DEF D!RootRecords, Tessellated, PrimTable, EntityTable, BlockTable, InsertTable, InsertRefs, LayerTable
<1>5. /\ DOMAIN f1 = D!Handles(doc) /\ DOMAIN f2 = D!Handles(doc) /\ DOMAIN f4 = DOMAIN doc.blocks
      /\ DOMAIN f5 = D!Inserts(doc) /\ DOMAIN f6 = D!Handles(doc)
  BY <1>2 DEF PrimTable, EntityTable, BlockTable, InsertTable, LayerTable
<1>6. /\ NamedAs(f1, "prim_dxf", names) /\ NamedAs(f2, "entity_dxf", names) /\ NamedAs(f4, "entity_dxf_block", names)
      /\ NamedAs(f5, "relation_dxf_insert", names) /\ NamedAs(f6, "assert_dxf_layer", names)
  BY <1>1, <1>2, RootTables
<1>7. \A T \in {D!Handles(doc), DOMAIN doc.blocks, D!Inserts(doc)} : IsFiniteSet(T)
  BY DocumentFinite
<1>8. Naming(s1, {"prim_dxf"}, names) /\ Ids(s1) = DxfPrims(doc)
  <2>1. PICK kind : kind = "prim_dxf"
    OBVIOUS
  <2>2. Naming(D!ForEach(f1), {kind}, names) /\ Ids(D!ForEach(f1)) = {<<kind, x>> : x \in DOMAIN f1}
    BY <1>5, <1>6, <1>7, <2>1, NamingEach
  <2> QED BY <1>3, <1>5, <2>1, <2>2 DEF DxfPrims, D!Prim
<1>9. Naming(s2, {"entity_dxf"}, names) /\ Ids(s2) = DxfEntities(doc)
  <2>1. PICK kind : kind = "entity_dxf"
    OBVIOUS
  <2>2. Naming(D!ForEach(f2), {kind}, names) /\ Ids(D!ForEach(f2)) = {<<kind, x>> : x \in DOMAIN f2}
    BY <1>5, <1>6, <1>7, <2>1, NamingEach
  <2> QED BY <1>3, <1>5, <2>1, <2>2 DEF DxfEntities, D!Entity
<1>10. Naming(s3, {"prim_dxf_tessellation"}, names)
  <2>1. PICK x, refs, r, faces : /\ x = <<"prim_dxf_tessellation">> /\ faces = D!Range(D!Mesh(doc).faces)
                                 /\ refs = {D!Prim(h) : h \in faces} /\ r = D!Record(x, refs)
    OBVIOUS
  <2>2. r.id = x /\ r.refs = refs /\ x[1] = "prim_dxf_tessellation"
    BY <2>1, DxfRecordIs
  <2>3. faces \subseteq D!Handles(doc)
    <3>1. D!Mesh(doc).faces \in Seq(D!Handles(doc))
      BY MeshIs DEF Walking
    <3> QED BY <2>1, <3>1, DxfSame, ListIs
  <2>4. refs \subseteq names
    BY <1>1, <2>1, <2>3 DEF DxfNames, DxfPrims
  <2>5. /\ OfKinds(<<r>>, {"prim_dxf_tessellation"}) /\ Items(<<r>>) = {r}
        /\ OfKinds(<<>>, {"prim_dxf_tessellation"}) /\ Items(<<>>) = {}
    BY <2>2, KindsFew
  <2>6. s3 = <<r>> \/ s3 = <<>>
    BY <1>3, <2>1 DEF Tessellated
  <2> QED BY <2>2, <2>4, <2>5, <2>6 DEF Naming
<1>11. Naming(s4, {"entity_dxf_block"}, names) /\ Ids(s4) = DxfBlocks(doc)
  <2>1. PICK kind : kind = "entity_dxf_block"
    OBVIOUS
  <2>2. Naming(D!ForEach(f4), {kind}, names) /\ Ids(D!ForEach(f4)) = {<<kind, x>> : x \in DOMAIN f4}
    BY <1>5, <1>6, <1>7, <2>1, NamingEach
  <2> QED BY <1>3, <1>5, <2>1, <2>2 DEF DxfBlocks, D!Block
<1>12. Naming(s5, {"relation_dxf_insert"}, names)
  <2>1. PICK kind : kind = "relation_dxf_insert"
    OBVIOUS
  <2>2. Naming(D!ForEach(f5), {kind}, names)
    BY <1>5, <1>6, <1>7, <2>1, NamingEach
  <2> QED BY <1>3, <2>1, <2>2
<1>13. Naming(s6, {"assert_dxf_layer"}, names)
  <2>1. PICK kind : kind = "assert_dxf_layer"
    OBVIOUS
  <2>2. Naming(D!ForEach(f6), {kind}, names)
    BY <1>5, <1>6, <1>7, <2>1, NamingEach
  <2> QED BY <1>3, <2>1, <2>2
<1>14. PICK t2, t3, t4, t5 : t2 = s1 \o s2 /\ t3 = t2 \o s3 /\ t4 = t3 \o s4 /\ t5 = t4 \o s5
  OBVIOUS
<1>15. Naming(t2, {"prim_dxf"} \cup {"entity_dxf"}, names) /\ Ids(t2) = Ids(s1) \cup Ids(s2)
  <2>1. {"prim_dxf"} \cap {"entity_dxf"} = {}
    OBVIOUS
  <2> QED BY <1>8, <1>9, <1>14, <2>1, NamingJoined
<1>16. Naming(t3, ({"prim_dxf"} \cup {"entity_dxf"}) \cup {"prim_dxf_tessellation"}, names) /\ Ids(t3) = Ids(t2) \cup Ids(s3)
  <2>1. ({"prim_dxf"} \cup {"entity_dxf"}) \cap {"prim_dxf_tessellation"} = {}
    OBVIOUS
  <2> QED BY <1>10, <1>14, <1>15, <2>1, NamingJoined
<1>17. PICK K3 : K3 = {"prim_dxf", "entity_dxf", "prim_dxf_tessellation"}
  OBVIOUS
<1>18. Naming(t3, K3, names)
  <2>1. ({"prim_dxf"} \cup {"entity_dxf"}) \cup {"prim_dxf_tessellation"} = K3
    BY <1>17
  <2> QED BY <1>16, <2>1
<1>19. PICK K4 : K4 = K3 \cup {"entity_dxf_block"}
  OBVIOUS
<1>20. Naming(t4, K4, names) /\ Ids(t4) = Ids(t3) \cup Ids(s4)
  <2>1. K3 \cap {"entity_dxf_block"} = {}
    BY <1>17
  <2> QED BY <1>11, <1>14, <1>18, <1>19, <2>1, NamingJoined
<1>21. PICK K5 : K5 = K4 \cup {"relation_dxf_insert"}
  OBVIOUS
<1>22. Naming(t5, K5, names) /\ Ids(t5) = Ids(t4) \cup Ids(s5)
  <2>1. K4 \cap {"relation_dxf_insert"} = {}
    BY <1>17, <1>19
  <2>2. t5 = t4 \o s5
    BY <1>14
  <2>3. Naming(t4 \o s5, K4 \cup {"relation_dxf_insert"}, names) /\ Ids(t4 \o s5) = Ids(t4) \cup Ids(s5)
    BY <1>12, <1>20, <2>1, NamingJoined
  <2> QED BY <1>21, <2>2, <2>3
<1>23. Naming(t5 \o s6, RootKinds, names) /\ Ids(t5 \o s6) = Ids(t5) \cup Ids(s6)
  <2>1. K5 \cap {"assert_dxf_layer"} = {}
    BY <1>17, <1>19, <1>21
  <2>2. K5 \cup {"assert_dxf_layer"} = RootKinds
    BY <1>17, <1>19, <1>21 DEF RootKinds
  <2> QED BY <1>13, <1>22, <2>1, <2>2, NamingJoined
<1>24. D!RootRecords(doc, version) = t5 \o s6
  BY <1>4, <1>14
<1>25. names \subseteq {D!RootSource} \cup Ids(t5 \o s6)
  BY <1>1, <1>8, <1>9, <1>11, <1>15, <1>16, <1>20, <1>22, <1>23 DEF DxfNames
<1> QED BY <1>1, <1>23, <1>24, <1>25

\* A few are finite.
LEMMA FewFinite == \A a, b, c : IsFiniteSet({a, b}) /\ IsFiniteSet({a, b, c})
<1>1. ASSUME NEW a, NEW b, NEW c PROVE IsFiniteSet({a, b}) /\ IsFiniteSet({a, b, c})
  <2>1. IsFiniteSet({a}) /\ IsFiniteSet({b}) /\ IsFiniteSet({c})
    BY FS_Singleton
  <2>2. IsFiniteSet({a} \cup {b})
    BY <2>1, FS_Union
  <2>3. IsFiniteSet(({a} \cup {b}) \cup {c})
    BY <2>1, <2>2, FS_Union
  <2>4. {a} \cup {b} = {a, b} /\ ({a} \cup {b}) \cup {c} = {a, b, c}
    OBVIOUS
  <2> QED BY <2>2, <2>3, <2>4
<1> QED BY <1>1

\* The diagnostics of the root.
LossCodes(doc) == {"3d_geometry"} \cup (IF D!Solids(doc) = {} THEN {} ELSE {"2d_geometry"})
DxfLosses(doc) == [c \in LossCodes(doc) |-> D!Record(<<"diag_dxf_loss", c>>, {D!RootSource})]
DxfIssues(doc, version, bundled) ==
  [x \in D!Issues(doc, version, bundled) |-> D!Record(<<"diag_dxf_v02_3d", x>>, {D!RootSource})]

LEMMA DxfIssuesFinite ==
  ASSUME NEW doc, D!IsDocument(doc), NEW version, NEW bundled PROVE IsFiniteSet(D!Issues(doc, version, bundled))
<1>1. PICK met, solid, outer, handles : /\ met = D!Mesh(doc).issues /\ handles = D!Handles(doc)
        /\ solid = {<<"ACIS_KERNEL_UNSUPPORTED", h>> : h \in D!Solids(doc)}
        /\ outer = {<<"XREF_NOT_TRAVERSED", x>> : x \in doc.xrefs}
  OBVIOUS
<1>2. IsFiniteSet(met)
  <2>1. met \subseteq WalkCodes \X handles
    BY <1>1, MeshIs DEF Walking
  <2>2. IsFiniteSet(WalkCodes)
    BY FewFinite DEF WalkCodes
  <2>3. IsFiniteSet(handles)
    BY <1>1, DocumentFinite
  <2>4. IsFiniteSet(WalkCodes \X handles)
    BY <2>2, <2>3, FS_Product
  <2> QED BY <2>1, <2>4, FS_Subset
<1>3. IsFiniteSet(solid)
  <2>1. PICK f : f = [h \in D!Solids(doc) |-> <<"ACIS_KERNEL_UNSUPPORTED", h>>]
    OBVIOUS
  <2>2. IsFiniteSet({f[h] : h \in DOMAIN f})
    BY <2>1, DocumentFinite, FiniteValues
  <2>3. {f[h] : h \in DOMAIN f} = solid
    BY <1>1, <2>1
  <2> QED BY <2>2, <2>3
<1>4. IsFiniteSet(outer)
  <2>1. PICK f : f = [x \in doc.xrefs |-> <<"XREF_NOT_TRAVERSED", x>>]
    OBVIOUS
  <2>2. IsFiniteSet({f[x] : x \in DOMAIN f})
    BY <2>1, DocumentFinite, FiniteValues
  <2>3. {f[x] : x \in DOMAIN f} = outer
    BY <1>1, <2>1
  <2> QED BY <2>2, <2>3
<1>5. PICK all : all = (met \cup solid) \cup outer
  OBVIOUS
<1>6. IsFiniteSet(all)
  <2>1. IsFiniteSet(met \cup solid)
    BY <1>2, <1>3, FS_Union
  <2> QED BY <1>4, <1>5, <2>1, FS_Union
<1>7. D!Issues(doc, version, bundled) \subseteq all
  BY <1>1, <1>5 DEF D!Issues
<1> QED BY <1>6, <1>7, FS_Subset

LEMMA RootDiagnosed ==
  ASSUME NEW doc, D!IsDocument(doc), NEW version, NEW bundled
  PROVE  Naming(D!RootDiagnostics(doc, version, bundled), {"diag_dxf_loss", "diag_dxf_v02_3d"}, DxfNames(doc))
<1>1. PICK names, f, g : names = DxfNames(doc) /\ f = DxfLosses(doc) /\ g = DxfIssues(doc, version, bundled)
  OBVIOUS
<1>2. PICK refs : refs = {D!RootSource}
  OBVIOUS
<1>3. refs \subseteq names
  BY <1>1, <1>2 DEF DxfNames
<1>4. PICK s, t : s = D!ForEach(f) /\ t = D!ForEach(g)
  OBVIOUS
<1>5. D!RootDiagnostics(doc, version, bundled) = s \o t
  BY <1>1, <1>4 DEF D!RootDiagnostics, DxfLosses, LossCodes, DxfIssues
<1>6. Naming(s, {"diag_dxf_loss"}, names)
  <2>1. ASSUME NEW c \in LossCodes(doc) PROVE f[c].id = <<"diag_dxf_loss", c>> /\ f[c].refs \subseteq names
    <3>1. PICK x : x = <<"diag_dxf_loss", c>>
      OBVIOUS
    <3>2. f[c] = D!Record(x, refs)
      BY <1>1, <1>2, <2>1, <3>1 DEF DxfLosses
    <3> QED BY <1>3, <3>1, <3>2, DxfRecordIs
  <2>2. DOMAIN f = LossCodes(doc)
    BY <1>1 DEF DxfLosses
  <2>3. PICK kind : kind = "diag_dxf_loss"
    OBVIOUS
  <2>4. NamedAs(f, kind, names)
    BY <2>1, <2>2, <2>3 DEF NamedAs
  <2>5. IsFiniteSet(LossCodes(doc))
    <3>1. IsFiniteSet({"3d_geometry", "2d_geometry"})
      BY FewFinite
    <3>2. LossCodes(doc) \subseteq {"3d_geometry", "2d_geometry"}
      BY DEF LossCodes
    <3> QED BY <3>1, <3>2, FS_Subset
  <2>6. Naming(D!ForEach(f), {kind}, names)
    BY <2>2, <2>4, <2>5, NamingEach
  <2> QED BY <1>4, <2>3, <2>6
<1>7. Naming(t, {"diag_dxf_v02_3d"}, names)
  <2>1. ASSUME NEW a \in D!Issues(doc, version, bundled) PROVE g[a].id = <<"diag_dxf_v02_3d", a>> /\ g[a].refs \subseteq names
    <3>1. PICK x : x = <<"diag_dxf_v02_3d", a>>
      OBVIOUS
    <3>2. g[a] = D!Record(x, refs)
      BY <1>1, <1>2, <2>1, <3>1 DEF DxfIssues
    <3> QED BY <1>3, <3>1, <3>2, DxfRecordIs
  <2>2. DOMAIN g = D!Issues(doc, version, bundled)
    BY <1>1 DEF DxfIssues
  <2>3. PICK kind : kind = "diag_dxf_v02_3d"
    OBVIOUS
  <2>4. NamedAs(g, kind, names)
    BY <2>1, <2>2, <2>3 DEF NamedAs
  <2>5. Naming(D!ForEach(g), {kind}, names)
    BY <2>2, <2>4, DxfIssuesFinite, NamingEach
  <2> QED BY <1>4, <2>3, <2>5
<1>8. Naming(s \o t, {"diag_dxf_loss"} \cup {"diag_dxf_v02_3d"}, names)
  <2>1. {"diag_dxf_loss"} \cap {"diag_dxf_v02_3d"} = {}
    OBVIOUS
  <2> QED BY <1>6, <1>7, <2>1, NamingJoined
<1>9. {"diag_dxf_loss"} \cup {"diag_dxf_v02_3d"} = {"diag_dxf_loss", "diag_dxf_v02_3d"}
  OBVIOUS
<1> QED BY <1>1, <1>5, <1>8, <1>9

(* The records of a member of the bundle, and the identifiers that only it has. *)
MemberPrim(path, dig, h) == <<"prim_dxf_bundle", dig, path, h>>
MemberSolid(dig, h) == <<"diag_dxf_bundle", dig, h>>
PrimPart(path, dig, doc) == [h \in D!Handles(doc) |-> D!Record(MemberPrim(path, dig, h), {D!MemberSource(path, dig)})]
SolidPart(path, dig, doc) == [h \in D!Solids(doc) |-> D!Record(MemberSolid(dig, h), {D!MemberSource(path, dig)})]
MemberList(path, dig, doc) == D!MemberRecords(path, dig, doc) \o D!MemberDiagnostics(path, dig, doc)
MemberKinds == {"src_dxf_bundle", "prim_dxf_bundle", "diag_dxf_bundle"}
OfMember(x, path, dig, doc) ==
  \/ x[1] \in {"src_dxf_bundle", "prim_dxf_bundle"} /\ x[3] = path
  \/ x[1] = "diag_dxf_bundle" /\ x[2] = dig /\ D!Solids(doc) # {}

ApartEach(f, kind) == \A x \in DOMAIN f : f[x].id[1] = kind /\ \A y \in DOMAIN f : f[x].id = f[y].id => x = y
LEMMA KindApart ==
  ASSUME NEW f, IsFiniteSet(DOMAIN f), NEW kind, ApartEach(f, kind)
  PROVE  OfKinds(ForEach(f), {kind}) /\ Ids(ForEach(f)) = {f[x].id : x \in DOMAIN f} /\ Items(ForEach(f)) = {f[x] : x \in DOMAIN f}
<1>1. \A x, y \in DOMAIN f : f[x].id = f[y].id => x = y
  BY DEF ApartEach
<1>2. Distinct(ForEach(f)) /\ Ids(ForEach(f)) = {f[x].id : x \in DOMAIN f}
  BY <1>1, DistinctEach
<1>3. Items(ForEach(f)) = {f[x] : x \in DOMAIN f}
  BY ForEachIs
<1> QED BY <1>2, <1>3 DEF OfKinds, ApartEach

LEMMA MemberPrims ==
  ASSUME NEW doc, D!IsDocument(doc), NEW path, NEW dig, NEW f, f = PrimPart(path, dig, doc)
  PROVE  /\ OfKinds(ForEach(f), {"prim_dxf_bundle"}) /\ \A r \in Items(ForEach(f)) : r.refs = {D!MemberSource(path, dig)}
         /\ \A x \in Ids(ForEach(f)) : x[3] = path
<1>1. PICK refs, handles, kind : refs = {D!MemberSource(path, dig)} /\ handles = D!Handles(doc) /\ kind = "prim_dxf_bundle"
  OBVIOUS
<1>2. DOMAIN f = handles
  BY <1>1 DEF PrimPart
<1>3. ASSUME NEW h \in handles
      PROVE  f[h].id = <<kind, dig, path, h>> /\ f[h].refs = refs
  <2>1. PICK x : x = MemberPrim(path, dig, h)
    OBVIOUS
  <2>2. f[h] = D!Record(x, refs)
    BY <1>1, <1>3, <2>1 DEF PrimPart
  <2> QED BY <1>1, <2>1, <2>2, DxfRecordIs DEF MemberPrim
<1>4. \A h : <<kind, dig, path, h>>[1] = kind /\ <<kind, dig, path, h>>[3] = path
  OBVIOUS
<1>5. \A h, g : <<kind, dig, path, h>> = <<kind, dig, path, g>> => h = g
  OBVIOUS
<1>6. ApartEach(f, kind)
  BY <1>2, <1>3, <1>4, <1>5 DEF ApartEach
<1>7. IsFiniteSet(DOMAIN f)
  BY <1>1, <1>2, DocumentFinite
<1>8. OfKinds(ForEach(f), {kind}) /\ Ids(ForEach(f)) = {f[x].id : x \in DOMAIN f} /\ Items(ForEach(f)) = {f[x] : x \in DOMAIN f}
  <2>1. IsFiniteSet(DOMAIN f) /\ ApartEach(f, kind)
    BY <1>6, <1>7
  <2> QED BY <2>1, KindApart
<1>9. \A x \in Ids(ForEach(f)) : x[3] = path
  BY <1>2, <1>3, <1>4, <1>8
<1>10. \A r \in Items(ForEach(f)) : r.refs = refs
  BY <1>2, <1>3, <1>8
<1> QED BY <1>1, <1>8, <1>9, <1>10

LEMMA MemberSolids ==
  ASSUME NEW doc, D!IsDocument(doc), NEW path, NEW dig, NEW f, f = SolidPart(path, dig, doc)
  PROVE  /\ OfKinds(ForEach(f), {"diag_dxf_bundle"}) /\ \A r \in Items(ForEach(f)) : r.refs = {D!MemberSource(path, dig)}
         /\ \A x \in Ids(ForEach(f)) : x[2] = dig /\ D!Solids(doc) # {}
<1>1. PICK refs, solid, kind : refs = {D!MemberSource(path, dig)} /\ solid = D!Solids(doc) /\ kind = "diag_dxf_bundle"
  OBVIOUS
<1>2. DOMAIN f = solid
  BY <1>1 DEF SolidPart
<1>3. ASSUME NEW h \in solid
      PROVE  f[h].id = <<kind, dig, h>> /\ f[h].refs = refs
  <2>1. PICK x : x = MemberSolid(dig, h)
    OBVIOUS
  <2>2. f[h] = D!Record(x, refs)
    BY <1>1, <1>3, <2>1 DEF SolidPart
  <2> QED BY <1>1, <2>1, <2>2, DxfRecordIs DEF MemberSolid
<1>4. \A h : <<kind, dig, h>>[1] = kind /\ <<kind, dig, h>>[2] = dig
  OBVIOUS
<1>5. \A h, g : <<kind, dig, h>> = <<kind, dig, g>> => h = g
  OBVIOUS
<1>6. ApartEach(f, kind)
  BY <1>2, <1>3, <1>4, <1>5 DEF ApartEach
<1>7. IsFiniteSet(DOMAIN f)
  BY <1>1, <1>2, DocumentFinite
<1>8. OfKinds(ForEach(f), {kind}) /\ Ids(ForEach(f)) = {f[x].id : x \in DOMAIN f} /\ Items(ForEach(f)) = {f[x] : x \in DOMAIN f}
  <2>1. IsFiniteSet(DOMAIN f) /\ ApartEach(f, kind)
    BY <1>6, <1>7
  <2> QED BY <2>1, KindApart
<1>9. \A x \in Ids(ForEach(f)) : x[2] = dig /\ solid # {}
  BY <1>2, <1>3, <1>4, <1>8
<1>10. \A r \in Items(ForEach(f)) : r.refs = refs
  BY <1>2, <1>3, <1>8
<1> QED BY <1>1, <1>8, <1>9, <1>10

LEMMA MemberIs ==
  ASSUME NEW doc, D!IsDocument(doc), NEW path, NEW dig, NEW s, s = MemberList(path, dig, doc)
  PROVE  /\ OfKinds(s, MemberKinds) /\ \A r \in Items(s) : r.refs \subseteq Ids(s)
         /\ \A x \in Ids(s) : OfMember(x, path, dig, doc)
<1>1. PICK source, first, f, g : /\ source = D!MemberSource(path, dig) /\ first = D!Record(source, {})
                                 /\ f = PrimPart(path, dig, doc) /\ g = SolidPart(path, dig, doc)
  OBVIOUS
<1>2. PICK b, c : b = ForEach(f) /\ c = ForEach(g)
  OBVIOUS
<1>3. s = (<<first>> \o b) \o c
  BY <1>1, <1>2, DxfSame DEF MemberList, D!MemberRecords, D!MemberDiagnostics, PrimPart, SolidPart, MemberPrim, MemberSolid
<1>4. first.id = source /\ first.refs = {} /\ source[1] = "src_dxf_bundle" /\ source[3] = path
  BY <1>1, DxfRecordIs DEF D!MemberSource
<1>5. OfKinds(<<first>>, {"src_dxf_bundle"}) /\ Ids(<<first>>) = {source} /\ Items(<<first>>) = {first}
  BY <1>4, KindsFew
<1>6. OfKinds(b, {"prim_dxf_bundle"}) /\ (\A r \in Items(b) : r.refs = {source}) /\ \A x \in Ids(b) : x[3] = path
  BY <1>1, <1>2, MemberPrims
<1>7. OfKinds(c, {"diag_dxf_bundle"}) /\ (\A r \in Items(c) : r.refs = {source}) /\ \A x \in Ids(c) : x[2] = dig /\ D!Solids(doc) # {}
  BY <1>1, <1>2, MemberSolids
<1>8. PICK one, t, K2 : one = <<first>> /\ t = one \o b /\ K2 = {"src_dxf_bundle"} \cup {"prim_dxf_bundle"}
  OBVIOUS
<1>9. OfKinds(t, K2) /\ Ids(t) = {source} \cup Ids(b) /\ Items(t) = {first} \cup Items(b)
  <2>1. {"src_dxf_bundle"} \cap {"prim_dxf_bundle"} = {}
    OBVIOUS
  <2>2. OfKinds(one, {"src_dxf_bundle"}) /\ Ids(one) = {source} /\ Items(one) = {first}
    BY <1>5, <1>8
  <2>3. /\ OfKinds(t, {"src_dxf_bundle"} \cup {"prim_dxf_bundle"}) /\ Ids(t) = Ids(one) \cup Ids(b)
        /\ Items(t) = Items(one) \cup Items(b)
    BY <1>6, <1>8, <2>1, <2>2, KindsJoined
  <2> QED BY <1>8, <2>2, <2>3
<1>10. OfKinds(s, MemberKinds) /\ Ids(s) = Ids(t) \cup Ids(c) /\ Items(s) = Items(t) \cup Items(c)
  <2>1. K2 \cap {"diag_dxf_bundle"} = {}
    BY <1>8
  <2>2. K2 \cup {"diag_dxf_bundle"} = MemberKinds
    BY <1>8 DEF MemberKinds
  <2>3. s = t \o c
    BY <1>3, <1>8
  <2>4. /\ OfKinds(t \o c, K2 \cup {"diag_dxf_bundle"}) /\ Ids(t \o c) = Ids(t) \cup Ids(c)
        /\ Items(t \o c) = Items(t) \cup Items(c)
    BY <1>7, <1>9, <2>1, KindsJoined
  <2> QED BY <2>2, <2>3, <2>4
<1>11. \A r \in Items(s) : r.refs \subseteq Ids(s)
  BY <1>4, <1>6, <1>7, <1>9, <1>10
<1>12. ASSUME NEW x \in Ids(s) PROVE OfMember(x, path, dig, doc)
  <2>1. CASE x = source
    BY <1>4, <2>1 DEF OfMember
  <2>2. CASE x \in Ids(b)
    BY <1>6, <2>2 DEF OfMember, OfKinds
  <2>3. CASE x \in Ids(c)
    BY <1>7, <2>3 DEF OfMember, OfKinds
  <2> QED BY <1>9, <1>10, <1>12, <2>1, <2>2, <2>3
<1> QED BY <1>10, <1>11, <1>12

\* The members: the documents after the root, each with a path of its own.
LEMMA MembersAre ==
  ASSUME DxfInv, DxfBuilt
  PROVE  /\ D!Members \in Seq(Items(documents))
         /\ \A k \in DOMAIN D!Members : D!IsDocument(D!Members[k].doc)
         /\ \A j, k \in DOMAIN D!Members : D!Members[j].path = D!Members[k].path => j = k
         /\ (~D!Bundled => DOMAIN D!Members = {})
<1>1. IsList(documents) /\ DocumentsBuilt
  BY DEF DxfInv, DxfBuilt
<1>2. PICK n \in Nat : n = Len(documents) /\ DOMAIN documents = 1..n
  BY <1>1, ListIs
<1>3. PICK docs, T : docs = documents /\ T = Items(documents)
  OBVIOUS
<1>4. docs \in Seq(T) /\ Len(docs) = n
  BY <1>1, <1>2, <1>3 DEF IsList
<1>5. PICK members : members = SubSeq(docs, 2, n)
  OBVIOUS
<1>6. /\ members \in Seq(T) /\ DOMAIN members = 1..(n - 1)
      /\ \A k \in 1..(n - 1) : members[k] = docs[k + 1] /\ k + 1 \in 1..n
  <2>1. CASE n = 0
    <3>1. members = <<>>
      BY <1>4, <1>5, <2>1
    <3> QED BY <2>1, <3>1
  <2>2. CASE n # 0
    <3>1. \A k \in 2..n : docs[k] \in T
      BY <1>4
    <3>2. members \in Seq(T) /\ Len(members) = n - 1 /\ \A k \in 1..(n - 1) : members[k] = docs[k + 1]
      BY <1>2, <1>4, <1>5, <2>2, <3>1
    <3>3. DOMAIN members = 1..(n - 1)
      BY <3>2
    <3>4. \A k \in 1..(n - 1) : k + 1 \in 1..n
      BY <1>2, <2>2
    <3> QED BY <3>2, <3>3, <3>4
  <2> QED BY <2>1, <2>2
<1>7. D!Members = members
  BY <1>2, <1>3, <1>5 DEF D!Members
<1>8. \A k \in 1..(n - 1) : D!IsDocument(members[k].doc)
  BY <1>1, <1>2, <1>3, <1>6 DEF DocumentsBuilt
<1>9. ASSUME NEW j \in 1..(n - 1), NEW k \in 1..(n - 1), members[j].path = members[k].path PROVE j = k
  <2>1. \A x, y \in 1..n : docs[x].path = docs[y].path => x = y
    BY <1>1, <1>2, <1>3 DEF DocumentsBuilt
  <2>2. PICK x, y : x = j + 1 /\ y = k + 1
    OBVIOUS
  <2>3. x \in 1..n /\ y \in 1..n /\ docs[x].path = docs[y].path
    BY <1>6, <1>9, <2>2
  <2>4. x = y
    BY <2>1, <2>3
  <2> QED BY <1>2, <2>2, <2>4
<1>10. ASSUME ~D!Bundled PROVE 1..(n - 1) = {}
  <2>1. n \in 0..1
    BY <1>1, <1>2, <1>10 DEF DocumentsBuilt
  <2> QED BY <2>1
<1> QED BY <1>3, <1>6, <1>7, <1>8, <1>9, <1>10

\* The records of the members do not meet: each is of a path of its own, each diagnostic of a content of its own.
LEMMA MembersRecorded ==
  ASSUME DxfInv, DxfBuilt, D!Bundled => D!DistinctSolids,
         NEW s, s = D!Concat([k \in DOMAIN D!Members |-> MemberList(D!Members[k].path, D!Digest(D!Members[k].path), D!Members[k].doc)])
  PROVE  OfKinds(s, MemberKinds) /\ \A r \in Items(s) : r.refs \subseteq Ids(s)
<1>1. PICK members : members = D!Members
  OBVIOUS
<1>2. PICK m \in Nat : m = Len(members) /\ DOMAIN members = 1..m
  BY <1>1, MembersAre
<1>3. /\ \A k \in 1..m : D!IsDocument(members[k].doc)
      /\ \A j, k \in 1..m : members[j].path = members[k].path => j = k
      /\ ~D!Bundled => 1..m = {}
  BY <1>1, <1>2, MembersAre
<1>4. PICK lists : lists = [k \in 1..m |-> MemberList(members[k].path, D!Digest(members[k].path), members[k].doc)]
  OBVIOUS
<1>5. IsList(lists) /\ DOMAIN lists = 1..m
  <2>1. lists = [k \in 1..m |-> lists[k]]
    BY <1>4
  <2> QED BY <2>1, FunctionIsList
<1>6. s = Concat(lists)
  BY <1>1, <1>2, <1>4, DxfSame
<1>7. ASSUME NEW k \in 1..m
      PROVE  /\ OfKinds(lists[k], MemberKinds) /\ \A r \in Items(lists[k]) : r.refs \subseteq Ids(lists[k])
             /\ \A x \in Ids(lists[k]) : OfMember(x, members[k].path, D!Digest(members[k].path), members[k].doc)
  <2>1. PICK doc, path, dig, list : /\ doc = members[k].doc /\ path = members[k].path /\ dig = D!Digest(path)
                                    /\ list = MemberList(path, dig, doc)
    OBVIOUS
  <2>2. D!IsDocument(doc)
    BY <1>3, <1>7, <2>1
  <2>3. /\ OfKinds(list, MemberKinds) /\ \A r \in Items(list) : r.refs \subseteq Ids(list)
        /\ \A x \in Ids(list) : OfMember(x, path, dig, doc)
    BY <2>1, <2>2, MemberIs
  <2>4. lists[k] = list
    BY <1>4, <1>7, <2>1
  <2> QED BY <2>1, <2>3, <2>4
<1>8. \A k \in DOMAIN lists : IsList(lists[k]) /\ Distinct(lists[k])
  BY <1>5, <1>7 DEF OfKinds, Distinct
<1>9. ASSUME NEW j \in 1..m, NEW k \in 1..m, NEW x \in Ids(lists[j]), x \in Ids(lists[k]) PROVE j = k
  <2>1. PICK p, q, a, b : p = members[j] /\ q = members[k] /\ a = D!Digest(p.path) /\ b = D!Digest(q.path)
    OBVIOUS
  <2>2. OfMember(x, p.path, a, p.doc) /\ OfMember(x, q.path, b, q.doc)
    BY <1>7, <1>9, <2>1
  <2>3. CASE x[1] \in {"src_dxf_bundle", "prim_dxf_bundle"}
    <3>1. p.path = q.path
      BY <2>2, <2>3 DEF OfMember
    <3> QED BY <1>3, <2>1, <3>1
  <2>4. CASE x[1] \notin {"src_dxf_bundle", "prim_dxf_bundle"}
    <3>1. a = b /\ D!Solids(p.doc) # {}
      BY <2>2, <2>4 DEF OfMember
    <3>2. D!Bundled
      BY <1>3, <1>9
    <3>3. D!DistinctSolids
      BY <3>2
    <3>4. j # k /\ D!Solids(p.doc) # {} => a # b
      BY <1>1, <1>2, <2>1, <3>3 DEF D!DistinctSolids
    <3> QED BY <3>1, <3>4
  <2> QED BY <2>3, <2>4
<1>10. Distinct(s) /\ Items(s) = Joins(lists)
  <2>1. \A j, k \in DOMAIN lists : \A x \in Ids(lists[j]) : x \in Ids(lists[k]) => j = k
    BY <1>5, <1>9
  <2> QED BY <1>5, <1>6, <1>8, <2>1, ConcatIs
<1>11. \A r \in Items(s) : r.id \in Ids(s)
  BY IdsAre
<1>12. \A k \in 1..m : Ids(lists[k]) \subseteq Ids(s)
  <2>1. ASSUME NEW k \in 1..m, NEW x \in Ids(lists[k]) PROVE x \in Ids(s)
    <3>1. PICK r \in Items(lists[k]) : x = r.id
      BY <2>1, IdsAre
    <3>2. r \in Items(s)
      BY <1>5, <1>10, <3>1 DEF Joins
    <3> QED BY <1>11, <3>1, <3>2
  <2> QED BY <2>1
<1>13. \A r \in Items(s) : r.refs \subseteq Ids(s) /\ r.id[1] \in MemberKinds
  <2>1. ASSUME NEW r \in Items(s) PROVE r.refs \subseteq Ids(s) /\ r.id[1] \in MemberKinds
    <3>1. PICK k \in 1..m : r \in Items(lists[k])
      BY <1>5, <1>10, <2>1 DEF Joins
    <3>2. r.refs \subseteq Ids(lists[k])
      BY <1>7, <3>1
    <3>3. r.id \in Ids(lists[k])
      BY <3>1, IdsAre
    <3>4. r.id[1] \in MemberKinds
      BY <1>7, <3>3 DEF OfKinds
    <3> QED BY <1>12, <3>2, <3>4
  <2> QED BY <2>1
<1>14. \A x \in Ids(s) : x[1] \in MemberKinds
  BY <1>13, IdsAre
<1> QED BY <1>10, <1>13, <1>14 DEF OfKinds

(***************************************************************************)
(* The records of a DXF file or of a bundle of them.                       *)
(***************************************************************************)
LEMMA DxfRecordsClosed == ASSUME DxfInv, DxfBuilt PROVE D!DxfRecordsAreClosed
<1> SUFFICES ASSUME D!Written, D!Bundled => D!DistinctSolids
             PROVE  /\ D!Cardinality({records[a].id : a \in DOMAIN records}) = Len(records)
                    /\ \A a \in DOMAIN records : records[a].refs \subseteq {records[b].id : b \in DOMAIN records}
  BY DEF D!DxfRecordsAreClosed
<1>1. PICK doc, version, bundled, source, first : /\ doc = D!Root /\ version = job.version /\ bundled = D!Bundled
                                                  /\ source = D!RootSource /\ first = D!Record(source, {})
  OBVIOUS
<1>2. PICK s, t, u : /\ s = D!RootRecords(doc, version) /\ t = D!RootDiagnostics(doc, version, D!Bundled)
                     /\ u = D!Concat([k \in DOMAIN D!Members |-> MemberList(D!Members[k].path, D!Digest(D!Members[k].path), D!Members[k].doc)])
  OBVIOUS
<1>3. records = ((<<first>> \o s) \o t) \o u
  <2>1. records = D!AllRecords
    BY DEF DxfBuilt, EndBuilt, D!Written
  <2> QED BY <1>1, <1>2, <2>1 DEF D!AllRecords, MemberList
<1>4. D!IsDocument(doc)
  <2>1. documents # <<>> /\ IsList(documents) /\ DocumentsBuilt
    BY DEF DxfBuilt, DxfInv, DocumentsBuilt, D!Written
  <2>2. PICK n \in Nat : n = Len(documents) /\ DOMAIN documents = 1..n
    BY <2>1, ListIs
  <2>3. n # 0
    BY <2>1, <2>2, ListIs
  <2>4. 1 \in DOMAIN documents
    BY <2>2, <2>3
  <2> QED BY <1>1, <2>1, <2>4 DEF DocumentsBuilt, D!Root
<1>5. PICK names : names = DxfNames(doc)
  OBVIOUS
<1>6. Naming(s, RootKinds, names) /\ names \subseteq {source} \cup Ids(s)
  BY <1>1, <1>2, <1>4, <1>5, RootRecorded
<1>7. Naming(t, {"diag_dxf_loss", "diag_dxf_v02_3d"}, names)
  BY <1>2, <1>4, <1>5, RootDiagnosed
<1>8. OfKinds(u, MemberKinds) /\ \A r \in Items(u) : r.refs \subseteq Ids(u)
  BY <1>2, MembersRecorded
<1>9. PICK one, os, ost, K1, K2 : /\ one = <<first>> /\ os = one \o s /\ ost = os \o t
                                  /\ K1 = {"src"} \cup RootKinds /\ K2 = K1 \cup {"diag_dxf_loss", "diag_dxf_v02_3d"}
  OBVIOUS
<1>10. Naming(one, {"src"}, names) /\ Ids(one) = {source}
  <2>1. first.id = source /\ first.refs = {} /\ source[1] = "src"
    BY <1>1, DxfRecordIs DEF D!RootSource
  <2>2. OfKinds(<<first>>, {"src"}) /\ Ids(<<first>>) = {source} /\ Items(<<first>>) = {first}
    BY <2>1, KindsFew
  <2> QED BY <1>9, <2>1, <2>2 DEF Naming
<1>11. Naming(os, K1, names) /\ Ids(os) = Ids(one) \cup Ids(s)
  <2>1. {"src"} \cap RootKinds = {}
    BY DEF RootKinds
  <2>2. Naming(one \o s, {"src"} \cup RootKinds, names) /\ Ids(one \o s) = Ids(one) \cup Ids(s)
    BY <1>6, <1>10, <2>1, NamingJoined
  <2> QED BY <1>9, <2>2
<1>12. Naming(ost, K2, names) /\ Ids(ost) = Ids(os) \cup Ids(t)
  <2>1. K1 \cap {"diag_dxf_loss", "diag_dxf_v02_3d"} = {}
    BY <1>9 DEF RootKinds
  <2>2. Naming(os \o t, K1 \cup {"diag_dxf_loss", "diag_dxf_v02_3d"}, names) /\ Ids(os \o t) = Ids(os) \cup Ids(t)
    BY <1>7, <1>11, <2>1, NamingJoined
  <2> QED BY <1>9, <2>2
<1>13. K2 \cap MemberKinds = {}
  BY <1>9 DEF RootKinds, MemberKinds
<1>14. OfKinds(ost, K2) /\ \A r \in Items(ost) : r.refs \subseteq names
  BY <1>12 DEF Naming
<1>15. PICK all : all = ost \o u
  OBVIOUS
<1>16. Cardinality(Ids(all)) = Len(all) /\ Ids(all) = Ids(ost) \cup Ids(u) /\ Items(all) = Items(ost) \cup Items(u)
  BY <1>8, <1>13, <1>14, <1>15, PackageCounted
<1>17. names \subseteq Ids(all)
  BY <1>6, <1>10, <1>11, <1>12, <1>16
<1>18. \A r \in Items(all) : r.refs \subseteq Ids(all)
  BY <1>8, <1>14, <1>16, <1>17
<1>19. records = all
  BY <1>3, <1>9, <1>15
<1>20. {records[a].id : a \in DOMAIN records} = Ids(all)
  BY <1>19 DEF Ids
<1>21. \A a \in DOMAIN records : records[a] \in Items(all)
  BY <1>19 DEF Items
<1> QED BY <1>16, <1>18, <1>19, <1>20, <1>21, DxfSame

\* The visit of a DXF bundle, in every reachable state of a call that ingests one.
THEOREM DxfVisited == Spec => [](command = "dxf" => DxfBuilt /\ DxfRead)
<1>1. Init /\ IngestInv => (command = "dxf" => DxfBuilt /\ DxfRead)
  <2> SUFFICES ASSUME Init, IngestInv, command = "dxf" PROVE DxfBuilt /\ DxfRead
    OBVIOUS
  <2>1. D!Init
    BY DEF Init, Component
  <2> QED BY <2>1, DxfBuiltInit, DxfReadInit
<1>2. IngestInv /\ (command = "dxf" => DxfBuilt /\ DxfRead) /\ [Next]_vars => (command = "dxf" => DxfBuilt /\ DxfRead)'
  <2> SUFFICES ASSUME IngestInv, command = "dxf" => DxfBuilt /\ DxfRead, [Next]_vars, command' = "dxf"
               PROVE  DxfBuilt' /\ DxfRead'
    OBVIOUS
  <2>1. command' = command /\ (command = "dxf" => [D!Next]_(D!vars))
    BY StepIsOfComponent
  <2>2. DxfInv /\ DxfBuilt /\ DxfRead
    BY <2>1 DEF IngestInv
  <2> QED BY <2>1, <2>2, DxfBuiltKeeps, DxfReadKeeps
<1> QED BY <1>1, <1>2, IngestInvariant, PTL DEF Spec

(***************************************************************************)
(* Packages are closed: the identifiers of what is written are distinct,   *)
(* and what a record, a diagnostic or a file of the package names is in    *)
(* the package.                                                            *)
(***************************************************************************)
THEOREM PackagesClosed == Spec => []PackagesAreClosed
<1>1. BuiltInv /\ (command = "dxf" => DxfBuilt /\ DxfRead) => PackagesAreClosed
  <2> SUFFICES ASSUME BuiltInv, command = "dxf" => DxfBuilt /\ DxfRead PROVE PackagesAreClosed
    OBVIOUS
  <2>1. command = "raster" => R!WrittenIsClosed
    BY RasterClosed DEF BuiltInv
  <2>2. command = "dxf" => D!DxfRecordsAreClosed /\ D!AcceptedIsClosed
    BY DxfRecordsClosed, AcceptedClosed DEF BuiltInv, IngestInv
  <2>3. command = "ifc" => I!IfcRecordsAreClosed
    BY IfcClosed DEF BuiltInv
  <2>4. command = "exchange" => E!ExchangeIsClosed
    BY ExchangeClosed DEF BuiltInv
  <2>5. command = "geometry" => G!MeshIsClosed
    BY MeshClosed DEF BuiltInv, IngestInv
  <2> QED BY <2>1, <2>2, <2>3, <2>4, <2>5 DEF PackagesAreClosed
<1> QED BY <1>1, BuiltInvariant, DxfVisited, PTL
=============================================================================
