----------------------------- MODULE GateWaivers -----------------------------
(***************************************************************************)
(* apply_waivers and _validate_waiver_control of                           *)
(* src/aecctx/gate/evaluator.py.  The waivers of a policy are an array:    *)
(* a first loop rejects a malformed control state, a second one classifies *)
(* every waiver against the original findings, a third one rebuilds the    *)
(* checks.  The state machine takes one turn of one loop per step, so that *)
(* what a result owes to the order of the array can be told from what it   *)
(* owes to the waivers.                                                    *)
(*                                                                         *)
(* A finding is its fingerprint and its disposition ("none": the check has *)
(* no such finding); instants are numbers.                                 *)
(***************************************************************************)
EXTENDS GateOutcome, Sequences

CONSTANTS
  Declared,        \* result ids of the checks the policy declares
  Fingerprints,    \* finding fingerprints
  WaiverIds,       \* waiver identifiers
  Targets,         \* the <<check, fingerprint>> pairs waivers may name
  Intervals,       \* the <<issued, expires>> pairs waivers may carry
  EvaluationTime,  \* the policy's evaluation_time
  Unparsable,      \* an instant that is not RFC 3339 UTC
  MaxWaivers       \* bound: length of the waiver array

Dispositions == {"none", "waived", "requires_review", "fail", "error"}
Waivers == [id : WaiverIds, target : Targets, interval : Intervals]
WaiverArrays == UNION {[1..n -> Waivers] : n \in 0..MaxWaivers}

ASSUME WaiverAssumption ==
  /\ EvaluationTime \in Nat
  /\ Unparsable \notin Nat
  /\ Targets \subseteq {t[1] : t \in Targets} \X Fingerprints
  /\ Intervals \subseteq (Nat \cup {Unparsable}) \X (Nat \cup {Unparsable})
  /\ MaxWaivers \in Nat

VARIABLES
  evaluated,  \* the checks that have a result (keys of checks_by_id)
  original,   \* original[c][f]: disposition of finding f in the result of check c
  waivers,    \* policy.waivers
  waiverPc,   \* "control", "classify", "rebuild", then "done" or "raised"
  i,          \* index of the waiver the current loop is at
  updates,    \* updates[c]: the findings of c to be waived (finding_updates)
  floors,     \* the checks forced to at least requires_review (review_floors)
  diagnostics,\* <<code, waiver id>> pairs
  unbuilt,    \* the checks the rebuilding loop has not reached
  final,      \* final[c]: [status, findings] of check c
  error       \* the code of the GateError raised, or "none"

waiverVars == <<evaluated, original, waivers, waiverPc, i, updates, floors, diagnostics, unbuilt, final, error>>
policyInput == <<evaluated, original, waivers>>

FindingsOf(disposition) == {f \in Fingerprints : disposition[f] # "none"}

\* _check_result: the status of a check is its highest finding disposition.
StatusOf(disposition) == Highest({disposition[f] : f \in FindingsOf(disposition)}, "pass")

WaiverInit ==
  /\ evaluated \in SUBSET Declared
  /\ original \in [Declared -> [Fingerprints -> Dispositions]]
  /\ \A c \in Declared, f \in Fingerprints :
       c \notin evaluated \/ <<c, f>> \notin Targets => original[c][f] = "none"
  /\ waivers \in WaiverArrays
  /\ waiverPc = "control"
  /\ i = 1
  /\ updates = [c \in Declared |-> {}]
  /\ floors = {}
  /\ diagnostics = {}
  /\ unbuilt = evaluated
  /\ final = [c \in Declared |-> [status |-> StatusOf(original[c]), findings |-> original[c]]]
  /\ error = "none"

RaiseGateError(code) ==
  /\ waiverPc' = "raised"
  /\ error' = code

-----------------------------------------------------------------------------
(* _validate_waiver_control                                                *)

Check(w) == w.target[1]
Fingerprint(w) == w.target[2]

\* _parse_utc of both instants, then issued_at >= expires_at.
BadInterval(w) ==
  \/ Unparsable \in {w.interval[1], w.interval[2]}
  \/ w.interval[1] >= w.interval[2]

Seen == {waivers[j] : j \in 1..(i - 1)}

\* The first defect of waiver w, in the order of the code's tests.
Defect(w) ==
  IF \E v \in Seen : v.id = w.id THEN "ID_DUPLICATE"
  ELSE IF Check(w) \notin Declared THEN "CHECK_INVALID"
  ELSE IF \E v \in Seen : v.target = w.target THEN "DUPLICATE_TARGET"
  ELSE IF Check(w) \notin evaluated THEN "CHECK_MISSING"
  ELSE IF BadInterval(w) THEN "INTERVAL_INVALID"
  ELSE "none"

Control ==
  /\ waiverPc = "control"
  /\ i <= Len(waivers)
  /\ IF Defect(waivers[i]) # "none"
       THEN RaiseGateError(Defect(waivers[i])) /\ UNCHANGED i
       ELSE i' = i + 1 /\ UNCHANGED <<waiverPc, error>>
  /\ UNCHANGED <<policyInput, updates, floors, diagnostics, unbuilt, final>>

ControlDone ==
  /\ waiverPc = "control"
  /\ i > Len(waivers)
  /\ waiverPc' = "classify"
  /\ i' = 1
  /\ UNCHANGED <<policyInput, updates, floors, diagnostics, unbuilt, final, error>>

-----------------------------------------------------------------------------
(* The classification of one waiver against the original findings.        *)

NotYetValid(w) == EvaluationTime < w.interval[1]
Expired(w) == ~NotYetValid(w) /\ EvaluationTime >= w.interval[2]
Active(w) == ~NotYetValid(w) /\ ~Expired(w)

Note(code, w) == diagnostics' = diagnostics \cup {<<code, w.id>>}

\* Mutant: an inactive waiver floors its finding instead of its check.
InactiveFloorsFinding(w) ==
  /\ NotYetValid(w) \/ Expired(w)
  /\ Note("EXPIRED", w)
  /\ floors' = floors \cup {w.target}
  /\ i' = i + 1
  /\ UNCHANGED <<waiverPc, error, updates>>

Inactive(w) ==
  /\ NotYetValid(w) \/ Expired(w)
  /\ Note(IF NotYetValid(w) THEN "NOT_YET_VALID" ELSE "EXPIRED", w)
  /\ i' = i + 1
  /\ UNCHANGED <<waiverPc, error, updates, floors>>

\* An active waiver of a finding the check does not have.
Mismatch(w) ==
  /\ Active(w)
  /\ original[Check(w)][Fingerprint(w)] = "none"
  /\ Note("FINDING_MISMATCH", w)
  /\ floors' = floors \cup {Check(w)}
  /\ i' = i + 1
  /\ UNCHANGED <<waiverPc, error, updates>>

\* Mutant: a waiver may also silence an error finding.
NotWaivableExceptErrors(w) ==
  /\ Active(w)
  /\ original[Check(w)][Fingerprint(w)] \in {"waived", "error"}
  /\ IF original[Check(w)][Fingerprint(w)] = "waived"
       THEN RaiseGateError("DISPOSITION_INVALID") /\ UNCHANGED <<i, updates>>
       ELSE /\ updates' = [updates EXCEPT ![Check(w)] = @ \cup {Fingerprint(w)}]
            /\ i' = i + 1
            /\ UNCHANGED <<waiverPc, error>>
  /\ UNCHANGED <<floors, diagnostics>>

NotWaivable(w) ==
  /\ Active(w)
  /\ original[Check(w)][Fingerprint(w)] \in {"waived", "error"}
  /\ RaiseGateError("DISPOSITION_INVALID")
  /\ UNCHANGED <<i, updates, floors, diagnostics>>

Match(w) ==
  /\ Active(w)
  /\ original[Check(w)][Fingerprint(w)] \in {"fail", "requires_review"}
  /\ updates' = [updates EXCEPT ![Check(w)] = @ \cup {Fingerprint(w)}]
  /\ i' = i + 1
  /\ UNCHANGED <<waiverPc, error, floors, diagnostics>>

Classify ==
  /\ waiverPc = "classify"
  /\ i <= Len(waivers)
  /\ LET w == waivers[i] IN Inactive(w) \/ Mismatch(w) \/ NotWaivable(w) \/ Match(w)
  /\ UNCHANGED <<policyInput, unbuilt, final>>

ClassifyDone ==
  /\ waiverPc = "classify"
  /\ i > Len(waivers)
  /\ waiverPc' = "rebuild"
  /\ UNCHANGED <<policyInput, i, updates, floors, diagnostics, unbuilt, final, error>>

-----------------------------------------------------------------------------
(* The recomputation of one check, after all waivers are classified.       *)

Waived(c) == [f \in Fingerprints |-> IF f \in updates[c] THEN "waived" ELSE original[c][f]]

\* Mutant: the review floor replaces the recomputed status.
RebuildFloorWins(c) ==
  /\ waiverPc = "rebuild"
  /\ c \in unbuilt
  /\ unbuilt' = unbuilt \ {c}
  /\ final' = [final EXCEPT ![c] = [status |-> IF c \in floors THEN "requires_review" ELSE StatusOf(Waived(c)),
                                    findings |-> Waived(c)]]
  /\ UNCHANGED <<policyInput, waiverPc, i, updates, floors, diagnostics, error>>

Rebuild(c) ==
  /\ waiverPc = "rebuild"
  /\ c \in unbuilt
  /\ unbuilt' = unbuilt \ {c}
  /\ IF updates[c] = {} /\ c \notin floors
       THEN UNCHANGED final
       ELSE LET status == StatusOf(Waived(c))
                floor == IF c \in floors THEN {"requires_review"} ELSE {}
            IN final' = [final EXCEPT ![c] = [status |-> Highest({status} \cup floor, "pass"),
                                              findings |-> Waived(c)]]
  /\ UNCHANGED <<policyInput, waiverPc, i, updates, floors, diagnostics, error>>

RebuildDone ==
  /\ waiverPc = "rebuild"
  /\ unbuilt = {}
  /\ waiverPc' = "done"
  /\ UNCHANGED <<policyInput, i, updates, floors, diagnostics, unbuilt, final, error>>

WaiverNext ==
  \/ Control \/ ControlDone
  \/ Classify \/ ClassifyDone
  \/ (\E c \in Declared : Rebuild(c)) \/ RebuildDone

WaiverSpec == WaiverInit /\ [][WaiverNext]_waiverVars

-----------------------------------------------------------------------------
(* Properties.                                                             *)

\* The types of the locals of apply_waivers.
WaiverTypeOK ==
  /\ evaluated \subseteq Declared
  /\ original \in [Declared -> [Fingerprints -> Dispositions]]
  /\ waivers \in Seq(Waivers)
  /\ waiverPc \in {"control", "classify", "rebuild", "done", "raised"}
  /\ i \in Nat
  /\ updates \in [Declared -> SUBSET Fingerprints]
  /\ floors \subseteq Declared
  /\ unbuilt \subseteq evaluated
  /\ final \in [Declared -> [status : Statuses, findings : [Fingerprints -> Dispositions]]]

TheWaivers == {waivers[j] : j \in DOMAIN waivers}
ActiveOn(c, f) == \E w \in TheWaivers : w.target = <<c, f>> /\ Active(w)

\* What the profile says of the set of waivers, whatever their order:
\* docs/specs/quality-gate-v02-profile.md, section 9.
ReferenceFindings(c) ==
  [f \in Fingerprints |->
     IF original[c][f] \in {"fail", "requires_review"} /\ ActiveOn(c, f) THEN "waived" ELSE original[c][f]]

ReferenceCheckStatus(c) ==
  LET dispositions == {ReferenceFindings(c)[f] : f \in FindingsOf(original[c])}
      stale == \E f \in Fingerprints : original[c][f] = "none" /\ ActiveOn(c, f)
  IN Highest(dispositions \cup (IF stale THEN {"requires_review"} ELSE {}), "pass")

\* The result of apply_waivers is that of the set of waivers: findings and
\* status of every check, so that no order of the array changes a result.
OrderDoesNotMatter ==
  waiverPc = "done" => \A c \in evaluated :
    final[c] = [status |-> ReferenceCheckStatus(c), findings |-> ReferenceFindings(c)]

Indices == DOMAIN waivers

Malformed ==
  \/ \E j, k \in Indices : j # k /\ (waivers[j].id = waivers[k].id \/ waivers[j].target = waivers[k].target)
  \/ \E w \in TheWaivers : Check(w) \notin evaluated \/ BadInterval(w)

Unwaivable ==
  \E c \in evaluated, f \in Fingerprints : original[c][f] \in {"error", "waived"} /\ ActiveOn(c, f)

\* apply_waivers raises exactly when the waivers, as a set with multiplicities,
\* are malformed or an active one names a finding that cannot be waived; no
\* defect is silently skipped because another waiver came first.
RaisesExactlyOnDefects ==
  /\ waiverPc = "done" => ~Malformed /\ ~Unwaivable
  /\ waiverPc = "raised" => Malformed \/ Unwaivable

\* A waiver never creates a pass: a check that had a finding, or that an active
\* waiver names in vain, does not pass, and a result passes only if every
\* check had passed without any waiver in force.
NoPassFromWaivers ==
  waiverPc = "done" =>
    /\ \A c \in evaluated : final[c].status = "pass" =>
         FindingsOf(original[c]) = {} /\ ~\E f \in Fingerprints : ActiveOn(c, f)
    /\ Aggregate({final[c].status : c \in evaluated}) = "pass" =>
         /\ \A c \in evaluated : StatusOf(original[c]) = "pass"
         /\ ~\E w \in TheWaivers : Active(w)
=============================================================================
