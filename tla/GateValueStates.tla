-------------------------- MODULE GateValueStates --------------------------
(***************************************************************************)
(* evaluate_value_state_check of src/aecctx/gate/evaluator.py for one      *)
(* record and a policy without field_path: _selected_values walks the      *)
(* record's mappings and arrays, and the loop unpacks what it yields into  *)
(* a location and the selected value.                                      *)
(*                                                                         *)
(* A value is a leaf, a mapping or an array; a JSON pointer is the         *)
(* sequence of its tokens, and only its length in characters matters       *)
(* besides: what the walk yields is the pointer string itself, which the   *)
(* loop unpacks as if it were a pair.                                      *)
(***************************************************************************)
EXTENDS GateOutcome, Sequences, SequencesExt

CONSTANTS
  KeyOrder,   \* the keys a mapping may have, as a sequence in sorted order
  KeyLength,  \* KeyLength[key]: its number of characters
  Records,    \* the record contents considered
  ValueStates,\* the governed states other than "known"
  Action      \* Action[state]: "allow", "requires_review" or "fail"

Leaf(x) == [kind |-> "leaf", leaf |-> x]
Mapping(f) == [kind |-> "mapping", at |-> f]
Array(s) == [kind |-> "array", items |-> s]

HasState(value) == value.kind = "mapping" /\ "state" \in DOMAIN value.at

VARIABLES
  record,    \* record.raw
  pc,        \* "select", "evaluate", then "done" or "raised"
  selected,  \* the yields not yet consumed
  findings   \* [location, disposition] of the findings so far

vars == <<record, pc, selected, findings>>

Init ==
  /\ record \in Records
  /\ pc = "select"
  /\ selected = <<>>
  /\ findings = {}

\* _selected_values: the pointer of every mapping with a "state" member, in key
\* and index order.  The annotation promises pairs; only the pointer is yielded.
RECURSIVE SelectedValues(_, _)
SelectedValues(value, pointer) ==
  LET here == IF HasState(value) THEN <<pointer>> ELSE <<>>
      below == CASE value.kind = "mapping" ->
                      LET keys == SelectSeq(KeyOrder, LAMBDA key : key \in DOMAIN value.at)
                      IN [j \in DOMAIN keys |-> SelectedValues(value.at[keys[j]], Append(pointer, keys[j]))]
                 [] value.kind = "array" ->
                      [j \in DOMAIN value.items |-> SelectedValues(value.items[j], Append(pointer, j - 1))]
                 [] OTHER -> <<>>
  IN here \o FlattenSeq(below)

\* The characters of a pointer: "/" alone, or "/token" for every token.
TokenLength(token) == IF token \in DOMAIN KeyLength THEN KeyLength[token] ELSE 1
PointerLength(pointer) ==
  IF pointer = <<>> THEN 1 ELSE FoldSeq(LAMBDA token, n : n + 1 + TokenLength(token), 0, pointer)

Select ==
  /\ pc = "select"
  /\ selected' = SelectedValues(record, <<>>)
  /\ pc' = "evaluate"
  /\ UNCHANGED <<record, findings>>

\* `for location, selected in selected_values`: a string of two characters
\* unpacks into "/" and a character, which is no mapping; any other raises.
Evaluate ==
  /\ pc = "evaluate"
  /\ selected # <<>>
  /\ IF PointerLength(Head(selected)) = 2
       THEN /\ findings' = findings \cup {[location |-> <<>>, disposition |-> "error"]}
            /\ UNCHANGED pc
       ELSE /\ pc' = "raised"
            /\ UNCHANGED findings
  /\ selected' = Tail(selected)
  /\ UNCHANGED record

Done ==
  /\ pc = "evaluate"
  /\ selected = <<>>
  /\ pc' = "done"
  /\ UNCHANGED <<record, selected, findings>>

Next == Select \/ Evaluate \/ Done

Spec == Init /\ [][Next]_vars

-----------------------------------------------------------------------------
(* Properties.                                                             *)

\* The value at a pointer.
RECURSIVE At(_, _)
At(value, pointer) ==
  IF pointer = <<>> THEN value
  ELSE At(IF value.kind = "mapping" THEN value.at[Head(pointer)] ELSE value.items[Head(pointer) + 1], Tail(pointer))

\* The finding a mapping with a "state" member calls for, as a set.
Verdict(pointer) ==
  LET state == At(record, pointer).at["state"] IN
  IF state.kind # "leaf" \/ state.leaf \notin ValueStates \cup {"known"}
    THEN {[location |-> pointer, disposition |-> "error"]}
  ELSE IF state.leaf = "known" \/ Action[state.leaf] = "allow" THEN {}
  ELSE {[location |-> pointer, disposition |-> Action[state.leaf]]}

\* "Without a field path, mappings and arrays are traversed in deterministic
\* key/index order and every object containing `state` is evaluated"
\* (docs/specs/quality-gate-v02-profile.md, section 6.3): the check of
\* evaluate_value_state_check ends with the finding each such object calls for.
EveryStateIsEvaluated ==
  /\ pc # "raised"
  /\ pc = "done" => findings = UNION {Verdict(p) : p \in ToSet(SelectedValues(record, <<>>))}
=============================================================================
