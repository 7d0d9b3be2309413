-------------------------------- MODULE Lists --------------------------------
(***************************************************************************)
(* The lists that the adapters put their packages together from, and that  *)
(* a reader cuts.  All are plain definitions or functions, without an      *)
(* operator that is recursive, so that proofs can use them.                *)
(***************************************************************************)
EXTENDS Naturals, Sequences, FiniteSetsExt

(* What is in a list, and what a list is. *)
Items(s) == {s[i] : i \in DOMAIN s}
IsList(s) == s \in Seq(Items(s))

Last(s) == s[Len(s)]
Front(s) == SubSeq(s, 1, Len(s) - 1)

Concat(lists) ==
    LET joined[k \in 0..Len(lists)] == IF k = 0 THEN <<>> ELSE joined[k - 1] \o lists[k]
    IN  joined[Len(lists)]

(* A finite set of numbers in ascending order. *)
Ascending(S) == [k \in 1..Cardinality(S) |-> CHOOSE x \in S : Cardinality({y \in S : y < x}) = k - 1]

(* The items of a list that are in T, in their order. *)
Filtered(s, T) ==
    LET filtered[k \in 0..Len(s)] ==
            IF k = 0 THEN <<>> ELSE IF s[k] \in T THEN Append(filtered[k - 1], s[k]) ELSE filtered[k - 1]
    IN  filtered[Len(s)]

(* A finite set in some order, and the values of a function on it. *)
Some(S) == CHOOSE x \in S : TRUE
Enumeration(S) ==
    LET taken[k \in 0..Cardinality(S)] == IF k = 0 THEN {} ELSE taken[k - 1] \cup {Some(S \ taken[k - 1])}
    IN  [k \in 1..Cardinality(S) |-> Some(S \ taken[k - 1])]
ForEach(f) == LET order == Enumeration(DOMAIN f) IN [k \in DOMAIN order |-> f[order[k]]]

=============================================================================
