------------------------- MODULE MCGateValueStates -------------------------
(* Records of at most two levels: a state object at the root, under a long  *)
(* or a one-character key, in an array, or nowhere.                         *)
EXTENDS GateValueStates, FiniteSets

MCKeyOrder == <<"state", "value", "x">>
MCKeyLength == [key \in {"state", "value", "x"} |-> IF key = "x" THEN 1 ELSE 5]
MCValueStates == {"unknown", "unsupported", "conflicted", "explicit_null", "not_applicable"}
MCAction == [s \in MCValueStates |->
  IF s = "unknown" THEN "allow" ELSE IF s = "conflicted" THEN "fail" ELSE "requires_review"]

Leaves == {Leaf(s) : s \in {"known", "unknown", "unsupported", "conflicted", "ungoverned"}}
Level1 == Leaves \cup {Mapping(f) : f \in [{"state"} -> Leaves] \cup [{"state", "value"} -> Leaves]}
MCRecords ==
  {Mapping(f) : f \in UNION {[K -> Level1] : K \in {{"x"}, {"value"}, {"state"}, {"value", "x"}}}}
    \cup {Mapping([key \in {"value"} |-> Array(<<u, v>>)]) : u \in Level1, v \in Leaves}
=============================================================================
