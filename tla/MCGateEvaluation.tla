-------------------------- MODULE MCGateEvaluation --------------------------
(* Two versions that share one member and differ in the other, two IDS      *)
(* documents and two IFC sources, and ten calls: each role is a directory   *)
(* and a ZIP, each kind of check meets each kind of input and its absence.  *)
EXTENDS GateEvaluation
CONSTANTS v1, v2, a, b, x, y, z, i1, i2, c1, c2, s1, s2

MCVersions == {v1, v2}
MCMembers == {a, b}
MCBytes == {x, y, z}
MCInventory == [v \in MCVersions |-> [m \in MCMembers |-> IF m = a THEN x ELSE IF v = v1 THEN y ELSE z]]
MCIdsBytes == {i1, i2}
MCIfcBytes == {c1, c2}
MCSourceIds == {s1, s2}
\* v1 registers both sources, v2 the other bytes for both of them.
MCRegistered == [v \in MCVersions |-> [s \in MCSourceIds |-> IF v = v1 THEN c1 ELSE c2]]
MCPackageVerdict == [v \in MCVersions |-> IF v = v1 THEN "pass" ELSE "requires_review"]
MCDiffVerdict == [w \in MCVersions |-> [v \in MCVersions |-> IF v = w THEN "pass" ELSE "fail"]]
MCIdsVerdict == [d \in MCIdsBytes |-> [s \in MCIfcBytes |->
                  IF d = i1 THEN "pass" ELSE IF s = c1 THEN "fail" ELSE "requires_review"]]

Package == [kind |-> "package"]
Diff == [kind |-> "diff"]
Ids(d, s) == [kind |-> "ids", ids |-> d, source |-> s]

Call(candidate, baseline, linked, checks, idsPair) ==
  [candidate |-> candidate, baseline |-> baseline, links |-> linked, policy |-> checks, pair |-> idsPair]

MCCalls == {
  Call("directory", "zip", {}, <<Package, Diff>>, "none"),
  Call("zip", "directory", {}, <<Ids(i2, s1), Diff>>, "both"),
  Call("directory", "not_supplied", {}, <<Ids(i1, s1), Ids(i2, s1)>>, "both"),
  Call("zip", "not_supplied", {}, <<Ids(i1, s1), Ids(i1, s2)>>, "both"),
  Call("directory", "not_supplied", {a}, <<Package>>, "none"),
  Call("symlink", "not_supplied", {}, <<Package>>, "none"),
  Call("zip", "symlink", {}, <<Package>>, "none"),
  Call("zip", "not_supplied", {}, <<Package, Diff>>, "none"),
  Call("zip", "not_supplied", {}, <<Package>>, "both"),
  Call("zip", "zip", {}, <<Package>>, "half")}
=============================================================================
