--------------------------- MODULE MCProviderRunner ---------------------------
(* Two artifacts of one or two bytes under limits of three bytes and five   *)
(* files: with response.json, both may be there if they are small; read on  *)
(* their own, without both being large.                                     *)
EXTENDS ProviderRunner
CONSTANTS small, large
MCFileVersions == {small, large}
MCSize == [v \in MCFileVersions |-> IF v = small THEN 1 ELSE 2]
=============================================================================
