---------------------------- MODULE MCGateWaivers ----------------------------
(* Two declared checks with two and one possible findings, an undeclared    *)
(* system check as a target, and every array of at most two waivers whose   *)
(* intervals end, begin, or lie beyond the evaluation time, or are bad.     *)
EXTENDS GateWaivers
CONSTANTS ca, cb, system, g1, g2, g3, w1, w2

MCDeclared == {ca, cb}
MCFingerprints == {g1, g2, g3}
MCWaiverIds == {w1, w2}
MCTargets == {<<ca, g1>>, <<ca, g2>>, <<cb, g3>>, <<system, g1>>}
MCIntervals == {<<0, 1>>, <<1, 2>>, <<2, 3>>, <<1, 1>>, <<1, Unparsable>>}
=============================================================================
