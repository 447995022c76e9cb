------------------------------ MODULE CanvasMC ------------------------------
(* The scopes that Canvas is checked in: the tags of one output next to a   *)
(* plain one, and the moves between two outputs with canvas mode.           *)
EXTENDS Canvas

CONSTANTS m1, m2

OneOutput == [tags |-> {1, 2}, busy |-> {m1}]
TwoOutputs == [tags |-> {1}, busy |-> {m1, m2}]

BothScopes == {OneOutput, TwoOutputs}
TagsOfOne == {OneOutput}
=============================================================================
