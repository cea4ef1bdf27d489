---------------------------- MODULE MCRuleEngine ----------------------------
(* Instances for the model checker: the first two share a PID and run      *)
(* different images, both with a policy; the third has a PID of its own    *)
(* and runs the image of the first.                                        *)
EXTENDS RuleEngine, TLC

CONSTANTS i1, i2, i3

MCPidOf   == i1 :> 1 @@ i2 :> 1 @@ i3 :> 2
MCImageOf == i1 :> "a" @@ i2 :> "b" @@ i3 :> "a"
=============================================================================
