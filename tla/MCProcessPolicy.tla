-------------------------- MODULE MCProcessPolicy --------------------------
(* Registry policies for the model checker: the built-in affinity of        *)
(* efficiency mode, a second priority class, and an affinity without mode.  *)
EXTENDS ProcessPolicy

MCRules == {[mode |-> "efficiency", affinity |-> "unset"],
            [mode |-> "realtime", affinity |-> "unset"],
            [mode |-> "unset", affinity |-> "mask"]}
=============================================================================
