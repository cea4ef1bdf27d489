----------------------------- MODULE MCAffinity -----------------------------
(* Machines and expressions for the model checker. *)
EXTENDS Affinity

Cpu(classes, islands, usable) == [class : classes, island : islands, usable : usable]
Machine(cpus, caches, x3d, n) == [cpus |-> cpus, caches |-> caches, x3d |-> x3d, parallelism |-> n]

(* Two classes on three islands; three classes with unusable processors.    *)
Hybrid == {Machine(f, {}, FALSE, 4) :
             f \in [0..3 -> Cpu({0, 1}, {0, 1, 2}, {TRUE})]
                     \cup [0..3 -> Cpu({0, 1, 2}, {0}, BOOLEAN)]}

(* One class: any usable indices up to 10, past the counts 2, 7 and 8 where *)
(* the selection changes.                                                   *)
Uniform == {Machine([i \in S |-> [class |-> 0, island |-> 0, usable |-> TRUE]], {}, FALSE, 1) :
              S \in SUBSET (0..10)}

(* A machine whose topology does not fit in a mask. *)
TooWide == {Machine([i \in {MaskBits} |-> [class |-> 0, island |-> 0, usable |-> TRUE]],
                    {}, FALSE, MaskBits + 1)}

L3 == [group : {0, 1}, mask : {{0, 1}, {2, 3}}, size : {1, 2}]
Cached == {Machine([i \in 0..3 |-> [class |-> 0, island |-> i \div 2, usable |-> TRUE]],
                   caches, x3d, 4) :
             caches \in {S \in SUBSET L3 : \A a, b \in S : a.group = b.group /\ a.mask = b.mask => a = b},
             x3d \in BOOLEAN}
          \cup {Machine([i \in 0..1 |-> [class |-> i, island |-> 0, usable |-> TRUE]],
                        {[group |-> 0, mask |-> {}, size |-> 3], [group |-> 0, mask |-> {1}, size |-> 0]},
                        TRUE, 2)}

MCMachines == Hybrid \cup Uniform \cup TooWide \cup Cached

C == [kind |-> "C", index |-> 0]
Index(i) == [kind |-> "index", index |-> i]
MCExpressions ==
    {<<t>> : t \in {P, E, LPE, C, Index(1), Index(20)}}
      \cup {<<E, LPE>>, <<LPE, E>>, <<E, E>>, <<P, Index(0)>>, <<C, LPE>>, <<Index(3), E>>,
            <<Index(2), P, Index(20)>>, <<LPE, P, E>>}
=============================================================================
