------------------------------ MODULE Affinity ------------------------------
(***************************************************************************)
(* How an affinity expression becomes a process affinity mask:             *)
(* AffinityExpression::mask of src/affinity.rs over the processor topology *)
(* that src/topology.rs reads.                                             *)
(*                                                                         *)
(* A mask is the set of its bits.  A machine has logical processors, each  *)
(* with its efficiency class, its island (NUMA node and last-level cache,  *)
(* ordered as the code orders the pair) and whether it may be used (group  *)
(* 0, not allocated to another process, not reserved for real time), and a *)
(* set of L3 caches.  Processors of other groups are never candidates and  *)
(* are left out.                                                           *)
(***************************************************************************)
EXTENDS Integers, Sequences, FiniteSets, FiniteSetsExt, Functions

CONSTANTS
    MaskBits,       \* usize::BITS
    Machines,       \* what Windows can report
    Expressions     \* parsed expressions: non-empty sequences of terms

Portable == {"P", "E", "LPE", "C"}
Term     == [kind : Portable \cup {"index"}, index : Nat]
P        == [kind |-> "P", index |-> 0]
E        == [kind |-> "E", index |-> 0]
LPE      == [kind |-> "LPE", index |-> 0]
IsEntries(e) ==
    /\ DOMAIN e \subseteq Nat
    /\ \A i \in DOMAIN e : /\ e[i].class \in Nat /\ e[i].island \in Nat
                           /\ e[i].usable \in BOOLEAN /\ e[i].cache \in BOOLEAN

ASSUME MaskBitsAssumption == MaskBits \in Nat \ {0}
ASSUME MachinesAssumption ==
    \A m \in Machines :
        /\ DOMAIN m.cpus \subseteq Nat
        /\ \A i \in DOMAIN m.cpus : /\ m.cpus[i].class \in Nat /\ m.cpus[i].island \in Nat
                                    /\ m.cpus[i].usable \in BOOLEAN
        /\ m.parallelism \in Nat \ {0} /\ m.x3d \in BOOLEAN
        /\ IsFiniteSet(m.caches)
        /\ \A c \in m.caches : /\ c.size \in Nat /\ c.group \in Nat
                               /\ c.mask \in SUBSET Nat /\ IsFiniteSet(c.mask)
ASSUME ExpressionsAssumption == \A x \in Expressions : x \in Seq(Term) /\ x # <<>>

VARIABLES
    machine,
    expression,
    entries,        \* CpuTopology::entries of the last read
    result          \* of mask_from_entries; an empty mask is Ok(None)

vars == <<machine, expression, entries, result>>

(* Definitions that start with Mut are plausible bugs in the code that the  *)
(* definition after them models; the mutation checks swap them in.          *)

-----------------------------------------------------------------------------
(* The comparison of max_by_key on tuples. *)
LexGreater(s, t) ==
    \E i \in 1..Len(s) : s[i] > t[i] /\ \A j \in 1..(i - 1) : s[j] = t[j]
Best(S, Rank(_)) == CHOOSE a \in S : \A b \in S : ~LexGreater(Rank(b), Rank(a))

-----------------------------------------------------------------------------
(* Topology. *)

RealCaches(caches) == {c \in caches : c.size > 0 /\ c.mask # {}}

(* An X3D processor, or L3 caches of different sizes. *)
IsCCacheCandidate(m) ==
    m.x3d \/ \E a, b \in RealCaches(m.caches) : a.size > b.size

CacheRank(c) == <<c.size, Cardinality(c.mask), -c.group, -Min(c.mask)>>

MutSelectCCaches(m) ==
    IF IsCCacheCandidate(m)
      THEN {c \in RealCaches(m.caches) : \A d \in RealCaches(m.caches) : d.size <= c.size}
      ELSE {}

(* The one preferred cache, or none. *)
SelectCCaches(m) ==
    IF IsCCacheCandidate(m) /\ RealCaches(m.caches) # {}
      THEN {Best(RealCaches(m.caches), CacheRank)}
      ELSE {}

(* read_cpu_sets: the entries with their cache flags.  When the caches      *)
(* cannot be read no entry has the flag.                                    *)
ReadCpuSets(m, caches) ==
    [i \in DOMAIN m.cpus |->
        [class |-> m.cpus[i].class, island |-> m.cpus[i].island, usable |-> m.cpus[i].usable,
         cache |-> \E c \in caches : c.group = 0 /\ i \in c.mask]]

FallbackEntries(m) ==
    [i \in 0..(m.parallelism - 1) |->
        [class |-> 0, island |-> 0, usable |-> TRUE, cache |-> FALSE]]

(* What read_or_fallback may return.  The read fails as a whole when a      *)
(* processor's index does not fit in a mask, or when Windows says so.       *)
Topologies(m) ==
    {FallbackEntries(m)} \cup
    {ReadCpuSets(m, caches) : caches \in
        {c \in {{}, SelectCCaches(m)} :
            DOMAIN m.cpus # {} /\ \A i \in DOMAIN m.cpus : i < MaskBits}}

Candidates(e) == {i \in DOMAIN e : e[i].usable}

-----------------------------------------------------------------------------
(* Tiers.  With one efficiency class there are none; with three or more the *)
(* classes are the tiers; with two, one island of the lower class may       *)
(* become the low-power tier.                                               *)

Top(e, C)    == {i \in C : \A j \in C : e[j].class <= e[i].class}
Bottom(e, C) == {i \in C : \A j \in C : e[i].class <= e[j].class}
Homogeneous(e, C) == \A i, j \in C : e[i].class = e[j].class
Middle(e, C) == C \ (Top(e, C) \cup Bottom(e, C))

Members(e, low, k) == {i \in low : e[i].island = k}

MutIslandRank(e, low, higher, k) ==
    <<IF \E i \in higher : e[i].island = k THEN 1 ELSE 0,
      Max(Members(e, low, k)), Cardinality(Members(e, low, k)), -k>>

IslandRank(e, low, higher, k) ==
    <<IF \E i \in higher : e[i].island = k THEN 0 ELSE 1,
      Max(Members(e, low, k)), Cardinality(Members(e, low, k)), -k>>

(* The low-power island as a set of at most one key. *)
ChooseEfficiencyIsland(e, low, higher) ==
    LET islands == {e[i].island : i \in low}
        Rank(k) == IslandRank(e, low, higher, k)
    IN  IF Cardinality(islands) <= 1 THEN {} ELSE {Best(islands, Rank)}

LowPower(e, C) ==
    LET low    == Bottom(e, C)
        island == ChooseEfficiencyIsland(e, low, C \ low)
        chosen == {i \in low : e[i].island \in island}
    IN  IF Middle(e, C) # {} \/ chosen = {} \/ chosen = low THEN low ELSE chosen

MutEfficiency(e, C) == C \ Top(e, C)

Efficiency(e, C) ==
    IF Middle(e, C) # {} THEN Middle(e, C)
    ELSE IF LowPower(e, C) = Bottom(e, C) THEN Bottom(e, C)
    ELSE Bottom(e, C) \ LowPower(e, C)

(* AffinityTiers::classify. *)
Tier(e, C, kind) ==
    IF kind = "C" THEN {i \in C : e[i].cache}
    ELSE IF Homogeneous(e, C) THEN {}
    ELSE CASE kind = "P" -> Top(e, C) [] kind = "E" -> Efficiency(e, C) [] OTHER -> LowPower(e, C)

-----------------------------------------------------------------------------
(* Expressions on machines with one efficiency class. *)

HomogeneousEfficiency(C) == {i \in C : i % 2 = 1}

LastOf(C, n) == {i \in C : Cardinality({j \in C : j > i}) < n}

MutHomogeneousLowPower(C) ==
    IF Cardinality(C) <= 7 THEN LastOf(C, 2)
    ELSE IF Cardinality(C) = 8 THEN LastOf(C, 4)
    ELSE {i \in C : \E step \in 1..4 : i = Max(C) + 1 - 2 * step}

HomogeneousLowPower(C) ==
    IF Cardinality(C) <= 7 THEN LastOf(C, 2)
    ELSE IF Cardinality(C) = 8 THEN LastOf(C, 4)
    ELSE {i \in C : \E step \in 0..3 : i = Max(C) - 2 * step}

MutSpecial(e, C, x) ==
    IF ~Homogeneous(e, C) THEN {}
    ELSE IF E \in Range(x) THEN HomogeneousEfficiency(C)
    ELSE IF x = <<LPE>> THEN HomogeneousLowPower(C)
    ELSE {}

(* The first match of mask_from_entries. *)
Special(e, C, x) ==
    IF ~Homogeneous(e, C) THEN {}
    ELSE IF x = <<E>> \/ (Len(x) = 2 /\ Range(x) = {E, LPE}) THEN HomogeneousEfficiency(C)
    ELSE IF x = <<LPE>> THEN HomogeneousLowPower(C)
    ELSE {}

-----------------------------------------------------------------------------
(* mask_from_entries.  A tier's processor that does not fit in the mask is  *)
(* an error, an index that does not fit or is not usable is ignored.        *)

NoMask == [state |-> "none", mask |-> {}]
Error  == [state |-> "error", mask |-> {}]
Fits(S) == {i \in S : i < MaskBits}

Portables(x) == {t \in Range(x) : t.kind \in Portable}

MutMaskNotUsable(e, x) ==
    LET C       == Candidates(e)
        tiers   == Special(e, C, x) \cup UNION {Tier(e, C, t.kind) : t \in Portables(x)}
        indices == Fits({i \in DOMAIN e : \E t \in Range(x) : t.kind = "index" /\ t.index = i})
    IN  IF C = {} \/ tiers # Fits(tiers)
          THEN Error
          ELSE [state |-> "ok", mask |-> tiers \cup indices]

MaskFromEntries(e, x) ==
    LET C       == Candidates(e)
        tiers   == Special(e, C, x) \cup UNION {Tier(e, C, t.kind) : t \in Portables(x)}
        indices == Fits({i \in C : \E t \in Range(x) : t.kind = "index" /\ t.index = i})
    IN  IF C = {} \/ tiers # Fits(tiers)
          THEN Error
          ELSE [state |-> "ok", mask |-> tiers \cup indices]

Init ==
    /\ machine \in Machines /\ expression \in Expressions
    /\ entries = <<>> /\ result = NoMask

(* AffinityExpression::mask, called whenever a policy is resolved. *)
ReadTopology ==
    /\ \E e \in Topologies(machine) : entries' = e
    /\ result' = NoMask
    /\ UNCHANGED <<machine, expression>>

Evaluate ==
    /\ entries # <<>> /\ result = NoMask
    /\ result' = MaskFromEntries(entries, expression)
    /\ UNCHANGED <<machine, expression, entries>>

Next == ReadTopology \/ Evaluate

Spec == Init /\ [][Next]_vars
-----------------------------------------------------------------------------
(* Properties. *)

(* The entries are a topology; a result is a mask over them, an error, or   *)
(* missing.                                                                 *)
TypeOK ==
    /\ IsEntries(entries)
    /\ result.state \in {"none", "error", "ok"} /\ result.mask \subseteq DOMAIN entries

(* Whatever the expression says, mask_from_entries never returns a          *)
(* processor that is allocated to another process, reserved for real time   *)
(* or beyond the width of a mask.                                           *)
MaskIsUsable == result.mask \subseteq Fits(Candidates(entries))

MaskOf(x) == MaskFromEntries(entries, x).mask
AllFit    == DOMAIN entries = Fits(DOMAIN entries)

(* On a machine with several efficiency classes P and E+LPE divide the      *)
(* usable processors, and E and LPE are two parts of the lower tier or both *)
(* all of it (AffinityTiers::classify).                                     *)
TiersPartition ==
    LET C == Candidates(entries)
    IN  AllFit /\ ~Homogeneous(entries, C) =>
          /\ MaskOf(<<P>>) \cap MaskOf(<<E, LPE>>) = {}
          /\ MaskOf(<<P, E, LPE>>) = C
          /\ MaskOf(<<E>>) = MaskOf(<<LPE>>) \/ MaskOf(<<E>>) \cap MaskOf(<<LPE>>) = {}

(* LPE, which the service applies to itself, always has a processor, and on *)
(* a machine with one class it is at most four of the last ones.            *)
LowPowerAvailable ==
    LET C == Candidates(entries)
    IN  AllFit /\ C # {} =>
          /\ MaskOf(<<LPE>>) # {}
          /\ Homogeneous(entries, C) =>
                Max(C) \in MaskOf(<<LPE>>) /\ Cardinality(MaskOf(<<LPE>>)) <= 4

(* On a two-class machine the low-power tier is the island a power manager  *)
(* would want: when an island of the lower class has no faster processor in *)
(* it, LPE has none with one, and is the island with the highest index.     *)
LowPowerIsolated ==
    LET C        == Candidates(entries)
        low      == Bottom(entries, C)
        island   == [i \in DOMAIN entries |-> entries[i].island]
        isolated == {i \in low : \A j \in C \ low : island[j] # island[i]}
    IN  AllFit /\ ~Homogeneous(entries, C) /\ Middle(entries, C) = {} /\ isolated # {} =>
          \/ MaskOf(<<LPE>>) = {i \in isolated : island[i] = island[Max(isolated)]}
          \/ \A i, j \in low : island[i] = island[j]

(* Terms are a union: neither their order nor their company changes what a  *)
(* term selects.  With one efficiency class E and LPE count only on their   *)
(* own, indices and C always.                                               *)
TermsCombine ==
    LET C        == Candidates(entries)
        counting == {t \in Range(expression) :
                        ~Homogeneous(entries, C) \/ t.kind \in {"C", "index"}}
        alone    == Homogeneous(entries, C) /\ Range(expression) \subseteq {E, LPE}
                      /\ Len(expression) = Cardinality(Range(expression))
    IN  AllFit /\ result.state = "ok" /\ ~alone =>
          result.mask = UNION {MaskOf(<<t>>) : t \in counting}

(* C selects processors of a single L3 cache, and no cache is larger.       *)
CacheIsOneLargest ==
    LET chosen == {i \in DOMAIN entries : entries[i].cache}
    IN  chosen # {} =>
          \E c \in machine.caches : /\ chosen = c.mask \cap DOMAIN entries
                                    /\ \A d \in RealCaches(machine.caches) : d.size <= c.size

=============================================================================
