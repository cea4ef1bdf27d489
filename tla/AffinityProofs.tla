--------------------------- MODULE AffinityProofs ---------------------------
(***************************************************************************)
(* What mask_from_entries returns, for every machine and every expression: *)
(* only usable processors, tiers that divide them, a low-power tier that   *)
(* is never empty and is isolated where it can be, the largest cache, and  *)
(* the union of the terms.  The operators are proved about first, from the *)
(* existence of greatest elements; the invariant only adds that the        *)
(* entries are the machine's and the result is the entries'.               *)
(***************************************************************************)
EXTENDS Affinity, FiniteSetTheorems, TLAPS

-----------------------------------------------------------------------------
(* Greatest elements.  Max, Min and max_by_key are choices; that there is   *)
(* something to choose from a finite set takes a minimal counterexample.    *)

(* A finite set that is not empty has a greatest element in every total     *)
(* order: a smallest set without one gets one when an element is removed,   *)
(* and that one or the removed element is the greatest of the whole.        *)
LEMMA GreatestExists ==
    ASSUME NEW T, T # {}, IsFiniteSet(T), NEW R,
           \A x, y, z \in T : <<x, y>> \in R /\ <<y, z>> \in R => <<x, z>> \in R,
           \A x, y \in T : x = y \/ <<x, y>> \in R \/ <<y, x>> \in R
    PROVE  \E x \in T : \A y \in T \ {x} : <<x, y>> \in R
<1> DEFINE HasGreatest(S) == \E x \in S : \A y \in S \ {x} : <<x, y>> \in R
           Without == {S \in FiniteSubsetsOf(T) : S # {} /\ ~HasGreatest(S)}
<1> SUFFICES ASSUME Without # {} PROVE FALSE
  BY DEF FiniteSubsetsOf
<1>1. PICK S \in Without : \A U \in Without : ~(<<U, S>> \in StrictSubsetOrdering(T))
  <2>1. Without \subseteq FiniteSubsetsOf(T)
    OBVIOUS
  <2> HIDE DEF Without
  <2> QED BY <2>1, FS_StrictSubsetOrderingWellFounded, WFMin
<1>2. S \subseteq T /\ IsFiniteSet(S) /\ S # {} /\ ~HasGreatest(S)
  BY DEF FiniteSubsetsOf
<1>3. PICK s \in S : TRUE
  BY <1>2
<1> DEFINE U == S \ {s}
<1>4. U \in FiniteSubsetsOf(T) /\ U # {}
  <2>1. IsFiniteSet(U)
    BY <1>2, FS_RemoveElement
  <2>2. ASSUME S = {s} PROVE FALSE
    BY <1>2, <2>2
  <2> QED BY <1>2, <1>3, <2>1, <2>2 DEF FiniteSubsetsOf
<1>5. <<U, S>> \in StrictSubsetOrdering(T)
  BY <1>2, <1>3 DEF StrictSubsetOrdering
<1>6. PICK u \in U : \A y \in U \ {u} : <<u, y>> \in R
  <2> HIDE DEF U
  <2> QED BY <1>1, <1>4, <1>5
<1>7. CASE <<s, u>> \in R
  <2>1. \A y \in S \ {s} : <<s, y>> \in R
    BY <1>2, <1>3, <1>6, <1>7
  <2> QED BY <1>2, <1>3, <2>1
<1>8. CASE <<u, s>> \in R
  BY <1>2, <1>6, <1>8
<1> QED BY <1>2, <1>3, <1>6, <1>7, <1>8

(* Max and Min of a finite set of integers are its ends. *)
LEMMA MaxIsGreatest ==
    ASSUME NEW T \in SUBSET Int, T # {}, IsFiniteSet(T)
    PROVE  Max(T) \in T /\ \A y \in T : Max(T) >= y
<1> DEFINE R == {p \in Int \X Int : p[1] > p[2]}
<1>1. \A x, y \in Int : <<x, y>> \in R <=> x > y
  OBVIOUS
<1> HIDE DEF R
<1>2. ASSUME NEW x \in T, NEW y \in T, NEW z \in T, <<x, y>> \in R, <<y, z>> \in R
      PROVE  <<x, z>> \in R
  <2>1. x \in Int /\ y \in Int /\ z \in Int
    OBVIOUS
  <2>2. x > y /\ y > z
    BY <1>1, <1>2, <2>1
  <2> QED BY <1>1, <2>1, <2>2
<1>3. ASSUME NEW x \in T, NEW y \in T PROVE x = y \/ <<x, y>> \in R \/ <<y, x>> \in R
  <2>1. x \in Int /\ y \in Int
    OBVIOUS
  <2> QED BY <1>1, <2>1
<1>4. PICK x \in T : \A y \in T \ {x} : <<x, y>> \in R
  BY <1>2, <1>3, GreatestExists
<1>5. ASSUME NEW y \in T PROVE x >= y
  <2>1. x \in Int /\ y \in Int
    OBVIOUS
  <2>2. x = y \/ <<x, y>> \in R
    BY <1>4
  <2>3. x = y \/ x > y
    BY <1>1, <2>1, <2>2
  <2> QED BY <2>1, <2>3
<1> QED BY <1>5 DEF Max

(* The same for the other end. *)
LEMMA MinIsLeast ==
    ASSUME NEW T \in SUBSET Int, T # {}, IsFiniteSet(T)
    PROVE  Min(T) \in T /\ \A y \in T : Min(T) <= y
<1> DEFINE R == {p \in Int \X Int : p[1] < p[2]}
<1>1. \A x, y \in Int : <<x, y>> \in R <=> x < y
  OBVIOUS
<1> HIDE DEF R
<1>2. ASSUME NEW x \in T, NEW y \in T, NEW z \in T, <<x, y>> \in R, <<y, z>> \in R
      PROVE  <<x, z>> \in R
  <2>1. x \in Int /\ y \in Int /\ z \in Int
    OBVIOUS
  <2>2. x < y /\ y < z
    BY <1>1, <1>2, <2>1
  <2> QED BY <1>1, <2>1, <2>2
<1>3. ASSUME NEW x \in T, NEW y \in T PROVE x = y \/ <<x, y>> \in R \/ <<y, x>> \in R
  <2>1. x \in Int /\ y \in Int
    OBVIOUS
  <2> QED BY <1>1, <2>1
<1>4. PICK x \in T : \A y \in T \ {x} : <<x, y>> \in R
  BY <1>2, <1>3, GreatestExists
<1>5. ASSUME NEW y \in T PROVE x <= y
  <2>1. x \in Int /\ y \in Int
    OBVIOUS
  <2>2. x = y \/ <<x, y>> \in R
    BY <1>4
  <2>3. x = y \/ x < y
    BY <1>1, <2>1, <2>2
  <2> QED BY <2>1, <2>3
<1> QED BY <1>5 DEF Min

(* The keys of max_by_key are four integers. *)
Keys == Int \X Int \X Int \X Int

(* The comparison, position by position. *)
LEMMA LexGreaterIs ==
    ASSUME NEW s \in Keys, NEW t \in Keys
    PROVE  LexGreater(s, t) <=>
             \/ s[1] > t[1]
             \/ s[1] = t[1] /\ s[2] > t[2]
             \/ s[1] = t[1] /\ s[2] = t[2] /\ s[3] > t[3]
             \/ s[1] = t[1] /\ s[2] = t[2] /\ s[3] = t[3] /\ s[4] > t[4]
<1>1. Len(s) = 4
  BY DEF Keys
<1>2. \A i \in Int : i \in 1..4 <=> i \in {1, 2, 3, 4}
  OBVIOUS
<1>3. 1..(1 - 1) = {} /\ 1..(2 - 1) = {1} /\ 1..(3 - 1) = {1, 2} /\ 1..(4 - 1) = {1, 2, 3}
  OBVIOUS
<1>4. LexGreater(s, t) <=> \E i \in {1, 2, 3, 4} : s[i] > t[i] /\ \A j \in 1..(i - 1) : s[j] = t[j]
  BY <1>1, <1>2 DEF LexGreater
<1> QED BY <1>3, <1>4

(* Among finitely many, one has a key that no key beats. *)
LEMMA BestExists ==
    ASSUME NEW S, S # {}, IsFiniteSet(S), NEW key \in [S -> Keys]
    PROVE  \E a \in S : \A b \in S : ~LexGreater(key[b], key[a])
<1> DEFINE R == {p \in S \X S : ~LexGreater(key[p[2]], key[p[1]])}
<1>1. \A a, b \in S : <<a, b>> \in R <=> ~LexGreater(key[b], key[a])
  OBVIOUS
<1>2. \A a \in S : /\ key[a] \in Keys
                   /\ key[a][1] \in Int /\ key[a][2] \in Int /\ key[a][3] \in Int /\ key[a][4] \in Int
  BY DEF Keys
<1> HIDE DEF R
<1>3. ASSUME NEW a \in S, NEW b \in S, NEW c \in S, <<a, b>> \in R, <<b, c>> \in R
      PROVE  <<a, c>> \in R
  <2> DEFINE x == key[a] y == key[b] z == key[c]
  <2>1. x \in Keys /\ y \in Keys /\ z \in Keys
    BY <1>2
  <2>2. /\ x[1] \in Int /\ x[2] \in Int /\ x[3] \in Int /\ x[4] \in Int
        /\ y[1] \in Int /\ y[2] \in Int /\ y[3] \in Int /\ y[4] \in Int
        /\ z[1] \in Int /\ z[2] \in Int /\ z[3] \in Int /\ z[4] \in Int
    BY <1>2
  <2>3. ~LexGreater(y, x) /\ ~LexGreater(z, y)
    BY <1>1, <1>3
  <2> HIDE DEF x, y, z
  <2>4. ~LexGreater(z, x)
    BY <2>1, <2>2, <2>3, LexGreaterIs
  <2> QED BY <1>1, <2>4 DEF x, z
<1>4. ASSUME NEW a \in S, NEW b \in S PROVE <<a, b>> \in R \/ <<b, a>> \in R
  <2> DEFINE x == key[a] y == key[b]
  <2>1. x \in Keys /\ y \in Keys
    BY <1>2
  <2>2. /\ x[1] \in Int /\ x[2] \in Int /\ x[3] \in Int /\ x[4] \in Int
        /\ y[1] \in Int /\ y[2] \in Int /\ y[3] \in Int /\ y[4] \in Int
    BY <1>2
  <2> HIDE DEF x, y
  <2>3. ~LexGreater(x, y) \/ ~LexGreater(y, x)
    BY <2>1, <2>2, LexGreaterIs
  <2> QED BY <1>1, <2>3 DEF x, y
<1>5. PICK a \in S : \A b \in S \ {a} : <<a, b>> \in R
  BY <1>3, <1>4, GreatestExists
<1>6. \A b \in S : <<a, b>> \in R
  BY <1>4, <1>5
<1> QED BY <1>1, <1>6

-----------------------------------------------------------------------------
(* Tiers and masks. *)

(* Every tier of AffinityTiers::classify consists of candidates. *)
LEMMA TierSubset ==
    ASSUME NEW e, NEW C, NEW kind
    PROVE  Tier(e, C, kind) \subseteq C
<1>1. Top(e, C) \subseteq C /\ Bottom(e, C) \subseteq C /\ Middle(e, C) \subseteq C
  BY DEF Top, Bottom, Middle
<1>2. LowPower(e, C) \subseteq Bottom(e, C)
  BY DEF LowPower
<1>3. Efficiency(e, C) \subseteq C
  BY <1>1 DEF Efficiency
<1> QED BY <1>1, <1>2, <1>3 DEF Tier

(* So do the selections for machines with one efficiency class. *)
LEMMA SpecialSubset ==
    ASSUME NEW e, NEW C, NEW x
    PROVE  Special(e, C, x) \subseteq C
<1>1. HomogeneousEfficiency(C) \subseteq C
  BY DEF HomogeneousEfficiency
<1>2. HomogeneousLowPower(C) \subseteq C
  BY DEF HomogeneousLowPower, LastOf
<1> QED BY <1>1, <1>2 DEF Special

(* A mask holds usable processors that fit in it. *)
LEMMA MaskSubset ==
    ASSUME NEW e, NEW x
    PROVE  /\ MaskFromEntries(e, x).mask \subseteq Fits(Candidates(e))
           /\ MaskFromEntries(e, x).state \in {"error", "ok"}
<1> DEFINE C       == Candidates(e)
           tiers   == Special(e, C, x) \cup UNION {Tier(e, C, t.kind) : t \in Portables(x)}
           indices == Fits({i \in C : \E t \in Range(x) : t.kind = "index" /\ t.index = i})
<1>1. tiers \subseteq C
  BY TierSubset, SpecialSubset
<1>2. tiers = Fits(tiers) => tiers \subseteq Fits(C)
  BY <1>1 DEF Fits
<1>3. indices \subseteq Fits(C)
  BY DEF Fits
<1>4. CASE C = {} \/ tiers # Fits(tiers)
  <2>1. MaskFromEntries(e, x) = Error
    BY <1>4 DEF MaskFromEntries
  <2> QED BY <2>1 DEF Error
<1>5. CASE ~(C = {} \/ tiers # Fits(tiers))
  <2>1. MaskFromEntries(e, x) = [state |-> "ok", mask |-> tiers \cup indices]
    BY <1>5 DEF MaskFromEntries
  <2>2. tiers \cup indices \subseteq Fits(C)
    BY <1>2, <1>3, <1>5
  <2> HIDE DEF tiers, indices, C
  <2> QED BY <2>1, <2>2 DEF C
<1> QED BY <1>4, <1>5

(* On a machine with several classes the fastest class and the tiers below  *)
(* it divide the candidates, however the low-power island is chosen.        *)
LEMMA TiersDivide ==
    ASSUME NEW e, NEW C, \A i \in C : e[i].class \in Nat, ~Homogeneous(e, C)
    PROVE  /\ Top(e, C) \cap (Efficiency(e, C) \cup LowPower(e, C)) = {}
           /\ Top(e, C) \cup Efficiency(e, C) \cup LowPower(e, C) = C
           /\ \/ Efficiency(e, C) = LowPower(e, C)
              \/ Efficiency(e, C) \cap LowPower(e, C) = {}
<1>1. Top(e, C) \cap Bottom(e, C) = {}
  <2>1. ASSUME NEW i \in Top(e, C), i \in Bottom(e, C) PROVE FALSE
    <3>1. \A j \in C : e[j].class = e[i].class
      BY <2>1 DEF Top, Bottom
    <3> QED BY <3>1 DEF Homogeneous
  <2> QED BY <2>1
<1>2. /\ Top(e, C) \subseteq C /\ Bottom(e, C) \subseteq C
      /\ Middle(e, C) = C \ (Top(e, C) \cup Bottom(e, C))
  BY DEF Top, Bottom, Middle
<1>3. LowPower(e, C) \subseteq Bottom(e, C)
  BY DEF LowPower
<1>4. CASE Middle(e, C) # {}
  <2>1. LowPower(e, C) = Bottom(e, C) /\ Efficiency(e, C) = Middle(e, C)
    BY <1>4 DEF LowPower, Efficiency
  <2> QED BY <1>1, <1>2, <2>1
<1>5. CASE Middle(e, C) = {}
  <2>1. \/ Efficiency(e, C) = Bottom(e, C) /\ LowPower(e, C) = Bottom(e, C)
        \/ Efficiency(e, C) = Bottom(e, C) \ LowPower(e, C)
    BY <1>5 DEF Efficiency
  <2> QED BY <1>1, <1>2, <1>3, <1>5, <2>1
<1> QED BY <1>4, <1>5

(* On such a machine an expression of P, E and LPE is the union of its      *)
(* tiers.                                                                   *)
LEMMA PortableMask ==
    ASSUME NEW e, DOMAIN e = Fits(DOMAIN e), ~Homogeneous(e, Candidates(e)),
           NEW x, Range(x) \subseteq {P, E, LPE}
    PROVE  MaskFromEntries(e, x).mask = UNION {Tier(e, Candidates(e), t.kind) : t \in Range(x)}
<1> DEFINE C       == Candidates(e)
           tiers   == Special(e, C, x) \cup UNION {Tier(e, C, t.kind) : t \in Portables(x)}
           indices == Fits({i \in C : \E t \in Range(x) : t.kind = "index" /\ t.index = i})
<1>1. P.kind = "P" /\ E.kind = "E" /\ LPE.kind = "LPE"
  BY DEF P, E, LPE
<1>2. Portables(x) = Range(x) /\ indices = {}
  BY <1>1 DEF Portables, Portable, Fits
<1>3. Special(e, C, x) = {}
  BY DEF Special
<1>4. tiers = UNION {Tier(e, C, t.kind) : t \in Range(x)}
  BY <1>2, <1>3
<1>5. C # {}
  BY DEF Homogeneous
<1>6. tiers \subseteq C
  BY <1>4, TierSubset
<1>7. tiers = Fits(tiers)
  BY <1>6 DEF Fits, Candidates
<1>8. MaskFromEntries(e, x) = [state |-> "ok", mask |-> tiers \cup indices]
  BY <1>5, <1>7 DEF MaskFromEntries
<1> HIDE DEF tiers, indices, C
<1> QED BY <1>2, <1>4, <1>8 DEF C

(* The terms of a written-out expression. *)
LEMMA RangeOfOne == ASSUME NEW a PROVE Range(<<a>>) = {a}
BY DEF Range

LEMMA RangeOfTwo == ASSUME NEW a, NEW b PROVE Range(<<a, b>>) = {a, b}
<1> DEFINE s == <<a, b>>
<1>1. DOMAIN s = {1, 2} /\ s[1] = a /\ s[2] = b
  OBVIOUS
<1> HIDE DEF s
<1>2. Range(s) = {a, b}
  BY <1>1 DEF Range
<1> QED BY <1>2 DEF s

LEMMA RangeOfThree == ASSUME NEW a, NEW b, NEW c PROVE Range(<<a, b, c>>) = {a, b, c}
<1> DEFINE s == <<a, b, c>>
<1>1. DOMAIN s = {1, 2, 3} /\ s[1] = a /\ s[2] = b /\ s[3] = c
  OBVIOUS
<1> HIDE DEF s
<1>2. Range(s) = {a, b, c}
  BY <1>1 DEF Range
<1> QED BY <1>2 DEF s

(* P and E+LPE divide the usable processors, for any topology. *)
LEMMA PartitionOfEntries ==
    ASSUME IsEntries(entries)
    PROVE  TiersPartition
<1> DEFINE C == Candidates(entries)
<1> SUFFICES ASSUME AllFit, ~Homogeneous(entries, C)
             PROVE  /\ MaskOf(<<P>>) \cap MaskOf(<<E, LPE>>) = {}
                    /\ MaskOf(<<P, E, LPE>>) = C
                    /\ MaskOf(<<E>>) = MaskOf(<<LPE>>) \/ MaskOf(<<E>>) \cap MaskOf(<<LPE>>) = {}
  BY DEF TiersPartition
<1>1. /\ Range(<<P>>) = {P} /\ Range(<<E>>) = {E} /\ Range(<<LPE>>) = {LPE}
      /\ Range(<<E, LPE>>) = {E, LPE} /\ Range(<<P, E, LPE>>) = {P, E, LPE}
  <2>1. Range(<<P>>) = {P}
    BY RangeOfOne, Zenon
  <2>2. Range(<<E>>) = {E}
    BY RangeOfOne, Zenon
  <2>3. Range(<<LPE>>) = {LPE}
    BY RangeOfOne, Zenon
  <2>4. Range(<<E, LPE>>) = {E, LPE}
    BY RangeOfTwo, Zenon
  <2>5. Range(<<P, E, LPE>>) = {P, E, LPE}
    BY RangeOfThree, Zenon
  <2> QED BY <2>1, <2>2, <2>3, <2>4, <2>5
<1>2. \A x : Range(x) \subseteq {P, E, LPE} =>
              MaskOf(x) = UNION {Tier(entries, C, t.kind) : t \in Range(x)}
  BY PortableMask DEF MaskOf, AllFit
<1>3. /\ Tier(entries, C, P.kind) = Top(entries, C)
      /\ Tier(entries, C, E.kind) = Efficiency(entries, C)
      /\ Tier(entries, C, LPE.kind) = LowPower(entries, C)
  BY DEF Tier, P, E, LPE
<1>4. \A i \in C : entries[i].class \in Nat
  BY DEF IsEntries, Candidates
<1> HIDE DEF C
<1>5. /\ MaskOf(<<P>>) = Top(entries, C) /\ MaskOf(<<E>>) = Efficiency(entries, C)
      /\ MaskOf(<<LPE>>) = LowPower(entries, C)
      /\ MaskOf(<<E, LPE>>) = Efficiency(entries, C) \cup LowPower(entries, C)
      /\ MaskOf(<<P, E, LPE>>) = Top(entries, C) \cup Efficiency(entries, C) \cup LowPower(entries, C)
  <2>1. MaskOf(<<P>>) = Top(entries, C)
    <3>1. MaskOf(<<P>>) = UNION {Tier(entries, C, t.kind) : t \in {P}}
      BY <1>1, <1>2
    <3> QED BY <1>3, <3>1
  <2>2. MaskOf(<<E>>) = Efficiency(entries, C)
    <3>1. MaskOf(<<E>>) = UNION {Tier(entries, C, t.kind) : t \in {E}}
      BY <1>1, <1>2
    <3> QED BY <1>3, <3>1
  <2>3. MaskOf(<<LPE>>) = LowPower(entries, C)
    <3>1. MaskOf(<<LPE>>) = UNION {Tier(entries, C, t.kind) : t \in {LPE}}
      BY <1>1, <1>2
    <3> QED BY <1>3, <3>1
  <2>4. MaskOf(<<E, LPE>>) = Efficiency(entries, C) \cup LowPower(entries, C)
    <3>1. MaskOf(<<E, LPE>>) = UNION {Tier(entries, C, t.kind) : t \in {E, LPE}}
      BY <1>1, <1>2
    <3> QED BY <1>3, <3>1
  <2>5. MaskOf(<<P, E, LPE>>) = Top(entries, C) \cup Efficiency(entries, C) \cup LowPower(entries, C)
    <3>1. MaskOf(<<P, E, LPE>>) = UNION {Tier(entries, C, t.kind) : t \in {P, E, LPE}}
      BY <1>1, <1>2
    <3> QED BY <1>3, <3>1
  <2> QED BY <2>1, <2>2, <2>3, <2>4, <2>5
<1> QED BY <1>4, <1>5, TiersDivide

(* What the tiers and the indices of an expression contribute to its mask.  *)
TierMask(e, x)  == UNION {Tier(e, Candidates(e), t.kind) : t \in Portables(x)}
IndexMask(e, x) == {i \in Candidates(e) : \E t \in Range(x) : t.kind = "index" /\ t.index = i}

(* When every processor fits in a mask and one may be used, the mask is the *)
(* union of the special selection, its tiers and its indices.               *)
LEMMA WholeMask ==
    ASSUME NEW e, DOMAIN e = Fits(DOMAIN e), Candidates(e) # {}, NEW x
    PROVE  /\ MaskFromEntries(e, x).state = "ok"
           /\ MaskFromEntries(e, x).mask =
                Special(e, Candidates(e), x) \cup TierMask(e, x) \cup IndexMask(e, x)
<1> DEFINE C     == Candidates(e)
           tiers == Special(e, C, x) \cup TierMask(e, x)
<1>1. tiers \subseteq C /\ IndexMask(e, x) \subseteq C
  BY TierSubset, SpecialSubset DEF TierMask, IndexMask
<1>2. \A S \in SUBSET C : Fits(S) = S
  BY DEF Fits, Candidates
<1>3. tiers = Fits(tiers) /\ Fits(IndexMask(e, x)) = IndexMask(e, x)
  BY <1>1, <1>2
<1>4. MaskFromEntries(e, x) = [state |-> "ok", mask |-> tiers \cup Fits(IndexMask(e, x))]
  BY <1>3, Zenon DEF MaskFromEntries, TierMask, IndexMask
<1> HIDE DEF tiers
<1>5. /\ MaskFromEntries(e, x).state = "ok"
      /\ MaskFromEntries(e, x).mask = tiers \cup IndexMask(e, x)
  BY <1>3, <1>4
<1> QED BY <1>5 DEF tiers

(* The mask of a single term: the tier it names, or the processor. *)
LEMMA MaskOfTerm ==
    ASSUME NEW e, DOMAIN e = Fits(DOMAIN e), Candidates(e) # {}, NEW t \in Term
    PROVE  LET C == Candidates(e) IN
           MaskFromEntries(e, <<t>>).mask =
             Special(e, C, <<t>>)
               \cup (IF t.kind = "index" THEN {i \in C : t.index = i} ELSE Tier(e, C, t.kind))
<1> DEFINE C      == Candidates(e)
           x      == <<t>>
           tiers  == TierMask(e, x)
           chosen == IndexMask(e, x)
<1>1. Range(x) = {t}
  BY RangeOfOne, Zenon
<1>2. MaskFromEntries(e, x).mask = Special(e, C, x) \cup tiers \cup chosen
  BY WholeMask
<1>3. t.kind \in Portable \cup {"index"} /\ "index" \notin Portable
  BY DEF Term, Portable
<1>4. tiers \cup chosen = IF t.kind = "index" THEN {i \in C : t.index = i} ELSE Tier(e, C, t.kind)
  <2>1. CASE t.kind = "index"
    <3>1. Portables(x) = {}
      BY <1>1, <1>3, <2>1 DEF Portables
    <3>2. tiers = {}
      BY <3>1 DEF TierMask
    <3>3. chosen = {i \in C : t.index = i}
      BY <1>1, <2>1 DEF IndexMask
    <3> QED BY <2>1, <3>2, <3>3
  <2>2. CASE t.kind # "index"
    <3>1. Portables(x) = {t}
      BY <1>1, <1>3, <2>2 DEF Portables
    <3>2. tiers = Tier(e, C, t.kind)
      BY <3>1 DEF TierMask
    <3>3. chosen = {}
      BY <1>1, <2>2 DEF IndexMask
    <3> QED BY <2>2, <3>2, <3>3
  <2> QED BY <2>1, <2>2
<1> HIDE DEF tiers, chosen, C, x
<1>5. MaskFromEntries(e, x).mask = Special(e, C, x) \cup (tiers \cup chosen)
  BY <1>2
<1> QED BY <1>4, <1>5 DEF C, x

(* One class: only an expression of E and LPE that repeats nothing is       *)
(* special.  Several classes: none is.                                      *)
LEMMA SpecialOnlyAlone ==
    ASSUME NEW e, NEW C, NEW x \in Seq(Term),
           \/ ~Homogeneous(e, C)
           \/ ~(Range(x) \subseteq {E, LPE} /\ Len(x) = Cardinality(Range(x)))
    PROVE  Special(e, C, x) = {}
<1>1. Range(<<E>>) = {E} /\ Range(<<LPE>>) = {LPE}
  <2>1. Range(<<E>>) = {E}
    BY RangeOfOne, Zenon
  <2>2. Range(<<LPE>>) = {LPE}
    BY RangeOfOne, Zenon
  <2> QED BY <2>1, <2>2
<1>2. Cardinality({E}) = 1 /\ Cardinality({LPE}) = 1 /\ IsFiniteSet({E})
  BY FS_Singleton
<1>3. Cardinality({E, LPE}) = 2
  <2>1. LPE \notin {E} /\ {E, LPE} = {E} \cup {LPE}
    BY DEF E, LPE
  <2>2. Cardinality({E} \cup {LPE}) = Cardinality({E}) + 1
    BY <1>2, <2>1, FS_AddElement, Zenon
  <2>3. ASSUME NEW n, n = 1 PROVE n + 1 = 2
    BY <2>3
  <2>4. Cardinality({E}) + 1 = 2
    BY <1>2, <2>3, Zenon
  <2> QED BY <2>1, <2>2, <2>4, Zenon
<1>4. Len(<<E>>) = 1 /\ Len(<<LPE>>) = 1
  OBVIOUS
<1>5. CASE ~Homogeneous(e, C)
  BY <1>5 DEF Special
<1>6. CASE ~(Range(x) \subseteq {E, LPE} /\ Len(x) = Cardinality(Range(x)))
  <2>1. x # <<E>>
    BY <1>1, <1>2, <1>4, <1>6
  <2>2. x # <<LPE>>
    BY <1>1, <1>2, <1>4, <1>6
  <2>3. ~(Len(x) = 2 /\ Range(x) = {E, LPE})
    BY <1>3, <1>6
  <2> QED BY <2>1, <2>2, <2>3 DEF Special
<1> QED BY <1>5, <1>6

(* Terms are a union, for any entries and the mask of any expression over   *)
(* them.                                                                    *)
LEMMA UnionOfTerms ==
    ASSUME IsEntries(entries), expression \in Seq(Term),
           result \in {NoMask, MaskFromEntries(entries, expression)}
    PROVE  TermsCombine
<1> DEFINE C        == Candidates(entries)
           x        == expression
           counting == {t \in Range(x) : ~Homogeneous(entries, C) \/ t.kind \in {"C", "index"}}
           alone    == Homogeneous(entries, C) /\ Range(x) \subseteq {E, LPE}
                         /\ Len(x) = Cardinality(Range(x))
           part(t)  == IF t.kind = "index" THEN {i \in C : t.index = i} ELSE Tier(entries, C, t.kind)
<1> SUFFICES ASSUME AllFit, result.state = "ok", ~alone
             PROVE  result.mask = UNION {MaskOf(<<t>>) : t \in counting}
  BY DEF TermsCombine
<1>1. result = MaskFromEntries(entries, x)
  BY DEF NoMask
<1>2. C # {}
  BY <1>1 DEF MaskFromEntries, Error
<1>3. DOMAIN entries = Fits(DOMAIN entries)
  BY DEF AllFit
<1>4. \A t \in Range(x) : t \in Term /\ t.kind \in Portable \cup {"index"}
  <2>1. \A i \in DOMAIN x : x[i] \in Term
    OBVIOUS
  <2>2. Range(x) \subseteq Term
    BY <2>1, Zenon DEF Range
  <2> QED BY <2>2 DEF Term
<1>5. Special(entries, C, x) = {}
  <2> HIDE DEF C
  <2> QED BY SpecialOnlyAlone
<1>6. result.mask = UNION {part(t) : t \in Range(x)}
  <2> DEFINE tiers  == TierMask(entries, x)
             chosen == IndexMask(entries, x)
  <2>1. MaskFromEntries(entries, x).mask = Special(entries, C, x) \cup tiers \cup chosen
    BY <1>2, <1>3, WholeMask
  <2>2. "index" \notin Portable
    BY DEF Portable
  <2>3. tiers \cup chosen = UNION {part(t) : t \in Range(x)}
    <3>1. ASSUME NEW i \in tiers PROVE i \in UNION {part(t) : t \in Range(x)}
      <4>1. PICK t \in Portables(x) : i \in Tier(entries, C, t.kind)
        BY DEF TierMask
      <4>2. t \in Range(x) /\ t.kind # "index"
        BY <2>2 DEF Portables
      <4> QED BY <4>1, <4>2
    <3>2. ASSUME NEW i \in chosen PROVE i \in UNION {part(t) : t \in Range(x)}
      <4>1. PICK t \in Range(x) : i \in C /\ t.kind = "index" /\ t.index = i
        BY DEF IndexMask
      <4>2. i \in part(t)
        BY <4>1
      <4> QED BY <4>2
    <3>3. ASSUME NEW t \in Range(x), NEW i \in part(t) PROVE i \in tiers \cup chosen
      <4>1. CASE t.kind = "index"
        BY <3>3, <4>1 DEF IndexMask
      <4>2. CASE t.kind # "index"
        BY <1>4, <3>3, <4>2 DEF Portables, TierMask
      <4> QED BY <4>1, <4>2
    <3> HIDE DEF tiers, chosen, part
    <3> QED BY <3>1, <3>2, <3>3
  <2> HIDE DEF tiers, chosen, part, C
  <2> QED BY <1>1, <1>5, <2>1, <2>3
<1>7. ASSUME NEW t \in counting PROVE MaskOf(<<t>>) = part(t)
  <2>1. Special(entries, C, <<t>>) = {}
    <3>1. CASE ~Homogeneous(entries, C)
      BY <3>1 DEF Special
    <3>2. CASE t.kind \in {"C", "index"}
      <4>1. t \notin {E, LPE}
        BY <3>2 DEF E, LPE
      <4>2. Range(<<t>>) = {t}
        BY RangeOfOne, Zenon
      <4>3. <<t>> \in Seq(Term)
        BY <1>4
      <4>4. ~(Range(<<t>>) \subseteq {E, LPE})
        BY <4>1, <4>2
      <4> HIDE DEF C
      <4> QED BY <4>3, <4>4, SpecialOnlyAlone
    <3> QED BY <3>1, <3>2
  <2>2. t \in Term
    BY <1>4
  <2>3. MaskOf(<<t>>) = Special(entries, C, <<t>>) \cup part(t)
    BY <1>2, <1>3, <2>2, MaskOfTerm DEF MaskOf
  <2> QED BY <2>1, <2>3
<1>8. ASSUME NEW t \in Range(x), t \notin counting PROVE part(t) = {}
  BY <1>4, <1>8 DEF Tier
<1> HIDE DEF part, C, x
<1>9. UNION {part(t) : t \in Range(x)} = UNION {MaskOf(<<t>>) : t \in counting}
  BY <1>7, <1>8
<1> QED BY <1>6, <1>9

(* Candidates that all fit in a mask are finitely many. *)
LEMMA CandidatesFinite ==
    ASSUME NEW e, IsEntries(e), DOMAIN e = Fits(DOMAIN e)
    PROVE  Candidates(e) \subseteq Nat /\ IsFiniteSet(Candidates(e))
<1>1. Candidates(e) \subseteq 0..(MaskBits - 1)
  BY MaskBitsAssumption DEF IsEntries, Fits, Candidates
<1>2. IsFiniteSet(0..(MaskBits - 1))
  BY MaskBitsAssumption, FS_Interval
<1>3. IsFiniteSet(Candidates(e))
  BY <1>1, <1>2, FS_Subset
<1> QED BY <1>3 DEF IsEntries, Candidates

(* There is a lowest class, and with it a low-power tier. *)
LEMMA LowPowerExists ==
    ASSUME NEW e, NEW C, C # {}, IsFiniteSet(C), \A i \in C : e[i].class \in Nat
    PROVE  Bottom(e, C) # {} /\ LowPower(e, C) # {}
<1> DEFINE R == {p \in C \X C : e[p[1]].class <= e[p[2]].class}
<1>1. \A i, j \in C : <<i, j>> \in R <=> e[i].class <= e[j].class
  OBVIOUS
<1> HIDE DEF R
<1>2. ASSUME NEW i \in C, NEW j \in C, NEW k \in C, <<i, j>> \in R, <<j, k>> \in R
      PROVE  <<i, k>> \in R
  <2>1. e[i].class \in Nat /\ e[j].class \in Nat /\ e[k].class \in Nat
    OBVIOUS
  <2>2. e[i].class <= e[j].class /\ e[j].class <= e[k].class
    BY <1>1, <1>2
  <2>3. e[i].class <= e[k].class
    BY <2>1, <2>2
  <2> QED BY <1>1, <2>3
<1>3. ASSUME NEW i \in C, NEW j \in C PROVE <<i, j>> \in R \/ <<j, i>> \in R
  <2>1. e[i].class \in Nat /\ e[j].class \in Nat
    OBVIOUS
  <2>2. e[i].class <= e[j].class \/ e[j].class <= e[i].class
    BY <2>1
  <2> QED BY <1>1, <2>2
<1>4. PICK i \in C : \A j \in C \ {i} : <<i, j>> \in R
  BY <1>2, <1>3, GreatestExists
<1>5. \A j \in C : <<i, j>> \in R
  BY <1>3, <1>4
<1>6. i \in Bottom(e, C)
  BY <1>1, <1>5 DEF Bottom
<1>7. LowPower(e, C) = Bottom(e, C) \/ LowPower(e, C) # {}
  BY DEF LowPower
<1> QED BY <1>6, <1>7

(* The last n of a set are at most n: all but the first of them lie above   *)
(* the first, and fewer than n do.                                          *)
LEMMA LastOfBound ==
    ASSUME NEW C \in SUBSET Nat, C # {}, IsFiniteSet(C), NEW n \in Nat \ {0}
    PROVE  Max(C) \in LastOf(C, n) /\ Cardinality(LastOf(C, n)) <= n
<1>1. Max(C) \in C /\ \A j \in C : Max(C) >= j
  BY MaxIsGreatest
<1>2. {j \in C : j > Max(C)} = {}
  <2>1. ASSUME NEW j \in C PROVE ~(j > Max(C))
    <3>1. j \in Nat /\ Max(C) \in Nat /\ Max(C) >= j
      BY <1>1
    <3> QED BY <3>1
  <2> QED BY <2>1
<1>3. Max(C) \in LastOf(C, n)
  BY <1>1, <1>2, FS_EmptySet DEF LastOf
<1>4. LastOf(C, n) \in SUBSET Nat /\ LastOf(C, n) \in SUBSET C /\ LastOf(C, n) # {}
  BY <1>3 DEF LastOf
<1>5. IsFiniteSet(LastOf(C, n))
  BY <1>4, FS_Subset
<1> DEFINE m     == Min(LastOf(C, n))
           above == {j \in C : j > m}
<1>6. m \in LastOf(C, n) /\ \A j \in LastOf(C, n) : m <= j
  BY <1>4, <1>5, MinIsLeast
<1>7. Cardinality(above) < n
  BY <1>6 DEF LastOf
<1>8. above \in SUBSET C
  OBVIOUS
<1>9. IsFiniteSet(above)
  BY <1>8, FS_Subset
<1>10. m \in Nat /\ m \notin above /\ LastOf(C, n) \in SUBSET (above \cup {m})
  BY <1>4, <1>6
<1> HIDE DEF above, m
<1>11. IsFiniteSet(above \cup {m}) /\ Cardinality(above \cup {m}) = Cardinality(above) + 1
  BY <1>9, <1>10, FS_AddElement
<1>12. Cardinality(LastOf(C, n)) <= Cardinality(above \cup {m})
  BY <1>10, <1>11, FS_Subset
<1>13. Cardinality(above) \in Nat /\ Cardinality(LastOf(C, n)) \in Nat
  BY <1>5, <1>9, FS_CardinalityType
<1> QED BY <1>3, <1>7, <1>11, <1>12, <1>13

(* With one class the low-power processors are at most four, the last one   *)
(* among them.                                                              *)
LEMMA HomogeneousBound ==
    ASSUME NEW C \in SUBSET Nat, C # {}, IsFiniteSet(C)
    PROVE  Max(C) \in HomogeneousLowPower(C) /\ Cardinality(HomogeneousLowPower(C)) <= 4
<1>1. Max(C) \in LastOf(C, 2) /\ Cardinality(LastOf(C, 2)) <= 2
  BY LastOfBound
<1>2. Max(C) \in LastOf(C, 4) /\ Cardinality(LastOf(C, 4)) <= 4
  BY LastOfBound
<1>3. LastOf(C, 2) \in SUBSET C
  BY DEF LastOf
<1>4. Cardinality(LastOf(C, 2)) \in Nat
  BY <1>3, FS_Subset, FS_CardinalityType
<1> DEFINE m      == Max(C)
           spread == {i \in C : \E step \in 0..3 : i = m - 2 * step}
<1>5. m \in C /\ m \in Nat
  <2>1. Max(C) \in C
    BY MaxIsGreatest
  <2> QED BY <2>1
<1> HIDE DEF m
<1>6. m \in spread
  <2>1. 0 \in 0..3 /\ m = m - 2 * 0
    BY <1>5
  <2> QED BY <1>5, <2>1
<1>7. Cardinality(spread) <= 4
  <2> DEFINE two   == {m} \cup {m - 2}
             three == two \cup {m - 4}
             four  == three \cup {m - 6}
  <2>1. spread \in SUBSET four
    <3>1. \A step \in 0..3 : step = 0 \/ step = 1 \/ step = 2 \/ step = 3
      OBVIOUS
    <3>2. m - 2 * 0 = m /\ m - 2 * 1 = m - 2 /\ m - 2 * 2 = m - 4 /\ m - 2 * 3 = m - 6
      BY <1>5
    <3>3. \A step \in 0..3 : m - 2 * step \in four
      BY <3>1, <3>2
    <3> HIDE DEF four
    <3> QED BY <3>3
  <2>2. IsFiniteSet({m}) /\ Cardinality({m}) = 1
    BY FS_Singleton
  <2>3. ASSUME NEW S, IsFiniteSet(S), NEW n \in Nat, Cardinality(S) <= n, NEW i
        PROVE  IsFiniteSet(S \cup {i}) /\ Cardinality(S \cup {i}) <= n + 1
    <3>1. Cardinality(S) \in Nat
      BY <2>3, FS_CardinalityType
    <3>2. /\ IsFiniteSet(S \cup {i})
          /\ Cardinality(S \cup {i}) = IF i \in S THEN Cardinality(S) ELSE Cardinality(S) + 1
      BY <2>3, FS_AddElement
    <3> QED BY <2>3, <3>1, <3>2
  <2>4. IsFiniteSet(two) /\ Cardinality(two) <= 2
    <3>1. IsFiniteSet({m}) /\ 1 \in Nat /\ Cardinality({m}) <= 1
      BY <2>2
    <3>2. IsFiniteSet(two) /\ Cardinality(two) <= 1 + 1
      BY <2>3, <3>1, Zenon
    <3> QED BY <3>2
  <2> HIDE DEF two
  <2>5. IsFiniteSet(three) /\ Cardinality(three) <= 3
    <3>1. 2 \in Nat
      OBVIOUS
    <3>2. IsFiniteSet(three) /\ Cardinality(three) <= 2 + 1
      BY <2>3, <2>4, <3>1, Zenon
    <3> QED BY <3>2
  <2> HIDE DEF three
  <2>6. IsFiniteSet(four) /\ Cardinality(four) <= 4
    <3>1. 3 \in Nat
      OBVIOUS
    <3>2. IsFiniteSet(four) /\ Cardinality(four) <= 3 + 1
      BY <2>3, <2>5, <3>1, Zenon
    <3> QED BY <3>2
  <2> HIDE DEF four, spread
  <2>7. Cardinality(spread) <= Cardinality(four) /\ IsFiniteSet(spread)
    BY <2>1, <2>6, FS_Subset
  <2>8. Cardinality(spread) \in Nat /\ Cardinality(four) \in Nat
    BY <2>6, <2>7, FS_CardinalityType
  <2> QED BY <2>6, <2>7, <2>8
<1> HIDE DEF spread
<1>8. HomogeneousLowPower(C) \in {LastOf(C, 2), LastOf(C, 4), spread}
  BY DEF HomogeneousLowPower, spread, m
<1>9. \A S \in {LastOf(C, 2), LastOf(C, 4), spread} : Max(C) \in S /\ Cardinality(S) <= 4
  BY <1>1, <1>2, <1>4, <1>6, <1>7 DEF m
<1> QED BY <1>8, <1>9

(* The mask of LPE alone. *)
LEMMA MaskOfLowPower ==
    ASSUME NEW e, IsEntries(e), DOMAIN e = Fits(DOMAIN e), Candidates(e) # {}
    PROVE  MaskFromEntries(e, <<LPE>>).mask =
             IF Homogeneous(e, Candidates(e)) THEN HomogeneousLowPower(Candidates(e))
                                              ELSE LowPower(e, Candidates(e))
<1> DEFINE C == Candidates(e)
<1>1. LPE \in Term /\ LPE.kind = "LPE"
  BY DEF LPE, Term, Portable
<1>2. MaskFromEntries(e, <<LPE>>).mask = Special(e, C, <<LPE>>) \cup Tier(e, C, "LPE")
  BY <1>1, MaskOfTerm
<1>3. <<LPE>> # <<E>> /\ Len(<<LPE>>) # 2
  BY DEF LPE, E
<1>4. CASE Homogeneous(e, C)
  <2>1. Tier(e, C, "LPE") = {} /\ Special(e, C, <<LPE>>) = HomogeneousLowPower(C)
    BY <1>3, <1>4 DEF Tier, Special
  <2> QED BY <1>2, <1>4, <2>1
<1>5. CASE ~Homogeneous(e, C)
  <2>1. Tier(e, C, "LPE") = LowPower(e, C) /\ Special(e, C, <<LPE>>) = {}
    BY <1>5 DEF Tier, Special
  <2> QED BY <1>2, <1>5, <2>1
<1> QED BY <1>4, <1>5

(* LPE always selects something, for any topology. *)
LEMMA LowPowerOfEntries ==
    ASSUME IsEntries(entries)
    PROVE  LowPowerAvailable
<1> DEFINE C == Candidates(entries)
<1> SUFFICES ASSUME AllFit, C # {}
             PROVE  /\ MaskOf(<<LPE>>) # {}
                    /\ Homogeneous(entries, C) =>
                         Max(C) \in MaskOf(<<LPE>>) /\ Cardinality(MaskOf(<<LPE>>)) <= 4
  BY DEF LowPowerAvailable
<1>1. DOMAIN entries = Fits(DOMAIN entries)
  BY DEF AllFit
<1>2. C \subseteq Nat /\ IsFiniteSet(C)
  BY <1>1, CandidatesFinite
<1>3. \A i \in C : entries[i].class \in Nat
  BY DEF IsEntries, Candidates
<1>4. MaskOf(<<LPE>>) = IF Homogeneous(entries, C) THEN HomogeneousLowPower(C) ELSE LowPower(entries, C)
  BY <1>1, MaskOfLowPower DEF MaskOf
<1> HIDE DEF C
<1>5. CASE Homogeneous(entries, C)
  BY <1>2, <1>4, <1>5, HomogeneousBound
<1>6. CASE ~Homogeneous(entries, C)
  BY <1>2, <1>3, <1>4, <1>6, LowPowerExists
<1> QED BY <1>5, <1>6

(* The rank of an island of the lower class is four integers. *)
LEMMA IslandRankIsKey ==
    ASSUME NEW e, NEW low \in SUBSET Nat, IsFiniteSet(low), NEW higher,
           NEW i \in low, e[i].island \in Nat
    PROVE  /\ IslandRank(e, low, higher, e[i].island) \in Keys
           /\ Max(Members(e, low, e[i].island)) \in Members(e, low, e[i].island)
           /\ \A j \in Members(e, low, e[i].island) : Max(Members(e, low, e[i].island)) >= j
<1> DEFINE k == e[i].island
           M == Members(e, low, k)
<1>1. M \in SUBSET low /\ M \in SUBSET Int /\ i \in M
  <2>1. M \subseteq low /\ i \in M
    BY Zenon DEF Members
  <2> HIDE DEF M
  <2> QED BY <2>1
<1>2. IsFiniteSet(M)
  BY <1>1, FS_Subset
<1> HIDE DEF M
<1>3. Max(M) \in M /\ \A j \in M : Max(M) >= j
  BY <1>1, <1>2, MaxIsGreatest
<1>4. Max(M) \in Int /\ Cardinality(M) \in Int /\ -k \in Int
  <2>1. Cardinality(M) \in Nat
    BY <1>2, FS_CardinalityType
  <2>2. -k \in Int
    OBVIOUS
  <2>3. Max(M) \in Int
    BY <1>1, <1>3, Zenon
  <2>4. \A j \in Nat : j \in Int
    OBVIOUS
  <2> QED BY <2>1, <2>2, <2>3, <2>4, Zenon
<1>5. (IF \E j \in higher : e[j].island = k THEN 0 ELSE 1) \in Int
  OBVIOUS
<1>6. IslandRank(e, low, higher, k) \in Keys
  BY <1>4, <1>5, Zenon DEF IslandRank, Keys, M
<1> QED BY <1>3, <1>6 DEF M

(* An island that no faster processor shares, and that has the highest      *)
(* index of all such islands, is the one choose_efficiency_island takes.    *)
LEMMA IsolatedIslandWins ==
    ASSUME NEW e, NEW low \in SUBSET Nat, IsFiniteSet(low), NEW higher,
           \A i \in low : e[i].island \in Nat,
           NEW n \in low, \A j \in higher : e[j].island # e[n].island,
           \A i \in low : (\A j \in higher : e[j].island # e[i].island) => i <= n,
           NEW other \in low, e[other].island # e[n].island
    PROVE  ChooseEfficiencyIsland(e, low, higher) = {e[n].island}
<1> DEFINE islands == {e[i].island : i \in low}
           k       == e[n].island
           rank(l) == IslandRank(e, low, higher, l)
<1>1. ASSUME NEW l \in islands
      PROVE  /\ rank(l) \in Keys
             /\ Max(Members(e, low, l)) \in Members(e, low, l)
             /\ \A j \in Members(e, low, l) : Max(Members(e, low, l)) >= j
  <2>1. PICK i \in low : l = e[i].island
    OBVIOUS
  <2> QED BY <2>1, IslandRankIsKey
<1>2. k \in islands
  OBVIOUS
<1>3. \A l \in islands :
         /\ rank(l)[1] = IF \E j \in higher : e[j].island = l THEN 0 ELSE 1
         /\ rank(l)[2] = Max(Members(e, low, l))
  BY DEF IslandRank
<1>4. ASSUME NEW l \in islands, l # k
      PROVE  LexGreater(rank(k), rank(l)) /\ ~LexGreater(rank(l), rank(k))
  <2>1. rank(k) \in Keys /\ rank(l) \in Keys
    BY <1>1, <1>2
  <2>2. rank(k)[1] = 1
    BY <1>2, <1>3
  <2>3. CASE \E j \in higher : e[j].island = l
    <3>1. rank(l)[1] = 0
      BY <1>3, <2>3
    <3> HIDE DEF rank
    <3> QED BY <2>1, <2>2, <3>1, LexGreaterIs
  <2>4. CASE \A j \in higher : e[j].island # l
    <3>1. rank(l)[1] = 1
      BY <1>3, <2>4
    <3>2. Max(Members(e, low, k)) >= n /\ Max(Members(e, low, k)) \in low
      BY <1>1, <1>2 DEF Members
    <3>3. Max(Members(e, low, l)) \in low /\ e[Max(Members(e, low, l))].island = l
      BY <1>1 DEF Members
    <3>4. Max(Members(e, low, l)) <= n /\ Max(Members(e, low, l)) # n
      BY <2>4, <3>3, <1>4
    <3>5. rank(k)[2] > rank(l)[2]
      <4>1. /\ rank(k)[2] = Max(Members(e, low, k)) /\ rank(l)[2] = Max(Members(e, low, l))
            /\ Max(Members(e, low, k)) \in Nat /\ Max(Members(e, low, l)) \in Nat /\ n \in Nat
        BY <1>2, <1>3, <3>2, <3>3
      <4> HIDE DEF rank
      <4> QED BY <3>2, <3>4, <4>1
    <3> HIDE DEF rank
    <3>6. rank(k)[2] \in Int /\ rank(l)[2] \in Int
      BY <2>1 DEF Keys
    <3> QED BY <2>1, <2>2, <3>1, <3>5, <3>6, LexGreaterIs
  <2> QED BY <2>3, <2>4
<1>5. ~LexGreater(rank(k), rank(k))
  <2>1. rank(k) \in Keys
    BY <1>1, <1>2
  <2> HIDE DEF rank
  <2>2. rank(k)[1] \in Int /\ rank(k)[2] \in Int /\ rank(k)[3] \in Int /\ rank(k)[4] \in Int
    BY <2>1 DEF Keys
  <2> QED BY <2>1, <2>2, LexGreaterIs
<1>6. ~(Cardinality(islands) <= 1)
  <2>1. IsFiniteSet(islands)
    <3> DEFINE f == [i \in low |-> e[i].island]
    <3>1. f \in Surjection(low, islands)
      BY DEF Surjection
    <3> HIDE DEF f
    <3> QED BY <3>1, FS_Surjection
  <2>2. Cardinality(islands) \in Nat
    BY <2>1, FS_CardinalityType
  <2>3. islands # {} /\ \A l : islands # {l}
    <3>1. e[other].island \in islands /\ e[other].island # k
      OBVIOUS
    <3> HIDE DEF islands
    <3> QED BY <1>2, <3>1
  <2> HIDE DEF islands
  <2>4. Cardinality(islands) # 0 /\ Cardinality(islands) # 1
    BY <2>1, <2>3, FS_EmptySet, FS_Singleton
  <2> QED BY <2>2, <2>4
<1>7. ChooseEfficiencyIsland(e, low, higher) =
        {CHOOSE a \in islands : \A b \in islands : ~LexGreater(rank(b), rank(a))}
  BY <1>6, Zenon DEF ChooseEfficiencyIsland, Best
<1> HIDE DEF rank, islands, k
<1>8. \A b \in islands : ~LexGreater(rank(b), rank(k))
  BY <1>4, <1>5
<1>9. \A a \in islands : (\A b \in islands : ~LexGreater(rank(b), rank(a))) => a = k
  BY <1>2, <1>4
<1>10. (CHOOSE a \in islands : \A b \in islands : ~LexGreater(rank(b), rank(a))) = k
  BY <1>2, <1>8, <1>9
<1> QED BY <1>7, <1>10 DEF k

(* The low-power tier is the isolated island, for any topology. *)
LEMMA IsolatedOfEntries ==
    ASSUME IsEntries(entries)
    PROVE  LowPowerIsolated
<1> DEFINE C        == Candidates(entries)
           low      == Bottom(entries, C)
           island   == [i \in DOMAIN entries |-> entries[i].island]
           isolated == {i \in low : \A j \in C \ low : island[j] # island[i]}
           n        == Max(isolated)
<1> SUFFICES ASSUME AllFit, ~Homogeneous(entries, C), Middle(entries, C) = {}, isolated # {},
                    NEW i0 \in low, NEW j0 \in low, island[i0] # island[j0]
             PROVE  MaskOf(<<LPE>>) = {i \in isolated : island[i] = island[n]}
  BY Zenon DEF LowPowerIsolated
<1>1. DOMAIN entries = Fits(DOMAIN entries)
  BY DEF AllFit
<1>2. C \subseteq Nat /\ IsFiniteSet(C) /\ C # {}
  BY <1>1, CandidatesFinite DEF Homogeneous
<1>3. low \subseteq C /\ isolated \subseteq low /\ C \subseteq DOMAIN entries
  BY DEF Bottom, Candidates
<1>4. IsFiniteSet(low) /\ IsFiniteSet(isolated)
  BY <1>2, <1>3, FS_Subset
<1>5. \A i \in C : island[i] = entries[i].island /\ entries[i].island \in Nat
  BY <1>3 DEF IsEntries
<1>6. \A i : i \in isolated <=> i \in low /\ \A j \in C \ low : entries[j].island # entries[i].island
  BY <1>3, <1>5
<1>7. n \in isolated /\ \A i \in isolated : n >= i
  <2>1. isolated \in SUBSET Int
    BY <1>2, <1>3
  <2> HIDE DEF isolated
  <2> QED BY <1>4, <2>1, MaxIsGreatest
<1>8. MaskOf(<<LPE>>) = LowPower(entries, C)
  BY <1>1, <1>2, MaskOfLowPower DEF MaskOf
<1> HIDE DEF C, low, island, isolated, n
<1>9. PICK other \in low : entries[other].island # entries[n].island
  BY <1>3, <1>5
<1>10. ChooseEfficiencyIsland(entries, low, C \ low) = {entries[n].island}
  <2>1. low \in SUBSET Nat /\ n \in low /\ n \in Nat
    BY <1>2, <1>3, <1>7
  <2>2. \A i \in low : entries[i].island \in Nat
    BY <1>3, <1>5
  <2>3. \A j \in C \ low : entries[j].island # entries[n].island
    BY <1>6, <1>7
  <2>4. \A i \in low : (\A j \in C \ low : entries[j].island # entries[i].island) => i <= n
    <3>1. ASSUME NEW i \in low, \A j \in C \ low : entries[j].island # entries[i].island
          PROVE  i <= n
      <4>1. i \in isolated /\ i \in Nat
        BY <1>6, <2>1, <3>1
      <4> QED BY <1>7, <2>1, <4>1
    <3> QED BY <3>1
  <2> QED BY <1>4, <1>9, <2>1, <2>2, <2>3, <2>4, IsolatedIslandWins
<1>11. {i \in low : entries[i].island \in {entries[n].island}}
         = {i \in isolated : island[i] = island[n]}
  <2>1. ASSUME NEW i \in low, entries[i].island = entries[n].island PROVE i \in isolated
    BY <1>6, <1>7, <2>1
  <2> QED BY <1>3, <1>5, <1>7, <2>1
<1>12. n \in {i \in low : entries[i].island \in {entries[n].island}}
  BY <1>3, <1>7
<1>13. other \notin {i \in low : entries[i].island \in {entries[n].island}}
  BY <1>9
<1>14. LowPower(entries, C) = {i \in low : entries[i].island \in {entries[n].island}}
  BY <1>10, <1>12, <1>13 DEF LowPower, low
<1> QED BY <1>8, <1>11, <1>14

(* The preferred cache is one of the machine's, and none is larger. *)
LEMMA SelectedCache ==
    ASSUME NEW m \in Machines, NEW c \in SelectCCaches(m)
    PROVE  /\ SelectCCaches(m) = {c}
           /\ c \in m.caches
           /\ \A d \in RealCaches(m.caches) : d.size <= c.size
<1> DEFINE real == RealCaches(m.caches)
           rank == [d \in real |-> CacheRank(d)]
<1>1. real \in SUBSET m.caches /\ \A d \in real : d.mask # {}
  BY DEF RealCaches
<1>2. IsFiniteSet(m.caches)
  BY MachinesAssumption
<1>3. IsFiniteSet(real)
  BY <1>1, <1>2, FS_Subset
<1>4. \A d \in real : d.size \in Nat /\ d.group \in Nat /\ d.mask \in SUBSET Nat /\ IsFiniteSet(d.mask)
  BY <1>1, MachinesAssumption
<1>5. /\ real # {}
      /\ SelectCCaches(m) =
           {CHOOSE a \in real : \A b \in real : ~LexGreater(CacheRank(b), CacheRank(a))}
  <2>1. IsCCacheCandidate(m) /\ real # {}
    BY DEF SelectCCaches
  <2> QED BY <2>1, Zenon DEF SelectCCaches, Best
<1> HIDE DEF real
<1>6. ASSUME NEW d \in real PROVE CacheRank(d) \in Keys
  <2>1. Cardinality(d.mask) \in Int
    <3>1. Cardinality(d.mask) \in Nat
      BY <1>4, FS_CardinalityType
    <3> QED BY <3>1
  <2>2. Min(d.mask) \in Int
    <3>1. d.mask \in SUBSET Int /\ d.mask # {} /\ IsFiniteSet(d.mask)
      BY <1>1, <1>4
    <3> QED BY <3>1, MinIsLeast
  <2>3. -Min(d.mask) \in Int /\ d.size \in Int /\ -d.group \in Int
    BY <1>4, <2>2
  <2> QED BY <2>1, <2>3, Zenon DEF CacheRank, Keys
<1>7. rank \in [real -> Keys] /\ \A d \in real : rank[d] = CacheRank(d)
  BY <1>6
<1> HIDE DEF rank
<1>8. \E a \in real : \A b \in real : ~LexGreater(CacheRank(b), CacheRank(a))
  <2>1. \E a \in real : \A b \in real : ~LexGreater(rank[b], rank[a])
    BY <1>3, <1>5, <1>7, BestExists
  <2> QED BY <1>7, <2>1
<1> DEFINE best == CHOOSE a \in real : \A b \in real : ~LexGreater(CacheRank(b), CacheRank(a))
<1>9. best \in real /\ \A b \in real : ~LexGreater(CacheRank(b), CacheRank(best))
  BY <1>8
<1>10. c = best /\ SelectCCaches(m) = {best}
  BY <1>5
<1> HIDE DEF best
<1>11. ASSUME NEW d \in real PROVE d.size <= c.size
  <2>1. CacheRank(d)[1] = d.size /\ CacheRank(c)[1] = c.size
    BY DEF CacheRank
  <2>2. ~LexGreater(CacheRank(d), CacheRank(c))
    BY <1>9, <1>10
  <2>3. CacheRank(d) \in Keys /\ CacheRank(c) \in Keys
    BY <1>6, <1>9, <1>10
  <2>4. ~(CacheRank(d)[1] > CacheRank(c)[1])
    BY <2>2, <2>3, LexGreaterIs
  <2>5. d.size \in Nat /\ c.size \in Nat
    BY <1>4, <1>9, <1>10
  <2> QED BY <2>1, <2>4, <2>5
<1> QED BY <1>1, <1>9, <1>10, <1>11 DEF real

(* What the C flags of a topology say of the machine's caches. *)
LEMMA CacheOfEntries ==
    ASSUME machine \in Machines, entries = <<>> \/ entries \in Topologies(machine)
    PROVE  CacheIsOneLargest
<1> DEFINE chosen == {i \in DOMAIN entries : entries[i].cache}
<1> SUFFICES ASSUME NEW i0 \in chosen
             PROVE  \E c \in machine.caches :
                       /\ chosen = c.mask \cap DOMAIN entries
                       /\ \A d \in RealCaches(machine.caches) : d.size <= c.size
  BY DEF CacheIsOneLargest
<1>1. entries \in Topologies(machine)
  <2>1. entries # <<>>
    OBVIOUS
  <2> QED BY <2>1
<1>2. entries # FallbackEntries(machine)
  <2>1. ASSUME entries = FallbackEntries(machine) PROVE FALSE
    <3>1. i0 \in DOMAIN FallbackEntries(machine) /\ FallbackEntries(machine)[i0].cache
      BY <2>1, Zenon
    <3>2. FallbackEntries(machine)[i0].cache = FALSE
      BY <3>1 DEF FallbackEntries
    <3> QED BY <3>1, <3>2
  <2> QED BY <2>1
<1>3. PICK caches \in {{}, SelectCCaches(machine)} : entries = ReadCpuSets(machine, caches)
  BY <1>1, <1>2 DEF Topologies
<1>4. /\ DOMAIN entries = DOMAIN machine.cpus
      /\ \A i \in DOMAIN entries : entries[i].cache = \E c \in caches : c.group = 0 /\ i \in c.mask
  BY <1>3 DEF ReadCpuSets
<1>5. PICK c \in caches : c.group = 0 /\ i0 \in c.mask
  BY <1>4
<1>6. caches = SelectCCaches(machine) /\ c \in SelectCCaches(machine)
  BY <1>3, <1>5
<1>7. /\ caches = {c} /\ c \in machine.caches
      /\ \A d \in RealCaches(machine.caches) : d.size <= c.size
  BY <1>6, SelectedCache
<1>8. chosen = c.mask \cap DOMAIN entries
  BY <1>4, <1>5, <1>7
<1> QED BY <1>7, <1>8

-----------------------------------------------------------------------------
(* The invariant: the entries are a topology of this machine, and a result  *)
(* is what mask_from_entries computes from them.  The properties need both: *)
(* the flags of the entries speak of the machine's caches, and the result   *)
(* of the expression.                                                       *)
Answered ==
    /\ machine \in Machines /\ expression \in Expressions
    /\ entries = <<>> \/ entries \in Topologies(machine)
    /\ result \in {NoMask, MaskFromEntries(entries, expression)}

IInv == TypeOK /\ MaskIsUsable /\ Answered

(* It holds before anything is read. *)
LEMMA InitIInv == Init => IInv
BY DEF Init, IInv, TypeOK, IsEntries, MaskIsUsable, NoMask, Answered

(* What read_or_fallback returns is well formed. *)
LEMMA TopologiesAreEntries ==
    ASSUME NEW m \in Machines, NEW e \in Topologies(m)
    PROVE  IsEntries(e)
<1>1. CASE e = FallbackEntries(m)
  <2>1. m.parallelism \in Nat \ {0}
    BY MachinesAssumption
  <2>2. DOMAIN e = 0..(m.parallelism - 1)
    BY <1>1 DEF FallbackEntries
  <2>3. \A i \in DOMAIN e : e[i] = [class |-> 0, island |-> 0, usable |-> TRUE, cache |-> FALSE]
    BY <1>1 DEF FallbackEntries
  <2>4. DOMAIN e \subseteq Nat
    BY <2>1, <2>2
  <2>5. \A i \in DOMAIN e : /\ e[i].class \in Nat /\ e[i].island \in Nat
                            /\ e[i].usable = TRUE /\ e[i].cache = FALSE
    BY <2>3
  <2> QED BY <2>4, <2>5, Zenon DEF IsEntries
<1>2. ASSUME NEW caches, e = ReadCpuSets(m, caches) PROVE IsEntries(e)
  BY <1>2, MachinesAssumption DEF ReadCpuSets, IsEntries
<1> QED BY <1>1, <1>2 DEF Topologies

(* Reading and evaluating keep the invariant. *)
LEMMA NextIInv == IInv /\ [Next]_vars => IInv'
<1> SUFFICES ASSUME IInv, [Next]_vars PROVE IInv'
  OBVIOUS
<1>1. CASE ReadTopology
  <2>1. /\ entries' \in Topologies(machine) /\ result' = NoMask
        /\ machine' = machine /\ expression' = expression
    BY <1>1 DEF ReadTopology
  <2>2. IsEntries(entries')
    BY <2>1, TopologiesAreEntries DEF IInv, Answered
  <2>3. (TypeOK /\ MaskIsUsable)'
    BY <2>1, <2>2 DEF TypeOK, MaskIsUsable, NoMask
  <2>4. Answered'
    BY <2>1 DEF IInv, Answered
  <2> QED BY <2>3, <2>4 DEF IInv
<1>2. CASE Evaluate
  <2>1. /\ entries' = entries /\ machine' = machine /\ expression' = expression
        /\ result' = MaskFromEntries(entries, expression)
    BY <1>2 DEF Evaluate
  <2>2. /\ result'.mask \subseteq Fits(Candidates(entries))
        /\ result'.state \in {"none", "error", "ok"}
    BY <2>1, MaskSubset
  <2>3. Fits(Candidates(entries)) \subseteq DOMAIN entries
    BY DEF Fits, Candidates
  <2>4. (TypeOK /\ MaskIsUsable)'
    BY <2>1, <2>2, <2>3 DEF IInv, TypeOK, MaskIsUsable
  <2>5. Answered'
    BY <2>1 DEF IInv, Answered
  <2> QED BY <2>4, <2>5 DEF IInv
<1>3. CASE UNCHANGED vars
  BY <1>3 DEF vars, IInv, TypeOK, MaskIsUsable, Answered
<1> QED BY <1>1, <1>2, <1>3 DEF Next

(* For every machine and expression, and however often the topology is read *)
(* again or falls back, the mask mask_from_entries returns names only       *)
(* usable processors of the entries it was computed from.                   *)
THEOREM MaskAlwaysUsable == Spec => [](TypeOK /\ MaskIsUsable)
<1>1. IInv => TypeOK /\ MaskIsUsable
  BY DEF IInv
<1> QED BY <1>1, InitIInv, NextIInv, PTL DEF Spec

(* For every machine and whatever is read of it, P and E+LPE divide the     *)
(* usable processors, and E and LPE are equal or disjoint.                  *)
THEOREM TiersAlwaysPartition == Spec => []TiersPartition
<1>1. IInv => TiersPartition
  BY PartitionOfEntries DEF IInv, TypeOK
<1> QED BY <1>1, InitIInv, NextIInv, PTL DEF Spec

(* For every machine and whatever is read of it, LPE selects a processor,   *)
(* and on a machine with one class at most four, the last one among them.   *)
THEOREM LowPowerAlwaysAvailable == Spec => []LowPowerAvailable
<1>1. IInv => LowPowerAvailable
  BY LowPowerOfEntries DEF IInv, TypeOK
<1> QED BY <1>1, InitIInv, NextIInv, PTL DEF Spec

(* For every machine and whatever is read of it, the low-power tier of two  *)
(* classes is the last island without a faster processor, if there is one.  *)
THEOREM LowPowerAlwaysIsolated == Spec => []LowPowerIsolated
<1>1. IInv => LowPowerIsolated
  BY IsolatedOfEntries DEF IInv, TypeOK
<1> QED BY <1>1, InitIInv, NextIInv, PTL DEF Spec

(* For every machine and expression the mask is the union of its terms'.    *)
THEOREM TermsAlwaysCombine == Spec => []TermsCombine
<1>1. IInv => expression \in Seq(Term)
  BY ExpressionsAssumption DEF IInv, Answered
<1>2. IInv => TermsCombine
  BY <1>1, UnionOfTerms DEF IInv, TypeOK, Answered
<1> QED BY <1>2, InitIInv, NextIInv, PTL DEF Spec

(* For every machine, whatever its caches, C selects one of them, and none  *)
(* is larger.                                                               *)
THEOREM CacheAlwaysOneLargest == Spec => []CacheIsOneLargest
<1>1. IInv => CacheIsOneLargest
  BY CacheOfEntries DEF IInv, Answered
<1> QED BY <1>1, InitIInv, NextIInv, PTL DEF Spec
=============================================================================
