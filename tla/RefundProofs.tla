----------------------------- MODULE RefundProofs -----------------------------
(***************************************************************************)
(* PurchaseAccess and ReportingCorrections, proved for any orders, items,  *)
(* refunds, disputes, amounts and bounds.                                  *)
(*                                                                         *)
(* PurchaseAccess: nobody is refunded more than was paid, the split of the *)
(* amounts does not depend on the order of the news, local status follows  *)
(* the provider's, and what the buyer may read follows the stored facts.   *)
(* The invariant (AccessInv) says of the money that each part is the share *)
(* of what its item had left after the earlier refunds (SplitHolds), of    *)
(* the news what a read that is not applied yet and the local status can   *)
(* be (ReadHolds, LocalRefundHolds, LocalDisputeHolds).                    *)
(*                                                                         *)
(* ReportingCorrections, which assumes of an order what PurchaseAccess     *)
(* guarantees (AttributionSuitsReports): what the reports of all refunds   *)
(* show together is within what was paid, each shows the distribution      *)
(* approved last, and it changes by an approval only.  The invariant is    *)
(* about the row of each refund (RowOK): its chain of corrections is       *)
(* ordered by implementation, what was carried over repeats the last       *)
(* approval, and a replay that has built the pending set has carried the   *)
(* newest correction over or left an issue that says so.                   *)
(*                                                                         *)
(* The amounts are sums over refunds and items.  What such a sum is        *)
(* follows from the community modules' definition by induction over a      *)
(* finite set, done with a smallest counterexample (SmallestSubset); what  *)
(* a loop gives, by induction over its steps (RunStays, RunExists).  The   *)
(* loops that attribute refunds give each refund and item what their       *)
(* intervals overlap (LoopsGiveOverlaps): the sum of what one refund       *)
(* overlaps is what it overlaps with all of them together (OverlapsAdd).   *)
(***************************************************************************)
EXTENDS PurchaseAccess, ReportingCorrections, FiniteSetTheorems, TLAPS

-----------------------------------------------------------------------------
(* Sums *)

Pick(s) == CHOOSE x \in s : TRUE
Adds(f, s, it) == it = [u \in SUBSET s |-> IF u = {} THEN 0 ELSE f[Pick(u)] + it[u \ {Pick(u)}]]

\* The community modules' sum of a function over a set, as the value at that set of
\* some function that adds up.
LEMMA SumIsFold ==
  ASSUME NEW f, NEW s
  PROVE SumFunctionOnSet(f, s) = (CHOOSE it : Adds(f, s, it))[s]
BY DEF SumFunctionOnSet, FoldFunctionOnSet, MapThenFoldSet, Adds, Pick

\* Induction over a finite set, as the existence of a smallest counterexample.
LEMMA SmallestSubset ==
  ASSUME NEW s, IsFiniteSet(s), NEW T, T \subseteq SUBSET s, T # {}
  PROVE \E u \in T : \A v \in T : v \subseteq u => v = u
<1>1. IsWellFoundedOn(StrictSubsetOrdering(s), FiniteSubsetsOf(s))
  BY FS_StrictSubsetOrderingWellFounded
<1>2. FiniteSubsetsOf(s) = SUBSET s
  BY FS_FiniteSubsetsOfFinite
<1>3. \E u \in T : \A v \in T : <<v, u>> \notin StrictSubsetOrdering(s)
  BY <1>1, <1>2, WFMin
<1> QED
  BY <1>3 DEF StrictSubsetOrdering

\* What a function that adds up is at a subset.
LEMMA AddsAt ==
  ASSUME NEW f, NEW s, NEW it, Adds(f, s, it), NEW w \in SUBSET s
  PROVE it[w] = IF w = {} THEN 0 ELSE f[Pick(w)] + it[w \ {Pick(w)}]
BY DEF Adds

\* Two functions that add up agree on what both add up.
LEMMA AddsAgree ==
  ASSUME NEW f, NEW s, NEW t, NEW i, NEW j, Adds(f, s, i), Adds(f, t, j),
         NEW u, u \subseteq s, u \subseteq t, IsFiniteSet(u)
  PROVE i[u] = j[u]
<1> DEFINE Bad == {v \in SUBSET u : i[v] # j[v]}
<1>1. ASSUME i[u] # j[u] PROVE FALSE
  <2>0. Bad \subseteq SUBSET u /\ Bad # {}
    BY <1>1
  <2>1. PICK v \in Bad : \A w \in Bad : w \subseteq v => w = v
    <3> HIDE DEF Bad
    <3> QED
      BY <2>0, SmallestSubset
  <2>2. \A w \in SUBSET u : /\ i[w] = IF w = {} THEN 0 ELSE f[Pick(w)] + i[w \ {Pick(w)}]
                            /\ j[w] = IF w = {} THEN 0 ELSE f[Pick(w)] + j[w \ {Pick(w)}]
    <3> TAKE w \in SUBSET u
    <3>1. w \in SUBSET s /\ w \in SUBSET t
      OBVIOUS
    <3>2. i[w] = IF w = {} THEN 0 ELSE f[Pick(w)] + i[w \ {Pick(w)}]
      BY <3>1, AddsAt
    <3>3. j[w] = IF w = {} THEN 0 ELSE f[Pick(w)] + j[w \ {Pick(w)}]
      BY <3>1, AddsAt
    <3> QED
      BY <3>2, <3>3
  <2>3. v # {} => Pick(v) \in v
    BY DEF Pick
  <2>4. v # {} => i[v \ {Pick(v)}] = j[v \ {Pick(v)}]
    BY <2>1, <2>3
  <2> QED
    BY <2>1, <2>2, <2>4
<1> QED
  BY <1>1

\* A function that adds up exists for every finite set.
LEMMA AddsExists ==
  ASSUME NEW f, NEW s, IsFiniteSet(s)
  PROVE \E it : Adds(f, s, it)
<1> DEFINE Bad == {v \in SUBSET s : ~ \E it : Adds(f, v, it)}
           Known(w) == CHOOSE j : Adds(f, w, j)
<1>1. ASSUME s \in Bad PROVE FALSE
  <2>0. Bad \subseteq SUBSET s /\ Bad # {}
    BY <1>1
  <2>1. PICK u \in Bad : \A w \in Bad : w \subseteq u => w = u
    <3> HIDE DEF Bad
    <3> QED
      BY <2>0, SmallestSubset
  <2> DEFINE Fewer(v) == v \ {Pick(v)}
             it == [v \in SUBSET u |-> IF v = {} THEN 0 ELSE f[Pick(v)] + Known(Fewer(v))[Fewer(v)]]
  <2>2. \A v \in SUBSET u : v # {} => Fewer(v) \subseteq v /\ Fewer(v) # v
    BY DEF Pick
  <2>3. \A v \in SUBSET u : v # u => Adds(f, v, Known(v))
    BY <2>1
  <2>4. ASSUME NEW v \in SUBSET u, v # {} PROVE it[Fewer(v)] = Known(Fewer(v))[Fewer(v)]
    <3> DEFINE w == Fewer(v)
    <3>1. w \subseteq u /\ w # u /\ IsFiniteSet(w)
      BY <2>2, <2>4, FS_Subset
    <3>2. Adds(f, w, Known(w))
      BY <3>1, <2>3
    <3>3. Known(w)[w] = IF w = {} THEN 0 ELSE f[Pick(w)] + Known(w)[Fewer(w)]
      <4> HIDE DEF w, Known
      <4> QED
        BY <3>2 DEF Adds
    <3>4. w # {} => Known(w)[Fewer(w)] = Known(Fewer(w))[Fewer(w)]
      <4> SUFFICES ASSUME w # {} PROVE Known(w)[Fewer(w)] = Known(Fewer(w))[Fewer(w)]
        OBVIOUS
      <4>1. Fewer(w) \subseteq w /\ Fewer(w) # w
        BY <3>1, <2>2
      <4>2. Fewer(w) \subseteq u /\ Fewer(w) # u /\ IsFiniteSet(Fewer(w))
        BY <3>1, <4>1, FS_Subset
      <4>3. Adds(f, Fewer(w), Known(Fewer(w)))
        BY <4>2, <2>3
      <4> HIDE DEF w, Known, Fewer
      <4> QED
        BY <3>2, <4>1, <4>2, <4>3, AddsAgree
    <3>5. it[w] = IF w = {} THEN 0 ELSE f[Pick(w)] + Known(Fewer(w))[Fewer(w)]
      BY <3>1
    <3> QED
      BY <3>3, <3>4, <3>5
  <2>5. Adds(f, u, it)
    <3>1. \A v \in SUBSET u : (IF v = {} THEN 0 ELSE f[Pick(v)] + Known(Fewer(v))[Fewer(v)])
                              = (IF v = {} THEN 0 ELSE f[Pick(v)] + it[v \ {Pick(v)}])
      <4> HIDE DEF Known, it
      <4> QED
        BY <2>4
    <3> HIDE DEF Known
    <3> QED
      BY <3>1 DEF Adds
  <2> QED
    BY <2>1, <2>5
<1> QED
  BY <1>1

Sum(f, s) == SumFunctionOnSet(f, s)

\* A sum is an element and the sum of the rest.
LEMMA SumStep ==
  ASSUME NEW f, NEW s, IsFiniteSet(s)
  PROVE Sum(f, s) = IF s = {} THEN 0 ELSE f[Pick(s)] + Sum(f, s \ {Pick(s)})
<1> DEFINE Known(w) == CHOOSE j : Adds(f, w, j)
           Fewer == s \ {Pick(s)}
<1>1. Adds(f, s, Known(s)) /\ Sum(f, s) = Known(s)[s]
  BY AddsExists, SumIsFold DEF Sum
<1>2. IsFiniteSet(Fewer)
  BY FS_Subset
<1>3. Adds(f, Fewer, Known(Fewer)) /\ Sum(f, Fewer) = Known(Fewer)[Fewer]
  BY <1>2, AddsExists, SumIsFold DEF Sum
<1>4. Known(s)[s] = IF s = {} THEN 0 ELSE f[Pick(s)] + Known(s)[s \ {Pick(s)}]
  <2> HIDE DEF Known
  <2> QED
    BY <1>1 DEF Adds
<1>5. Known(s)[Fewer] = Known(Fewer)[Fewer]
  <2> HIDE DEF Known
  <2> QED BY <1>1, <1>2, <1>3, AddsAgree
<1> QED
  BY <1>1, <1>3, <1>4, <1>5

\* A sum of integers is an integer.
LEMMA SumType ==
  ASSUME NEW f, NEW s, IsFiniteSet(s), \A x \in s : f[x] \in Int
  PROVE Sum(f, s) \in Int
<1> DEFINE Bad == {v \in SUBSET s : Sum(f, v) \notin Int}
<1>1. ASSUME s \in Bad PROVE FALSE
  <2>0. Bad \subseteq SUBSET s /\ Bad # {}
    BY <1>1
  <2>1. PICK u \in Bad : \A w \in Bad : w \subseteq u => w = u
    <3> HIDE DEF Bad
    <3> QED
      BY <2>0, SmallestSubset
  <2>2. Sum(f, u) = IF u = {} THEN 0 ELSE f[Pick(u)] + Sum(f, u \ {Pick(u)})
    BY SumStep, FS_Subset
  <2>3. u # {} => Pick(u) \in u
    BY DEF Pick
  <2> QED
    BY <2>1, <2>2, <2>3
<1> QED
  BY <1>1

\* Any element may be taken out of a sum first.
LEMMA SumRemove ==
  ASSUME NEW f, NEW s, IsFiniteSet(s), \A x \in s : f[x] \in Int, NEW x \in s
  PROVE Sum(f, s) = f[x] + Sum(f, s \ {x})
<1> DEFINE Bad == {v \in SUBSET s : \E y \in v : Sum(f, v) # f[y] + Sum(f, v \ {y})}
<1>1. ASSUME s \in Bad PROVE FALSE
  <2>0. Bad \subseteq SUBSET s /\ Bad # {}
    BY <1>1
  <2>1. PICK u \in Bad : \A w \in Bad : w \subseteq u => w = u
    <3> HIDE DEF Bad
    <3> QED
      BY <2>0, SmallestSubset
  <2>2. PICK y \in u : Sum(f, u) # f[y] + Sum(f, u \ {y})
    OBVIOUS
  <2> DEFINE p == Pick(u)
             v == u \ {p}
             w == u \ {y}
  <2>3. p \in u
    BY DEF Pick
  <2>4. IsFiniteSet(u) /\ IsFiniteSet(v) /\ IsFiniteSet(w) /\ IsFiniteSet(v \ {y})
    BY FS_Subset
  <2>5. Sum(f, u) = f[p] + Sum(f, v)
    BY <2>4, SumStep
  <2>6. p # y
    BY <2>2, <2>5
  <2>7. v \notin Bad /\ w \notin Bad
    BY <2>1, <2>3
  <2>8. Sum(f, v) = f[y] + Sum(f, v \ {y})
    BY <2>6, <2>7
  <2>9. Sum(f, w) = f[p] + Sum(f, w \ {p})
    BY <2>3, <2>6, <2>7
  <2>10. v \ {y} = w \ {p}
    OBVIOUS
  <2>12. Sum(f, u) # f[y] + Sum(f, w)
    BY <2>2
  <2>11. f[p] \in Int /\ f[y] \in Int /\ Sum(f, v \ {y}) \in Int
    BY <2>3, <2>4, SumType
  <2> HIDE DEF v, w, p
  <2> QED
    BY <2>5, <2>8, <2>9, <2>10, <2>11, <2>12
<1> QED
  BY <1>1

\* A sum over fewer elements, each of them no more, is no more.
LEMMA SumMonotone ==
  ASSUME NEW f, NEW g, NEW s, IsFiniteSet(s), NEW t, t \subseteq s,
         \A x \in t : f[x] \in Int /\ f[x] <= g[x], \A x \in s : g[x] \in Nat
  PROVE Sum(f, t) <= Sum(g, s)
<1> DEFINE Bad == {v \in SUBSET s : ~(Sum(f, v \cap t) <= Sum(g, v))}
<1>1. ASSUME s \in Bad PROVE FALSE
  <2>0. Bad \subseteq SUBSET s /\ Bad # {}
    BY <1>1
  <2>1. PICK u \in Bad : \A w \in Bad : w \subseteq u => w = u
    <3> HIDE DEF Bad
    <3> QED
      BY <2>0, SmallestSubset
  <2>2. IsFiniteSet(u) /\ IsFiniteSet({}) /\ IsFiniteSet(u \cap t)
    BY FS_Subset, FS_EmptySet
  <2>3. CASE u = {}
    <3>1. u \cap t = {}
      BY <2>3
    <3>2. Sum(f, {}) = 0 /\ Sum(g, {}) = 0
      BY <2>2, SumStep
    <3> QED
      BY <3>1, <3>2, <2>3
  <2>4. CASE u # {}
    <3>1. PICK x \in u : TRUE
      BY <2>4
    <3>2. Sum(g, u) = g[x] + Sum(g, u \ {x})
      BY <2>2, SumRemove
    <3>3. Sum(f, (u \ {x}) \cap t) <= Sum(g, u \ {x})
      BY <2>1
    <3>4. x \in t => Sum(f, u \cap t) = f[x] + Sum(f, (u \cap t) \ {x})
      BY <2>2, SumRemove
    <3>5. /\ IsFiniteSet(u \ {x}) /\ IsFiniteSet((u \ {x}) \cap t)
      BY FS_Subset
    <3>6. Sum(g, u \ {x}) \in Int /\ Sum(f, (u \ {x}) \cap t) \in Int
      BY <3>5, SumType
    <3>7. x \in t => (u \cap t) \ {x} = (u \ {x}) \cap t
      OBVIOUS
    <3>8. x \notin t => u \cap t = (u \ {x}) \cap t
      OBVIOUS
    <3>9. g[x] \in Nat /\ (x \in t => f[x] \in Int /\ f[x] <= g[x])
      OBVIOUS
    <3>10. CASE x \in t
      <4>1. Sum(f, u \cap t) = f[x] + Sum(f, (u \ {x}) \cap t)
        BY <3>4, <3>7, <3>10
      <4> HIDE DEF Bad
      <4>2. Sum(f, u \cap t) <= Sum(g, u)
        BY <4>1, <3>2, <3>3, <3>6, <3>9, <3>10
      <4> QED BY <4>2, <2>1 DEF Bad
    <3>11. CASE x \notin t
      <4>1. Sum(f, u \cap t) = Sum(f, (u \ {x}) \cap t)
        BY <3>8, <3>11
      <4> HIDE DEF Bad
      <4>2. Sum(f, u \cap t) <= Sum(g, u)
        BY <4>1, <3>2, <3>3, <3>6, <3>9
      <4> QED BY <4>2, <2>1 DEF Bad
    <3> QED
      BY <3>10, <3>11
  <2> QED
    BY <2>3, <2>4
<1>2. s \cap t = t
  OBVIOUS
<1> QED
  BY <1>1, <1>2

\* A sum of natural numbers is a natural number.
LEMMA SumNat ==
  ASSUME NEW f, NEW s, IsFiniteSet(s), \A x \in s : f[x] \in Nat
  PROVE Sum(f, s) \in Nat
<1>1. Sum(f, s) \in Int
  BY SumType
<1>2. Sum(f, {}) <= Sum(f, s)
  <2>1. /\ {} \subseteq s /\ \A x \in {} : f[x] \in Int /\ f[x] <= f[x]
    OBVIOUS
  <2> QED
    BY <2>1, SumMonotone
<1>3. Sum(f, {}) = 0
  BY FS_EmptySet, SumStep
<1> QED
  BY <1>1, <1>2, <1>3


\* Every set of natural numbers has a smallest element.
LEMMA SmallestNumber ==
  ASSUME NEW S, S \subseteq Nat, S # {}
  PROVE \E k \in S : \A j \in S : k <= j
<1>1. \E k \in S : \A j \in S : <<j, k>> \notin OpToRel(<, Nat)
  BY NatLessThanWellFounded, WFMin
<1>2. \A j, k \in Nat : <<j, k>> \notin OpToRel(<, Nat) => k <= j
  BY DEF OpToRel
<1> QED
  BY <1>1, <1>2

\* What a function is elsewhere does not count.
LEMMA SumSame ==
  ASSUME NEW f, NEW g, NEW s, IsFiniteSet(s), \A x \in s : f[x] = g[x]
  PROVE Sum(f, s) = Sum(g, s)
<1> DEFINE Bad == {v \in SUBSET s : Sum(f, v) # Sum(g, v)}
<1>1. ASSUME s \in Bad PROVE FALSE
  <2>0. Bad \subseteq SUBSET s /\ Bad # {}
    BY <1>1
  <2>1. PICK u \in Bad : \A w \in Bad : w \subseteq u => w = u
    <3> HIDE DEF Bad
    <3> QED
      BY <2>0, SmallestSubset
  <2>2. /\ Sum(f, u) = IF u = {} THEN 0 ELSE f[Pick(u)] + Sum(f, u \ {Pick(u)})
        /\ Sum(g, u) = IF u = {} THEN 0 ELSE g[Pick(u)] + Sum(g, u \ {Pick(u)})
    BY SumStep, FS_Subset
  <2>3. u # {} => Pick(u) \in u
    BY DEF Pick
  <2> QED
    BY <2>1, <2>2, <2>3
<1> QED
  BY <1>1

\* Sums are added element by element.
LEMMA SumAdd ==
  ASSUME NEW f, NEW g, NEW h, NEW s, IsFiniteSet(s),
         \A x \in s : f[x] \in Int /\ g[x] \in Int /\ h[x] = f[x] + g[x]
  PROVE Sum(h, s) = Sum(f, s) + Sum(g, s)
<1> DEFINE Bad == {v \in SUBSET s : Sum(h, v) # Sum(f, v) + Sum(g, v)}
<1>1. ASSUME s \in Bad PROVE FALSE
  <2>0. Bad \subseteq SUBSET s /\ Bad # {}
    BY <1>1
  <2>1. PICK u \in Bad : \A w \in Bad : w \subseteq u => w = u
    <3> HIDE DEF Bad
    <3> QED
      BY <2>0, SmallestSubset
  <2> DEFINE x == Pick(u)
             v == u \ {x}
  <2>2. /\ Sum(f, u) = IF u = {} THEN 0 ELSE f[x] + Sum(f, v)
        /\ Sum(g, u) = IF u = {} THEN 0 ELSE g[x] + Sum(g, v)
        /\ Sum(h, u) = IF u = {} THEN 0 ELSE h[x] + Sum(h, v)
    BY SumStep, FS_Subset
  <2>3. CASE u = {}
    BY <2>2, <2>3
  <2>4. CASE u # {}
    <3>1. x \in u /\ x \in s
      BY <2>4 DEF Pick
    <3>2. IsFiniteSet(v) /\ v \subseteq s
      BY FS_Subset
    <3>3. Sum(f, v) \in Int /\ Sum(g, v) \in Int
      BY <3>2, SumType
    <3>4. Sum(h, v) = Sum(f, v) + Sum(g, v)
      BY <2>1, <3>1
    <3>5. f[x] \in Int /\ g[x] \in Int /\ h[x] = f[x] + g[x]
      BY <3>1
    <3> HIDE DEF x, v
    <3>6. Sum(h, u) = Sum(f, u) + Sum(g, u)
      BY <2>2, <2>4, <3>3, <3>4, <3>5
    <3> QED
      BY <3>6
  <2> QED
    BY <2>3, <2>4
<1> QED
  BY <1>1

\* Elements that are zero may be left out.
LEMMA SumOfPart ==
  ASSUME NEW f, NEW s, IsFiniteSet(s), NEW t, t \subseteq s,
         \A x \in s : f[x] \in Int, \A x \in s \ t : f[x] = 0
  PROVE Sum(f, s) = Sum(f, t)
<1> DEFINE Bad == {v \in SUBSET s : Sum(f, v) # Sum(f, v \cap t)}
<1>1. ASSUME s \in Bad PROVE FALSE
  <2>0. Bad \subseteq SUBSET s /\ Bad # {}
    BY <1>1
  <2>1. PICK u \in Bad : \A w \in Bad : w \subseteq u => w = u
    <3> HIDE DEF Bad
    <3> QED
      BY <2>0, SmallestSubset
  <2>2. PICK x \in u : TRUE
    <3>1. u = {} => u = u \cap t
      OBVIOUS
    <3> QED
      BY <3>1
  <2>3. IsFiniteSet(u) /\ IsFiniteSet(u \cap t) /\ IsFiniteSet(u \ {x})
    BY FS_Subset
  <2>4. Sum(f, u) = f[x] + Sum(f, u \ {x})
    BY <2>3, SumRemove
  <2>5. Sum(f, u \ {x}) = Sum(f, (u \ {x}) \cap t)
    BY <2>1
  <2>6. CASE x \in t
    <3>1. Sum(f, u \cap t) = f[x] + Sum(f, (u \cap t) \ {x})
      BY <2>3, <2>6, SumRemove
    <3>2. (u \cap t) \ {x} = (u \ {x}) \cap t
      OBVIOUS
    <3>3. Sum(f, u) = Sum(f, u \cap t)
      <4>1. Sum(f, u \cap t) = f[x] + Sum(f, (u \ {x}) \cap t)
        BY <3>1, <3>2
      <4> QED
        BY <2>4, <2>5, <4>1
    <3> QED
      BY <3>3
  <2>7. CASE x \notin t
    <3>1. f[x] = 0 /\ (u \ {x}) \cap t = u \cap t
      BY <2>7
    <3>2. Sum(f, u \ {x}) \in Int
      BY <2>3, SumType
    <3>3. Sum(f, u \ {x}) = Sum(f, u \cap t)
      BY <2>5, <3>1
    <3>4. Sum(f, u) = Sum(f, u \ {x})
      BY <2>4, <3>1, <3>2
    <3>5. Sum(f, u) = Sum(f, u \cap t)
      BY <3>3, <3>4
    <3> QED
      BY <3>5
  <2> QED
    BY <2>6, <2>7
<1>2. s \cap t = t
  OBVIOUS
<1> QED
  BY <1>1, <1>2

\* What one changed element does to a sum.
LEMMA SumUpdate ==
  ASSUME NEW f, NEW g, NEW s, IsFiniteSet(s), NEW y \in s,
         \A x \in s : f[x] \in Int /\ g[x] \in Int, \A x \in s : x # y => g[x] = f[x]
  PROVE Sum(g, s) = Sum(f, s) - f[y] + g[y]
<1>1. IsFiniteSet(s \ {y})
  BY FS_Subset
<1>2. Sum(f, s) = f[y] + Sum(f, s \ {y}) /\ Sum(g, s) = g[y] + Sum(g, s \ {y})
  BY SumRemove
<1>3. Sum(f, s \ {y}) = Sum(g, s \ {y})
  BY <1>1, SumSame
<1>4. Sum(f, s \ {y}) \in Int
  BY <1>1, SumType
<1> QED
  BY <1>2, <1>3, <1>4

\* A sum of natural numbers is zero if and only if they all are.
LEMMA SumZero ==
  ASSUME NEW f, NEW s, IsFiniteSet(s), \A x \in s : f[x] \in Nat
  PROVE Sum(f, s) = 0 <=> \A x \in s : f[x] = 0
<1>1. ASSUME Sum(f, s) = 0, NEW x \in s PROVE f[x] = 0
  <2>1. Sum(f, s) = f[x] + Sum(f, s \ {x})
    BY SumRemove
  <2>2. Sum(f, s \ {x}) \in Nat
    BY FS_Subset, SumNat
  <2> QED
    BY <1>1, <2>1, <2>2
<1>2. ASSUME \A x \in s : f[x] = 0 PROVE Sum(f, s) = 0
  <2>1. Sum(f, s) = Sum(f, {})
    BY <1>2, SumOfPart
  <2> QED
    BY <2>1, FS_EmptySet, SumStep
<1> QED
  BY <1>1, <1>2

\* One element is no more than the sum.
LEMMA SumHasElement ==
  ASSUME NEW f, NEW s, IsFiniteSet(s), \A x \in s : f[x] \in Nat, NEW y \in s
  PROVE f[y] <= Sum(f, s)
<1>1. Sum(f, s) = f[y] + Sum(f, s \ {y})
  BY SumRemove
<1>2. Sum(f, s \ {y}) \in Nat
  BY FS_Subset, SumNat
<1> QED
  BY <1>1, <1>2

\* Rows and columns add up to the same.
LEMMA SumOfSums ==
  ASSUME NEW s, IsFiniteSet(s), NEW t, IsFiniteSet(t), NEW a,
         \A x \in s, y \in t : a[x][y] \in Int
  PROVE Sum([x \in s |-> Sum(a[x], t)], s) = Sum([y \in t |-> Sum([x \in s |-> a[x][y]], s)], t)
<1> DEFINE Rows == [x \in s |-> Sum(a[x], t)]
           Column(y) == [x \in s |-> a[x][y]]
           Columns(v) == [y \in t |-> Sum(Column(y), v)]
           Bad == {v \in SUBSET s : Sum(Rows, v) # Sum(Columns(v), t)}
<1>0. \A x \in s : Rows[x] = Sum(a[x], t) /\ Rows[x] \in Int
  BY SumType
<1>1. ASSUME s \in Bad PROVE FALSE
  <2>0. Bad \subseteq SUBSET s /\ Bad # {}
    BY <1>1
  <2>1. PICK u \in Bad : \A w \in Bad : w \subseteq u => w = u
    <3> HIDE DEF Bad
    <3> QED
      BY <2>0, SmallestSubset
  <2>2. IsFiniteSet(u) /\ u \subseteq s
    BY FS_Subset
  <2>3. CASE u = {}
    <3>1. Sum(Rows, u) = 0
      BY <2>2, <2>3, SumStep
    <3>2. \A y \in t : Columns(u)[y] = 0
      <4> TAKE y \in t
      <4>1. Sum(Column(y), u) = 0
        <5> HIDE DEF Column
        <5> QED
          BY <2>2, <2>3, SumStep
      <4> QED
        BY <4>1
    <3>3. Sum(Columns(u), t) = 0
      <4> HIDE DEF Columns
      <4> QED
        BY <3>2, SumZero
    <3> QED
      BY <3>1, <3>3
  <2>4. CASE u # {}
    <3>1. PICK x \in u : TRUE
      BY <2>4
    <3>2. IsFiniteSet(u \ {x})
      BY <2>2, FS_Subset
    <3>3. Sum(Rows, u) = Sum(a[x], t) + Sum(Rows, u \ {x})
      <4> HIDE DEF Rows
      <4>1. Sum(Rows, u) = Rows[x] + Sum(Rows, u \ {x})
        BY <1>0, <2>2, SumRemove
      <4> QED
        BY <4>1, <1>0, <2>2
    <3>4. Sum(Rows, u \ {x}) = Sum(Columns(u \ {x}), t)
      <4>1. u \ {x} \in SUBSET s /\ u \ {x} \subseteq u /\ u \ {x} # u
        BY <2>2, <3>1
      <4>2. u \ {x} \notin Bad
        <5> HIDE DEF Bad
        <5> QED
          BY <2>1, <4>1
      <4> HIDE DEF Rows, Columns
      <4> QED
        BY <4>1, <4>2
    <3>5. \A y \in t : /\ a[x][y] \in Int /\ Columns(u \ {x})[y] \in Int
                       /\ Columns(u)[y] = a[x][y] + Columns(u \ {x})[y]
      <4> TAKE y \in t
      <4>1. \A z \in u : Column(y)[z] = a[z][y] /\ Column(y)[z] \in Int
        BY <2>2
      <4> HIDE DEF Column
      <4>2. Sum(Column(y), u) = a[x][y] + Sum(Column(y), u \ {x})
        BY <2>2, <4>1, SumRemove
      <4>3. Sum(Column(y), u \ {x}) \in Int
        BY <3>2, <4>1, SumType
      <4> QED
        BY <2>2, <4>2, <4>3
    <3>6. Sum(Columns(u), t) = Sum(a[x], t) + Sum(Columns(u \ {x}), t)
      <4> DEFINE more == Columns(u)
                 fewer == Columns(u \ {x})
      <4>1. \A y \in t : a[x][y] \in Int /\ fewer[y] \in Int /\ more[y] = a[x][y] + fewer[y]
        BY <3>5
      <4> HIDE DEF more, fewer
      <4>2. Sum(more, t) = Sum(a[x], t) + Sum(fewer, t)
        BY <4>1, SumAdd
      <4> QED
        BY <4>2 DEF more, fewer
    <3> QED
      BY <3>3, <3>4, <3>6
  <2> QED
    BY <2>3, <2>4
<1> QED
  BY <1>1

\* Steps that lead from each set of a chain to the next stay in the chain.
LEMMA RunStays ==
  ASSUME NEW n \in Nat, NEW X, NEW f, f[0] \in X[0],
         \A k \in 1 .. n : f[k - 1] \in X[k - 1] => f[k] \in X[k]
  PROVE \A k \in 0 .. n : f[k] \in X[k]
<1> DEFINE Bad == {k \in 0 .. n : f[k] \notin X[k]}
<1>1. ASSUME Bad # {} PROVE FALSE
  <2>1. PICK k \in Bad : \A j \in Bad : k <= j
    <3> HIDE DEF Bad
    <3>1. Bad \subseteq Nat
      BY DEF Bad
    <3> QED
      BY <1>1, <3>1, SmallestNumber
  <2> QED
    BY <2>1
<1> QED
  BY <1>1

\* A chain of sets, and a step that leads from each to the next; a run of it.
Chain(n, X, start, step) ==
  /\ start \in X[0]
  /\ \A k \in 1 .. n : \A x \in X[k - 1] : step[<<k, x>>] \in X[k]
Run(n, X, start, step, f) ==
  /\ f[0] = start
  /\ \A k \in 1 .. n : f[k] = step[<<k, f[k - 1]>>]
  /\ \A k \in 0 .. n : f[k] \in X[k]

\* A recursive function exists whose step is a function, and stays in the chain.
LEMMA RunExists ==
  ASSUME NEW n \in Nat, NEW X, NEW start, NEW step, Chain(n, X, start, step)
  PROVE \E f : Run(n, X, start, step, f)
<1> USE DEF Chain
<1> DEFINE Runs(m, f) == f = [k \in 0 .. m |-> IF k = 0 THEN start ELSE step[<<k, f[k - 1]>>]]
           Bad == {m \in 0 .. n : ~\E f : Runs(m, f)}
<1>1. ASSUME Bad # {} PROVE FALSE
  <2>1. PICK m \in Bad : \A j \in Bad : m <= j
    <3> HIDE DEF Bad
    <3>1. Bad \subseteq Nat
      BY DEF Bad
    <3> QED
      BY <1>1, <3>1, SmallestNumber
  <2>2. CASE m = 0
    <3> DEFINE f == [k \in 0 .. 0 |-> start]
    <3>1. f = [k \in 0 .. 0 |-> IF k = 0 THEN start ELSE step[<<k, f[k - 1]>>]]
      OBVIOUS
    <3> QED
      BY <2>1, <2>2, <3>1
  <2>3. CASE m # 0
    <3>1. m - 1 \in 0 .. n /\ m - 1 \notin Bad
      BY <2>1, <2>3
    <3>2. PICK g : Runs(m - 1, g)
      BY <3>1
    <3> DEFINE f == [k \in 0 .. m |-> IF k = m THEN step[<<m, g[m - 1]>>] ELSE g[k]]
    <3>3. \A k \in 0 .. (m - 1) : g[k] = IF k = 0 THEN start ELSE step[<<k, g[k - 1]>>]
      BY <3>2
    <3>4. \A k \in 0 .. m : f[k] = IF k = 0 THEN start ELSE step[<<k, f[k - 1]>>]
      <4> TAKE k \in 0 .. m
      <4>1. CASE k = m
        BY <2>3, <4>1
      <4>2. CASE k # m
        <5>1. k \in 0 .. (m - 1) /\ f[k] = g[k]
          BY <4>2
        <5>2. k # 0 => k - 1 \in 0 .. (m - 1) /\ k - 1 \in 0 .. m /\ k - 1 # m
          BY <5>1
        <5>3. k # 0 => f[k - 1] = g[k - 1]
          BY <5>2
        <5> QED
          BY <3>3, <5>1, <5>3
      <4> QED
        BY <4>1, <4>2
    <3>5. f = [k \in 0 .. m |-> f[k]]
      OBVIOUS
    <3>6. Runs(m, f)
      <4> HIDE DEF f
      <4> QED
        BY <3>4, <3>5
    <3> QED
      BY <2>1, <3>6
  <2> QED
    BY <2>2, <2>3
<1> HIDE DEF Runs
<1>2. PICK f : Runs(n, f)
  <2>1. n \in 0 .. n /\ n \notin Bad
    BY <1>1
  <2> QED
    BY <2>1
<1> USE DEF Runs
<1>3. \A k \in 0 .. n : f[k] = IF k = 0 THEN start ELSE step[<<k, f[k - 1]>>]
  BY <1>2
<1>4. \A k \in 0 .. n : f[k] \in X[k]
  <2>1. f[0] \in X[0]
    <3>1. 0 \in 0 .. n
      OBVIOUS
    <3> QED
      BY <1>3, <3>1
  <2>2. \A k \in 1 .. n : f[k - 1] \in X[k - 1] => f[k] \in X[k]
    <3> TAKE k \in 1 .. n
    <3>1. k \in 0 .. n /\ k # 0
      OBVIOUS
    <3>2. f[k] = step[<<k, f[k - 1]>>]
      BY <1>3, <3>1
    <3> QED
      BY <3>2
  <2> QED
    BY <2>1, <2>2, RunStays
<1>6. f[0] = start /\ \A k \in 1 .. n : f[k] = step[<<k, f[k - 1]>>]
  <2>1. 0 \in 0 .. n /\ \A k \in 1 .. n : k \in 0 .. n /\ k # 0
    OBVIOUS
  <2> QED
    BY <1>3, <2>1
<1> HIDE DEF Runs
<1> QED
  BY <1>4, <1>6 DEF Run

(* Shares *)

\* Quotient and remainder.
LEMMA DivisionIs ==
  ASSUME NEW x \in Nat, NEW w \in Nat \ {0}
  PROVE /\ x \div w \in Nat /\ x % w \in 0 .. (w - 1)
        /\ x = w * (x \div w) + (x % w)
OBVIOUS

\* A multiple that is not positive is one of such a number.
LEMMA LinearFactor ==
  ASSUME NEW w \in Nat \ {0}, NEW d \in Int, w * d <= 0
  PROVE d <= 0
OBVIOUS

\* Two proportional shares of an amount, each rounded down, are within the amount.
LEMMA TwoSharesFit ==
  ASSUME NEW a \in Nat, NEW s \in Nat, NEW t \in Nat, s + t > 0
  PROVE ((a * s) \div (s + t)) + ((a * t) \div (s + t)) <= a
<1> DEFINE w == s + t
           q == (a * s) \div w
           p == (a * t) \div w
<1>1. a * s \in Nat /\ a * t \in Nat /\ w \in Nat \ {0}
  OBVIOUS
<1>2. q \in Nat /\ p \in Nat /\ w * q <= a * s /\ w * p <= a * t
  <2>1. /\ q \in Nat /\ (a * s) % w \in 0 .. (w - 1) /\ a * s = w * q + ((a * s) % w)
    BY <1>1, DivisionIs
  <2>2. /\ p \in Nat /\ (a * t) % w \in 0 .. (w - 1) /\ a * t = w * p + ((a * t) % w)
    BY <1>1, DivisionIs
  <2> HIDE DEF w, q, p
  <2> QED BY <2>1, <2>2, <1>1
<1>3. a * s + a * t = w * a
  OBVIOUS
<1>4. w * ((q + p) - a) <= 0
  <2>1. w * ((q + p) - a) = w * q + w * p - w * a
    <3> HIDE DEF w, q, p
    <3> QED BY <1>1, <1>2
  <2> HIDE DEF w, q, p
  <2> QED BY <1>1, <1>2, <1>3, <2>1
<1>5. (q + p) - a <= 0
  <2> HIDE DEF w, q, p
  <2> QED BY <1>1, <1>2, <1>4, LinearFactor
<1>6. q + p <= a
  <2> HIDE DEF w, q, p
  <2> QED BY <1>2, <1>5
<1> QED BY <1>6

-----------------------------------------------------------------------------
(* Shares of what an item has left *)

\* The multiple of a number that is between none and one of it is none.
LEMMA NoMultiple ==
  ASSUME NEW w \in Nat \ {0}, NEW d \in Int, w * d < w, -w < w * d
  PROVE d = 0
<1>1. CASE d >= 1
  <2>1. w * (d - 1) \in Nat
    BY <1>1
  <2>2. w * (d - 1) = w * d - w
    OBVIOUS
  <2> QED BY <2>1, <2>2
<1>2. CASE d <= -1
  <2>1. w * (-d - 1) \in Nat
    BY <1>2
  <2>2. w * (-d - 1) = -(w * d) - w
    OBVIOUS
  <2> QED BY <2>1, <2>2
<1> QED
  BY <1>1, <1>2

\* Multiples of a number are ordered like what they are multiples of.
LEMMA FactorLess ==
  ASSUME NEW w \in Nat \ {0}, NEW x \in Int, NEW y \in Int, w * x < w * y
  PROVE x < y
<1>1. CASE x >= y
  <2>1. w * (x - y) \in Nat
    BY <1>1
  <2>2. w * (x - y) = w * x - w * y
    OBVIOUS
  <2> QED BY <2>1, <2>2
<1> QED BY <1>1

\* A share of an amount, rounded up or down, is within what it is a share of.
LEMMA ShareFits ==
  ASSUME NEW a \in Nat, NEW s \in Nat, NEW w \in Nat \ {0}, a <= w
  PROVE /\ (a * s) \div w <= s
        /\ (a * s) % w > 0 => (a * s) \div w < s
<1> DEFINE q == (a * s) \div w
           rest == (a * s) % w
<1>1. q \in Nat /\ rest \in 0 .. (w - 1) /\ a * s = w * q + rest
  <2>1. a * s \in Nat
    OBVIOUS
  <2> QED BY <2>1, DivisionIs
<1>2. a * s <= w * s
  <2>1. (w - a) * s \in Nat
    OBVIOUS
  <2>2. (w - a) * s = w * s - a * s
    OBVIOUS
  <2>3. a * s \in Nat /\ w * s \in Nat
    OBVIOUS
  <2> QED BY <2>1, <2>2, <2>3
<1>3. w * q \in Nat /\ w * s \in Nat
  <2> HIDE DEF q
  <2> QED BY <1>1
<1> HIDE DEF q, rest
<1>4. ASSUME rest > 0 PROVE q < s
  <2>1. w * q < w * s
    BY <1>1, <1>2, <1>3, <1>4
  <2> QED
    BY <1>1, <2>1, FactorLess
<1>5. q <= s
  <2>1. w * (s + 1) = w * s + w
    OBVIOUS
  <2>2. w * q < w * (s + 1)
    BY <1>1, <1>2, <1>3, <2>1
  <2>3. q < s + 1
    BY <1>1, <2>2, FactorLess
  <2> QED
    BY <1>1, <2>3
<1> QED
  BY <1>4, <1>5 DEF q, rest

\* What two shares lose to rounding is nothing, or one unit and both have a remainder
\* that adds up to it.
LEMMA LostToRounding ==
  ASSUME NEW a \in Nat, NEW s \in Nat, NEW t \in Nat, s + t > 0
  PROVE LET lost == a - ((a * s) \div (s + t)) - ((a * t) \div (s + t))
        IN \/ lost = 0
           \/ lost = 1 /\ ((a * s) % (s + t)) + ((a * t) % (s + t)) = s + t
<1> DEFINE w == s + t
           q == (a * s) \div w
           p == (a * t) \div w
           rq == (a * s) % w
           rp == (a * t) % w
           lost == a - q - p
<1>1. a * s \in Nat /\ a * t \in Nat /\ w \in Nat \ {0}
  OBVIOUS
<1>2. /\ q \in Nat /\ rq \in 0 .. (w - 1) /\ a * s = w * q + rq
      /\ p \in Nat /\ rp \in 0 .. (w - 1) /\ a * t = w * p + rp
  <2> HIDE DEF w
  <2> QED BY <1>1, DivisionIs
<1>3. a * s + a * t = w * a
  OBVIOUS
<1> HIDE DEF w, q, p, rq, rp
<1>4. lost \in Int /\ w * lost = rq + rp
  <2>1. w * lost = w * a - w * q - w * p
    BY <1>1, <1>2
  <2>2. w * a \in Int /\ w * q \in Int /\ w * p \in Int
    BY <1>1, <1>2
  <2> HIDE DEF lost
  <2>3. w * lost = rq + rp
    BY <1>1, <1>2, <1>3, <2>1, <2>2
  <2> QED
    BY <1>1, <1>2, <2>3 DEF lost
<1> HIDE DEF lost
<1>5. lost < 2
  <2>1. w * 2 = w + w
    BY <1>1
  <2>2. w * lost < w * 2
    BY <1>1, <1>2, <1>4, <2>1
  <2> QED BY <1>1, <1>4, <2>2, FactorLess
<1>6. -1 < lost
  <2>1. w * (-1) = -w
    BY <1>1
  <2>2. w * (-1) < w * lost
    BY <1>1, <1>2, <1>4, <2>1
  <2> QED BY <1>1, <1>4, <2>2, FactorLess
<1>7. lost = 1 => w * lost = w
  BY <1>1
<1>8. lost = 0 \/ (lost = 1 /\ rq + rp = w)
  BY <1>4, <1>5, <1>6, <1>7
<1> QED
  BY <1>8 DEF w, q, p, rq, rp, lost

\* The split of an amount that an item still has left fits: it is the whole amount and
\* within what is left of the price and of the tax.
LEMMA SplitFits ==
  ASSUME NEW left \in Part, NEW amount \in Nat, amount <= Minor(left), amount # 0
  PROVE Split(left, amount) \in Part /\ Fits(left, Split(left, amount), amount)
<1> DEFINE s == left.subtotal
           t == left.tax
           q == (amount * s) \div (s + t)
           p == (amount * t) \div (s + t)
           rq == (amount * s) % (s + t)
           rp == (amount * t) % (s + t)
           lost == amount - q - p
<1>1. s \in Nat /\ t \in Nat /\ s + t > 0 /\ amount <= s + t
  BY DEF Part, Minor
<1>2. lost = 0 \/ (lost = 1 /\ rq + rp = s + t)
  <2> HIDE DEF s, t
  <2> QED
    BY <1>1, LostToRounding
<1>3. /\ q \in Nat /\ rq \in 0 .. ((s + t) - 1) /\ q <= s /\ (rq > 0 => q < s)
      /\ p \in Nat /\ rp \in 0 .. ((s + t) - 1) /\ p <= t /\ (rp > 0 => p < t)
  <2> HIDE DEF s, t
  <2>1. amount * s \in Nat /\ amount * t \in Nat /\ s + t \in Nat \ {0}
    BY <1>1
  <2>2. q \in Nat /\ p \in Nat /\ rq \in 0 .. ((s + t) - 1) /\ rp \in 0 .. ((s + t) - 1)
    BY <2>1, DivisionIs
  <2>3. q <= s /\ (rq > 0 => q < s) /\ p <= t /\ (rp > 0 => p < t)
    BY <1>1, <2>1, ShareFits
  <2> QED
    BY <2>2, <2>3
<1>4. Split(left, amount) =
        [subtotal |-> q + (IF rq >= rp THEN lost ELSE 0), tax |-> p + (IF rq >= rp THEN 0 ELSE lost)]
  BY DEF Split, Minor
<1> DEFINE x == q + (IF rq >= rp THEN lost ELSE 0)
           y == p + (IF rq >= rp THEN 0 ELSE lost)
<1>5. x \in 0 .. s /\ y \in 0 .. t /\ x + y = amount
  <2> HIDE DEF q, p, rq, rp
  <2>0. lost = amount - q - p
    OBVIOUS
  <2>1. CASE rq >= rp
    <3> HIDE DEF lost
    <3>1. lost = 0 \/ (lost = 1 /\ rq > 0)
      BY <1>1, <1>2, <1>3, <2>1
    <3> QED
      BY <1>1, <1>3, <2>0, <2>1, <3>1
  <2>2. CASE ~(rq >= rp)
    <3> HIDE DEF lost
    <3>1. lost = 0 \/ (lost = 1 /\ rp > 0)
      BY <1>1, <1>2, <1>3, <2>2
    <3> QED
      BY <1>1, <1>3, <2>0, <2>2, <3>1
  <2> QED
    BY <2>1, <2>2
<1>6. Split(left, amount) = [subtotal |-> x, tax |-> y]
  BY <1>4
<1> HIDE DEF x, y
<1> QED
  BY <1>1, <1>5, <1>6 DEF Part, Fits, Minor

\* Amounts of refunds by item; what an item has left when its parts, or only those of
\* earlier refunds, are taken.
Amounts == [Refunds -> [Items -> Nat]]
LeftOf(part, i) ==
  [subtotal |-> Subtotal[i] - Sum([q \in Refunds |-> part[q].subtotal], Refunds),
   tax |-> Tax[i] - Sum([q \in Refunds |-> part[q].tax], Refunds)]
LeftBefore(part, i, r) ==
  [subtotal |-> Subtotal[i] - Sum([q \in Refunds |-> part[q].subtotal], 1 .. (r - 1)),
   tax |-> Tax[i] - Sum([q \in Refunds |-> part[q].tax], 1 .. (r - 1))]
PartOf(ps, i) == [r \in Refunds |-> ps[r][i]]
Column(new, i) == [r \in Refunds |-> new[r][i]]

\* No item has given more than its price or its tax.
PartsHold(ps) ==
  /\ ps \in [Refunds -> [Items -> Part]]
  /\ \A i \in Items : Left(ps, i) \in Part

\* Each part is the share of what the item had left after the earlier refunds.
SplitHolds(ps) == \A r \in Refunds, i \in Items : Minor(ps[r][i]) > 0 =>
  ps[r][i] = Split(LeftBefore(PartOf(ps, i), i, r), Minor(ps[r][i]))

\* Amounts that can be planned: for pairs that have no part yet, within what the items
\* have left, and none before a part of a later refund.
Assignable(ps, new) ==
  /\ new \in Amounts
  /\ \A r \in Refunds, i \in Items : new[r][i] > 0 => ps[r][i] = NoPart
  /\ \A i \in Items : Sum(Column(new, i), Refunds) <= ItemRest(ps, i)
  /\ ~OutOfOrder(ps, new)

\* A plan of item i once the refunds up to k have got their parts.
PlanSet(ps, new, i, k) ==
  {p \in [left : Part, rejected : {FALSE}, part : [Refunds -> Part]] :
     /\ p.left = LeftOf(p.part, i)
     /\ Minor(p.left) = ItemRest(ps, i) - Sum(Column(new, i), 1 .. k)
     /\ \A r \in Refunds :
          IF r <= k /\ new[r][i] > 0
          THEN /\ Minor(p.part[r]) = new[r][i]
               /\ p.part[r] = Split(LeftBefore(p.part, i, r), new[r][i])
          ELSE p.part[r] = ps[r][i]}

\* Items and refunds are finitely many, also those up to one of them.
LEMMA Finite ==
  /\ IsFiniteSet(Refunds) /\ IsFiniteSet(Items)
  /\ \A k \in Int : IsFiniteSet(1 .. k)
<1>1. \A k \in Int : IsFiniteSet(1 .. k)
  BY FS_Interval
<1> QED
  BY <1>1, AmountsAssumption DEF Refunds, Items

\* The sum of a function is its sum over its domain.
LEMMA SumFunctionIs ==
  ASSUME NEW f, NEW s, DOMAIN f = s
  PROVE SumFunction(f) = Sum(f, s)
BY DEF SumFunction, Sum

\* What is left of an item is what is left of its price and of its tax.
LEMMA LeftIs ==
  ASSUME NEW ps \in [Refunds -> [Items -> Part]], NEW i \in Items
  PROVE /\ PartOf(ps, i) \in [Refunds -> Part]
        /\ Left(ps, i) = LeftOf(PartOf(ps, i), i)
        /\ Minor(Left(ps, i)) = ItemRest(ps, i)
        /\ ItemAllocated(ps, i) = Sum([r \in Refunds |-> Minor(ps[r][i])], Refunds)
        /\ ItemAllocated(ps, i) \in Nat
<1> DEFINE part == PartOf(ps, i)
           f == [q \in Refunds |-> part[q].subtotal]
           g == [q \in Refunds |-> part[q].tax]
           h == [r \in Refunds |-> Minor(ps[r][i])]
<1>1. part \in [Refunds -> Part]
  BY DEF PartOf
<1>2. \A q \in Refunds : f[q] \in Nat /\ g[q] \in Nat /\ h[q] = f[q] + g[q]
  BY <1>1 DEF PartOf, Part, Minor
<1>3. /\ [r \in Refunds |-> ps[r][i].subtotal] = f
      /\ [r \in Refunds |-> ps[r][i].tax] = g
  BY DEF PartOf
<1>4. Left(ps, i) = [subtotal |-> Subtotal[i] - Sum(f, Refunds), tax |-> Tax[i] - Sum(g, Refunds)]
  BY <1>3, SumFunctionIs DEF Left
<1>5. ItemAllocated(ps, i) = Sum(h, Refunds)
  BY SumFunctionIs DEF ItemAllocated
<1>7. Left(ps, i) = LeftOf(part, i)
  BY <1>4 DEF LeftOf
<1> HIDE DEF f, g, h
<1>6. Sum(h, Refunds) = Sum(f, Refunds) + Sum(g, Refunds)
  BY <1>2, SumAdd, Finite
<1>8. Sum(f, Refunds) \in Nat /\ Sum(g, Refunds) \in Nat
  <2>1. Sum(f, Refunds) \in Nat
    BY <1>2, SumNat, Finite
  <2>2. Sum(g, Refunds) \in Nat
    BY <1>2, SumNat, Finite
  <2> QED
    BY <2>1, <2>2
<1>9. Subtotal[i] \in Nat /\ Tax[i] \in Nat
  BY AmountsAssumption
<1>10. Minor(Left(ps, i)) = ItemRest(ps, i)
  BY <1>4, <1>5, <1>6, <1>8, <1>9 DEF Minor, ItemRest, Total
<1>11. ItemAllocated(ps, i) \in Nat
  BY <1>5, <1>6, <1>8
<1> QED
  BY <1>1, <1>5, <1>7, <1>10, <1>11 DEF h

\* What an item has left when a refund that had nothing gets a part.
LEMMA LeftOfMore ==
  ASSUME NEW part \in [Refunds -> Part], NEW k \in Refunds, part[k] = NoPart,
         NEW new \in Part, NEW i \in Items
  PROVE LeftOf([part EXCEPT ![k] = new], i) = Minus(LeftOf(part, i), new)
<1> DEFINE more == [part EXCEPT ![k] = new]
           f == [q \in Refunds |-> part[q].subtotal]
           g == [q \in Refunds |-> part[q].tax]
           ff == [q \in Refunds |-> more[q].subtotal]
           gg == [q \in Refunds |-> more[q].tax]
<1>1. /\ \A q \in Refunds : /\ f[q] \in Int /\ ff[q] \in Int /\ g[q] \in Int /\ gg[q] \in Int
                            /\ q # k => f[q] = ff[q] /\ g[q] = gg[q]
      /\ f[k] = 0 /\ g[k] = 0 /\ ff[k] = new.subtotal /\ gg[k] = new.tax
  BY DEF Part, NoPart
<1>2. /\ LeftOf(part, i) = [subtotal |-> Subtotal[i] - Sum(f, Refunds), tax |-> Tax[i] - Sum(g, Refunds)]
      /\ LeftOf(more, i) = [subtotal |-> Subtotal[i] - Sum(ff, Refunds), tax |-> Tax[i] - Sum(gg, Refunds)]
  BY DEF LeftOf
<1>3. Subtotal[i] \in Int /\ Tax[i] \in Int /\ new.subtotal \in Int /\ new.tax \in Int
  BY AmountsAssumption DEF Part
<1> HIDE DEF f, g, ff, gg, more
<1>4. Sum(ff, Refunds) = Sum(f, Refunds) - f[k] + ff[k]
  BY <1>1, SumUpdate, Finite
<1>5. Sum(gg, Refunds) = Sum(g, Refunds) - g[k] + gg[k]
  BY <1>1, SumUpdate, Finite
<1>6. Sum(f, Refunds) \in Int /\ Sum(g, Refunds) \in Int
  <2>1. Sum(f, Refunds) \in Int
    BY <1>1, SumType, Finite
  <2>2. Sum(g, Refunds) \in Int
    BY <1>1, SumType, Finite
  <2> QED
    BY <2>1, <2>2
<1>7. LeftOf(more, i) = Minus(LeftOf(part, i), new)
  BY <1>1, <1>2, <1>3, <1>4, <1>5, <1>6 DEF Minus
<1> QED
  BY <1>7 DEF more

\* What is left before a refund depends on the earlier parts only.
LEMMA LeftBeforeSame ==
  ASSUME NEW a \in [Refunds -> Part], NEW b \in [Refunds -> Part], NEW r \in Refunds, NEW i \in Items,
         \A q \in Refunds : q < r => a[q] = b[q]
  PROVE LeftBefore(a, i, r) = LeftBefore(b, i, r)
<1> DEFINE f == [q \in Refunds |-> a[q].subtotal]
           g == [q \in Refunds |-> a[q].tax]
           ff == [q \in Refunds |-> b[q].subtotal]
           gg == [q \in Refunds |-> b[q].tax]
           s == 1 .. (r - 1)
<1>1. \A q \in s : f[q] = ff[q] /\ g[q] = gg[q]
  <2>1. \A q \in s : q \in Refunds /\ q < r
    BY AmountsAssumption DEF Refunds
  <2> QED
    BY <2>1
<1>2. IsFiniteSet(s)
  BY Finite DEF Refunds
<1>3. /\ LeftBefore(a, i, r) = [subtotal |-> Subtotal[i] - Sum(f, s), tax |-> Tax[i] - Sum(g, s)]
      /\ LeftBefore(b, i, r) = [subtotal |-> Subtotal[i] - Sum(ff, s), tax |-> Tax[i] - Sum(gg, s)]
  BY DEF LeftBefore
<1> HIDE DEF f, g, ff, gg, s
<1>4. Sum(f, s) = Sum(ff, s) /\ Sum(g, s) = Sum(gg, s)
  <2>1. Sum(f, s) = Sum(ff, s)
    BY <1>1, <1>2, SumSame
  <2>2. Sum(g, s) = Sum(gg, s)
    BY <1>1, <1>2, SumSame
  <2> QED
    BY <2>1, <2>2
<1> QED
  BY <1>3, <1>4

\* Where no refund from r on has a part, what is left before r is what is left.
LEMMA NothingAfter ==
  ASSUME NEW part \in [Refunds -> Part], NEW r \in Refunds, NEW i \in Items,
         \A q \in Refunds : r <= q => part[q] = NoPart
  PROVE LeftBefore(part, i, r) = LeftOf(part, i)
<1> DEFINE f == [q \in Refunds |-> part[q].subtotal]
           g == [q \in Refunds |-> part[q].tax]
           s == 1 .. (r - 1)
<1>1. s \subseteq Refunds /\ \A q \in Refunds \ s : r <= q
  BY AmountsAssumption DEF Refunds
<1>2. /\ \A q \in Refunds : f[q] \in Int /\ g[q] \in Int
      /\ \A q \in Refunds \ s : f[q] = 0 /\ g[q] = 0
  BY <1>1 DEF Part, NoPart
<1>3. /\ LeftBefore(part, i, r) = [subtotal |-> Subtotal[i] - Sum(f, s), tax |-> Tax[i] - Sum(g, s)]
      /\ LeftOf(part, i) = [subtotal |-> Subtotal[i] - Sum(f, Refunds), tax |-> Tax[i] - Sum(g, Refunds)]
  BY DEF LeftBefore, LeftOf
<1> HIDE DEF f, g, s
<1>4. Sum(f, s) = Sum(f, Refunds) /\ Sum(g, s) = Sum(g, Refunds)
  <2>1. Sum(f, Refunds) = Sum(f, s)
    BY <1>1, <1>2, Finite, SumOfPart
  <2>2. Sum(g, Refunds) = Sum(g, s)
    BY <1>1, <1>2, Finite, SumOfPart
  <2> QED
    BY <2>1, <2>2
<1> QED
  BY <1>3, <1>4

-----------------------------------------------------------------------------
(* Planning new amounts *)

\* The amounts of an item up to a refund.
LEMMA AmountsUpTo ==
  ASSUME NEW new \in Amounts, NEW i \in Items
  PROVE /\ Sum(Column(new, i), Refunds) \in Nat
        /\ Sum(Column(new, i), 1 .. 0) = 0
        /\ \A k \in Refunds :
             /\ Sum(Column(new, i), 1 .. (k - 1)) \in Nat
             /\ Sum(Column(new, i), 1 .. k) = Sum(Column(new, i), 1 .. (k - 1)) + new[k][i]
             /\ Sum(Column(new, i), 1 .. k) <= Sum(Column(new, i), Refunds)
        /\ Sum(Column(new, i), 1 .. RefundCount) = Sum(Column(new, i), Refunds)
<1> DEFINE f == Column(new, i)
<1>1. \A r \in Refunds : f[r] = new[r][i] /\ f[r] \in Nat
  BY DEF Column, Amounts
<1> HIDE DEF f
<1>2. Sum(f, Refunds) \in Nat
  BY <1>1, Finite, SumNat
<1>3. Sum(f, 1 .. 0) = 0
  <2>1. 1 .. 0 = {}
    OBVIOUS
  <2> QED
    BY <2>1, FS_EmptySet, SumStep
<1>4. ASSUME NEW k \in Refunds
      PROVE /\ Sum(f, 1 .. (k - 1)) \in Nat
            /\ Sum(f, 1 .. k) = Sum(f, 1 .. (k - 1)) + new[k][i]
            /\ Sum(f, 1 .. k) <= Sum(f, Refunds)
  <2>1. /\ k \in 1 .. k /\ (1 .. k) \ {k} = 1 .. (k - 1) /\ 1 .. k \subseteq Refunds
        /\ 1 .. (k - 1) \subseteq Refunds /\ k \in Int /\ k - 1 \in Int
    BY AmountsAssumption DEF Refunds
  <2>2. \A r \in 1 .. k : f[r] \in Nat
    BY <1>1, <2>1
  <2>3. IsFiniteSet(1 .. k) /\ IsFiniteSet(1 .. (k - 1))
    BY <2>1, Finite
  <2>4. Sum(f, 1 .. (k - 1)) \in Nat
    BY <1>1, <2>1, <2>3, SumNat
  <2>5. Sum(f, 1 .. k) = f[k] + Sum(f, (1 .. k) \ {k})
    BY <2>1, <2>2, <2>3, SumRemove
  <2>6. Sum(f, 1 .. k) <= Sum(f, Refunds)
    <3>1. /\ \A r \in 1 .. k : f[r] \in Int /\ f[r] <= f[r]
          /\ \A r \in Refunds : f[r] \in Nat
      BY <1>1, <2>2
    <3> QED
      BY <2>1, <3>1, Finite, SumMonotone
  <2>7. Sum(f, 1 .. k) = f[k] + Sum(f, 1 .. (k - 1)) /\ f[k] = new[k][i] /\ f[k] \in Nat
    BY <1>1, <2>1, <2>5
  <2> QED
    BY <2>4, <2>6, <2>7
<1>5. Sum(f, 1 .. RefundCount) = Sum(f, Refunds)
  BY DEF Refunds
<1> QED
  BY <1>2, <1>3, <1>4, <1>5 DEF f

\* Planning one refund more.
LEMMA PlanStep ==
  ASSUME NEW ps, PartsHold(ps), NEW new, Assignable(ps, new), NEW i \in Items,
         NEW k \in Refunds, NEW p \in PlanSet(ps, new, i, k - 1)
  PROVE Plan(p, k, new[k][i]) \in PlanSet(ps, new, i, k)
<1> DEFINE amount == new[k][i]
           f == Column(new, i)
<1>0. /\ k \in Int /\ \A r \in Refunds : r \in Int
      /\ \A r \in Refunds : r <= k - 1 <=> r <= k /\ r # k
  BY DEF Refunds
<1>1. /\ p = [left |-> p.left, rejected |-> FALSE, part |-> p.part]
      /\ p.left \in Part /\ p.part \in [Refunds -> Part] /\ p.rejected = FALSE
      /\ p.left = LeftOf(p.part, i)
      /\ Minor(p.left) = ItemRest(ps, i) - Sum(f, 1 .. (k - 1))
  BY DEF PlanSet
<1>2. ASSUME NEW r \in Refunds
      PROVE IF r <= k - 1 /\ new[r][i] > 0
            THEN /\ Minor(p.part[r]) = new[r][i]
                 /\ p.part[r] = Split(LeftBefore(p.part, i, r), new[r][i])
            ELSE p.part[r] = ps[r][i]
  BY DEF PlanSet
<1>3. new \in Amounts /\ amount \in Nat /\ ps \in [Refunds -> [Items -> Part]]
  BY DEF Assignable, Amounts, PartsHold
<1>4. /\ Sum(f, Refunds) \in Nat /\ Sum(f, 1 .. (k - 1)) \in Nat
      /\ Sum(f, 1 .. k) = Sum(f, 1 .. (k - 1)) + amount /\ Sum(f, 1 .. k) <= Sum(f, Refunds)
  BY <1>3, AmountsUpTo
<1>5. ItemRest(ps, i) \in Int /\ Sum(f, Refunds) <= ItemRest(ps, i)
  <2>1. ItemAllocated(ps, i) \in Int
    <3> HIDE DEF f, amount
    <3>1. ItemAllocated(ps, i) \in Nat
      BY <1>3, LeftIs
    <3> QED
      BY <3>1
  <2>2. Total(i) \in Int
    BY AmountsAssumption DEF Total
  <2>3. Sum(f, Refunds) <= ItemRest(ps, i)
    BY DEF Assignable
  <2> QED
    BY <2>1, <2>2, <2>3 DEF ItemRest
<1>6. CASE amount = 0
  <2>1. Plan(p, k, amount) = p
    BY <1>6 DEF Plan
  <2>2. Minor(p.left) = ItemRest(ps, i) - Sum(f, 1 .. k)
    BY <1>1, <1>4, <1>6
  <2>3. ASSUME NEW r \in Refunds
        PROVE IF r <= k /\ new[r][i] > 0
              THEN /\ Minor(p.part[r]) = new[r][i]
                   /\ p.part[r] = Split(LeftBefore(p.part, i, r), new[r][i])
              ELSE p.part[r] = ps[r][i]
    <3>1. CASE r = k
      <4>1. ~(r <= k - 1) /\ ~(new[r][i] > 0)
        BY <1>0, <1>6, <3>1
      <4> QED
        BY <1>2, <4>1
    <3>2. CASE r # k
      <4>1. r <= k - 1 <=> r <= k
        BY <1>0, <3>2
      <4> QED
        BY <1>2, <4>1
    <3> QED
      BY <3>1, <3>2
  <2> HIDE DEF f, amount
  <2>4. p \in [left : Part, rejected : {FALSE}, part : [Refunds -> Part]]
    BY <1>1
  <2> QED
    BY <1>1, <2>1, <2>2, <2>3, <2>4 DEF PlanSet, f, amount
<1>7. CASE amount # 0
  <2> DEFINE part == Split(p.left, amount)
             more == [p.part EXCEPT ![k] = part]
             q == [left |-> Minus(p.left, part), rejected |-> FALSE, part |-> more]
  <2>1. amount <= Minor(p.left) /\ Minor(p.left) \in Nat
    <3>1. Minor(p.left) \in Nat
      BY <1>1 DEF Part, Minor
    <3> HIDE DEF f, amount
    <3> QED
      BY <1>1, <1>3, <1>4, <1>5, <3>1
  <2>2. part \in Part /\ Fits(p.left, part, amount)
    BY <1>1, <1>3, <1>7, <2>1, SplitFits
  <2>3. Plan(p, k, amount) = q
    <3>1. Plan(p, k, amount) = [p EXCEPT !.left = Minus(p.left, part), !.part[k] = part]
      <4> HIDE DEF amount
      <4> QED
        BY <1>1, <1>3, <1>7, <2>1, <2>2 DEF Plan
    <3> HIDE DEF part, amount
    <3> QED
      BY <1>1, <3>1
  <2>4. ps[k][i] = NoPart /\ p.part[k] = NoPart
    <3>1. ps[k][i] = NoPart
      BY <1>3, <1>7 DEF Assignable
    <3> QED
      BY <1>0, <1>2, <3>1
  <2>5. \A r \in Refunds : k <= r => p.part[r] = NoPart
    <3> TAKE r \in Refunds
    <3>1. CASE k < r
      <4>1. ~(Minor(ps[r][i]) > 0) /\ ps[r][i] \in Part
        BY <1>3, <1>7, <3>1 DEF Assignable, OutOfOrder
      <4>2. ps[r][i] = NoPart
        BY <4>1 DEF Minor, Part, NoPart
      <4>3. p.part[r] = ps[r][i]
        <5>1. ~(r <= k - 1)
          BY <1>0, <3>1
        <5> QED
          BY <1>2, <5>1
      <4> QED
        BY <4>2, <4>3
    <3>2. CASE k = r
      BY <2>4, <3>2
    <3>3. k < r \/ k = r \/ ~(k <= r)
      BY <1>0
    <3> QED
      BY <3>1, <3>2, <3>3
  <2>6. more \in [Refunds -> Part] /\ \A r \in Refunds : more[r] = IF r = k THEN part ELSE p.part[r]
    BY <1>1, <2>2
  <2>7. q.left = LeftOf(more, i)
    BY <1>1, <2>2, <2>4, LeftOfMore
  <2>8. /\ q.left \in Part
        /\ Minor(q.left) = ItemRest(ps, i) - Sum(f, 1 .. k)
    <3>1. q.left = [subtotal |-> p.left.subtotal - part.subtotal, tax |-> p.left.tax - part.tax]
      BY DEF Minus
    <3> DEFINE s == p.left.subtotal
               t == p.left.tax
               x == part.subtotal
               y == part.tax
    <3>2. s \in Nat /\ t \in Nat /\ x \in 0 .. s /\ y \in 0 .. t /\ x + y = amount
      BY <1>1, <2>2 DEF Part, Fits, Minor
    <3>3. s + t = ItemRest(ps, i) - Sum(f, 1 .. (k - 1))
      BY <1>1 DEF Minor
    <3> HIDE DEF s, t, x, y, f, amount
    <3>4. s - x \in Nat /\ t - y \in Nat /\ (s - x) + (t - y) = ItemRest(ps, i) - Sum(f, 1 .. k)
      BY <1>4, <1>5, <3>2, <3>3
    <3>5. q.left = [subtotal |-> s - x, tax |-> t - y]
      BY <3>1 DEF s, t, x, y
    <3> QED
      BY <3>4, <3>5 DEF Part, Minor
  <2>9. ASSUME NEW r \in Refunds
        PROVE IF r <= k /\ new[r][i] > 0
              THEN /\ Minor(more[r]) = new[r][i]
                   /\ more[r] = Split(LeftBefore(more, i, r), new[r][i])
              ELSE more[r] = ps[r][i]
    <3>1. CASE r = k
      <4>1. LeftBefore(more, i, k) = LeftBefore(p.part, i, k)
        <5>1. \A e \in Refunds : e < k => more[e] = p.part[e]
          BY <1>0, <2>6
        <5> HIDE DEF more
        <5> QED
          BY <1>1, <2>6, <5>1, LeftBeforeSame
      <4>2. LeftBefore(p.part, i, k) = p.left
        BY <1>1, <2>5, NothingAfter
      <4>3. Minor(part) = amount
        BY <2>2 DEF Fits
      <4> HIDE DEF more
      <4> QED
        BY <1>0, <1>3, <1>7, <2>6, <3>1, <4>1, <4>2, <4>3
    <3>2. CASE r # k /\ r <= k /\ new[r][i] > 0
      <4>1. LeftBefore(more, i, r) = LeftBefore(p.part, i, r)
        <5>0. \A e \in Refunds : e < r => e # k
          BY <1>0, <3>2
        <5>1. \A e \in Refunds : e < r => more[e] = p.part[e]
          BY <2>6, <5>0
        <5> HIDE DEF more
        <5> QED
          BY <1>1, <2>6, <5>1, LeftBeforeSame
      <4> HIDE DEF more
      <4> QED
        BY <1>0, <1>2, <2>6, <3>2, <4>1
    <3>3. CASE r # k /\ ~(r <= k /\ new[r][i] > 0)
      <4> HIDE DEF more
      <4> QED
        BY <1>0, <1>2, <2>6, <3>3
    <3> HIDE DEF more
    <3> QED
      BY <3>1, <3>2, <3>3
  <2>10. q.left = LeftOf(q.part, i) /\ q.part = more /\ q.rejected = FALSE
    BY <2>7
  <2>11. q \in [left : Part, rejected : {FALSE}, part : [Refunds -> Part]]
    BY <2>6, <2>8
  <2> HIDE DEF q, more, part, f, amount
  <2> QED
    BY <2>3, <2>8, <2>9, <2>10, <2>11 DEF PlanSet, f, amount
<1> QED
  BY <1>6, <1>7

\* The plan of an item never is rejected; its parts are those there were and those of
\* the new amounts.
LEMMA PlannedIs ==
  ASSUME NEW ps, PartsHold(ps), NEW new, Assignable(ps, new), NEW i \in Items
  PROVE PlannedItem(ps, new, i) \in PlanSet(ps, new, i, RefundCount)
<1> DEFINE n == RefundCount
           start == [left |-> Left(ps, i), rejected |-> FALSE, part |-> [r \in Refunds |-> ps[r][i]]]
           X == [k \in 0 .. n |-> PlanSet(ps, new, i, k)]
           Before == UNION {{<<k, x>> : x \in X[k - 1]} : k \in 1 .. n}
           step == [c \in Before |-> Plan(c[2], c[1], new[c[1]][i])]
           plan == CHOOSE plan : plan = [k \in 0 .. n |->
                      IF k = 0 THEN start ELSE Plan(plan[k - 1], k, new[k][i])]
<1>1. n \in Nat /\ Refunds = 1 .. n
  BY AmountsAssumption DEF Refunds
<1>2. start \in X[0]
  <2>1. /\ Left(ps, i) \in Part /\ PartOf(ps, i) \in [Refunds -> Part]
        /\ Left(ps, i) = LeftOf(PartOf(ps, i), i) /\ Minor(Left(ps, i)) = ItemRest(ps, i)
    BY LeftIs DEF PartsHold
  <2>2. Sum(Column(new, i), 1 .. 0) = 0 /\ ItemRest(ps, i) \in Int
    <3>1. Minor(Left(ps, i)) \in Int
      BY <2>1 DEF Part, Minor
    <3> QED
      BY <2>1, <3>1, AmountsUpTo DEF Assignable
  <2>3. start = [left |-> Left(ps, i), rejected |-> FALSE, part |-> PartOf(ps, i)]
    BY DEF PartOf
  <2>4. \A r \in Refunds : ~(r <= 0) /\ PartOf(ps, i)[r] = ps[r][i]
    BY <1>1 DEF PartOf
  <2>5. start \in PlanSet(ps, new, i, 0)
    <3> HIDE DEF start
    <3> QED
      BY <2>1, <2>2, <2>3, <2>4 DEF PlanSet
  <2> QED
    BY <1>1, <2>5
<1>3. \A k \in 1 .. n : \A x \in X[k - 1] :
        /\ step[<<k, x>>] = Plan(x, k, new[k][i])
        /\ step[<<k, x>>] \in X[k]
  <2> TAKE k \in 1 .. n
  <2> TAKE x \in X[k - 1]
  <2>1. <<k, x>> \in Before
    <3>1. <<k, x>> \in {<<k, y>> : y \in X[k - 1]}
      OBVIOUS
    <3>2. {<<k, y>> : y \in X[k - 1]} \in {{<<j, y>> : y \in X[j - 1]} : j \in 1 .. n}
      OBVIOUS
    <3> HIDE DEF X
    <3> QED
      BY <3>1, <3>2
  <2>2. step[<<k, x>>] = Plan(x, k, new[k][i])
    BY <2>1
  <2>3. x \in PlanSet(ps, new, i, k - 1) /\ k \in Refunds
    BY <1>1
  <2>4. Plan(x, k, new[k][i]) \in PlanSet(ps, new, i, k)
    BY <2>3, PlanStep
  <2> QED
    BY <1>1, <2>2, <2>4
<1> HIDE DEF step, X, start
<1>4. PICK run : Run(n, X, start, step, run)
  <2>1. Chain(n, X, start, step)
    BY <1>2, <1>3 DEF Chain
  <2> HIDE DEF n
  <2> QED
    BY <1>1, <2>1, RunExists
<1> DEFINE f == [k \in 0 .. n |-> run[k]]
<1>5. f = [k \in 0 .. n |-> IF k = 0 THEN start ELSE Plan(f[k - 1], k, new[k][i])]
  <2>1. \A k \in 1 .. n : run[k] = Plan(run[k - 1], k, new[k][i])
    <3> TAKE k \in 1 .. n
    <3>1. k - 1 \in 0 .. n
      BY <1>1
    <3>2. run[k - 1] \in X[k - 1]
      BY <1>4, <3>1 DEF Run
    <3> QED
      BY <1>3, <1>4, <3>2 DEF Run
  <2>2. \A k \in 0 .. n : f[k] = IF k = 0 THEN start ELSE Plan(f[k - 1], k, new[k][i])
    <3> TAKE k \in 0 .. n
    <3>1. k = 0 \/ (k \in 1 .. n /\ k - 1 \in 0 .. n)
      BY <1>1
    <3> QED
      BY <1>4, <2>1, <3>1 DEF Run
  <2>3. f = [k \in 0 .. n |-> f[k]]
    OBVIOUS
  <2> HIDE DEF f
  <2> QED
    BY <2>2, <2>3
<1>6. plan = [k \in 0 .. n |-> IF k = 0 THEN start ELSE Plan(plan[k - 1], k, new[k][i])]
  BY <1>5
<1> HIDE DEF plan
<1>7. \A k \in 0 .. n : plan[k] = IF k = 0 THEN start ELSE Plan(plan[k - 1], k, new[k][i])
  BY <1>6
<1>8. \A k \in 0 .. n : plan[k] \in X[k]
  <2>1. plan[0] \in X[0]
    BY <1>1, <1>2, <1>7
  <2>2. \A k \in 1 .. n : plan[k - 1] \in X[k - 1] => plan[k] \in X[k]
    <3> TAKE k \in 1 .. n
    <3>1. plan[k] = Plan(plan[k - 1], k, new[k][i])
      BY <1>1, <1>7
    <3> QED
      BY <1>3, <3>1
  <2> QED
    BY <1>1, <2>1, <2>2, RunStays
<1>9. PlannedItem(ps, new, i) = plan[n]
  BY DEF PlannedItem, Plans, plan, start
<1>10. n \in 0 .. n
  BY <1>1
<1> QED
  BY <1>8, <1>9, <1>10 DEF X

\* The attribution after new amounts are planned.
LEMMA AfterIs ==
  ASSUME NEW ps, PartsHold(ps), NEW new, Assignable(ps, new)
  PROVE /\ ~Rejected(ps, new)
        /\ PartsHold(WithComponents(ps, new))
        /\ \A r \in Refunds, i \in Items :
             /\ new[r][i] = 0 => WithComponents(ps, new)[r][i] = ps[r][i]
             /\ new[r][i] > 0 =>
                  /\ Minor(WithComponents(ps, new)[r][i]) = new[r][i]
                  /\ WithComponents(ps, new)[r][i] =
                       Split(LeftBefore(PartOf(WithComponents(ps, new), i), i, r), new[r][i])
<1> DEFINE after == WithComponents(ps, new)
           plan(i) == PlannedItem(ps, new, i)
<1>1. ASSUME NEW i \in Items
      PROVE /\ plan(i).rejected = FALSE /\ plan(i).part \in [Refunds -> Part]
            /\ plan(i).left \in Part /\ plan(i).left = LeftOf(plan(i).part, i)
            /\ \A r \in Refunds :
                 IF new[r][i] > 0
                 THEN /\ Minor(plan(i).part[r]) = new[r][i]
                      /\ plan(i).part[r] = Split(LeftBefore(plan(i).part, i, r), new[r][i])
                 ELSE plan(i).part[r] = ps[r][i]
  <2>1. plan(i) \in PlanSet(ps, new, i, RefundCount)
    BY PlannedIs
  <2>2. \A r \in Refunds : r <= RefundCount
    BY DEF Refunds
  <2> HIDE DEF plan
  <2> QED
    BY <2>1, <2>2 DEF PlanSet
<1> HIDE DEF plan
<1>2. after = [r \in Refunds |-> [i \in Items |-> plan(i).part[r]]]
  BY DEF WithComponents, plan
<1>3. ~Rejected(ps, new)
  <2>1. \A i \in Items : ~PlannedItem(ps, new, i).rejected
    BY <1>1 DEF plan
  <2> QED
    BY <2>1 DEF Rejected
<1> HIDE DEF after
<1>4. after \in [Refunds -> [Items -> Part]]
  <2>1. \A r \in Refunds, i \in Items : plan(i).part[r] \in Part
    BY <1>1
  <2> QED
    BY <1>2, <2>1
<1>5. \A i \in Items : PartOf(after, i) = plan(i).part
  <2> TAKE i \in Items
  <2>1. plan(i).part \in [Refunds -> Part]
    BY <1>1
  <2>2. \A r \in Refunds : after[r][i] = plan(i).part[r]
    BY <1>2
  <2> QED
    BY <2>1, <2>2 DEF PartOf
<1>6. PartsHold(after)
  <2>1. \A i \in Items : Left(after, i) \in Part
    <3> TAKE i \in Items
    <3>1. Left(after, i) = LeftOf(PartOf(after, i), i)
      BY <1>4, LeftIs
    <3> QED
      BY <1>1, <1>5, <3>1
  <2> QED
    BY <1>4, <2>1 DEF PartsHold
<1>7. new \in [Refunds -> [Items -> Nat]]
  BY DEF Assignable, Amounts
<1>8. ASSUME NEW r \in Refunds, NEW i \in Items
      PROVE /\ new[r][i] = 0 => after[r][i] = ps[r][i]
            /\ new[r][i] > 0 => /\ Minor(after[r][i]) = new[r][i]
                                /\ after[r][i] = Split(LeftBefore(PartOf(after, i), i, r), new[r][i])
  <2>1. after[r][i] = plan(i).part[r] /\ PartOf(after, i) = plan(i).part
    BY <1>2, <1>5
  <2>2. new[r][i] \in Nat /\ (new[r][i] = 0 => ~(new[r][i] > 0))
    BY <1>7
  <2> QED
    BY <1>1, <2>1, <2>2
<1> QED
  BY <1>3, <1>6, <1>8 DEF after

\* Planning keeps every part, and the split.
LEMMA AfterSplit ==
  ASSUME NEW ps, PartsHold(ps), SplitHolds(ps), NEW new, Assignable(ps, new)
  PROVE SplitHolds(WithComponents(ps, new))
<1> DEFINE after == WithComponents(ps, new)
<1>0. /\ PartsHold(after)
      /\ \A r \in Refunds, i \in Items :
           /\ new[r][i] = 0 => after[r][i] = ps[r][i]
           /\ new[r][i] > 0 =>
                /\ Minor(after[r][i]) = new[r][i]
                /\ after[r][i] = Split(LeftBefore(PartOf(after, i), i, r), new[r][i])
  BY AfterIs
<1> HIDE DEF after
<1>1. new \in [Refunds -> [Items -> Nat]] /\ ~OutOfOrder(ps, new)
  BY DEF Assignable, Amounts
<1>2. ASSUME NEW r \in Refunds, NEW i \in Items, Minor(after[r][i]) > 0
      PROVE after[r][i] = Split(LeftBefore(PartOf(after, i), i, r), Minor(after[r][i]))
  <2>1. CASE new[r][i] > 0
    BY <1>0, <2>1
  <2>2. CASE new[r][i] = 0
    <3>1. after[r][i] = ps[r][i] /\ Minor(ps[r][i]) > 0
      BY <1>0, <1>2, <2>2
    <3>2. \A q \in Refunds : q < r => PartOf(ps, i)[q] = PartOf(after, i)[q]
      <4> TAKE q \in Refunds
      <4> HAVE q < r
      <4>1. ~(new[q][i] > 0) /\ new[q][i] \in Nat
        BY <1>1, <3>1 DEF OutOfOrder
      <4>2. after[q][i] = ps[q][i]
        BY <1>0, <4>1
      <4> QED
        BY <4>2 DEF PartOf
    <3>3. PartOf(ps, i) \in [Refunds -> Part] /\ PartOf(after, i) \in [Refunds -> Part]
      BY <1>0, LeftIs DEF PartsHold
    <3>4. LeftBefore(PartOf(ps, i), i, r) = LeftBefore(PartOf(after, i), i, r)
      BY <3>2, <3>3, LeftBeforeSame
    <3> QED
      BY <3>1, <3>4 DEF SplitHolds
  <2>3. new[r][i] > 0 \/ new[r][i] = 0
    BY <1>1
  <2> QED
    BY <2>1, <2>2, <2>3
<1> QED
  BY <1>2 DEF SplitHolds, after

\* The split of given amounts is unique.
LEMMA SplitUnique ==
  ASSUME NEW a, PartsHold(a), SplitHolds(a), NEW b, PartsHold(b), SplitHolds(b),
         \A r \in Refunds, i \in Items : Minor(a[r][i]) = Minor(b[r][i])
  PROVE a = b
<1>0. a \in [Refunds -> [Items -> Part]] /\ b \in [Refunds -> [Items -> Part]]
  BY DEF PartsHold
<1>1. ASSUME NEW i \in Items PROVE \A r \in Refunds : a[r][i] = b[r][i]
  <2> DEFINE Bad == {r \in Refunds : a[r][i] # b[r][i]}
  <2>1. ASSUME Bad # {} PROVE FALSE
    <3>1. PICK r \in Bad : \A q \in Bad : r <= q
      <4> HIDE DEF Bad
      <4>1. Bad \subseteq Nat
        BY DEF Bad, Refunds
      <4> QED
        BY <2>1, <4>1, SmallestNumber
    <3>2. PartOf(a, i) \in [Refunds -> Part] /\ PartOf(b, i) \in [Refunds -> Part]
      BY <1>0, LeftIs
    <3>3. \A q \in Refunds : q < r => PartOf(a, i)[q] = PartOf(b, i)[q]
      <4>1. \A q \in Refunds : q < r => q \notin Bad
        BY <3>1 DEF Refunds
      <4> QED
        BY <4>1 DEF PartOf
    <3>4. r \in Refunds
      BY <3>1
    <3>5. LeftBefore(PartOf(a, i), i, r) = LeftBefore(PartOf(b, i), i, r)
      BY <3>2, <3>3, <3>4, LeftBeforeSame
    <3>6. a[r][i] \in Part /\ b[r][i] \in Part /\ Minor(a[r][i]) = Minor(b[r][i])
      BY <1>0, <3>4
    <3>7. CASE Minor(a[r][i]) > 0
      <4>2. a[r][i] = Split(LeftBefore(PartOf(a, i), i, r), Minor(a[r][i]))
        BY <3>4, <3>7 DEF SplitHolds
      <4>3. b[r][i] = Split(LeftBefore(PartOf(b, i), i, r), Minor(b[r][i]))
        BY <3>4, <3>6, <3>7 DEF SplitHolds
      <4>1. a[r][i] = b[r][i]
        BY <3>5, <3>6, <4>2, <4>3
      <4> QED
        BY <3>1, <4>1
    <3>8. CASE ~(Minor(a[r][i]) > 0)
      <4>2. ~(Minor(b[r][i]) > 0)
        BY <3>6, <3>8
      <4>3. \A part \in Part : ~(Minor(part) > 0) => part = NoPart
        BY DEF Minor, Part, NoPart
      <4>1. a[r][i] = b[r][i]
        BY <3>6, <3>8, <4>2, <4>3
      <4> QED
        BY <3>1, <4>1
    <3> QED
      BY <3>7, <3>8
  <2> QED
    BY <2>1
<1>2. \A r \in Refunds : a[r] = b[r]
  BY <1>0, <1>1
<1> QED
  BY <1>0, <1>2

\* Nothing is attributed of nothing.
LEMMA NothingHolds ==
  /\ PartsHold(Nothing) /\ SplitHolds(Nothing)
  /\ \A r \in Refunds, i \in Items : Nothing[r][i] = NoPart /\ Minor(Nothing[r][i]) = 0
  /\ \A i \in Items : ItemAllocated(Nothing, i) = 0
  /\ \A r \in Refunds : RefundAllocated(Nothing, r) = 0
<1>1. /\ Nothing \in [Refunds -> [Items -> Part]]
      /\ \A r \in Refunds, i \in Items : Nothing[r][i] = NoPart /\ Minor(Nothing[r][i]) = 0
  BY DEF Nothing, NoPart, Part, Minor
<1>2. ASSUME NEW i \in Items PROVE ItemAllocated(Nothing, i) = 0 /\ Left(Nothing, i) \in Part
  <2> DEFINE f == [r \in Refunds |-> Minor(Nothing[r][i])]
  <2>1. ItemAllocated(Nothing, i) = Sum(f, Refunds)
    BY <1>1, LeftIs
  <2>2. \A r \in Refunds : f[r] = 0
    BY <1>1
  <2> HIDE DEF f
  <2>3. Sum(f, Refunds) = 0
    BY <2>2, SumZero, Finite
  <2> DEFINE s == [r \in Refunds |-> Nothing[r][i].subtotal]
             t == [r \in Refunds |-> Nothing[r][i].tax]
  <2>4. Left(Nothing, i) = [subtotal |-> Subtotal[i] - Sum(s, Refunds), tax |-> Tax[i] - Sum(t, Refunds)]
    BY SumFunctionIs DEF Left
  <2>5. \A r \in Refunds : s[r] = 0 /\ t[r] = 0
    BY <1>1 DEF NoPart
  <2> HIDE DEF s, t
  <2>6. Sum(s, Refunds) = 0
    BY <2>5, SumZero, Finite
  <2>7. Sum(t, Refunds) = 0
    BY <2>5, SumZero, Finite
  <2>8. Left(Nothing, i) \in Part
    BY <2>4, <2>6, <2>7, AmountsAssumption DEF Part
  <2> QED
    BY <2>1, <2>3, <2>8
<1>3. ASSUME NEW r \in Refunds PROVE RefundAllocated(Nothing, r) = 0
  <2> DEFINE f == [i \in Items |-> Minor(Nothing[r][i])]
  <2>1. RefundAllocated(Nothing, r) = Sum(f, Items)
    BY SumFunctionIs DEF RefundAllocated
  <2>2. \A i \in Items : f[i] = 0
    BY <1>1
  <2> HIDE DEF f
  <2> QED
    BY <2>1, <2>2, SumZero, Finite
<1>4. SplitHolds(Nothing)
  BY <1>1 DEF SplitHolds
<1> QED
  BY <1>1, <1>2, <1>3, <1>4 DEF PartsHold

\* An attribution whose parts are the shares of what earlier refunds left is the one
\* that planning all its amounts at once gives.
LEMMA SplitInOrder ==
  ASSUME NEW ps, PartsHold(ps), SplitHolds(ps)
  PROVE ps = WithComponents(Nothing, [r \in Refunds |-> [i \in Items |-> Minor(ps[r][i])]])
<1> DEFINE new == [r \in Refunds |-> [i \in Items |-> Minor(ps[r][i])]]
           after == WithComponents(Nothing, new)
<1>0. ps \in [Refunds -> [Items -> Part]] /\ \A i \in Items : Left(ps, i) \in Part
  BY DEF PartsHold
<1>1. /\ new \in Amounts
      /\ \A r \in Refunds, i \in Items : new[r][i] = Minor(ps[r][i])
  BY <1>0 DEF Amounts, Part, Minor
<1>2. \A i \in Items : Sum(Column(new, i), Refunds) <= ItemRest(Nothing, i)
  <2> TAKE i \in Items
  <2>1. Column(new, i) = [r \in Refunds |-> Minor(ps[r][i])]
    BY DEF Column
  <2>2. Sum(Column(new, i), Refunds) = ItemAllocated(ps, i)
    BY <1>0, <2>1, LeftIs
  <2>3. ItemAllocated(ps, i) \in Nat /\ ItemRest(ps, i) \in Nat
    <3>1. Minor(Left(ps, i)) \in Nat
      BY <1>0 DEF Part, Minor
    <3> QED
      BY <1>0, <3>1, LeftIs
  <2>4. ItemRest(Nothing, i) = Total(i) /\ Total(i) \in Nat
    BY NothingHolds, AmountsAssumption DEF ItemRest, Total
  <2> HIDE DEF new
  <2> QED
    BY <2>2, <2>3, <2>4 DEF ItemRest
<1> HIDE DEF new
<1>3. Assignable(Nothing, new)
  BY <1>1, <1>2, NothingHolds DEF Assignable, OutOfOrder
<1>4. PartsHold(after) /\ SplitHolds(after)
  BY <1>3, AfterIs, AfterSplit, NothingHolds
<1>5. \A r \in Refunds, i \in Items : Minor(ps[r][i]) = Minor(after[r][i])
  <2> TAKE r \in Refunds, i \in Items
  <2>1. /\ new[r][i] = 0 => after[r][i] = Nothing[r][i]
        /\ new[r][i] > 0 => Minor(after[r][i]) = new[r][i]
    BY <1>3, AfterIs, NothingHolds
  <2>2. new[r][i] \in Nat /\ new[r][i] = Minor(ps[r][i])
    BY <1>1 DEF Amounts
  <2> QED
    BY <2>1, <2>2, NothingHolds
<1> HIDE DEF after
<1>6. ps = after
  BY <1>4, <1>5, SplitUnique
<1> QED
  BY <1>6 DEF after, new

-----------------------------------------------------------------------------
(* Giving new amounts *)

\* What a refund has given is the sum of its parts.
LEMMA RefundAllocatedIs ==
  ASSUME NEW ps \in [Refunds -> [Items -> Part]], NEW r \in Refunds
  PROVE /\ RefundAllocated(ps, r) = Sum([i \in Items |-> Minor(ps[r][i])], Items)
        /\ RefundAllocated(ps, r) \in Nat
        /\ RefundAllocated(ps, r) = 0 <=> \A i \in Items : ps[r][i] = NoPart
<1> DEFINE f == [i \in Items |-> Minor(ps[r][i])]
<1>1. RefundAllocated(ps, r) = Sum(f, Items)
  BY SumFunctionIs DEF RefundAllocated
<1>2. \A i \in Items : f[i] \in Nat /\ (f[i] = 0 <=> ps[r][i] = NoPart)
  BY DEF Minor, Part, NoPart
<1> HIDE DEF f
<1>3. Sum(f, Items) \in Nat
  BY <1>2, SumNat, Finite
<1>4. Sum(f, Items) = 0 <=> \A i \in Items : f[i] = 0
  BY <1>2, SumZero, Finite
<1> QED
  BY <1>1, <1>2, <1>3, <1>4 DEF f

\* What planning new amounts does to what refunds and items have given.
LEMMA AfterAllocated ==
  ASSUME NEW ps, PartsHold(ps), NEW new, Assignable(ps, new)
  PROVE /\ \A r \in Refunds : RefundAllocated(WithComponents(ps, new), r)
             = RefundAllocated(ps, r) + Sum(new[r], Items)
        /\ \A i \in Items : FullyAllocated(ps, i) => FullyAllocated(WithComponents(ps, new), i)
<1> DEFINE after == WithComponents(ps, new)
<1>0. /\ after \in [Refunds -> [Items -> Part]] /\ ps \in [Refunds -> [Items -> Part]]
      /\ \A r \in Refunds, i \in Items :
           /\ new[r][i] = 0 => after[r][i] = ps[r][i]
           /\ new[r][i] > 0 => Minor(after[r][i]) = new[r][i] /\ ps[r][i] = NoPart
  <2>1. PartsHold(after)
    BY AfterIs
  <2>2. \A r \in Refunds, i \in Items :
           /\ new[r][i] = 0 => after[r][i] = ps[r][i]
           /\ new[r][i] > 0 => Minor(after[r][i]) = new[r][i]
    BY AfterIs
  <2> HIDE DEF after
  <2> QED
    BY <2>1, <2>2 DEF PartsHold, Assignable
<1>1. new \in [Refunds -> [Items -> Nat]]
  BY DEF Assignable, Amounts
<1> HIDE DEF after
<1>2. \A r \in Refunds, i \in Items :
        /\ Minor(ps[r][i]) \in Nat /\ new[r][i] \in Nat
        /\ Minor(after[r][i]) = Minor(ps[r][i]) + new[r][i]
  <2> TAKE r \in Refunds, i \in Items
  <2>1. Minor(ps[r][i]) \in Nat /\ new[r][i] \in Nat
    BY <1>0, <1>1 DEF Minor, Part
  <2>2. CASE new[r][i] = 0
    BY <1>0, <2>1, <2>2
  <2>3. CASE new[r][i] # 0
    <3>1. Minor(NoPart) = 0
      BY DEF Minor, NoPart
    <3> QED
      BY <1>0, <2>1, <2>3, <3>1
  <2> QED
    BY <2>2, <2>3
<1>3. ASSUME NEW r \in Refunds
      PROVE RefundAllocated(after, r) = RefundAllocated(ps, r) + Sum(new[r], Items)
  <2> DEFINE f == [i \in Items |-> Minor(ps[r][i])]
             g == [i \in Items |-> Minor(after[r][i])]
             h == new[r]
  <2>1. \A i \in Items : f[i] \in Int /\ h[i] \in Int /\ g[i] = f[i] + h[i]
    BY <1>2
  <2>2. RefundAllocated(after, r) = Sum(g, Items) /\ RefundAllocated(ps, r) = Sum(f, Items)
    BY <1>0, RefundAllocatedIs
  <2> HIDE DEF f, g, h
  <2>3. Sum(g, Items) = Sum(f, Items) + Sum(h, Items)
    BY <2>1, SumAdd, Finite
  <2> QED
    BY <2>2, <2>3 DEF h
<1>4. ASSUME NEW i \in Items, FullyAllocated(ps, i) PROVE FullyAllocated(after, i)
  <2>1. Sum(Column(new, i), Refunds) <= 0
    <3>1. ItemAllocated(ps, i) = Total(i) /\ ItemAllocated(ps, i) \in Nat
      BY <1>0, <1>4, LeftIs DEF FullyAllocated
    <3>2. ItemRest(ps, i) = 0
      BY <3>1 DEF ItemRest
    <3> QED
      BY <3>2 DEF Assignable
  <2>2. \A r \in Refunds : Column(new, i)[r] \in Nat /\ Column(new, i)[r] = new[r][i]
    BY <1>1 DEF Column
  <2> DEFINE f == Column(new, i)
  <2> HIDE DEF f
  <2>3. Sum(f, Refunds) \in Nat
    BY <2>2, SumNat, Finite DEF f
  <2>4. Sum(f, Refunds) = 0
    BY <2>1, <2>3 DEF f
  <2>5. \A r \in Refunds : f[r] = 0
    BY <2>2, <2>4, SumZero, Finite DEF f
  <2>6. \A r \in Refunds : after[r][i] = ps[r][i]
    BY <1>0, <2>2, <2>5 DEF f
  <2>7. [r \in Refunds |-> Minor(after[r][i])] = [r \in Refunds |-> Minor(ps[r][i])]
    BY <2>6
  <2>8. ItemAllocated(after, i) = ItemAllocated(ps, i)
    BY <2>7 DEF ItemAllocated
  <2> QED
    BY <1>4, <2>8 DEF FullyAllocated
<1> QED
  BY <1>3, <1>4 DEF after

\* Every refund and item has one place in the order in which new amounts are given.
LEMMA CellsAre ==
  /\ \A k \in 1 .. RefundCount * ItemCount :
       Cells[k] \in Refunds \X Items
  /\ \A j, k \in 1 .. RefundCount * ItemCount : Cells[j] = Cells[k] => j = k
  /\ \A r \in Refunds, i \in Items : \E k \in 1 .. RefundCount * ItemCount : Cells[k] = <<r, i>>
<1> DEFINE n == ItemCount
           all == RefundCount * n
<1>1. n \in Nat /\ RefundCount \in Nat /\ all \in Nat
  BY AmountsAssumption
<1>2. ASSUME NEW k \in 1 .. all
      PROVE /\ n \in Nat \ {0}
            /\ (k - 1) \div n \in Nat /\ (k - 1) % n \in 0 .. (n - 1)
            /\ k - 1 = n * ((k - 1) \div n) + ((k - 1) % n)
            /\ Cells[k] = <<((k - 1) \div n) + 1, ((k - 1) % n) + 1>>
  <2>1. n # 0
    <3>1. n = 0 => all = 0
      BY <1>1
    <3> HIDE DEF n, all
    <3> QED
      BY <1>1, <3>1
  <2>2. k - 1 \in Nat
    BY <1>1
  <2>3. n \in Nat \ {0}
    BY <1>1, <2>1
  <2> DEFINE m == k - 1
  <2>4. m \div n \in Nat /\ m % n \in 0 .. (n - 1) /\ m = n * (m \div n) + (m % n)
    <3> HIDE DEF n, m
    <3> QED
      BY <2>2, <2>3, DivisionIs DEF m
  <2> QED
    BY <2>3, <2>4 DEF Cells
<1> HIDE DEF n
<1>3. ASSUME NEW k \in 1 .. all PROVE Cells[k] \in Refunds \X Items
  <2> DEFINE q == (k - 1) \div n
             m == (k - 1) % n
  <2>1. n \in Nat \ {0} /\ q \in Nat /\ m \in 0 .. (n - 1) /\ k - 1 = n * q + m /\ Cells[k] = <<q + 1, m + 1>>
    BY <1>2
  <2> HIDE DEF q, m
  <2>2. n * q < n * RefundCount
    <3>1. all = n * RefundCount /\ n * q \in Int
      BY <1>1, <2>1
    <3> HIDE DEF all
    <3> QED
      BY <1>1, <2>1, <3>1
  <2>3. q < RefundCount
    BY <1>1, <2>1, <2>2, FactorLess
  <2>4. q + 1 \in 1 .. RefundCount /\ m + 1 \in 1 .. n
    BY <1>1, <2>1, <2>3
  <2> QED
    BY <2>1, <2>4 DEF Refunds, Items, n
<1>4. ASSUME NEW j \in 1 .. all, NEW k \in 1 .. all, Cells[j] = Cells[k] PROVE j = k
  <2>1. (j - 1) \div n = (k - 1) \div n /\ (j - 1) % n = (k - 1) % n
    <3> DEFINE a == (j - 1) \div n
               b == (j - 1) % n
               c == (k - 1) \div n
               d == (k - 1) % n
    <3>1. a \in Int /\ c \in Int /\ b \in Int /\ d \in Int /\ <<a + 1, b + 1>> = <<c + 1, d + 1>>
      BY <1>2, <1>4
    <3> HIDE DEF a, b, c, d
    <3>2. a = c /\ b = d
      BY <3>1
    <3> QED
      BY <3>2 DEF a, b, c, d
  <2>2. j - 1 = k - 1
    BY <1>2, <2>1
  <2> HIDE DEF all
  <2> QED
    BY <1>1, <2>2
<1>5. ASSUME NEW r \in Refunds, NEW i \in Items PROVE \E k \in 1 .. all : Cells[k] = <<r, i>>
  <2>0. r \in 1 .. RefundCount /\ i \in 1 .. n
    BY DEF Refunds, Items, n
  <2> DEFINE c == n * (r - 1)
             k == c + i
  <2>1. n \in Nat \ {0} /\ c \in Nat /\ k \in 1 .. all
    <3>1. n \in Nat \ {0} /\ r - 1 \in Nat
      BY <1>1, <2>0
    <3>2. c \in Nat
      BY <3>1
    <3>3. n * (RefundCount - r) \in Nat
      BY <1>1, <2>0, <3>1
    <3>4. n * (RefundCount - r) = all - c - n
      BY <1>1, <2>0, <3>1
    <3> HIDE DEF c, all
    <3> QED
      BY <1>1, <2>0, <3>1, <3>2, <3>3, <3>4
  <2> DEFINE q == (k - 1) \div n
             m == (k - 1) % n
  <2>2. q \in Nat /\ m \in 0 .. (n - 1) /\ k - 1 = n * q + m /\ Cells[k] = <<q + 1, m + 1>>
    <3> HIDE DEF k, all
    <3> QED
      BY <1>2, <2>1
  <2>3. q = r - 1
    <3> HIDE DEF q, m
    <3>1. n * (q - (r - 1)) = n * q - c
      BY <2>0, <2>1, <2>2
    <3>2. n * q \in Int
      BY <2>1, <2>2
    <3>3. n * q - c = (i - 1) - m
      <4> HIDE DEF c
      <4> QED
        BY <2>0, <2>1, <2>2, <3>2
    <3>4. n * (q - (r - 1)) < n /\ -n < n * (q - (r - 1))
      BY <2>0, <2>1, <2>2, <3>1, <3>3
    <3>5. q - (r - 1) \in Int
      BY <2>0, <2>2
    <3>6. q - (r - 1) = 0
      BY <2>1, <3>4, <3>5, NoMultiple
    <3> QED
      BY <2>0, <2>2, <3>6
  <2>4. m = i - 1
    <3>1. n * q = c
      BY <2>3
    <3> HIDE DEF q, m, c
    <3> QED
      BY <2>0, <2>1, <2>2, <3>1
  <2>5. Cells[k] = <<r, i>>
    <3> HIDE DEF q, m, k
    <3> QED
      BY <2>0, <2>2, <2>3, <2>4
  <2> QED
    BY <2>1, <2>5
<1> QED
  BY <1>3, <1>4, <1>5 DEF n

\* What the loop has given after the first k cells.
GivenSet(succ, ps, k) ==
  {new \in Amounts :
     /\ \A r \in Refunds \ succ, i \in Items : new[r][i] = 0
     /\ \A r \in succ : RefundOpen(ps, new, r) >= 0
     /\ ItemCount # 1 => \A i \in Items : ItemOpen(ps, new, i) >= 0
     /\ \A j \in 1 .. RefundCount * ItemCount :
          /\ j > k => new[Cells[j][1]][Cells[j][2]] = 0
          /\ j <= k /\ Cells[j][1] \in succ =>
               \/ RefundOpen(ps, new, Cells[j][1]) = 0
               \/ ItemCount # 1 /\ ItemOpen(ps, new, Cells[j][2]) = 0}

\* The smaller of two numbers.
LEMMA MinOfTwo ==
  ASSUME NEW x \in Int, NEW y \in Int
  PROVE Min({x, y}) \in {x, y} /\ Min({x, y}) <= x /\ Min({x, y}) <= y
<1>1. \E z \in {x, y} : \A w \in {x, y} : z <= w
  OBVIOUS
<1>2. Min({x, y}) = CHOOSE z \in {x, y} : \A w \in {x, y} : z <= w
  BY DEF Min
<1> QED
  BY <1>1, <1>2

\* What is open is what is left less what was given.
LEMMA OpenIs ==
  ASSUME NEW ps \in [Refunds -> [Items -> Part]], NEW new \in Amounts
  PROVE /\ \A r \in Refunds : /\ RefundOpen(ps, new, r) = RefundRest(ps, r) - Sum(new[r], Items)
                              /\ Sum(new[r], Items) \in Nat
                              /\ RefundRest(ps, r) \in Int
        /\ \A i \in Items : /\ ItemOpen(ps, new, i) = ItemRest(ps, i) - Sum(Column(new, i), Refunds)
                            /\ Sum(Column(new, i), Refunds) \in Nat
                            /\ ItemRest(ps, i) \in Int
<1>1. ASSUME NEW r \in Refunds
      PROVE /\ RefundOpen(ps, new, r) = RefundRest(ps, r) - Sum(new[r], Items)
            /\ Sum(new[r], Items) \in Nat
            /\ RefundRest(ps, r) \in Int
  <2> DEFINE f == new[r]
  <2>1. DOMAIN f = Items /\ \A i \in Items : f[i] \in Nat
    BY DEF Amounts
  <2>2. RefundAllocated(ps, r) \in Nat
    BY RefundAllocatedIs
  <2>4. Amount[r] \in Int
    BY AmountsAssumption
  <2> HIDE DEF f
  <2>3. SumFunction(f) = Sum(f, Items) /\ Sum(f, Items) \in Nat
    BY <2>1, SumFunctionIs, SumNat, Finite
  <2> QED
    BY <2>2, <2>3, <2>4 DEF RefundOpen, RefundRest, f
<1>2. ASSUME NEW i \in Items
      PROVE /\ ItemOpen(ps, new, i) = ItemRest(ps, i) - Sum(Column(new, i), Refunds)
            /\ Sum(Column(new, i), Refunds) \in Nat
            /\ ItemRest(ps, i) \in Int
  <2>1. ItemOpen(ps, new, i) = ItemRest(ps, i) - Sum(Column(new, i), Refunds)
    <3>1. SumFunction(Column(new, i)) = Sum(Column(new, i), Refunds)
      BY SumFunctionIs DEF Column
    <3> QED
      BY <3>1 DEF ItemOpen, Column
  <2>2. ItemAllocated(ps, i) \in Int /\ Total(i) \in Int
    <3>1. ItemAllocated(ps, i) \in Nat
      BY LeftIs
    <3>2. Total(i) \in Int
      BY AmountsAssumption DEF Total
    <3> QED
      BY <3>1, <3>2
  <2> QED
    BY <2>1, <2>2, AmountsUpTo DEF ItemRest
<1> QED
  BY <1>1, <1>2

\* One amount more is given.
GivesMore(new, more, r, i, amount) ==
  /\ more \in Amounts
  /\ \A q \in Refunds, j \in Items : more[q][j] = IF q = r /\ j = i THEN amount ELSE new[q][j]

\* What giving one amount does to what is open.
LEMMA OpenAfter ==
  ASSUME NEW ps \in [Refunds -> [Items -> Part]], NEW new \in Amounts,
         NEW r \in Refunds, NEW i \in Items, new[r][i] = 0, NEW amount \in Nat,
         NEW more, GivesMore(new, more, r, i, amount)
  PROVE /\ \A q \in Refunds : RefundOpen(ps, more, q) =
             IF q = r THEN RefundOpen(ps, new, q) - amount ELSE RefundOpen(ps, new, q)
        /\ \A j \in Items : ItemOpen(ps, more, j) =
             IF j = i THEN ItemOpen(ps, new, j) - amount ELSE ItemOpen(ps, new, j)
<1>1. /\ more \in Amounts
      /\ \A q \in Refunds, j \in Items : more[q][j] = IF q = r /\ j = i THEN amount ELSE new[q][j]
      /\ \A q \in Refunds : q # r => more[q] = new[q]
  BY DEF Amounts, GivesMore
<1>2. \A q \in Refunds, j \in Items : new[q][j] \in Nat /\ more[q][j] \in Nat
  BY <1>1 DEF Amounts
<1>3. Sum(more[r], Items) = Sum(new[r], Items) + amount
  <2> DEFINE f == new[r]
             g == more[r]
  <2>1. /\ \A j \in Items : f[j] \in Int /\ g[j] \in Int /\ (j # i => g[j] = f[j])
        /\ f[i] = 0 /\ g[i] = amount
    BY <1>1, <1>2
  <2> HIDE DEF f, g
  <2>2. Sum(g, Items) = Sum(f, Items) - f[i] + g[i]
    BY <2>1, SumUpdate, Finite
  <2>3. Sum(f, Items) \in Int
    BY <2>1, SumType, Finite
  <2> QED
    BY <2>1, <2>2, <2>3 DEF f, g
<1>4. Sum(Column(more, i), Refunds) = Sum(Column(new, i), Refunds) + amount
  <2> DEFINE f == Column(new, i)
             g == Column(more, i)
  <2>1. /\ \A q \in Refunds : f[q] \in Int /\ g[q] \in Int /\ (q # r => g[q] = f[q])
        /\ f[r] = 0 /\ g[r] = amount
    BY <1>1, <1>2 DEF Column
  <2> HIDE DEF f, g
  <2>2. Sum(g, Refunds) = Sum(f, Refunds) - f[r] + g[r]
    BY <2>1, SumUpdate, Finite
  <2>3. Sum(f, Refunds) \in Int
    BY <2>1, SumType, Finite
  <2> QED
    BY <2>1, <2>2, <2>3 DEF f, g
<1>5. \A j \in Items : j # i => Column(more, j) = Column(new, j)
  BY <1>1 DEF Column
<1>6. \A q \in Refunds : RefundOpen(ps, more, q) =
        IF q = r THEN RefundOpen(ps, new, q) - amount ELSE RefundOpen(ps, new, q)
  <2> TAKE q \in Refunds
  <2>1. /\ RefundOpen(ps, new, q) = RefundRest(ps, q) - Sum(new[q], Items)
        /\ RefundOpen(ps, more, q) = RefundRest(ps, q) - Sum(more[q], Items)
        /\ Sum(new[q], Items) \in Nat /\ RefundRest(ps, q) \in Int
    BY <1>1, OpenIs
  <2> QED
    BY <1>1, <1>3, <2>1
<1>7. \A j \in Items : ItemOpen(ps, more, j) =
        IF j = i THEN ItemOpen(ps, new, j) - amount ELSE ItemOpen(ps, new, j)
  <2> TAKE j \in Items
  <2>1. /\ ItemOpen(ps, new, j) = ItemRest(ps, j) - Sum(Column(new, j), Refunds)
        /\ ItemOpen(ps, more, j) = ItemRest(ps, j) - Sum(Column(more, j), Refunds)
        /\ Sum(Column(new, j), Refunds) \in Nat /\ ItemRest(ps, j) \in Int
    BY <1>1, OpenIs
  <2>2. CASE j = i
    BY <1>4, <2>1, <2>2
  <2>3. CASE j # i
    BY <1>5, <2>1, <2>3
  <2> QED
    BY <2>2, <2>3
<1> QED
  BY <1>6, <1>7

\* Giving to one cell more.
LEMMA GiveStep ==
  ASSUME NEW ps \in [Refunds -> [Items -> Part]], NEW succ, succ \subseteq Refunds,
         NEW k \in 1 .. RefundCount * ItemCount, NEW new \in GivenSet(succ, ps, k - 1)
  PROVE Give(succ, ps, new, Cells[k]) \in GivenSet(succ, ps, k)
<1> DEFINE n == RefundCount * ItemCount
           r == Cells[k][1]
           i == Cells[k][2]
<1>0. k \in Int /\ n \in Nat /\ k \in 1 .. n
  BY AmountsAssumption
<1>1. /\ r \in Refunds /\ i \in Items /\ Cells[k] = <<r, i>>
      /\ \A j \in 1 .. n : /\ Cells[j] = <<Cells[j][1], Cells[j][2]>>
                           /\ Cells[j][1] \in Refunds /\ Cells[j][2] \in Items
                           /\ j # k => ~(Cells[j][1] = r /\ Cells[j][2] = i)
  <2>1. \A j \in 1 .. n : Cells[j] \in Refunds \X Items
    BY CellsAre
  <2>2. \A j \in 1 .. n : /\ Cells[j] = <<Cells[j][1], Cells[j][2]>>
                          /\ Cells[j][1] \in Refunds /\ Cells[j][2] \in Items
    BY <2>1
  <2>3. \A j \in 1 .. n : Cells[j] = Cells[k] => j = k
    BY <1>0, CellsAre
  <2> HIDE DEF n
  <2> QED
    BY <1>0, <2>2, <2>3
<1>2. /\ new \in Amounts
      /\ \A q \in Refunds \ succ, j \in Items : new[q][j] = 0
      /\ \A q \in succ : RefundOpen(ps, new, q) >= 0
      /\ ItemCount # 1 => \A j \in Items : ItemOpen(ps, new, j) >= 0
  BY DEF GivenSet
<1>3. \A j \in 1 .. n :
        /\ j > k - 1 => new[Cells[j][1]][Cells[j][2]] = 0
        /\ j <= k - 1 /\ Cells[j][1] \in succ =>
             \/ RefundOpen(ps, new, Cells[j][1]) = 0
             \/ ItemCount # 1 /\ ItemOpen(ps, new, Cells[j][2]) = 0
  BY DEF GivenSet
<1>4. new[r][i] = 0
  BY <1>0, <1>3
<1>5. \A q \in Refunds : RefundOpen(ps, new, q) \in Int
  BY <1>2, OpenIs
<1>6. \A j \in Items : ItemOpen(ps, new, j) \in Int
  BY <1>2, OpenIs
<1> HIDE DEF n
<1>7. CASE r \notin succ
  <2>1. Give(succ, ps, new, Cells[k]) = new
    BY <1>7 DEF Give
  <2>2. ASSUME NEW j \in 1 .. n
        PROVE /\ j > k => new[Cells[j][1]][Cells[j][2]] = 0
              /\ j <= k /\ Cells[j][1] \in succ =>
                   \/ RefundOpen(ps, new, Cells[j][1]) = 0
                   \/ ItemCount # 1 /\ ItemOpen(ps, new, Cells[j][2]) = 0
    <3>1. j \in Int /\ (j > k => j > k - 1) /\ (j <= k => j = k \/ j <= k - 1)
      BY <1>0
    <3> QED
      BY <1>3, <1>7, <3>1
  <2> QED
    BY <1>2, <2>1, <2>2 DEF GivenSet, n
<1>8. CASE r \in succ
  <2> DEFINE refundOpen == RefundOpen(ps, new, r)
             itemOpen == ItemOpen(ps, new, i)
             amount == IF ItemCount = 1 THEN refundOpen ELSE Min({refundOpen, itemOpen})
             more == [new EXCEPT ![r][i] = amount]
  <2>1. Give(succ, ps, new, Cells[k]) = more
    BY <1>8 DEF Give
  <2>2. /\ amount \in Nat /\ amount <= refundOpen /\ (ItemCount # 1 => amount <= itemOpen)
        /\ amount = refundOpen \/ (ItemCount # 1 /\ amount = itemOpen)
    <3>1. /\ refundOpen \in Int /\ refundOpen >= 0 /\ itemOpen \in Int
          /\ ItemCount # 1 => itemOpen >= 0
      BY <1>1, <1>2, <1>5, <1>6, <1>8
    <3> HIDE DEF refundOpen, itemOpen
    <3>2. /\ Min({refundOpen, itemOpen}) \in {refundOpen, itemOpen}
          /\ Min({refundOpen, itemOpen}) <= refundOpen /\ Min({refundOpen, itemOpen}) <= itemOpen
      BY <3>1, MinOfTwo
    <3> QED
      BY <3>1, <3>2
  <2> HIDE DEF amount
  <2>3. /\ more \in Amounts
        /\ \A q \in Refunds, j \in Items : more[q][j] = IF q = r /\ j = i THEN amount ELSE new[q][j]
    <3> HIDE DEF r, i
    <3> QED
      BY <1>1, <1>2, <2>2 DEF Amounts
  <2> HIDE DEF more
  <2>11. GivesMore(new, more, r, i, amount)
    BY <2>3 DEF GivesMore
  <2>4. \A q \in Refunds : RefundOpen(ps, more, q) =
             IF q = r THEN RefundOpen(ps, new, q) - amount ELSE RefundOpen(ps, new, q)
    BY <1>1, <1>2, <1>4, <2>2, <2>11, OpenAfter
  <2>5. \A j \in Items : ItemOpen(ps, more, j) =
             IF j = i THEN ItemOpen(ps, new, j) - amount ELSE ItemOpen(ps, new, j)
    BY <1>1, <1>2, <1>4, <2>2, <2>11, OpenAfter
  <2>6. \A q \in Refunds \ succ, j \in Items : more[q][j] = 0
    BY <1>2, <1>8, <2>3
  <2>7. \A q \in succ : RefundOpen(ps, more, q) >= 0 /\ (RefundOpen(ps, new, q) = 0 => RefundOpen(ps, more, q) = 0)
    <3> TAKE q \in succ
    <3>1. q \in Refunds /\ RefundOpen(ps, new, q) \in Int /\ RefundOpen(ps, new, q) >= 0
      BY <1>2, <1>5
    <3>2. CASE q = r
      <4>1. RefundOpen(ps, more, q) = RefundOpen(ps, new, q) - amount /\ amount <= RefundOpen(ps, new, q)
        BY <2>2, <2>4, <3>1, <3>2
      <4> QED
        BY <2>2, <3>1, <4>1
    <3>3. CASE q # r
      <4>1. RefundOpen(ps, more, q) = RefundOpen(ps, new, q)
        BY <2>4, <3>1, <3>3
      <4> QED
        BY <3>1, <4>1
    <3> QED
      BY <3>2, <3>3
  <2>8. ItemCount # 1 => \A j \in Items :
          ItemOpen(ps, more, j) >= 0 /\ (ItemOpen(ps, new, j) = 0 => ItemOpen(ps, more, j) = 0)
    <3> HAVE ItemCount # 1
    <3> TAKE j \in Items
    <3>1. ItemOpen(ps, new, j) \in Int /\ ItemOpen(ps, new, j) >= 0
      BY <1>2, <1>6
    <3>2. CASE j = i
      <4>1. ItemOpen(ps, more, j) = ItemOpen(ps, new, j) - amount /\ amount <= ItemOpen(ps, new, j)
        BY <2>2, <2>5, <3>2
      <4> QED
        BY <2>2, <3>1, <4>1
    <3>3. CASE j # i
      <4>1. ItemOpen(ps, more, j) = ItemOpen(ps, new, j)
        BY <2>5, <3>3
      <4> QED
        BY <3>1, <4>1
    <3> QED
      BY <3>2, <3>3
  <2>9. RefundOpen(ps, more, r) = 0 \/ (ItemCount # 1 /\ ItemOpen(ps, more, i) = 0)
    <3>1. refundOpen \in Int /\ itemOpen \in Int
      BY <1>1, <1>5, <1>6
    <3>2. RefundOpen(ps, more, r) = refundOpen - amount /\ ItemOpen(ps, more, i) = itemOpen - amount
      BY <1>1, <2>4, <2>5
    <3> HIDE DEF refundOpen, itemOpen
    <3> QED
      BY <2>2, <3>1, <3>2
  <2>10. ASSUME NEW j \in 1 .. n
         PROVE /\ j > k => more[Cells[j][1]][Cells[j][2]] = 0
               /\ j <= k /\ Cells[j][1] \in succ =>
                    \/ RefundOpen(ps, more, Cells[j][1]) = 0
                    \/ ItemCount # 1 /\ ItemOpen(ps, more, Cells[j][2]) = 0
    <3>1. j \in Int /\ (j > k => j > k - 1 /\ j # k) /\ (j <= k => j = k \/ j <= k - 1)
      BY <1>0
    <3>2. j > k => more[Cells[j][1]][Cells[j][2]] = 0
      <4>1. j > k => ~(Cells[j][1] = r /\ Cells[j][2] = i)
        BY <1>1, <3>1
      <4>2. Cells[j][1] \in Refunds /\ Cells[j][2] \in Items
        BY <1>1
      <4>3. j > k => new[Cells[j][1]][Cells[j][2]] = 0
        BY <1>3, <3>1
      <4> QED
        BY <2>3, <4>1, <4>2, <4>3
    <3>3. j <= k - 1 /\ Cells[j][1] \in succ =>
                    \/ RefundOpen(ps, more, Cells[j][1]) = 0
                    \/ ItemCount # 1 /\ ItemOpen(ps, more, Cells[j][2]) = 0
      <4>1. Cells[j][2] \in Items
        BY <1>1
      <4> QED
        BY <1>3, <2>7, <2>8, <4>1
    <3> QED
      BY <2>9, <3>1, <3>2, <3>3
  <2> QED
    BY <2>1, <2>3, <2>6, <2>7, <2>8, <2>10 DEF GivenSet, n
<1> QED
  BY <1>7, <1>8

\* The loop ends with every cell done.
LEMMA NewAmountsGiven ==
  ASSUME NEW ps \in [Refunds -> [Items -> Part]], NEW succ, succ \subseteq Refunds,
         \A r \in succ : RefundRest(ps, r) >= 0, \A i \in Items : ItemRest(ps, i) >= 0
  PROVE NewAmounts(succ, ps) \in GivenSet(succ, ps, RefundCount * ItemCount)
<1> DEFINE n == RefundCount * ItemCount
           X == [k \in 0 .. n |-> GivenSet(succ, ps, k)]
           Before == UNION {{<<k, x>> : x \in X[k - 1]} : k \in 1 .. n}
           step == [c \in Before |-> Give(succ, ps, c[2], Cells[c[1]])]
           given == CHOOSE given : given = [k \in 0 .. n |->
                      IF k = 0 THEN NoAmounts ELSE Give(succ, ps, given[k - 1], Cells[k])]
<1>1. n \in Nat
  BY AmountsAssumption
<1>2. NoAmounts \in X[0]
  <2>1. NoAmounts \in Amounts /\ \A r \in Refunds, i \in Items : NoAmounts[r][i] = 0
    BY DEF NoAmounts, Amounts
  <2>2. \A r \in Refunds : RefundOpen(ps, NoAmounts, r) = RefundRest(ps, r)
    <3> TAKE r \in Refunds
    <3> DEFINE f == NoAmounts[r]
    <3>1. \A i \in Items : f[i] = 0
      BY <2>1
    <3>2. /\ RefundOpen(ps, NoAmounts, r) = RefundRest(ps, r) - Sum(f, Items)
          /\ RefundRest(ps, r) \in Int
      BY <2>1, OpenIs
    <3> HIDE DEF f
    <3>3. Sum(f, Items) = 0
      BY <3>1, SumZero, Finite
    <3> QED
      BY <3>2, <3>3
  <2>3. \A i \in Items : ItemOpen(ps, NoAmounts, i) = ItemRest(ps, i)
    <3> TAKE i \in Items
    <3> DEFINE f == Column(NoAmounts, i)
    <3>1. \A r \in Refunds : f[r] = 0
      BY <2>1 DEF Column
    <3>2. /\ ItemOpen(ps, NoAmounts, i) = ItemRest(ps, i) - Sum(f, Refunds)
          /\ ItemRest(ps, i) \in Int
      BY <2>1, OpenIs
    <3> HIDE DEF f
    <3>3. Sum(f, Refunds) = 0
      BY <3>1, SumZero, Finite
    <3> QED
      BY <3>2, <3>3
  <2>4. \A j \in 1 .. n : ~(j <= 0) /\ NoAmounts[Cells[j][1]][Cells[j][2]] = 0
    <3> TAKE j \in 1 .. n
    <3>1. Cells[j] \in Refunds \X Items
      BY CellsAre
    <3> QED
      BY <2>1, <3>1
  <2>5. NoAmounts \in GivenSet(succ, ps, 0)
    BY <2>1, <2>2, <2>3, <2>4 DEF GivenSet
  <2> QED
    BY <1>1, <2>5
<1>3. \A k \in 1 .. n : \A x \in X[k - 1] :
        /\ step[<<k, x>>] = Give(succ, ps, x, Cells[k])
        /\ step[<<k, x>>] \in X[k]
  <2> TAKE k \in 1 .. n
  <2> TAKE x \in X[k - 1]
  <2>1. <<k, x>> \in Before
    <3>1. <<k, x>> \in {<<k, y>> : y \in X[k - 1]}
      OBVIOUS
    <3>2. {<<k, y>> : y \in X[k - 1]} \in {{<<j, y>> : y \in X[j - 1]} : j \in 1 .. n}
      OBVIOUS
    <3> HIDE DEF X
    <3> QED
      BY <3>1, <3>2
  <2>2. step[<<k, x>>] = Give(succ, ps, x, Cells[k])
    BY <2>1
  <2>3. k - 1 \in 0 .. n /\ k \in 0 .. n
    BY <1>1
  <2>4. x \in GivenSet(succ, ps, k - 1)
    BY <2>3
  <2>5. Give(succ, ps, x, Cells[k]) \in GivenSet(succ, ps, k)
    BY <2>4, GiveStep
  <2> QED
    BY <2>2, <2>3, <2>5
<1> HIDE DEF step, X
<1>4. PICK run : Run(n, X, NoAmounts, step, run)
  <2>1. Chain(n, X, NoAmounts, step)
    BY <1>2, <1>3 DEF Chain
  <2> HIDE DEF n
  <2> QED
    BY <1>1, <2>1, RunExists
<1> HIDE DEF n
<1> DEFINE f == [k \in 0 .. n |-> run[k]]
<1>5. f = [k \in 0 .. n |-> IF k = 0 THEN NoAmounts ELSE Give(succ, ps, f[k - 1], Cells[k])]
  <2>1. \A k \in 1 .. n : run[k] = Give(succ, ps, run[k - 1], Cells[k])
    <3> TAKE k \in 1 .. n
    <3>1. k - 1 \in 0 .. n
      BY <1>1
    <3>2. run[k - 1] \in X[k - 1]
      BY <1>4, <3>1 DEF Run
    <3> QED
      BY <1>3, <1>4, <3>2 DEF Run
  <2>2. \A k \in 0 .. n : f[k] = IF k = 0 THEN NoAmounts ELSE Give(succ, ps, f[k - 1], Cells[k])
    <3> TAKE k \in 0 .. n
    <3>1. k = 0 \/ (k \in 1 .. n /\ k - 1 \in 0 .. n)
      BY <1>1
    <3> QED
      BY <1>4, <2>1, <3>1 DEF Run
  <2>3. f = [k \in 0 .. n |-> f[k]]
    OBVIOUS
  <2> HIDE DEF f
  <2> QED
    BY <2>2, <2>3
<1>6. given = [k \in 0 .. n |-> IF k = 0 THEN NoAmounts ELSE Give(succ, ps, given[k - 1], Cells[k])]
  BY <1>5
<1>11. NewAmounts(succ, ps) = given[n]
  BY DEF NewAmounts, Given, n
<1> HIDE DEF given
<1>7. \A k \in 0 .. n : given[k] = IF k = 0 THEN NoAmounts ELSE Give(succ, ps, given[k - 1], Cells[k])
  BY <1>6
<1>8. \A k \in 0 .. n : given[k] \in X[k]
  <2>1. given[0] \in X[0]
    BY <1>1, <1>2, <1>7
  <2>2. \A k \in 1 .. n : given[k - 1] \in X[k - 1] => given[k] \in X[k]
    <3> TAKE k \in 1 .. n
    <3>1. given[k] = Give(succ, ps, given[k - 1], Cells[k])
      BY <1>1, <1>7
    <3> QED
      BY <1>3, <3>1
  <2> QED
    BY <1>1, <2>1, <2>2, RunStays
<1>10. n \in 0 .. n
  BY <1>1
<1> QED
  BY <1>8, <1>11, <1>10 DEF X, n

\* What the refunds have given is what the items have given.
LEMMA AllocatedBothWays ==
  ASSUME NEW new \in Amounts
  PROVE Sum([r \in Refunds |-> Sum(new[r], Items)], Refunds)
          = Sum([i \in Items |-> Sum(Column(new, i), Refunds)], Items)
<1>1. \A r \in Refunds, i \in Items : new[r][i] \in Int
  BY DEF Amounts
<1>2. Sum([r \in Refunds |-> Sum(new[r], Items)], Refunds)
        = Sum([i \in Items |-> Sum([r \in Refunds |-> new[r][i]], Refunds)], Items)
  BY <1>1, SumOfSums, Finite
<1> QED
  BY <1>2 DEF Column

\* Refunds are given in full, and items filled, when the rests of the ones are what the
\* others have left.
LEMMA GivenInFull ==
  ASSUME NEW ps \in [Refunds -> [Items -> Part]], NEW succ, succ \subseteq Refunds, ItemCount # 1,
         NEW new \in GivenSet(succ, ps, RefundCount * ItemCount),
         SumFunction([r \in succ |-> RefundRest(ps, r)]) = SumFunction([i \in Items |-> ItemRest(ps, i)])
  PROVE /\ \A r \in succ : RefundOpen(ps, new, r) = 0
        /\ \A i \in Items : ItemOpen(ps, new, i) = 0
<1> DEFINE n == RefundCount * ItemCount
           given == [r \in Refunds |-> Sum(new[r], Items)]
           taken == [i \in Items |-> Sum(Column(new, i), Refunds)]
           rest == [r \in succ |-> RefundRest(ps, r)]
           room == [i \in Items |-> ItemRest(ps, i)]
           refundOpen == [r \in succ |-> RefundOpen(ps, new, r)]
           itemOpen == [i \in Items |-> ItemOpen(ps, new, i)]
<1>1. /\ new \in Amounts
      /\ \A r \in Refunds \ succ, i \in Items : new[r][i] = 0
      /\ \A r \in succ : RefundOpen(ps, new, r) >= 0
      /\ \A i \in Items : ItemOpen(ps, new, i) >= 0
  BY DEF GivenSet
<1>2. \A r \in succ, i \in Items : RefundOpen(ps, new, r) = 0 \/ ItemOpen(ps, new, i) = 0
  <2> TAKE r \in succ, i \in Items
  <2>1. PICK k \in 1 .. n : Cells[k] = <<r, i>>
    BY CellsAre
  <2>2. k <= n /\ Cells[k][1] = r /\ Cells[k][2] = i
    BY <2>1, AmountsAssumption
  <2> QED
    BY <2>1, <2>2 DEF GivenSet
<1>3. IsFiniteSet(succ) /\ IsFiniteSet(Items) /\ IsFiniteSet(Refunds)
  BY Finite, FS_Subset
<1>4. /\ \A r \in succ : /\ refundOpen[r] \in Nat /\ given[r] \in Nat
                         /\ rest[r] = refundOpen[r] + given[r]
      /\ \A r \in Refunds : given[r] \in Nat
  <2>1. \A r \in Refunds : /\ RefundOpen(ps, new, r) = RefundRest(ps, r) - Sum(new[r], Items)
                              /\ Sum(new[r], Items) \in Nat
                              /\ RefundRest(ps, r) \in Int
    BY <1>1, OpenIs
  <2> QED
    BY <1>1, <2>1
<1>5. \A i \in Items : /\ itemOpen[i] \in Nat /\ taken[i] \in Nat
                       /\ room[i] = itemOpen[i] + taken[i]
  <2>1. \A i \in Items : /\ ItemOpen(ps, new, i) = ItemRest(ps, i) - Sum(Column(new, i), Refunds)
                            /\ Sum(Column(new, i), Refunds) \in Nat
                            /\ ItemRest(ps, i) \in Int
    BY <1>1, OpenIs
  <2> QED
    BY <1>1, <2>1
<1>6. \A r \in Refunds \ succ : given[r] = 0
  <2> TAKE r \in Refunds \ succ
  <2> DEFINE f == new[r]
  <2>1. \A i \in Items : f[i] = 0
    BY <1>1
  <2> HIDE DEF f
  <2>2. Sum(f, Items) = 0
    BY <2>1, SumZero, Finite
  <2> QED
    BY <2>2 DEF f
<1>7. Sum(given, Refunds) = Sum(taken, Items)
  BY <1>1, AllocatedBothWays
<1>8. Sum(rest, succ) = Sum(room, Items)
  <2>1. SumFunction(rest) = Sum(rest, succ)
    BY SumFunctionIs
  <2>2. SumFunction(room) = Sum(room, Items)
    BY SumFunctionIs
  <2> QED
    BY <2>1, <2>2
<1>9. /\ \A r \in succ : refundOpen[r] = RefundOpen(ps, new, r)
      /\ \A i \in Items : itemOpen[i] = ItemOpen(ps, new, i)
  OBVIOUS
<1> HIDE DEF given, taken, rest, room, refundOpen, itemOpen
<1>10. Sum(rest, succ) = Sum(refundOpen, succ) + Sum(given, succ)
  BY <1>3, <1>4, SumAdd
<1>11. Sum(room, Items) = Sum(itemOpen, Items) + Sum(taken, Items)
  BY <1>3, <1>5, SumAdd
<1>12. Sum(given, Refunds) = Sum(given, succ)
  BY <1>3, <1>4, <1>6, SumOfPart
<1>13. Sum(given, succ) \in Nat
  BY <1>3, <1>4, SumNat
<1>14. Sum(refundOpen, succ) \in Nat
  BY <1>3, <1>4, SumNat
<1>15. Sum(itemOpen, Items) \in Nat
  BY <1>3, <1>5, SumNat
<1>16. Sum(refundOpen, succ) = Sum(itemOpen, Items)
  <2>1. Sum(taken, Items) = Sum(given, succ)
    BY <1>7, <1>12
  <2>2. Sum(refundOpen, succ) + Sum(given, succ) = Sum(itemOpen, Items) + Sum(given, succ)
    BY <1>8, <1>10, <1>11, <2>1
  <2> QED
    BY <1>13, <1>14, <1>15, <2>2
<1>17. Sum(refundOpen, succ) = 0 <=> \A r \in succ : refundOpen[r] = 0
  BY <1>3, <1>4, SumZero
<1>18. Sum(itemOpen, Items) = 0 <=> \A i \in Items : itemOpen[i] = 0
  BY <1>3, <1>5, SumZero
<1>19. ASSUME NEW r \in succ PROVE RefundOpen(ps, new, r) = 0
  <2>1. CASE \A i \in Items : itemOpen[i] = 0
    BY <1>9, <1>16, <1>17, <1>18, <2>1
  <2>2. CASE ~\A i \in Items : itemOpen[i] = 0
    BY <1>2, <1>9, <2>2
  <2> QED
    BY <2>1, <2>2
<1>20. \A i \in Items : ItemOpen(ps, new, i) = 0
  <2>1. \A r \in succ : refundOpen[r] = 0
    BY <1>9, <1>19
  <2>2. Sum(itemOpen, Items) = 0
    BY <1>16, <1>17, <2>1
  <2> QED
    BY <1>9, <1>18, <2>2
<1> QED
  BY <1>19, <1>20

\* With a single item the refunds that give their rest stay within what it has left.
LEMMA GivenToOne ==
  ASSUME NEW ps \in [Refunds -> [Items -> Part]], NEW succ, succ \subseteq Refunds, ItemCount = 1,
         ~Inconsistent(succ, ps),
         NEW new \in GivenSet(succ, ps, RefundCount * ItemCount)
  PROVE /\ \A r \in succ : RefundOpen(ps, new, r) = 0
        /\ \A i \in Items : Sum(Column(new, i), Refunds) <= ItemRest(ps, i)
<1> DEFINE n == RefundCount * ItemCount
           column == Column(new, 1)
           amounts == [r \in succ |-> Amount[r]]
           had == [r \in Refunds |-> Minor(ps[r][1])]
<1>0. Items = {1} /\ IsFiniteSet(succ) /\ IsFiniteSet(Refunds)
  BY Finite, FS_Subset DEF Items
<1>1. /\ new \in Amounts /\ \A r \in Refunds \ succ, i \in Items : new[r][i] = 0
  BY DEF GivenSet
<1>2. \A r \in succ : RefundOpen(ps, new, r) = 0
  <2> TAKE r \in succ
  <2>1. PICK k \in 1 .. n : Cells[k] = <<r, 1>>
    BY <1>0, CellsAre
  <2>2. k <= n /\ Cells[k][1] = r
    BY <2>1, AmountsAssumption
  <2> QED
    BY <2>1, <2>2 DEF GivenSet
<1>3. ASSUME NEW f \in [Items -> Int] PROVE Sum(f, Items) = f[1]
  <2>1. Sum(f, Items) = f[1] + Sum(f, Items \ {1})
    BY <1>0, SumRemove, Finite
  <2>2. Items \ {1} = {}
    BY <1>0
  <2>3. Sum(f, {}) = 0
    BY FS_EmptySet, SumStep
  <2>4. Sum(f, Items) = f[1] + 0 /\ f[1] \in Int
    <3>1. 1 \in Items
      BY <1>0
    <3> QED
      BY <2>1, <2>2, <2>3, <3>1
  <2> QED
    BY <2>4
<1>4. \A r \in Refunds : RefundAllocated(ps, r) = had[r] /\ had[r] \in Nat
  <2> TAKE r \in Refunds
  <2> DEFINE f == [i \in Items |-> Minor(ps[r][i])]
  <2>1. RefundAllocated(ps, r) = Sum(f, Items)
    BY RefundAllocatedIs
  <2>2. f \in [Items -> Int] /\ f[1] = had[r] /\ had[r] \in Nat
    BY <1>0 DEF Minor, Part
  <2> HIDE DEF f
  <2> QED
    BY <1>3, <2>1, <2>2
<1>5. \A r \in Refunds : Sum(new[r], Items) = column[r] /\ column[r] \in Nat
  <2> TAKE r \in Refunds
  <2> DEFINE f == new[r]
  <2>1. f \in [Items -> Int] /\ f[1] = column[r] /\ column[r] \in Nat
    BY <1>0, <1>1 DEF Amounts, Column
  <2> HIDE DEF f
  <2>2. Sum(f, Items) = column[r]
    BY <1>3, <2>1
  <2> QED
    BY <2>1, <2>2 DEF f
<1>6. /\ \A r \in succ : amounts[r] = Amount[r] /\ amounts[r] \in Nat
      /\ \A r \in Refunds \ succ : had[r] = 0 /\ column[r] = 0
  <2>1. \A r \in Refunds \ succ : ~(RefundAllocated(ps, r) > 0)
    BY DEF Inconsistent
  <2>2. \A r \in Refunds : Amount[r] \in Nat
    BY AmountsAssumption
  <2>3. \A r \in Refunds \ succ : column[r] = 0
    BY <1>0, <1>1 DEF Column
  <2>4. \A r \in Refunds \ succ : had[r] = 0
    <3> HIDE DEF had
    <3> QED
      BY <1>4, <2>1
  <2> QED
    BY <2>2, <2>3, <2>4
<1>7. \A r \in succ : amounts[r] = had[r] + column[r]
  <2> TAKE r \in succ
  <2>1. r \in Refunds
    OBVIOUS
  <2>2. RefundRest(ps, r) - column[r] = 0
    BY <1>1, <1>2, <1>5, <2>1, OpenIs
  <2>3. RefundRest(ps, r) = amounts[r] - had[r]
    BY <1>4, <2>1 DEF RefundRest
  <2> HIDE DEF amounts, had, column
  <2> QED
    BY <1>4, <1>5, <1>6, <2>1, <2>2, <2>3
<1>8. OrderTotal = Total(1) /\ Total(1) \in Int
  <2> DEFINE f == [i \in Items |-> Total(i)]
  <2>1. OrderTotal = Sum(f, Items)
    BY SumFunctionIs DEF OrderTotal
  <2>2. f \in [Items -> Int] /\ f[1] = Total(1) /\ Total(1) \in Int
    BY <1>0, AmountsAssumption DEF Total
  <2> HIDE DEF f
  <2> QED
    BY <1>3, <2>1, <2>2
<1>9. RefundedBy(succ) = Sum(amounts, succ) /\ RefundedBy(succ) <= OrderTotal
  <2>1. RefundedBy(succ) = Sum(amounts, succ)
    BY SumFunctionIs DEF RefundedBy
  <2>2. RefundedBy(succ) \in Int /\ OrderTotal \in Int
    <3>1. \A r \in succ : amounts[r] \in Int
      BY <1>6
    <3> HIDE DEF amounts
    <3>2. Sum(amounts, succ) \in Int
      BY <1>0, <3>1, SumType
    <3> QED
      BY <1>8, <2>1, <3>2
  <2>3. ~(RefundedBy(succ) > OrderTotal)
    BY DEF Inconsistent
  <2> QED
    BY <2>1, <2>2, <2>3
<1>10. ItemAllocated(ps, 1) = Sum(had, Refunds) /\ ItemAllocated(ps, 1) \in Nat
  BY <1>0, LeftIs
<1>11. ItemRest(ps, 1) = Total(1) - ItemAllocated(ps, 1)
  BY DEF ItemRest
<1> HIDE DEF amounts, had, column
<1>12. Sum(had, Refunds) = Sum(had, succ)
  BY <1>0, <1>4, <1>6, SumOfPart
<1>13. Sum(column, Refunds) = Sum(column, succ)
  BY <1>0, <1>5, <1>6, SumOfPart
<1>14. Sum(amounts, succ) = Sum(had, succ) + Sum(column, succ)
  BY <1>0, <1>4, <1>5, <1>7, SumAdd
<1>15. Sum(column, succ) \in Nat
  BY <1>0, <1>5, SumNat
<1>16. Sum(column, Refunds) <= ItemRest(ps, 1)
  <2>1. Sum(had, succ) + Sum(column, succ) <= Total(1) /\ Sum(had, succ) \in Nat
    BY <1>8, <1>9, <1>10, <1>12, <1>14
  <2>2. ItemRest(ps, 1) = Total(1) - Sum(had, succ)
    BY <1>10, <1>11, <1>12
  <2> QED
    BY <1>8, <1>13, <1>15, <2>1, <2>2
<1> QED
  BY <1>0, <1>2, <1>16 DEF column

\* What the automatic attribution gives: every succeeded refund in full, to pairs that
\* have no part yet, within what the items have left.
LEMMA NewAmountsAre ==
  ASSUME NEW ps, PartsHold(ps), NEW succ, succ \subseteq Refunds,
         \A r \in succ : RefundAllocated(ps, r) \in {0, Amount[r]},
         AllocationState(succ, ps) = "allocated"
  PROVE LET new == NewAmounts(succ, ps) IN
        /\ ~OutOfOrder(ps, new) => Assignable(ps, new)
        /\ \A r \in succ : RefundAllocated(ps, r) + Sum(new[r], Items) = Amount[r]
        /\ \A r \in Refunds \ succ : Sum(new[r], Items) = 0
<1> DEFINE n == RefundCount * ItemCount
           new == NewAmounts(succ, ps)
           open == SumFunction([r \in succ |-> RefundRest(ps, r)])
           room == SumFunction([i \in Items |-> ItemRest(ps, i)])
<1>0. ps \in [Refunds -> [Items -> Part]]
  BY DEF PartsHold
<1>1. ~Inconsistent(succ, ps) /\ (ItemCount = 1 \/ open = room)
  BY DEF AllocationState
<1>2. \A r \in succ : RefundRest(ps, r) >= 0
  <2> TAKE r \in succ
  <2>1. ~(RefundRest(ps, r) < 0)
    BY <1>1 DEF Inconsistent
  <2>2. r \in Refunds /\ RefundAllocated(ps, r) \in Nat
    BY <1>0, RefundAllocatedIs
  <2>3. Amount[r] \in Nat
    BY <2>2, AmountsAssumption
  <2> QED
    BY <2>1, <2>2, <2>3 DEF RefundRest
<1>3. \A i \in Items : ItemRest(ps, i) >= 0
  <2> TAKE i \in Items
  <2>1. Left(ps, i) \in Part /\ Minor(Left(ps, i)) = ItemRest(ps, i)
    BY <1>0, LeftIs DEF PartsHold
  <2> QED
    BY <2>1 DEF Part, Minor
<1>4. new \in GivenSet(succ, ps, n)
  BY <1>0, <1>2, <1>3, NewAmountsGiven
<1> HIDE DEF new
<1>5. new \in Amounts /\ \A r \in Refunds \ succ, i \in Items : new[r][i] = 0
  BY <1>4 DEF GivenSet
<1>6. /\ \A r \in succ : RefundOpen(ps, new, r) = 0
      /\ \A i \in Items : Sum(Column(new, i), Refunds) <= ItemRest(ps, i)
  <2>1. CASE ItemCount = 1
    BY <1>0, <1>1, <1>4, <2>1, GivenToOne
  <2>2. CASE ItemCount # 1
    <3>1. \A r \in succ : RefundOpen(ps, new, r) = 0
      BY <1>0, <1>1, <1>4, <2>2, GivenInFull
    <3>2. \A i \in Items : Sum(Column(new, i), Refunds) <= ItemRest(ps, i)
      <4> TAKE i \in Items
      <4>1. ItemOpen(ps, new, i) >= 0
        BY <1>4, <2>2 DEF GivenSet
      <4>2. /\ ItemOpen(ps, new, i) = ItemRest(ps, i) - Sum(Column(new, i), Refunds)
            /\ Sum(Column(new, i), Refunds) \in Nat /\ ItemRest(ps, i) \in Int
        BY <1>0, <1>5, OpenIs
      <4> QED
        BY <4>1, <4>2
    <3> QED
      BY <3>1, <3>2
  <2> QED
    BY <2>1, <2>2
<1>7. \A r \in succ : RefundAllocated(ps, r) + Sum(new[r], Items) = Amount[r]
  <2> TAKE r \in succ
  <2>1. r \in Refunds /\ RefundAllocated(ps, r) \in Nat
    BY <1>0, RefundAllocatedIs
  <2>2. Amount[r] \in Nat
    BY <2>1, AmountsAssumption
  <2>3. RefundRest(ps, r) - Sum(new[r], Items) = 0 /\ Sum(new[r], Items) \in Nat
    BY <1>0, <1>5, <1>6, <2>1, OpenIs
  <2> QED
    BY <2>1, <2>2, <2>3 DEF RefundRest
<1>8. \A r \in Refunds \ succ : Sum(new[r], Items) = 0
  <2> TAKE r \in Refunds \ succ
  <2> DEFINE f == new[r]
  <2>1. \A i \in Items : f[i] = 0
    BY <1>5
  <2> HIDE DEF f
  <2>2. Sum(f, Items) = 0
    BY <2>1, SumZero, Finite
  <2> QED
    BY <2>2 DEF f
<1>9. ASSUME NEW r \in Refunds, NEW i \in Items, new[r][i] > 0 PROVE ps[r][i] = NoPart
  <2> DEFINE f == new[r]
  <2>1. r \in succ /\ \A j \in Items : f[j] \in Nat
    BY <1>5, <1>9 DEF Amounts
  <2>2. f[i] > 0 /\ f[i] \in Nat
    BY <1>9, <2>1
  <2> HIDE DEF f
  <2>3. f[i] <= Sum(f, Items) /\ Sum(f, Items) \in Nat
    BY <2>1, SumHasElement, SumNat, Finite
  <2>4. Sum(f, Items) > 0
    BY <2>2, <2>3
  <2>5. RefundAllocated(ps, r) + Sum(f, Items) = Amount[r] /\ Amount[r] \in Nat
    BY <1>7, <2>1, AmountsAssumption DEF f
  <2>6. RefundAllocated(ps, r) = 0
    BY <2>1, <2>3, <2>4, <2>5
  <2> QED
    BY <1>0, <2>6, RefundAllocatedIs
<1>10. ~OutOfOrder(ps, new) => Assignable(ps, new)
  BY <1>5, <1>6, <1>9 DEF Assignable
<1> QED
  BY <1>7, <1>8, <1>10 DEF new

-----------------------------------------------------------------------------
(* What is given, as the overlap of intervals, and how exact it is *)

\* Where a refund and an item are in the order in which new amounts are given.
LEMMA CellIs ==
  ASSUME NEW k \in 1 .. RefundCount * ItemCount
  PROVE /\ Cells[k][1] \in Refunds /\ Cells[k][2] \in Items
        /\ Cells[k] = <<Cells[k][1], Cells[k][2]>>
        /\ k = ItemCount * (Cells[k][1] - 1) + Cells[k][2]
<1> DEFINE n == ItemCount
           q == (k - 1) \div n
           m == (k - 1) % n
<1>1. n \in Nat \ {0} /\ k - 1 \in Nat
  BY AmountsAssumption
<1>2. q \in Nat /\ m \in 0 .. (n - 1) /\ k - 1 = n * q + m
  <2> HIDE DEF n
  <2> QED
    BY <1>1, DivisionIs
<1>3. Cells[k] = <<q + 1, m + 1>>
  BY DEF Cells
<1>4. Cells[k] \in Refunds \X Items
  BY CellsAre
<1>5. n * (Cells[k][1] - 1) = n * q /\ Cells[k][2] = m + 1
  <2> HIDE DEF n, q, m
  <2>1. Cells[k][1] - 1 = q
    BY <1>2, <1>3
  <2> QED
    BY <1>3, <2>1
<1>6. n * q \in Int
  <2> HIDE DEF n, q
  <2> QED
    BY <1>1, <1>2
<1>7. k = n * (Cells[k][1] - 1) + Cells[k][2]
  <2> HIDE DEF n, q, m
  <2> QED
    BY <1>2, <1>5, <1>6
<1> QED
  BY <1>4, <1>7

\* That order is by refund first, then by item.
LEMMA CellsInOrder ==
  ASSUME NEW j \in 1 .. RefundCount * ItemCount, NEW k \in 1 .. RefundCount * ItemCount
  PROVE j < k <=> \/ Cells[j][1] < Cells[k][1]
                  \/ Cells[j][1] = Cells[k][1] /\ Cells[j][2] < Cells[k][2]
<1> DEFINE q == Cells[j][1]
           m == Cells[j][2]
           r == Cells[k][1]
           i == Cells[k][2]
           n == ItemCount
<1>1. /\ n \in Nat /\ q \in Int /\ r \in Int /\ m \in 1 .. n /\ i \in 1 .. n
      /\ j = n * (q - 1) + m /\ k = n * (r - 1) + i
  BY CellIs, AmountsAssumption DEF Refunds, Items
<1> HIDE DEF q, m, r, i, n
<1>2. ASSUME NEW x \in Int, NEW y \in Int, x < y PROVE n * (x - 1) + n <= n * (y - 1)
  <2>1. y - 1 - x \in Nat
    BY <1>2
  <2>2. n * (y - 1 - x) \in Nat
    BY <1>1, <2>1
  <2>3. n * (y - 1 - x) = n * (y - 1) - (n * (x - 1) + n)
    BY <1>1
  <2> QED
    BY <1>1, <2>2, <2>3
<1>3. n * (q - 1) \in Int /\ n * (r - 1) \in Int
  BY <1>1
<1>4. CASE q < r
  <2>1. n * (q - 1) + n <= n * (r - 1)
    BY <1>1, <1>2, <1>4
  <2> QED
    BY <1>1, <1>3, <1>4, <2>1 DEF q, m, r, i
<1>5. CASE q = r
  <2>1. n * (q - 1) = n * (r - 1)
    BY <1>5
  <2> QED
    BY <1>1, <1>3, <1>5, <2>1 DEF q, m, r, i
<1>6. CASE r < q
  <2>1. n * (r - 1) + n <= n * (q - 1)
    BY <1>1, <1>2, <1>6
  <2> QED
    BY <1>1, <1>3, <1>6, <2>1 DEF q, m, r, i
<1> QED
  BY <1>1, <1>4, <1>5, <1>6

\* The larger and the smaller of two numbers.
LEMMA MinMaxOfTwo ==
  ASSUME NEW x \in Int, NEW y \in Int
  PROVE /\ Min({x, y}) = IF x <= y THEN x ELSE y
        /\ Max({x, y}) = IF x >= y THEN x ELSE y
<1>1. \E z \in {x, y} : \A w \in {x, y} : z >= w
  OBVIOUS
<1>2. Max({x, y}) = CHOOSE z \in {x, y} : \A w \in {x, y} : z >= w
  BY DEF Max
<1>3. Max({x, y}) \in {x, y} /\ Max({x, y}) >= x /\ Max({x, y}) >= y
  BY <1>1, <1>2
<1> QED
  BY <1>3, MinOfTwo

\* The overlap of two intervals, in numbers.
Common(a, x, c, y) ==
  LET start == IF a >= c THEN a ELSE c
      stop == IF a + x <= c + y THEN a + x ELSE c + y
  IN IF stop >= start THEN stop - start ELSE 0
LEMMA OverlapIs ==
  ASSUME NEW a \in Int, NEW x \in Int, NEW c \in Int, NEW y \in Int
  PROVE Overlap(a, x, c, y) = Common(a, x, c, y)
<1> DEFINE start == Max({a, c})
           stop == Min({a + x, c + y})
<1>1. /\ start = (IF a >= c THEN a ELSE c)
      /\ stop = (IF a + x <= c + y THEN a + x ELSE c + y)
  BY MinMaxOfTwo
<1>2. Overlap(a, x, c, y) = Max({0, stop - start})
  BY DEF Overlap
<1> HIDE DEF start, stop
<1>3. start \in Int /\ stop \in Int
  BY <1>1
<1>4. Max({0, stop - start}) = IF 0 >= stop - start THEN 0 ELSE stop - start
  BY <1>3, MinMaxOfTwo
<1> QED
  BY <1>1, <1>2, <1>3, <1>4 DEF Common

\* An overlap is a number, whichever interval comes first, and none with nothing.
LEMMA OverlapType ==
  ASSUME NEW a \in Nat, NEW x \in Nat, NEW c \in Nat, NEW y \in Nat
  PROVE /\ Overlap(a, x, c, y) \in Nat
        /\ Overlap(a, x, c, y) = Overlap(c, y, a, x)
<1>1. Overlap(a, x, c, y) = Common(a, x, c, y) /\ Overlap(c, y, a, x) = Common(c, y, a, x)
  BY OverlapIs
<1>2. Common(a, x, c, y) \in Nat /\ Common(a, x, c, y) = Common(c, y, a, x)
  BY DEF Common
<1> QED
  BY <1>1, <1>2

\* Nothing overlaps with an empty interval.
LEMMA NoOverlap ==
  ASSUME NEW a \in Nat, NEW x \in Nat, NEW c \in Nat
  PROVE Overlap(a, x, c, 0) = 0 /\ Overlap(c, 0, a, x) = 0
<1>1. /\ Overlap(a, x, c, 0) = Common(a, x, c, 0)
      /\ Overlap(c, 0, a, x) = Common(c, 0, a, x)
  <2>1. a \in Int /\ x \in Int /\ c \in Int /\ 0 \in Int
    OBVIOUS
  <2> QED
    BY <2>1, OverlapIs
<1> QED
  BY <1>1 DEF Common

\* The overlaps with two intervals laid end to end add up.
LEMMA OverlapsAdd ==
  ASSUME NEW a \in Nat, NEW x \in Nat, NEW c \in Nat, NEW y \in Nat
  PROVE Overlap(a, x, 0, c) + Overlap(a, x, c, y) = Overlap(a, x, 0, c + y)
<1>1. /\ Overlap(a, x, c, y) = Common(a, x, c, y)
      /\ Overlap(a, x, 0, c) = Common(a, x, 0, c)
      /\ Overlap(a, x, 0, c + y) = Common(a, x, 0, c + y)
  <2>1. a \in Int /\ x \in Int /\ c \in Int /\ y \in Int /\ c + y \in Int /\ 0 \in Int
    OBVIOUS
  <2> QED
    BY <2>1, OverlapIs
<1>2. Common(a, x, 0, c) + Common(a, x, c, y) = Common(a, x, 0, c + y)
  BY DEF Common
<1> QED
  BY <1>1, <1>2

\* What both sides still have, when each has given its overlaps with all before the
\* other, is their own overlap.
LEMMA OpenIsOverlap ==
  ASSUME NEW a \in Nat, NEW x \in Nat, NEW c \in Nat, NEW y \in Nat
  PROVE LET refundOpen == x - Overlap(a, x, 0, c)
            itemOpen == y - Overlap(c, y, 0, a)
        IN /\ Min({refundOpen, itemOpen}) = Overlap(a, x, c, y)
           /\ c = 0 /\ a + x <= y => refundOpen = Overlap(a, x, c, y)
<1> DEFINE refundOpen == x - Overlap(a, x, 0, c)
           itemOpen == y - Overlap(c, y, 0, a)
<1>0. /\ Overlap(a, x, 0, c) = Common(a, x, 0, c)
      /\ Overlap(c, y, 0, a) = Common(c, y, 0, a)
      /\ Overlap(a, x, c, y) = Common(a, x, c, y)
  <2>1. a \in Int /\ x \in Int /\ c \in Int /\ y \in Int /\ 0 \in Int
    OBVIOUS
  <2> QED
    BY <2>1, OverlapIs
<1>1. refundOpen = x - (IF a >= c THEN 0 ELSE IF a + x <= c THEN x ELSE c - a)
  BY <1>0 DEF Common
<1>2. itemOpen = y - (IF c >= a THEN 0 ELSE IF c + y <= a THEN y ELSE a - c)
  BY <1>0 DEF Common
<1> HIDE DEF refundOpen, itemOpen
<1>3. refundOpen \in Int /\ itemOpen \in Int
  BY <1>1, <1>2
<1>4. Min({refundOpen, itemOpen}) = IF refundOpen <= itemOpen THEN refundOpen ELSE itemOpen
  BY <1>3, MinMaxOfTwo
<1>5. Min({refundOpen, itemOpen}) = Overlap(a, x, c, y)
  BY <1>0, <1>1, <1>2, <1>4 DEF Common
<1>6. c = 0 /\ a + x <= y => refundOpen = Overlap(a, x, c, y)
  BY <1>0, <1>1 DEF Common
<1> QED
  BY <1>5, <1>6 DEF refundOpen, itemOpen

\* A sum of the first numbers of a row.
LEMMA SumUpTo ==
  ASSUME NEW n \in Nat, NEW f, \A j \in 1 .. n : f[j] \in Nat
  PROVE /\ Sum(f, 1 .. 0) = 0
        /\ \A k \in 0 .. n : Sum(f, 1 .. k) \in Nat
        /\ \A k \in 1 .. n : Sum(f, 1 .. k) = f[k] + Sum(f, 1 .. (k - 1))
<1>1. Sum(f, 1 .. 0) = 0
  <2>1. 1 .. 0 = {}
    OBVIOUS
  <2> QED
    BY <2>1, FS_EmptySet, SumStep
<1>2. \A k \in 0 .. n : Sum(f, 1 .. k) \in Nat
  <2> TAKE k \in 0 .. n
  <2>1. IsFiniteSet(1 .. k) /\ \A j \in 1 .. k : f[j] \in Nat
    BY Finite
  <2> QED
    BY <2>1, SumNat
<1>3. ASSUME NEW k \in 1 .. n PROVE Sum(f, 1 .. k) = f[k] + Sum(f, 1 .. (k - 1))
  <2> DEFINE s == 1 .. k
  <2>1. s \ {k} = 1 .. (k - 1) /\ k \in s /\ \A j \in s : f[j] \in Int
    OBVIOUS
  <2>2. IsFiniteSet(s)
    BY Finite
  <2> HIDE DEF s
  <2>3. Sum(f, s) = f[k] + Sum(f, s \ {k})
    BY <2>1, <2>2, SumRemove
  <2> QED
    BY <2>1, <2>3 DEF s
<1> QED
  BY <1>1, <1>2, <1>3

\* The overlaps of an interval with those of a row laid end to end.
OverlapsOf(given, n, a, x, room) ==
  \A j \in 1 .. n : given[j] = Overlap(a, x, Sum(room, 1 .. (j - 1)), room[j])

\* Together they are its overlap with the row.
LEMMA OverlapsUpTo ==
  ASSUME NEW n \in Nat, NEW room, \A j \in 1 .. n : room[j] \in Nat,
         NEW a \in Nat, NEW x \in Nat, NEW given, OverlapsOf(given, n, a, x, room)
  PROVE Sum(given, 1 .. n) = Overlap(a, x, 0, Sum(room, 1 .. n))
<1> DEFINE X == [k \in 0 .. n |-> {Overlap(a, x, 0, Sum(room, 1 .. k))}]
           f == [k \in 0 .. n |-> Sum(given, 1 .. k)]
<1>1. /\ Sum(room, 1 .. 0) = 0
      /\ \A k \in 0 .. n : Sum(room, 1 .. k) \in Nat
      /\ \A k \in 1 .. n : Sum(room, 1 .. k) = room[k] + Sum(room, 1 .. (k - 1))
  BY SumUpTo
<1>2. ASSUME NEW j \in 1 .. n
      PROVE /\ given[j] = Overlap(a, x, Sum(room, 1 .. (j - 1)), room[j])
            /\ given[j] \in Nat
  <2> DEFINE c == Sum(room, 1 .. (j - 1))
             y == room[j]
  <2>1. j - 1 \in 0 .. n
    OBVIOUS
  <2>2. c \in Nat /\ y \in Nat
    BY <1>1, <2>1
  <2>3. given[j] = Overlap(a, x, c, y)
    BY DEF OverlapsOf
  <2> HIDE DEF c, y
  <2>4. Overlap(a, x, c, y) \in Nat
    BY <2>2, OverlapType
  <2> QED
    BY <2>3, <2>4 DEF c, y
<1>3. /\ Sum(given, 1 .. 0) = 0
      /\ \A k \in 1 .. n : Sum(given, 1 .. k) = given[k] + Sum(given, 1 .. (k - 1))
  <2>1. \A j \in 1 .. n : given[j] \in Nat
    BY <1>2
  <2> QED
    BY <2>1, SumUpTo
<1>4. f[0] \in X[0]
  <2>1. 0 \in 0 .. n
    OBVIOUS
  <2>2. Overlap(a, x, 0, 0) = 0
    BY NoOverlap
  <2> QED
    BY <1>1, <1>3, <2>1, <2>2
<1>5. ASSUME NEW k \in 1 .. n, f[k - 1] \in X[k - 1] PROVE f[k] \in X[k]
  <2> DEFINE c == Sum(room, 1 .. (k - 1))
             y == room[k]
  <2>1. k \in 0 .. n /\ k - 1 \in 0 .. n
    OBVIOUS
  <2>2. Sum(given, 1 .. (k - 1)) = Overlap(a, x, 0, c)
    BY <1>5, <2>1
  <2>3. c \in Nat /\ y \in Nat
    BY <1>1, <2>1
  <2>4. given[k] = Overlap(a, x, c, y) /\ given[k] \in Nat
    BY <1>2
  <2>5. Sum(given, 1 .. k) = given[k] + Overlap(a, x, 0, c)
    BY <1>3, <2>2
  <2>6. Sum(room, 1 .. k) = c + y
    BY <1>1, <2>3
  <2> HIDE DEF c, y, f, X
  <2>7. Overlap(a, x, 0, c) + Overlap(a, x, c, y) = Overlap(a, x, 0, c + y)
    BY <2>3, OverlapsAdd
  <2>8. Overlap(a, x, 0, c) \in Nat
    BY <2>3, OverlapType
  <2>9. Sum(given, 1 .. k) = Overlap(a, x, 0, c + y)
    BY <2>4, <2>5, <2>7, <2>8
  <2> QED
    BY <2>1, <2>6, <2>9 DEF f, X
<1>6. \A k \in 0 .. n : f[k] \in X[k]
  <2> HIDE DEF f, X
  <2> QED
    BY <1>4, <1>5, RunStays
<1>7. n \in 0 .. n
  OBVIOUS
<1> QED
  BY <1>6, <1>7

\* What the succeeded refunds, and the items, still have, in their order.
OpenRefunds(succ, ps) == [r \in Refunds |-> IF r \in succ THEN RefundRest(ps, r) ELSE 0]
OpenItems(ps) == [i \in Items |-> ItemRest(ps, i)]

\* What all succeeded refunds, and all items, still have: the same is missing in both.
LEMMA RestsAre ==
  ASSUME NEW ps \in [Refunds -> [Items -> Part]], NEW succ, succ \subseteq Refunds,
         \A r \in Refunds \ succ : RefundAllocated(ps, r) = 0
  PROVE /\ RefundedBy(succ) \in Nat /\ OrderTotal \in Nat
        /\ \E had \in Nat :
             /\ SumFunction([r \in succ |-> RefundRest(ps, r)]) = RefundedBy(succ) - had
             /\ SumFunction([i \in Items |-> ItemRest(ps, i)]) = OrderTotal - had
<1> DEFINE minor == [r \in Refunds |-> [i \in Items |-> Minor(ps[r][i])]]
           byRefund == [r \in Refunds |-> Sum(minor[r], Items)]
           byItem == [i \in Items |-> Sum(Column(minor, i), Refunds)]
           amounts == [r \in succ |-> Amount[r]]
           totals == [i \in Items |-> Total(i)]
           rest == [r \in succ |-> RefundRest(ps, r)]
           room == [i \in Items |-> ItemRest(ps, i)]
<1>0. IsFiniteSet(succ) /\ IsFiniteSet(Refunds) /\ IsFiniteSet(Items)
  BY Finite, FS_Subset
<1>1. minor \in Amounts
  BY DEF Amounts, Part, Minor
<1>2. Sum(byRefund, Refunds) = Sum(byItem, Items)
  <2> HIDE DEF minor
  <2> QED
    BY <1>1, AllocatedBothWays
<1>3. \A r \in Refunds : byRefund[r] = RefundAllocated(ps, r) /\ byRefund[r] \in Nat
  <2> TAKE r \in Refunds
  <2>1. minor[r] = [i \in Items |-> Minor(ps[r][i])]
    OBVIOUS
  <2> QED
    BY <2>1, RefundAllocatedIs
<1>4. \A i \in Items : byItem[i] = ItemAllocated(ps, i) /\ byItem[i] \in Nat
  <2> TAKE i \in Items
  <2>1. Column(minor, i) = [r \in Refunds |-> Minor(ps[r][i])]
    BY DEF Column
  <2> QED
    BY <2>1, LeftIs
<1>5. /\ RefundedBy(succ) = Sum(amounts, succ) /\ OrderTotal = Sum(totals, Items)
      /\ SumFunction(rest) = Sum(rest, succ) /\ SumFunction(room) = Sum(room, Items)
  BY SumFunctionIs DEF RefundedBy, OrderTotal
<1>6. \A r \in succ : amounts[r] \in Nat /\ rest[r] = amounts[r] - byRefund[r]
  <2> TAKE r \in succ
  <2>1. r \in Refunds /\ Amount[r] \in Nat
    BY AmountsAssumption
  <2> QED
    BY <1>3, <2>1 DEF RefundRest
<1>7. \A i \in Items : totals[i] \in Nat /\ room[i] = totals[i] - byItem[i]
  <2> TAKE i \in Items
  <2>1. Total(i) \in Nat
    BY AmountsAssumption DEF Total
  <2> QED
    BY <1>4, <2>1 DEF ItemRest
<1> HIDE DEF minor, byRefund, byItem, amounts, totals, rest, room
<1>8. Sum(byRefund, Refunds) = Sum(byRefund, succ) /\ Sum(byRefund, succ) \in Nat
  <2>1. \A r \in Refunds \ succ : byRefund[r] = 0
    BY <1>3
  <2>2. Sum(byRefund, Refunds) = Sum(byRefund, succ)
    BY <1>0, <1>3, <2>1, SumOfPart
  <2>3. Sum(byRefund, succ) \in Nat
    BY <1>0, <1>3, SumNat
  <2> QED
    BY <2>2, <2>3
<1>9. Sum(amounts, succ) \in Nat
  BY <1>0, <1>6, SumNat
<1>10. Sum(totals, Items) \in Nat
  BY <1>0, <1>7, SumNat
<1>11. Sum(amounts, succ) = Sum(rest, succ) + Sum(byRefund, succ)
  <2>1. \A r \in succ : rest[r] \in Int /\ byRefund[r] \in Int /\ amounts[r] = rest[r] + byRefund[r]
    BY <1>3, <1>6
  <2> QED
    BY <1>0, <2>1, SumAdd
<1>12. Sum(totals, Items) = Sum(room, Items) + Sum(byItem, Items)
  <2>1. \A i \in Items : room[i] \in Int /\ byItem[i] \in Int /\ totals[i] = room[i] + byItem[i]
    BY <1>4, <1>7
  <2> QED
    BY <1>0, <2>1, SumAdd
<1>13. Sum(rest, succ) \in Int
  <2>1. \A r \in succ : rest[r] \in Int
    BY <1>3, <1>6
  <2> QED
    BY <1>0, <2>1, SumType
<1>14. Sum(room, Items) \in Int
  <2>1. \A i \in Items : room[i] \in Int
    BY <1>4, <1>7
  <2> QED
    BY <1>0, <2>1, SumType
<1>15. \E had \in Nat : /\ SumFunction(rest) = RefundedBy(succ) - had
                        /\ SumFunction(room) = OrderTotal - had
  <2>1. /\ SumFunction(rest) = RefundedBy(succ) - Sum(byRefund, succ)
        /\ SumFunction(room) = OrderTotal - Sum(byRefund, succ)
    <3>1. SumFunction(rest) = RefundedBy(succ) - Sum(byRefund, succ)
      BY <1>5, <1>8, <1>9, <1>11, <1>13
    <3>2. Sum(byItem, Items) = Sum(byRefund, succ)
      BY <1>2, <1>8
    <3>3. OrderTotal = SumFunction(room) + Sum(byRefund, succ)
      BY <1>5, <1>12, <3>2
    <3>4. SumFunction(room) \in Int
      BY <1>5, <1>14
    <3>5. SumFunction(room) = OrderTotal - Sum(byRefund, succ)
      BY <1>8, <3>3, <3>4
    <3> QED
      BY <3>1, <3>5
  <2> QED
    BY <1>8, <2>1
<1> QED
  BY <1>5, <1>9, <1>10, <1>15 DEF rest, room

\* Nothing is missing or too much where the arithmetic finds nothing inconsistent.
LEMMA ConsistentIs ==
  ASSUME NEW ps \in [Refunds -> [Items -> Part]], NEW succ, succ \subseteq Refunds,
         ~Inconsistent(succ, ps)
  PROVE /\ \A r \in Refunds : OpenRefunds(succ, ps)[r] \in Nat
        /\ \A i \in Items : OpenItems(ps)[i] \in Nat
        /\ \A r \in Refunds \ succ : RefundAllocated(ps, r) = 0
<1>1. \A r \in Refunds : RefundAllocated(ps, r) \in Nat /\ Amount[r] \in Nat
  BY RefundAllocatedIs, AmountsAssumption
<1>2. \A i \in Items : ItemRest(ps, i) \in Int
  <2> TAKE i \in Items
  <2>1. ItemAllocated(ps, i) \in Nat
    BY LeftIs
  <2>2. Total(i) \in Int
    BY AmountsAssumption DEF Total
  <2> QED
    BY <2>1, <2>2 DEF ItemRest
<1>3. /\ \A r \in Refunds \ succ : ~(RefundAllocated(ps, r) > 0)
      /\ \A r \in succ : ~(RefundRest(ps, r) < 0)
      /\ \A i \in Items : ~(ItemRest(ps, i) < 0)
  BY DEF Inconsistent
<1>4. \A r \in succ : RefundRest(ps, r) \in Int
  BY <1>1 DEF RefundRest
<1>5. \A r \in Refunds : OpenRefunds(succ, ps)[r] \in Nat
  BY <1>3, <1>4 DEF OpenRefunds
<1>6. \A i \in Items : OpenItems(ps)[i] \in Nat
  BY <1>2, <1>3 DEF OpenItems
<1> QED
  BY <1>1, <1>3, <1>5, <1>6

\* What lies before a refund or an item, as a sum of the first ones.
LEMMA BeforeIs ==
  ASSUME NEW ps \in [Refunds -> [Items -> Part]], NEW succ, succ \subseteq Refunds,
         ~Inconsistent(succ, ps), NEW r \in Refunds, NEW i \in Items
  PROVE /\ RefundsBefore(succ, ps, r) = Sum(OpenRefunds(succ, ps), 1 .. (r - 1))
        /\ ItemsBefore(ps, i) = Sum(OpenItems(ps), 1 .. (i - 1))
<1> DEFINE earlier == {q \in succ : q < r}
           f == [q \in earlier |-> RefundRest(ps, q)]
           g == OpenRefunds(succ, ps)
           s == 1 .. (r - 1)
<1>1. /\ earlier \subseteq s /\ \A q \in s : q \in Refunds
      /\ \A q \in s \ earlier : q \notin succ
  <2>1. Refunds = 1 .. RefundCount /\ RefundCount \in Nat /\ r \in 1 .. RefundCount
    BY AmountsAssumption DEF Refunds
  <2>2. \A q \in s : q \in Refunds /\ q < r
    BY <2>1
  <2>3. \A q \in earlier : q \in s
    BY <2>1
  <2>4. \A q \in s \ earlier : q \notin succ
    BY <2>2
  <2> QED
    BY <2>2, <2>3, <2>4
<1>2. IsFiniteSet(s) /\ IsFiniteSet(earlier)
  <2>1. IsFiniteSet(s)
    BY Finite DEF Refunds
  <2> HIDE DEF s, earlier
  <2> QED
    BY <1>1, <2>1, FS_Subset
<1>3. /\ \A q \in earlier : f[q] = g[q]
      /\ \A q \in s : g[q] \in Int
      /\ \A q \in s \ earlier : g[q] = 0
  <2>1. \A q \in s : g[q] \in Nat
    <3>1. \A q \in Refunds : g[q] \in Nat
      BY ConsistentIs
    <3> HIDE DEF g, s, earlier
    <3> QED
      BY <1>1, <3>1
  <2>2. \A q \in Refunds : g[q] = IF q \in succ THEN RefundRest(ps, q) ELSE 0
    BY DEF OpenRefunds
  <2>3. \A q \in earlier : q \in Refunds /\ q \in succ /\ f[q] = RefundRest(ps, q)
    OBVIOUS
  <2> HIDE DEF f, g, s, earlier
  <2> QED
    BY <1>1, <2>1, <2>2, <2>3
<1>4. RefundsBefore(succ, ps, r) = Sum(f, earlier)
  BY SumFunctionIs DEF RefundsBefore
<1> HIDE DEF f, g, s, earlier
<1>5. Sum(f, earlier) = Sum(g, earlier)
  BY <1>2, <1>3, SumSame
<1>6. Sum(g, s) = Sum(g, earlier)
  BY <1>1, <1>2, <1>3, SumOfPart
<1>7. RefundsBefore(succ, ps, r) = Sum(OpenRefunds(succ, ps), 1 .. (r - 1))
  BY <1>4, <1>5, <1>6 DEF g, s
<1>8. ItemsBefore(ps, i) = Sum(OpenItems(ps), 1 .. (i - 1))
  <2> DEFINE before == {j \in Items : j < i}
             h == [j \in before |-> ItemRest(ps, j)]
             t == 1 .. (i - 1)
             all == OpenItems(ps)
  <2>1. before = t
    BY AmountsAssumption DEF Items
  <2>2. IsFiniteSet(t)
    BY Finite DEF Items
  <2>3. \A j \in before : h[j] = all[j]
    BY DEF OpenItems
  <2>4. ItemsBefore(ps, i) = Sum(h, before)
    BY SumFunctionIs DEF ItemsBefore
  <2> HIDE DEF h, t, before, all
  <2>5. Sum(h, before) = Sum(all, before)
    BY <2>1, <2>2, <2>3, SumSame
  <2> QED
    BY <2>1, <2>4, <2>5 DEF all, t
<1> QED
  BY <1>7, <1>8

\* What a refund and an item overlap.
Fit(succ, ps, r, i) ==
  Overlap(Sum(OpenRefunds(succ, ps), 1 .. (r - 1)), OpenRefunds(succ, ps)[r],
          Sum(OpenItems(ps), 1 .. (i - 1)), OpenItems(ps)[i])

\* What the first k cells give.
Upto(succ, ps, k) ==
  [r \in Refunds |-> [i \in Items |->
     IF \E m \in 1 .. k : Cells[m] = <<r, i>> THEN Fit(succ, ps, r, i) ELSE 0]]

\* The ends of the intervals are numbers.
LEMMA EndsType ==
  ASSUME NEW ps \in [Refunds -> [Items -> Part]], NEW succ, succ \subseteq Refunds,
         ~Inconsistent(succ, ps), NEW r \in Refunds, NEW i \in Items
  PROVE /\ Sum(OpenRefunds(succ, ps), 1 .. (r - 1)) \in Nat /\ OpenRefunds(succ, ps)[r] \in Nat
        /\ Sum(OpenItems(ps), 1 .. (i - 1)) \in Nat /\ OpenItems(ps)[i] \in Nat
<1> DEFINE f == OpenRefunds(succ, ps)
           g == OpenItems(ps)
<1>1. /\ Refunds = 1 .. RefundCount /\ RefundCount \in Nat
      /\ Items = 1 .. ItemCount /\ ItemCount \in Nat
  BY AmountsAssumption DEF Refunds, Items
<1>2. /\ \A q \in Refunds : f[q] \in Nat
      /\ \A j \in Items : g[j] \in Nat
  BY ConsistentIs
<1> HIDE DEF f, g
<1>3. Sum(f, 1 .. (r - 1)) \in Nat
  <2>1. r - 1 \in 0 .. RefundCount
    BY <1>1
  <2>2. \A k \in 0 .. RefundCount : Sum(f, 1 .. k) \in Nat
    BY <1>1, <1>2, SumUpTo
  <2> QED
    BY <2>1, <2>2
<1>4. Sum(g, 1 .. (i - 1)) \in Nat
  <2>1. i - 1 \in 0 .. ItemCount
    BY <1>1
  <2>2. \A k \in 0 .. ItemCount : Sum(g, 1 .. k) \in Nat
    BY <1>1, <1>2, SumUpTo
  <2> QED
    BY <2>1, <2>2
<1> QED
  BY <1>2, <1>3, <1>4 DEF f, g

\* An overlap is a number; a refund that did not succeed has none.
LEMMA FitType ==
  ASSUME NEW ps \in [Refunds -> [Items -> Part]], NEW succ, succ \subseteq Refunds,
         ~Inconsistent(succ, ps), NEW r \in Refunds, NEW i \in Items
  PROVE /\ Fit(succ, ps, r, i) \in Nat
        /\ r \notin succ => Fit(succ, ps, r, i) = 0
<1> DEFINE a == Sum(OpenRefunds(succ, ps), 1 .. (r - 1))
           x == OpenRefunds(succ, ps)[r]
           c == Sum(OpenItems(ps), 1 .. (i - 1))
           y == OpenItems(ps)[i]
<1>1. a \in Nat /\ x \in Nat /\ c \in Nat /\ y \in Nat
  BY EndsType
<1>2. r \notin succ => x = 0
  BY DEF OpenRefunds
<1>3. Fit(succ, ps, r, i) = Overlap(a, x, c, y)
  BY DEF Fit
<1> HIDE DEF a, x, c, y
<1>4. Overlap(a, x, c, y) \in Nat
  BY <1>1, OverlapType
<1>5. Overlap(a, 0, c, y) = 0
  BY <1>1, NoOverlap
<1> QED
  BY <1>2, <1>3, <1>4, <1>5

\* Giving one cell more to those before it.
LEMMA UptoIs ==
  ASSUME NEW ps \in [Refunds -> [Items -> Part]], NEW succ, succ \subseteq Refunds,
         ~Inconsistent(succ, ps), NEW k \in 1 .. RefundCount * ItemCount,
         NEW r, NEW i, r = Cells[k][1], i = Cells[k][2]
  PROVE /\ r \in Refunds /\ i \in Items
        /\ Upto(succ, ps, k - 1) \in Amounts
        /\ \A j \in Items : Upto(succ, ps, k - 1)[r][j] = IF j < i THEN Fit(succ, ps, r, j) ELSE 0
        /\ \A q \in Refunds : Upto(succ, ps, k - 1)[q][i] = IF q < r THEN Fit(succ, ps, q, i) ELSE 0
        /\ GivesMore(Upto(succ, ps, k - 1), Upto(succ, ps, k), r, i, Fit(succ, ps, r, i))
<1> DEFINE n == RefundCount * ItemCount
           new == Upto(succ, ps, k - 1)
           more == Upto(succ, ps, k)
           Before(q, j) == \E m \in 1 .. (k - 1) : Cells[m] = <<q, j>>
           Done(q, j) == \E m \in 1 .. k : Cells[m] = <<q, j>>
           F(q, j) == Fit(succ, ps, q, j)
<1>0. n \in Nat /\ k \in Int /\ k \in 1 .. n
  BY AmountsAssumption
<1>1. r \in Refunds /\ i \in Items /\ Cells[k] = <<r, i>>
  BY CellIs
<1>2. /\ Refunds \subseteq Int /\ Items \subseteq Int
      /\ \A j, m \in 1 .. n : Cells[j] = Cells[m] => j = m
      /\ \A q \in Refunds, j \in Items : \E m \in 1 .. n : Cells[m] = <<q, j>>
  <2>1. Refunds \subseteq Int /\ Items \subseteq Int
    BY DEF Refunds, Items
  <2>2. /\ \A j, m \in 1 .. n : Cells[j] = Cells[m] => j = m
        /\ \A q \in Refunds, j \in Items : \E m \in 1 .. n : Cells[m] = <<q, j>>
    BY CellsAre
  <2> QED
    BY <2>1, <2>2
<1>3. ASSUME NEW m \in 1 .. n
      PROVE m < k <=> Cells[m][1] < r \/ (Cells[m][1] = r /\ Cells[m][2] < i)
  BY <1>0, CellsInOrder
<1> HIDE DEF n
<1>4. ASSUME NEW q \in Refunds, NEW j \in Items
      PROVE /\ Before(q, j) <=> q < r \/ (q = r /\ j < i)
            /\ Done(q, j) <=> Before(q, j) \/ (q = r /\ j = i)
  <2>1. PICK m \in 1 .. n : Cells[m] = <<q, j>>
    BY <1>2
  <2>2. Cells[m][1] = q /\ Cells[m][2] = j
    BY <2>1
  <2>3. m < k <=> q < r \/ (q = r /\ j < i)
    BY <1>3, <2>2
  <2>4. Before(q, j) <=> m < k
    <3>1. ASSUME NEW p \in 1 .. (k - 1), Cells[p] = <<q, j>> PROVE m < k
      <4>1. p \in 1 .. n /\ p < k
        BY <1>0
      <4>2. p = m
        BY <1>2, <2>1, <3>1, <4>1
      <4> QED
        BY <4>1, <4>2
    <3>2. m < k => m \in 1 .. (k - 1)
      BY <1>0
    <3> QED
      BY <2>1, <3>1, <3>2
  <2>5. Done(q, j) <=> m <= k
    <3>1. ASSUME NEW p \in 1 .. k, Cells[p] = <<q, j>> PROVE m <= k
      <4>1. p \in 1 .. n /\ p <= k
        BY <1>0
      <4>2. p = m
        BY <1>2, <2>1, <3>1, <4>1
      <4> QED
        BY <4>1, <4>2
    <3>2. m <= k => m \in 1 .. k
      BY <1>0
    <3> QED
      BY <2>1, <3>1, <3>2
  <2>6. m = k <=> q = r /\ j = i
    <3>1. m = k => q = r /\ j = i
      BY <1>1, <2>1
    <3>2. q = r /\ j = i => Cells[m] = Cells[k]
      BY <1>1, <2>1
    <3> QED
      BY <1>0, <1>2, <3>1, <3>2
  <2>7. m <= k <=> m < k \/ m = k
    BY <1>0
  <2> HIDE DEF Before, Done
  <2> QED
    BY <2>3, <2>4, <2>5, <2>6, <2>7
<1>5. ASSUME NEW q \in Refunds, NEW j \in Items
      PROVE /\ new[q][j] = IF Before(q, j) THEN F(q, j) ELSE 0
            /\ more[q][j] = IF Done(q, j) THEN F(q, j) ELSE 0
            /\ F(q, j) \in Nat
  BY FitType DEF Upto
<1>6. new \in [Refunds -> [Items -> Nat]] /\ more \in [Refunds -> [Items -> Nat]]
  <2>1. \A q \in Refunds, j \in Items : F(q, j) \in Nat
    BY FitType
  <2> HIDE DEF F
  <2>2. /\ new = [q \in Refunds |-> [j \in Items |-> IF Before(q, j) THEN F(q, j) ELSE 0]]
        /\ more = [q \in Refunds |-> [j \in Items |-> IF Done(q, j) THEN F(q, j) ELSE 0]]
    BY DEF Upto, F
  <2> HIDE DEF new, more, Before, Done
  <2> QED
    BY <2>1, <2>2
<1> HIDE DEF new, more, Before, Done, F
<1>7. \A j \in Items : new[r][j] = IF j < i THEN F(r, j) ELSE 0
  <2> TAKE j \in Items
  <2>1. Before(r, j) <=> j < i
    BY <1>1, <1>2, <1>4
  <2> QED
    BY <1>1, <1>5, <2>1
<1>8. \A q \in Refunds : new[q][i] = IF q < r THEN F(q, i) ELSE 0
  <2> TAKE q \in Refunds
  <2>1. Before(q, i) <=> q < r
    BY <1>1, <1>2, <1>4
  <2> QED
    BY <1>1, <1>5, <2>1
<1>9. \A q \in Refunds, j \in Items : more[q][j] = IF q = r /\ j = i THEN F(r, i) ELSE new[q][j]
  BY <1>4, <1>5
<1> QED
  BY <1>1, <1>6, <1>7, <1>8, <1>9 DEF new, more, F, Amounts, GivesMore

\* What both sides of the next cell still have.
LEMMA UptoOpen ==
  ASSUME NEW ps \in [Refunds -> [Items -> Part]], NEW succ, succ \subseteq Refunds,
         ~Inconsistent(succ, ps), NEW k \in 1 .. RefundCount * ItemCount,
         NEW r \in succ, NEW i, r = Cells[k][1], i = Cells[k][2]
  PROVE LET a == Sum(OpenRefunds(succ, ps), 1 .. (r - 1))
            x == OpenRefunds(succ, ps)[r]
            c == Sum(OpenItems(ps), 1 .. (i - 1))
            y == OpenItems(ps)[i]
        IN /\ RefundOpen(ps, Upto(succ, ps, k - 1), r) = x - Overlap(a, x, 0, c)
           /\ ItemOpen(ps, Upto(succ, ps, k - 1), i) = y - Overlap(c, y, 0, a)
<1> DEFINE f == OpenRefunds(succ, ps)
           g == OpenItems(ps)
           a == Sum(f, 1 .. (r - 1))
           x == f[r]
           c == Sum(g, 1 .. (i - 1))
           y == g[i]
           new == Upto(succ, ps, k - 1)
           F(q, j) == Fit(succ, ps, q, j)
<1>1. /\ r \in Refunds /\ i \in Items /\ new \in Amounts
      /\ \A j \in Items : new[r][j] = IF j < i THEN F(r, j) ELSE 0
      /\ \A q \in Refunds : new[q][i] = IF q < r THEN F(q, i) ELSE 0
  BY UptoIs
<1>2. /\ Refunds = 1 .. RefundCount /\ RefundCount \in Nat
      /\ Items = 1 .. ItemCount /\ ItemCount \in Nat
  BY AmountsAssumption DEF Refunds, Items
<1>3. /\ a \in Nat /\ x \in Nat /\ c \in Nat /\ y \in Nat
      /\ \A q \in Refunds : Sum(f, 1 .. (q - 1)) \in Nat /\ f[q] \in Nat
      /\ \A j \in Items : g[j] \in Nat
  BY <1>1, EndsType
<1>4. /\ RefundOpen(ps, new, r) = x - Sum(new[r], Items)
      /\ ItemOpen(ps, new, i) = y - Sum(Column(new, i), Refunds)
  <2>1. x = RefundRest(ps, r) /\ y = ItemRest(ps, i)
    BY <1>1 DEF OpenRefunds, OpenItems
  <2> HIDE DEF x, y, new
  <2> QED
    BY <1>1, <2>1, OpenIs
<1>5. \A q \in Refunds, j \in Items : F(q, j) = Overlap(Sum(f, 1 .. (q - 1)), f[q], Sum(g, 1 .. (j - 1)), g[j])
  BY DEF Fit
<1>6. \A q \in Refunds, j \in Items : F(q, j) \in Nat
  BY FitType
<1> HIDE DEF F, f, g, new
<1>7. Sum(new[r], Items) = Overlap(a, x, 0, c)
  <2> DEFINE row == new[r]
             t == 1 .. (i - 1)
  <2>1. /\ t \subseteq Items /\ \A j \in Items \ t : ~(j < i)
        /\ \A j \in t : j \in Items /\ j < i
    BY <1>1, <1>2
  <2>2. /\ \A j \in Items : row[j] \in Int
        /\ \A j \in Items \ t : row[j] = 0
    BY <1>1, <1>6, <2>1
  <2>3. OverlapsOf(row, i - 1, a, x, g)
    <3>1. ASSUME NEW j \in 1 .. (i - 1) PROVE row[j] = Overlap(a, x, Sum(g, 1 .. (j - 1)), g[j])
      <4>1. j \in Items /\ j < i
        BY <2>1
      <4> QED
        BY <1>1, <1>5, <4>1
    <3> QED
      BY <3>1 DEF OverlapsOf
  <2> DEFINE n == i - 1
  <2>4. n \in Nat /\ \A j \in 1 .. n : g[j] \in Nat
    <3>1. n \in Nat
      BY <1>1, <1>2
    <3>2. \A j \in 1 .. n : j \in Items
      BY <2>1
    <3> QED
      BY <1>3, <3>1, <3>2
  <2> HIDE DEF row, a, x, n
  <2>5. Sum(row, Items) = Sum(row, t)
    BY <2>1, <2>2, SumOfPart, Finite
  <2>6. Sum(row, 1 .. n) = Overlap(a, x, 0, Sum(g, 1 .. n))
    <3>1. OverlapsOf(row, n, a, x, g)
      BY <2>3 DEF n
    <3> QED
      BY <1>3, <2>4, <3>1, OverlapsUpTo
  <2> QED
    BY <2>5, <2>6 DEF row, n, c
<1>8. Sum(Column(new, i), Refunds) = Overlap(c, y, 0, a)
  <2> DEFINE column == Column(new, i)
             t == 1 .. (r - 1)
  <2>1. /\ t \subseteq Refunds /\ \A q \in Refunds \ t : ~(q < r)
        /\ \A q \in t : q \in Refunds /\ q < r
    BY <1>1, <1>2
  <2>0. \A q \in Refunds : column[q] = IF q < r THEN F(q, i) ELSE 0
    BY <1>1 DEF Column
  <2> HIDE DEF column
  <2>2. /\ \A q \in Refunds : column[q] \in Int
        /\ \A q \in Refunds \ t : column[q] = 0
    BY <1>1, <1>6, <2>0, <2>1
  <2>3. OverlapsOf(column, r - 1, c, y, f)
    <3>1. ASSUME NEW q \in 1 .. (r - 1) PROVE column[q] = Overlap(c, y, Sum(f, 1 .. (q - 1)), f[q])
      <4> DEFINE b == Sum(f, 1 .. (q - 1))
                 z == f[q]
      <4>1. q \in Refunds /\ q < r
        BY <2>1
      <4>2. column[q] = Overlap(b, z, c, y)
        BY <1>1, <1>5, <2>0, <4>1
      <4>3. b \in Nat /\ z \in Nat
        BY <1>3, <4>1
      <4> HIDE DEF b, z, c, y
      <4>4. Overlap(b, z, c, y) = Overlap(c, y, b, z)
        BY <1>3, <4>3, OverlapType
      <4> QED
        BY <4>2, <4>4 DEF b, z
    <3> QED
      BY <3>1 DEF OverlapsOf
  <2> DEFINE n == r - 1
  <2>4. n \in Nat /\ \A q \in 1 .. n : f[q] \in Nat
    <3>1. n \in Nat
      BY <1>1, <1>2
    <3>2. \A q \in 1 .. n : q \in Refunds
      BY <2>1
    <3> QED
      BY <1>3, <3>1, <3>2
  <2> HIDE DEF c, y, n
  <2>5. Sum(column, Refunds) = Sum(column, t)
    BY <2>1, <2>2, SumOfPart, Finite
  <2>6. Sum(column, 1 .. n) = Overlap(c, y, 0, Sum(f, 1 .. n))
    <3>1. OverlapsOf(column, n, c, y, f)
      BY <2>3 DEF n
    <3> QED
      BY <1>3, <2>4, <3>1, OverlapsUpTo
  <2> QED
    BY <2>5, <2>6 DEF column, n, a
<1> QED
  BY <1>4, <1>7, <1>8 DEF f, g, new

\* A single item takes all that consistent refunds still have.
LEMMA OneItemTakesAll ==
  ASSUME NEW ps \in [Refunds -> [Items -> Part]], NEW succ, succ \subseteq Refunds,
         ~Inconsistent(succ, ps), ItemCount = 1, NEW r \in Refunds
  PROVE Sum(OpenRefunds(succ, ps), 1 .. (r - 1)) + OpenRefunds(succ, ps)[r] <= OpenItems(ps)[1]
<1> DEFINE f == OpenRefunds(succ, ps)
           g == OpenItems(ps)
           rest == [q \in succ |-> RefundRest(ps, q)]
<1>1. /\ Refunds = 1 .. RefundCount /\ RefundCount \in Nat /\ Items = {1}
      /\ IsFiniteSet(Refunds) /\ IsFiniteSet(Items) /\ IsFiniteSet(succ)
  <2>1. Refunds = 1 .. RefundCount /\ RefundCount \in Nat /\ Items = {1}
    BY AmountsAssumption DEF Refunds, Items
  <2>2. IsFiniteSet(Refunds) /\ IsFiniteSet(Items)
    BY Finite
  <2>3. IsFiniteSet(succ)
    BY <2>2, FS_Subset
  <2> QED
    BY <2>1, <2>2, <2>3
<1>2. /\ \A q \in Refunds : f[q] \in Nat
      /\ \A i \in Items : g[i] \in Nat
      /\ \A q \in Refunds \ succ : RefundAllocated(ps, q) = 0
  BY ConsistentIs
<1>3. /\ \A q \in succ : rest[q] = f[q]
      /\ \A q \in Refunds \ succ : f[q] = 0
  BY DEF OpenRefunds
<1>4. PICK had \in Nat : /\ SumFunction(rest) = RefundedBy(succ) - had
                         /\ SumFunction([i \in Items |-> ItemRest(ps, i)]) = OrderTotal - had
  BY <1>2, RestsAre
<1>5. RefundedBy(succ) \in Nat /\ OrderTotal \in Nat /\ RefundedBy(succ) <= OrderTotal
  <2>1. RefundedBy(succ) \in Nat /\ OrderTotal \in Nat
    BY <1>2, RestsAre
  <2>2. ~(RefundedBy(succ) > OrderTotal)
    BY DEF Inconsistent
  <2> QED
    BY <2>1, <2>2
<1>6. SumFunction(rest) = Sum(rest, succ)
  BY SumFunctionIs
<1>7. SumFunction([i \in Items |-> ItemRest(ps, i)]) = Sum(g, Items)
  BY SumFunctionIs DEF OpenItems
<1> HIDE DEF f, g, rest
<1>8. Sum(rest, succ) = Sum(f, succ)
  BY <1>1, <1>3, SumSame
<1>9. Sum(f, Refunds) = Sum(f, succ)
  <2>1. \A q \in Refunds : f[q] \in Int
    BY <1>2
  <2> QED
    BY <1>1, <1>3, <2>1, SumOfPart
<1>10. Sum(g, Items) = g[1] /\ g[1] \in Nat
  <2>1. 1 \in Items /\ Items \ {1} = {}
    BY <1>1
  <2>2. Sum(g, Items) = g[1] + Sum(g, Items \ {1})
    BY <1>1, <1>2, <2>1, SumRemove
  <2>3. Sum(g, {}) = 0
    BY FS_EmptySet, SumStep
  <2>4. g[1] \in Nat
    BY <1>2, <2>1
  <2>5. Sum(g, Items) = g[1] + 0
    BY <2>1, <2>2, <2>3
  <2> QED
    BY <2>4, <2>5
<1>11. Sum(f, Refunds) <= g[1]
  <2>1. Sum(f, Refunds) = RefundedBy(succ) - had
    BY <1>4, <1>6, <1>8, <1>9
  <2>2. g[1] = OrderTotal - had
    BY <1>4, <1>7, <1>10
  <2> QED
    BY <1>5, <2>1, <2>2
<1>12. Sum(f, 1 .. r) <= Sum(f, Refunds)
  <2> DEFINE s == 1 .. r
  <2>1. s \subseteq Refunds /\ \A q \in s : q \in Refunds
    BY <1>1
  <2>2. \A q \in s : f[q] \in Int /\ f[q] <= f[q]
    BY <1>2, <2>1
  <2> HIDE DEF s
  <2>3. Sum(f, s) <= Sum(f, Refunds)
    BY <1>1, <1>2, <2>1, <2>2, SumMonotone
  <2> QED
    BY <2>3 DEF s
<1>13. Sum(f, 1 .. r) = f[r] + Sum(f, 1 .. (r - 1)) /\ Sum(f, 1 .. (r - 1)) \in Nat
  <2>1. r \in 1 .. RefundCount /\ r - 1 \in 0 .. RefundCount
    BY <1>1
  <2>2. /\ \A k \in 0 .. RefundCount : Sum(f, 1 .. k) \in Nat
        /\ \A k \in 1 .. RefundCount : Sum(f, 1 .. k) = f[k] + Sum(f, 1 .. (k - 1))
    BY <1>1, <1>2, SumUpTo
  <2> QED
    BY <2>1, <2>2
<1>14. Sum(f, Refunds) \in Nat
  BY <1>1, <1>2, SumNat
<1>15. Sum(f, 1 .. (r - 1)) + f[r] <= g[1]
  BY <1>2, <1>10, <1>11, <1>12, <1>13, <1>14
<1> QED
  BY <1>15 DEF f, g

\* The loop gives each cell what its refund and its item overlap.
LEMMA GiveUpto ==
  ASSUME NEW ps \in [Refunds -> [Items -> Part]], NEW succ, succ \subseteq Refunds,
         ~Inconsistent(succ, ps), NEW k \in 1 .. RefundCount * ItemCount
  PROVE Give(succ, ps, Upto(succ, ps, k - 1), Cells[k]) = Upto(succ, ps, k)
<1> DEFINE r == Cells[k][1]
           i == Cells[k][2]
           new == Upto(succ, ps, k - 1)
           fit == Fit(succ, ps, r, i)
           refundOpen == RefundOpen(ps, new, r)
           itemOpen == ItemOpen(ps, new, i)
<1>1. /\ r \in Refunds /\ i \in Items /\ new \in Amounts
      /\ \A j \in Items : new[r][j] = IF j < i THEN Fit(succ, ps, r, j) ELSE 0
      /\ Upto(succ, ps, k) = [new EXCEPT ![r][i] = fit]
  <2> HIDE DEF r, i
  <2>1. r = Cells[k][1] /\ i = Cells[k][2]
    BY DEF r, i
  <2>2. r \in Refunds /\ i \in Items /\ new \in Amounts
    BY <2>1, UptoIs
  <2>3. \A j \in Items : new[r][j] = IF j < i THEN Fit(succ, ps, r, j) ELSE 0
    BY <2>1, UptoIs
  <2>5. GivesMore(new, Upto(succ, ps, k), r, i, fit)
    BY <2>1, UptoIs
  <2>4. Upto(succ, ps, k) = [new EXCEPT ![r][i] = fit]
    <3> DEFINE more == Upto(succ, ps, k)
               given == [new EXCEPT ![r][i] = fit]
    <3> HIDE DEF new, fit
    <3>1. /\ more \in Amounts
          /\ \A q \in Refunds, j \in Items : more[q][j] = IF q = r /\ j = i THEN fit ELSE new[q][j]
      BY <2>5 DEF GivesMore
    <3>2. fit \in Nat
      <4>1. fit = more[r][i]
        BY <2>2, <3>1
      <4> QED
        BY <2>2, <3>1, <4>1 DEF Amounts
    <3>3. given \in Amounts
      BY <2>2, <3>2 DEF Amounts
    <3>4. \A q \in Refunds, j \in Items : given[q][j] = IF q = r /\ j = i THEN fit ELSE new[q][j]
      BY <2>2 DEF Amounts
    <3> HIDE DEF given, more
    <3>5. \A q \in Refunds : more[q] = given[q]
      BY <3>1, <3>3, <3>4 DEF Amounts
    <3> QED
      BY <3>1, <3>3, <3>5 DEF given, more, Amounts
  <2> QED
    BY <2>2, <2>3, <2>4
<1>2. CASE r \notin succ
  <2>1. fit = 0
    BY <1>1, <1>2, FitType
  <2>2. ~(i < i)
    BY <1>1 DEF Items
  <2>3. new[r][i] = 0
    BY <1>1, <2>2
  <2>4. [new EXCEPT ![r][i] = fit] = new
    <3> HIDE DEF new, r, i, fit
    <3> QED
      BY <1>1, <2>1, <2>3 DEF Amounts
  <2>5. Give(succ, ps, new, Cells[k]) = new
    BY <1>2 DEF Give
  <2> QED
    BY <1>1, <2>4, <2>5
<1>3. CASE r \in succ
  <2> DEFINE a == Sum(OpenRefunds(succ, ps), 1 .. (r - 1))
             x == OpenRefunds(succ, ps)[r]
             c == Sum(OpenItems(ps), 1 .. (i - 1))
             y == OpenItems(ps)[i]
  <2>1. a \in Nat /\ x \in Nat /\ c \in Nat /\ y \in Nat
    BY <1>1, EndsType
  <2>2. refundOpen = x - Overlap(a, x, 0, c) /\ itemOpen = y - Overlap(c, y, 0, a)
    BY <1>3, UptoOpen
  <2>3. fit = Overlap(a, x, c, y)
    BY DEF Fit
  <2>4. ItemCount = 1 => c = 0 /\ a + x <= y
    <3> HAVE ItemCount = 1
    <3>1. i = 1
      BY <1>1 DEF Items
    <3>2. 1 .. (i - 1) = {}
      BY <3>1
    <3>3. c = 0
      BY <3>2, FS_EmptySet, SumStep
    <3>4. a + x <= y
      BY <1>1, <3>1, OneItemTakesAll
    <3> QED
      BY <3>3, <3>4
  <2>5. Give(succ, ps, new, Cells[k]) =
          [new EXCEPT ![r][i] = IF ItemCount = 1 THEN refundOpen ELSE Min({refundOpen, itemOpen})]
    BY <1>3 DEF Give
  <2> HIDE DEF a, x, c, y
  <2>6. /\ Min({x - Overlap(a, x, 0, c), y - Overlap(c, y, 0, a)}) = Overlap(a, x, c, y)
        /\ c = 0 /\ a + x <= y => x - Overlap(a, x, 0, c) = Overlap(a, x, c, y)
    BY <2>1, OpenIsOverlap
  <2>7. (IF ItemCount = 1 THEN refundOpen ELSE Min({refundOpen, itemOpen})) = fit
    <3> HIDE DEF refundOpen, itemOpen, fit
    <3> QED
      BY <2>2, <2>3, <2>4, <2>6
  <2> QED
    BY <1>1, <2>5, <2>7
<1> QED
  BY <1>2, <1>3

\* The loop ends with every refund and item given what they overlap.
LEMMA NewAmountsFit ==
  ASSUME NEW ps \in [Refunds -> [Items -> Part]], NEW succ, succ \subseteq Refunds,
         ~Inconsistent(succ, ps)
  PROVE \A r \in Refunds, i \in Items : NewAmounts(succ, ps)[r][i] = Fit(succ, ps, r, i)
<1> DEFINE n == RefundCount * ItemCount
           f == [k \in 0 .. n |-> Upto(succ, ps, k)]
           X == [k \in 0 .. n |-> {Upto(succ, ps, k)}]
           given == CHOOSE given : given = [k \in 0 .. n |->
                      IF k = 0 THEN NoAmounts ELSE Give(succ, ps, given[k - 1], Cells[k])]
<1>1. n \in Nat
  BY AmountsAssumption
<1>2. Upto(succ, ps, 0) = NoAmounts
  <2>1. \A r \in Refunds, i \in Items : ~\E m \in 1 .. 0 : Cells[m] = <<r, i>>
    OBVIOUS
  <2> QED
    BY <2>1 DEF Upto, NoAmounts
<1>3. \A k \in 1 .. n : Give(succ, ps, Upto(succ, ps, k - 1), Cells[k]) = Upto(succ, ps, k)
  BY GiveUpto
<1> HIDE DEF n
<1>4. f = [k \in 0 .. n |-> IF k = 0 THEN NoAmounts ELSE Give(succ, ps, f[k - 1], Cells[k])]
  <2>1. \A k \in 0 .. n : f[k] = IF k = 0 THEN NoAmounts ELSE Give(succ, ps, f[k - 1], Cells[k])
    <3> TAKE k \in 0 .. n
    <3>1. k = 0 \/ (k # 0 /\ k \in 1 .. n /\ k - 1 \in 0 .. n)
      BY <1>1
    <3>2. CASE k = 0
      BY <1>2, <3>2
    <3>3. CASE k # 0
      <4>1. k \in 1 .. n /\ f[k - 1] = Upto(succ, ps, k - 1) /\ f[k] = Upto(succ, ps, k)
        BY <3>1, <3>3
      <4> QED
        BY <1>3, <3>3, <4>1
    <3> QED
      BY <3>2, <3>3
  <2>2. f = [k \in 0 .. n |-> f[k]]
    OBVIOUS
  <2> HIDE DEF f
  <2> QED
    BY <2>1, <2>2
<1>5. given = [k \in 0 .. n |-> IF k = 0 THEN NoAmounts ELSE Give(succ, ps, given[k - 1], Cells[k])]
  <2> HIDE DEF f
  <2> QED
    BY <1>4
<1>6. NewAmounts(succ, ps) = given[n]
  BY DEF NewAmounts, Given, n
<1> HIDE DEF given, f
<1>7. \A k \in 0 .. n : given[k] = IF k = 0 THEN NoAmounts ELSE Give(succ, ps, given[k - 1], Cells[k])
  BY <1>5
<1>8. given[0] \in X[0]
  BY <1>1, <1>2, <1>7
<1>9. \A k \in 1 .. n : given[k - 1] \in X[k - 1] => given[k] \in X[k]
  <2> TAKE k \in 1 .. n
  <2> HAVE given[k - 1] \in X[k - 1]
  <2>1. k - 1 \in 0 .. n /\ k \in 0 .. n /\ k # 0
    BY <1>1
  <2>2. given[k - 1] = Upto(succ, ps, k - 1)
    BY <2>1
  <2>3. given[k] = Upto(succ, ps, k)
    BY <1>3, <1>7, <2>1, <2>2
  <2> QED
    BY <2>1, <2>3
<1>10. n \in 0 .. n
  BY <1>1
<1>11. given[n] = Upto(succ, ps, n)
  <2>1. given[n] \in X[n]
    <3> HIDE DEF X
    <3>1. \A k \in 0 .. n : given[k] \in X[k]
      BY <1>1, <1>8, <1>9, RunStays
    <3> QED
      BY <1>10, <3>1
  <2> QED
    BY <1>10, <2>1
<1>12. ASSUME NEW r \in Refunds, NEW i \in Items PROVE NewAmounts(succ, ps)[r][i] = Fit(succ, ps, r, i)
  <2>1. \E m \in 1 .. n : Cells[m] = <<r, i>>
    BY CellsAre DEF n
  <2>2. Upto(succ, ps, n)[r][i] = Fit(succ, ps, r, i)
    BY <2>1 DEF Upto
  <2> QED
    BY <1>6, <1>11, <2>2
<1> QED
  BY <1>12

\* The automatic attribution gives what the intervals of refunds and items overlap, in
\* whatever state the attribution is.
THEOREM LoopsGiveOverlaps ==
  ASSUME NEW ps \in [Refunds -> [Items -> Part]], NEW succ, succ \subseteq Refunds
  PROVE GivesOverlaps(succ, ps)
<1> SUFFICES ASSUME AllocationState(succ, ps) = "allocated", NEW r \in Refunds, NEW i \in Items
             PROVE NewAmounts(succ, ps)[r][i] =
                     IF r \notin succ THEN 0
                     ELSE Overlap(RefundsBefore(succ, ps, r), RefundRest(ps, r),
                                  ItemsBefore(ps, i), ItemRest(ps, i))
  BY DEF GivesOverlaps
<1>1. ~Inconsistent(succ, ps)
  BY DEF AllocationState
<1>2. NewAmounts(succ, ps)[r][i] = Fit(succ, ps, r, i)
  BY <1>1, NewAmountsFit
<1>3. r \notin succ => Fit(succ, ps, r, i) = 0
  BY <1>1, FitType
<1>4. /\ RefundsBefore(succ, ps, r) = Sum(OpenRefunds(succ, ps), 1 .. (r - 1))
      /\ ItemsBefore(ps, i) = Sum(OpenItems(ps), 1 .. (i - 1))
  BY <1>1, BeforeIs
<1>5. /\ r \in succ => OpenRefunds(succ, ps)[r] = RefundRest(ps, r)
      /\ OpenItems(ps)[i] = ItemRest(ps, i)
  BY DEF OpenRefunds, OpenItems
<1> QED
  BY <1>2, <1>3, <1>4, <1>5 DEF Fit

\* A quotient is what leaves a remainder.
LEMMA QuotientIs ==
  ASSUME NEW x \in Nat, NEW w \in Nat \ {0}, NEW y \in Int, NEW e \in 0 .. (w - 1), x = w * y + e
  PROVE x \div w = y
<1> DEFINE q == x \div w
           m == x % w
<1>1. q \in Nat /\ m \in 0 .. (w - 1) /\ x = w * q + m
  BY DivisionIs
<1> HIDE DEF q, m
<1>2. w * q \in Int /\ w * y \in Int /\ w * (q - y) = w * q - w * y
  BY <1>1
<1>3. w * (q - y) < w /\ -w < w * (q - y)
  BY <1>1, <1>2
<1>4. q - y = 0
  BY <1>1, <1>3, NoMultiple
<1>5. q = y
  BY <1>1, <1>4
<1> QED
  BY <1>5 DEF q

\* The share of the price is the exact proportion, rounded to the nearest unit.
LEMMA SplitRounds ==
  ASSUME NEW left \in Part, NEW amount \in Nat, Minor(left) > 0
  PROVE Split(left, amount).subtotal
          = (2 * amount * left.subtotal + Minor(left)) \div (2 * Minor(left))
<1> DEFINE s == left.subtotal
           t == left.tax
           w == s + t
           q == (amount * s) \div w
           p == (amount * t) \div w
           rq == (amount * s) % w
           rp == (amount * t) % w
           lost == amount - q - p
           share == q + (IF rq >= rp THEN lost ELSE 0)
           x == 2 * amount * s + w
<1>1. s \in Nat /\ t \in Nat /\ w \in Nat \ {0} /\ s + t > 0
  BY DEF Part, Minor
<1>2. lost = 0 \/ (lost = 1 /\ rq + rp = w)
  <2> HIDE DEF s, t
  <2> QED
    BY <1>1, LostToRounding
<1>3. Split(left, amount).subtotal = share
  BY DEF Split, Minor
<1>4. /\ q \in Nat /\ rq \in 0 .. (w - 1) /\ amount * s = w * q + rq
      /\ p \in Nat /\ rp \in 0 .. (w - 1) /\ amount * t = w * p + rp
      /\ amount * s \in Nat /\ amount * t \in Nat
  <2> HIDE DEF s, t, w
  <2>1. amount * s \in Nat /\ amount * t \in Nat
    BY <1>1
  <2> QED
    BY <1>1, <2>1, DivisionIs
<1>5. lost = 0 => rq = 0
  <2>1. amount * s + amount * t = w * amount
    <3> HIDE DEF s, t
    <3> QED
      BY <1>1
  <2>2. lost = 0 => q + p = amount
    <3> HIDE DEF s, t, w, q, p
    <3> QED
      BY <1>4
  <2> HIDE DEF s, t, w, q, p, rq, rp, lost
  <2>3. w * (q + p) = w * q + w * p
    BY <1>1, <1>4
  <2>4. w * q \in Int /\ w * p \in Int
    BY <1>1, <1>4
  <2> QED
    BY <1>4, <2>1, <2>2, <2>3, <2>4
<1>6. x = 2 * (amount * s) + w
  <2> HIDE DEF s, w
  <2> QED
    BY <1>1
<1> HIDE DEF s, t, q, p, rq, rp, lost, x
<1>7. share \in Int /\ \E e \in 0 .. (2 * w - 1) : x = (2 * w) * share + e
  <2>1. (2 * w) * q = 2 * (w * q) /\ (2 * w) * (q + 1) = 2 * (w * q) + 2 * w
    <3> HIDE DEF w
    <3> QED
      BY <1>1, <1>4
  <2>2. w * q \in Int
    <3> HIDE DEF w
    <3> QED
      BY <1>1, <1>4
  <2> HIDE DEF w
  <2>3. x = 2 * (w * q) + 2 * rq + w
    BY <1>1, <1>4, <1>6, <2>2
  <2>4. CASE lost = 0
    <3>1. share = q
      BY <1>4, <2>4
    <3>2. x = (2 * w) * share + w
      BY <1>1, <1>5, <2>1, <2>2, <2>3, <2>4, <3>1
    <3>3. w \in 0 .. (2 * w - 1)
      BY <1>1
    <3> QED
      BY <1>4, <3>1, <3>2, <3>3
  <2>5. CASE lost = 1 /\ rq + rp = w /\ rq >= rp
    <3>1. share = q + 1
      BY <2>5
    <3>2. x = (2 * w) * share + (2 * rq - w)
      BY <1>1, <1>4, <2>1, <2>2, <2>3, <3>1
    <3>3. 2 * rq - w \in 0 .. (2 * w - 1)
      BY <1>1, <1>4, <2>5
    <3> QED
      BY <1>4, <3>1, <3>2, <3>3
  <2>6. CASE lost = 1 /\ rq + rp = w /\ ~(rq >= rp)
    <3>1. share = q
      BY <1>4, <2>6
    <3>2. x = (2 * w) * share + (2 * rq + w)
      BY <1>1, <1>4, <2>1, <2>2, <2>3, <3>1
    <3>3. 2 * rq + w \in 0 .. (2 * w - 1)
      BY <1>1, <1>4, <2>6
    <3> QED
      BY <1>4, <3>1, <3>2, <3>3
  <2> QED
    BY <1>2, <2>4, <2>5, <2>6
<1> HIDE DEF share
<1>8. x \div (2 * w) = share
  <2> HIDE DEF w
  <2>1. x \in Nat /\ 2 * w \in Nat \ {0}
    BY <1>1, <1>4, <1>6
  <2> QED
    BY <1>7, <2>1, QuotientIs
<1>9. Minor(left) = w /\ x = 2 * amount * left.subtotal + Minor(left)
  BY DEF Minor, x, s, t
<1> QED
  BY <1>3, <1>8, <1>9

\* Attributions as PurchaseAccess leaves them: within the prices, of succeeded refunds
\* only, and each refund is attributed in full or not at all.
Attributable(succ, ps) ==
  /\ succ \subseteq Refunds /\ PartsHold(ps)
  /\ \A r \in Refunds : RefundAllocated(ps, r) \in IF r \in succ THEN {0, Amount[r]} ELSE {0}

\* An exception is found exactly where more is refunded than the order came to.
LEMMA ExceptionIs ==
  ASSUME NEW ps, NEW succ, Attributable(succ, ps)
  PROVE AllocationState(succ, ps) = "exception" <=> RefundedBy(succ) > OrderTotal
<1> DEFINE open == SumFunction([r \in succ |-> RefundRest(ps, r)])
           room == SumFunction([i \in Items |-> ItemRest(ps, i)])
<1>1. /\ ps \in [Refunds -> [Items -> Part]] /\ succ \subseteq Refunds
      /\ \A i \in Items : Left(ps, i) \in Part
      /\ \A r \in succ : RefundAllocated(ps, r) \in {0, Amount[r]}
      /\ \A r \in Refunds \ succ : RefundAllocated(ps, r) = 0
  BY DEF Attributable, PartsHold
<1>2. \A r \in succ : ~(RefundRest(ps, r) < 0)
  <2> TAKE r \in succ
  <2>1. Amount[r] \in Nat /\ RefundAllocated(ps, r) \in {0, Amount[r]}
    BY <1>1, AmountsAssumption
  <2> QED
    BY <2>1 DEF RefundRest
<1>3. \A i \in Items : ~(ItemRest(ps, i) < 0)
  <2> TAKE i \in Items
  <2>1. Left(ps, i) \in Part /\ Minor(Left(ps, i)) = ItemRest(ps, i)
    BY <1>1, LeftIs
  <2> QED
    BY <2>1 DEF Part, Minor
<1>4. Inconsistent(succ, ps) <=> RefundedBy(succ) > OrderTotal
  <2>1. \A r \in Refunds \ succ : ~(RefundAllocated(ps, r) > 0)
    BY <1>1
  <2> QED
    BY <1>2, <1>3, <2>1 DEF Inconsistent
<1>5. RefundedBy(succ) \in Nat /\ OrderTotal \in Nat
  BY <1>1, RestsAre
<1>6. \E had \in Nat : open = RefundedBy(succ) - had /\ room = OrderTotal - had
  BY <1>1, RestsAre
<1> HIDE DEF open, room
<1>7. open > room => RefundedBy(succ) > OrderTotal
  BY <1>5, <1>6
<1>8. AllocationState(succ, ps) =
        IF Inconsistent(succ, ps) \/ (ItemCount > 1 /\ open > room) THEN "exception"
        ELSE IF open = 0 THEN "noop"
        ELSE IF ItemCount = 1 \/ open = room THEN "allocated" ELSE "needs_review"
  BY DEF AllocationState, open, room
<1> QED
  BY <1>4, <1>7, <1>8

\* What lies before an element of a sum, and the element, are within the sum.
LEMMA WithinSum ==
  ASSUME NEW n \in Nat, NEW f, \A j \in 1 .. n : f[j] \in Nat, NEW k \in 1 .. n
  PROVE /\ Sum(f, 1 .. (k - 1)) \in Nat /\ Sum(f, 1 .. n) \in Nat
        /\ Sum(f, 1 .. (k - 1)) + f[k] <= Sum(f, 1 .. n)
<1> DEFINE s == 1 .. k
           all == 1 .. n
<1>1. k - 1 \in 0 .. n /\ n \in 0 .. n
  OBVIOUS
<1>2. /\ \A j \in 0 .. n : Sum(f, 1 .. j) \in Nat
      /\ \A j \in 1 .. n : Sum(f, 1 .. j) = f[j] + Sum(f, 1 .. (j - 1))
  BY SumUpTo
<1>3. Sum(f, s) = f[k] + Sum(f, 1 .. (k - 1))
  BY <1>2
<1>4. Sum(f, s) <= Sum(f, all)
  <2>1. s \subseteq all /\ IsFiniteSet(all)
    BY Finite
  <2>2. \A x \in all : f[x] \in Nat
    OBVIOUS
  <2> HIDE DEF s, all
  <2>3. \A x \in s : f[x] \in Int /\ f[x] <= f[x]
    BY <2>1, <2>2
  <2> QED
    BY <2>1, <2>2, <2>3, SumMonotone
<1>5. Sum(f, 1 .. (k - 1)) \in Nat /\ Sum(f, all) \in Nat
  BY <1>1, <1>2
<1>6. f[k] \in Nat
  OBVIOUS
<1> QED
  BY <1>3, <1>4, <1>5, <1>6

\* Before a part was taken the item had at least that part.
LEMMA LeftBeforeType ==
  ASSUME NEW part \in [Refunds -> Part], NEW r \in Refunds, NEW i \in Items, LeftOf(part, i) \in Part
  PROVE /\ LeftBefore(part, i, r) \in Part
        /\ Minor(part[r]) <= Minor(LeftBefore(part, i, r))
<1> DEFINE f == [q \in Refunds |-> part[q].subtotal]
           g == [q \in Refunds |-> part[q].tax]
           x == Sum(f, 1 .. (r - 1))
           y == Sum(g, 1 .. (r - 1))
           a == Sum(f, Refunds)
           b == Sum(g, Refunds)
<1>1. Refunds = 1 .. RefundCount /\ RefundCount \in Nat
  BY AmountsAssumption DEF Refunds
<1>2. /\ \A q \in Refunds : f[q] \in Nat /\ g[q] \in Nat
      /\ f[r] = part[r].subtotal /\ g[r] = part[r].tax
  BY DEF Part
<1>3. LeftOf(part, i) = [subtotal |-> Subtotal[i] - a, tax |-> Tax[i] - b]
  BY DEF LeftOf
<1>4. LeftBefore(part, i, r) = [subtotal |-> Subtotal[i] - x, tax |-> Tax[i] - y]
  BY DEF LeftBefore
<1>5. Subtotal[i] \in Nat /\ Tax[i] \in Nat
  BY AmountsAssumption
<1> HIDE DEF f, g
<1>6. x \in Nat /\ a \in Nat /\ x + f[r] <= a
  BY <1>1, <1>2, WithinSum
<1>7. y \in Nat /\ b \in Nat /\ y + g[r] <= b
  BY <1>1, <1>2, WithinSum
<1> HIDE DEF x, y, a, b
<1>8. Subtotal[i] - a \in Nat /\ Tax[i] - b \in Nat
  BY <1>3 DEF Part
<1>9. f[r] <= Subtotal[i] - x /\ g[r] <= Tax[i] - y /\ f[r] \in Nat /\ g[r] \in Nat
  BY <1>2, <1>5, <1>6, <1>7, <1>8
<1>10. Subtotal[i] - x \in Nat /\ Tax[i] - y \in Nat
  BY <1>5, <1>6, <1>7, <1>9
<1>11. LeftBefore(part, i, r) \in Part
  BY <1>4, <1>10 DEF Part
<1>12. Minor(part[r]) <= Minor(LeftBefore(part, i, r))
  BY <1>2, <1>4, <1>9, <1>10 DEF Minor
<1> QED
  BY <1>11, <1>12

\* What the rounding is measured against is what the item had left before the refund.
LEMMA LeftForIs ==
  ASSUME NEW ps, PartsHold(ps), NEW new, Assignable(ps, new),
         NEW r \in Refunds, NEW i \in Items, new[r][i] > 0
  PROVE LeftFor(ps, WithComponents(ps, new), r, i)
          = LeftBefore(PartOf(WithComponents(ps, new), i), i, r)
<1> DEFINE after == WithComponents(ps, new)
           mixed == [q \in Refunds |-> IF q < r \/ Minor(ps[q][i]) > 0 THEN after[q] ELSE ps[q]]
           part == PartOf(mixed, i)
           last == PartOf(after, i)
<1>1. ps \in [Refunds -> [Items -> Part]] /\ ps[r][i] = NoPart /\ new \in Amounts
  BY DEF PartsHold, Assignable
<1>2. after \in [Refunds -> [Items -> Part]]
  BY AfterIs DEF PartsHold
<1>3. \A q \in Refunds : r <= q => Minor(ps[q][i]) = 0 /\ ps[q][i] = NoPart
  <2> TAKE q \in Refunds
  <2> HAVE r <= q
  <2>1. ps[q][i] \in Part
    BY <1>1
  <2>2. ~(Minor(ps[q][i]) > 0)
    <3>1. CASE q = r
      BY <1>1, <3>1 DEF NoPart, Minor
    <3>2. CASE q # r
      <4>1. r < q
        BY <3>2 DEF Refunds
      <4>2. ~OutOfOrder(ps, new)
        BY DEF Assignable
      <4> QED
        BY <4>1, <4>2 DEF OutOfOrder
    <3> QED
      BY <3>1, <3>2
  <2> QED
    BY <2>1, <2>2 DEF Part, NoPart, Minor
<1> HIDE DEF after
<1>4. mixed \in [Refunds -> [Items -> Part]]
  BY <1>1, <1>2
<1>5. \A q \in Refunds : /\ q < r => part[q] = last[q]
                         /\ r <= q => part[q] = NoPart
  <2> TAKE q \in Refunds
  <2>1. q < r => mixed[q] = after[q]
    OBVIOUS
  <2>2. r <= q => mixed[q] = ps[q]
    <3> HAVE r <= q
    <3>1. ~(q < r) /\ Minor(ps[q][i]) = 0
      BY <1>3 DEF Refunds
    <3> QED
      BY <3>1
  <2>3. part[q] = mixed[q][i] /\ last[q] = after[q][i]
    BY DEF PartOf
  <2> HIDE DEF mixed, part, last
  <2> QED
    BY <1>3, <2>1, <2>2, <2>3
<1>6. part \in [Refunds -> Part] /\ last \in [Refunds -> Part]
  BY <1>2, <1>4 DEF PartOf
<1>7. Left(mixed, i) = LeftOf(part, i)
  <2> HIDE DEF mixed
  <2> QED
    BY <1>4, LeftIs
<1>8. LeftFor(ps, after, r, i) = Left(mixed, i)
  BY DEF LeftFor
<1> HIDE DEF mixed, part, last
<1>9. LeftBefore(part, i, r) = LeftOf(part, i)
  BY <1>5, <1>6, NothingAfter
<1>10. LeftBefore(part, i, r) = LeftBefore(last, i, r)
  BY <1>5, <1>6, LeftBeforeSame
<1> QED
  BY <1>7, <1>8, <1>9, <1>10 DEF after, last

\* What an item has given once new amounts are planned.
LEMMA ItemAfter ==
  ASSUME NEW ps, PartsHold(ps), NEW new, Assignable(ps, new), NEW i \in Items
  PROVE ItemAllocated(WithComponents(ps, new), i) = ItemAllocated(ps, i) + Sum(Column(new, i), Refunds)
<1> DEFINE after == WithComponents(ps, new)
           f == [r \in Refunds |-> Minor(ps[r][i])]
           g == [r \in Refunds |-> Minor(after[r][i])]
           h == Column(new, i)
<1>1. ps \in [Refunds -> [Items -> Part]] /\ new \in [Refunds -> [Items -> Nat]]
  BY DEF PartsHold, Assignable, Amounts
<1>2. after \in [Refunds -> [Items -> Part]]
  BY AfterIs DEF PartsHold
<1>3. \A r \in Refunds : /\ new[r][i] = 0 => after[r][i] = ps[r][i]
                         /\ new[r][i] > 0 => Minor(after[r][i]) = new[r][i]
  BY AfterIs
<1>4. \A r \in Refunds : new[r][i] > 0 => ps[r][i] = NoPart
  BY DEF Assignable
<1> HIDE DEF after
<1>5. ASSUME NEW r \in Refunds PROVE f[r] \in Nat /\ h[r] \in Nat /\ g[r] = f[r] + h[r]
  <2>1. Minor(ps[r][i]) \in Nat /\ new[r][i] \in Nat /\ h[r] = new[r][i]
    BY <1>1 DEF Minor, Part, Column
  <2>2. CASE new[r][i] = 0
    BY <1>3, <2>1, <2>2
  <2>3. CASE new[r][i] > 0
    <3>1. Minor(NoPart) = 0
      BY DEF Minor, NoPart
    <3> QED
      BY <1>3, <1>4, <2>1, <2>3, <3>1
  <2> QED
    BY <2>1, <2>2, <2>3
<1>6. ItemAllocated(after, i) = Sum(g, Refunds) /\ ItemAllocated(ps, i) = Sum(f, Refunds)
  BY <1>1, <1>2, LeftIs
<1> HIDE DEF f, g, h
<1>7. \A r \in Refunds : f[r] \in Int /\ h[r] \in Int /\ g[r] = f[r] + h[r]
  BY <1>5
<1>8. Sum(g, Refunds) = Sum(f, Refunds) + Sum(h, Refunds)
  BY <1>7, Finite, SumAdd
<1> QED
  BY <1>6, <1>8 DEF after, h

\* The new amounts of an automatic attribution can be planned, leave nothing of a
\* refund and, with several items, nothing of an item.
LEMMA AllocatedInFull ==
  ASSUME NEW ps, NEW succ, Attributable(succ, ps), AllocationState(succ, ps) = "allocated",
         NEW new, new = NewAmounts(succ, ps), ~OutOfOrder(ps, new)
  PROVE /\ Assignable(ps, new)
        /\ \A r \in succ : RefundRest(WithComponents(ps, new), r) = 0
        /\ ItemCount > 1 => \A i \in Items : FullyAllocated(WithComponents(ps, new), i)
<1> DEFINE after == WithComponents(ps, new)
<1>1. /\ ps \in [Refunds -> [Items -> Part]] /\ succ \subseteq Refunds /\ PartsHold(ps)
      /\ \A r \in succ : RefundAllocated(ps, r) \in {0, Amount[r]}
  BY DEF Attributable, PartsHold
<1>2. /\ Assignable(ps, new)
      /\ \A r \in succ : RefundAllocated(ps, r) + Sum(new[r], Items) = Amount[r]
  BY <1>1, NewAmountsAre
<1>3. ASSUME NEW r \in succ PROVE RefundRest(after, r) = 0
  <2>1. RefundAllocated(after, r) = RefundAllocated(ps, r) + Sum(new[r], Items)
    BY <1>1, <1>2, AfterAllocated
  <2>2. RefundAllocated(after, r) = Amount[r] /\ Amount[r] \in Nat
    BY <1>1, <1>2, <2>1, AmountsAssumption
  <2> HIDE DEF after
  <2> QED
    BY <2>2 DEF RefundRest
<1>4. ASSUME ItemCount > 1, NEW i \in Items PROVE FullyAllocated(after, i)
  <2>1. ~Inconsistent(succ, ps)
        /\ SumFunction([r \in succ |-> RefundRest(ps, r)]) = SumFunction([j \in Items |-> ItemRest(ps, j)])
    BY <1>4 DEF AllocationState
  <2>2. \A r \in succ : RefundRest(ps, r) >= 0
    <3> TAKE r \in succ
    <3>1. Amount[r] \in Nat /\ RefundAllocated(ps, r) \in {0, Amount[r]}
      BY <1>1, AmountsAssumption
    <3> QED
      BY <3>1 DEF RefundRest
  <2>3. \A j \in Items : ItemRest(ps, j) >= 0 /\ ItemRest(ps, j) \in Int
    <3> TAKE j \in Items
    <3>1. Left(ps, j) \in Part /\ Minor(Left(ps, j)) = ItemRest(ps, j)
      BY <1>1, LeftIs DEF PartsHold
    <3> QED
      BY <3>1 DEF Part, Minor
  <2>4. new \in GivenSet(succ, ps, RefundCount * ItemCount)
    <3>1. \A j \in Items : ItemRest(ps, j) >= 0
      BY <2>3
    <3> QED
      BY <1>1, <2>2, <3>1, NewAmountsGiven
  <2>5. ItemOpen(ps, new, i) = 0
    <3>1. ItemCount # 1
      BY <1>4, AmountsAssumption
    <3> QED
      BY <1>1, <2>1, <2>4, <3>1, GivenInFull
  <2>6. new \in Amounts
    BY <1>2 DEF Assignable
  <2>7. /\ ItemOpen(ps, new, i) = ItemRest(ps, i) - Sum(Column(new, i), Refunds)
        /\ Sum(Column(new, i), Refunds) \in Nat
    BY <1>1, <2>6, OpenIs
  <2>8. ItemAllocated(after, i) = ItemAllocated(ps, i) + Sum(Column(new, i), Refunds)
    BY <1>1, <1>2, ItemAfter
  <2>9. ItemAllocated(ps, i) \in Nat /\ Total(i) \in Nat
    <3>1. ItemAllocated(ps, i) \in Nat
      BY <1>1, LeftIs
    <3>2. Total(i) \in Nat
      BY AmountsAssumption DEF Total
    <3> QED
      BY <3>1, <3>2
  <2>10. ItemRest(ps, i) = Total(i) - ItemAllocated(ps, i)
    BY DEF ItemRest
  <2> DEFINE given == Sum(Column(new, i), Refunds)
  <2> HIDE DEF after, given
  <2>11. ItemAllocated(after, i) = Total(i)
    <3>1. given = ItemRest(ps, i) /\ given \in Nat
      BY <2>3, <2>5, <2>7 DEF given
    <3>2. ItemAllocated(after, i) = ItemAllocated(ps, i) + given
      BY <2>8 DEF given
    <3> QED
      BY <2>9, <2>10, <3>1, <3>2
  <2> QED
    BY <2>11 DEF FullyAllocated
<1> QED
  BY <1>2, <1>3, <1>4 DEF after

\* What an item has left is some of its price and some of its tax.
LEMMA LeftWithin ==
  ASSUME NEW ps, PartsHold(ps), NEW i \in Items
  PROVE Left(ps, i).subtotal \in 0 .. Subtotal[i] /\ Left(ps, i).tax \in 0 .. Tax[i]
<1> DEFINE part == PartOf(ps, i)
           f == [q \in Refunds |-> part[q].subtotal]
           g == [q \in Refunds |-> part[q].tax]
<1>1. /\ ps \in [Refunds -> [Items -> Part]] /\ Left(ps, i) \in Part
  BY DEF PartsHold
<1>2. part \in [Refunds -> Part] /\ Left(ps, i) = LeftOf(part, i)
  BY <1>1, LeftIs
<1>3. \A q \in Refunds : f[q] \in Nat /\ g[q] \in Nat
  <2> HIDE DEF part
  <2> QED
    BY <1>2 DEF Part
<1>4. Left(ps, i) = [subtotal |-> Subtotal[i] - Sum(f, Refunds), tax |-> Tax[i] - Sum(g, Refunds)]
  BY <1>2 DEF LeftOf
<1> HIDE DEF f, g
<1>5. Sum(f, Refunds) \in Nat
  BY <1>3, Finite, SumNat
<1>6. Sum(g, Refunds) \in Nat
  BY <1>3, Finite, SumNat
<1>7. Subtotal[i] \in Nat /\ Tax[i] \in Nat
  BY AmountsAssumption
<1> QED
  BY <1>1, <1>4, <1>5, <1>6, <1>7 DEF Part

\* Each planned price part is the exact proportion of what the item had left, rounded.
LEMMA PlannedRounds ==
  ASSUME NEW ps, PartsHold(ps), NEW new, Assignable(ps, new),
         NEW r \in Refunds, NEW i \in Items, new[r][i] > 0,
         NEW left, left = LeftFor(ps, WithComponents(ps, new), r, i)
  PROVE WithComponents(ps, new)[r][i].subtotal
          = (2 * new[r][i] * left.subtotal + Minor(left)) \div (2 * Minor(left))
<1> DEFINE after == WithComponents(ps, new)
           part == PartOf(after, i)
           amount == new[r][i]
<1>1. after \in [Refunds -> [Items -> Part]] /\ Left(after, i) \in Part
  <2>1. PartsHold(after)
    BY AfterIs
  <2> QED
    BY <2>1 DEF PartsHold
<1>2. part \in [Refunds -> Part] /\ LeftOf(part, i) \in Part /\ part[r] = after[r][i]
  <2> HIDE DEF after
  <2>1. Left(after, i) = LeftOf(part, i) /\ part \in [Refunds -> Part]
    BY <1>1, LeftIs
  <2>2. part[r] = after[r][i]
    BY DEF PartOf
  <2> QED
    BY <1>1, <2>1, <2>2
<1>3. Minor(after[r][i]) = amount /\ after[r][i] = Split(LeftBefore(part, i, r), amount)
  BY AfterIs
<1>4. left = LeftBefore(part, i, r)
  BY LeftForIs
<1>5. amount \in Nat /\ amount > 0
  BY DEF Assignable, Amounts
<1> HIDE DEF after, part, amount
<1>6. left \in Part /\ Minor(part[r]) <= Minor(left)
  BY <1>2, <1>4, LeftBeforeType
<1>7. Minor(left) > 0
  <2>1. Minor(left) \in Nat
    BY <1>6 DEF Part, Minor
  <2> QED
    BY <1>2, <1>3, <1>5, <1>6, <2>1
<1>8. Split(left, amount).subtotal
        = (2 * amount * left.subtotal + Minor(left)) \div (2 * Minor(left))
  BY <1>5, <1>6, <1>7, SplitRounds
<1>9. after[r][i].subtotal = (2 * amount * left.subtotal + Minor(left)) \div (2 * Minor(left))
  BY <1>3, <1>4, <1>8
<1> QED
  BY <1>9 DEF after, amount

\* An automatic attribution never fails, is exact to the unit and rounds every price part
\* to the nearest unit, whatever was attributed before by hand or automatically.
THEOREM AttributesExactly ==
  ASSUME NEW ps, NEW succ, Attributable(succ, ps)
  PROVE IsExact(succ, ps)
<1> DEFINE state == AllocationState(succ, ps)
           new == NewAmounts(succ, ps)
           after == WithComponents(ps, new)
           rounds(r, i) ==
             LET left == LeftFor(ps, after, r, i)
                 whole == Minor(left)
             IN new[r][i] > 0 =>
                  after[r][i].subtotal =
                    (2 * new[r][i] * left.subtotal + whole) \div (2 * whole)
           exact ==
             /\ ~Rejected(ps, new)
             /\ \A r \in succ : RefundRest(after, r) = 0
             /\ \A i \in Items :
                  /\ ItemCount > 1 => FullyAllocated(after, i)
                  /\ Left(after, i).subtotal \in 0 .. Subtotal[i]
                  /\ Left(after, i).tax \in 0 .. Tax[i]
                  /\ \A r \in Refunds : rounds(r, i)
<1>1. state = "exception" <=> RefundedBy(succ) > OrderTotal
  BY ExceptionIs
<1>2. ASSUME state = "allocated", ~OutOfOrder(ps, new) PROVE exact
  <2> HIDE DEF new
  <2>1. PartsHold(ps) /\ new = NewAmounts(succ, ps)
    BY DEF Attributable, new
  <2>2. /\ Assignable(ps, new)
        /\ \A r \in succ : RefundRest(after, r) = 0
        /\ ItemCount > 1 => \A i \in Items : FullyAllocated(after, i)
    BY <1>2, <2>1, AllocatedInFull
  <2>3. ~Rejected(ps, new) /\ PartsHold(after)
    BY <2>1, <2>2, AfterIs
  <2>4. \A i \in Items : /\ Left(after, i).subtotal \in 0 .. Subtotal[i]
                         /\ Left(after, i).tax \in 0 .. Tax[i]
    <3> HIDE DEF after
    <3> QED
      BY <2>3, LeftWithin
  <2>5. \A i \in Items, r \in Refunds : rounds(r, i)
    BY <2>1, <2>2, PlannedRounds
  <2> HIDE DEF after, rounds
  <2> QED
    BY <2>2, <2>3, <2>4, <2>5
<1>3. IsExact(succ, ps) <=>
        /\ state = "exception" <=> RefundedBy(succ) > OrderTotal
        /\ state = "allocated" /\ ~OutOfOrder(ps, new) => exact
  BY DEF IsExact
<1> HIDE DEF state, new, exact
<1> QED
  BY <1>1, <1>2, <1>3

-----------------------------------------------------------------------------
(* The refunds, disputes and grants: the inductive invariant *)

\* A refund is attributed in full or not at all, and its attribution says which.
RefundHolds(ps, rf, r) ==
  /\ RefundAllocated(ps, r) \in IF rf[r].status = "succeeded" THEN {0, Amount[r]} ELSE {0}
  /\ rf[r].attribution = "finalized" => RefundAllocated(ps, r) = Amount[r]
  /\ rf[r].attribution \in {"needs_review", "draft"} => RefundAllocated(ps, r) = 0

\* Nothing is attributed or disputed before the payment is fulfilled.
UnpaidHolds == ~paid => parts = Nothing /\ \A d \in Disputes : dispute[d].status = "none"

\* The news of an event has not happened yet; the event is the last that has.
Unsent == {"unsent", "never"}
LatestSent(o, n) ==
  event[o][n] \notin Unsent /\ \A m \in Times : m > n => event[o][m] \in Unsent

\* Events happen in the order of their numbers.
EventsHold(o) ==
  /\ \A n, m \in Times : n < m =>
       /\ event[o][n] \in Unsent => event[o][m] \in Unsent
       /\ event[o][n] = "never" => event[o][m] = "never"
  /\ provider[o] = "none" <=> \A n \in Times : event[o][n] \in Unsent
  /\ provider[o] \in IF o \in Refunds THEN RefundStatus ELSE DisputeStatus

\* The provider's status is or was this one.
WasRefund(now, status) ==
  \/ status = "pending"
  \/ status = "succeeded" /\ now \in {"succeeded", "failed"}
  \/ status = "failed" /\ now = "failed"
WasDispute(now, status) == status = "open" \/ (status \in {"won", "lost"} /\ now = status)
Was(o, status) ==
  IF o \in Refunds THEN WasRefund(provider[o], status) ELSE WasDispute(provider[o], status)

\* What was read was true, and still is if nothing has happened since.
ReadHolds(x) ==
  /\ event[x.object][x.time] \notin Unsent
  /\ Was(x.object, x.status)
  /\ LatestSent(x.object, x.time) => x.status = provider[x.object]

\* The local status was the provider's, and is when the last event has been handled.
LocalRefundHolds(r) ==
  /\ refund[r].status = "none" \/ Was(r, refund[r].status)
  /\ provider[r] = "none" => refund[r].status = "none"
  /\ \A n \in Times : LatestSent(r, n) /\ event[r][n] # "pending" =>
       \/ refund[r].status = provider[r]
       \/ /\ refund[r].status = "succeeded" /\ provider[r] = "failed"
          /\ \E m \in Times : event[r][m] = "exception"
LocalDisputeHolds(d) ==
  /\ dispute[d].status = "none" \/ Was(d, dispute[d].status)
  /\ provider[d] = "none" => dispute[d].status = "none"
  /\ \A n \in Times : event[d][n] \in Unsent => dispute[d].at < n
  /\ \A n \in Times : LatestSent(d, n) /\ event[d][n] # "pending" =>
       dispute[d] = [status |-> provider[d], at |-> n]

AccessType == TypeOK /\ draft \in [Refunds -> Proposals \cup {NoDraft}]
Money == PartsHold(parts) /\ SplitHolds(parts) /\ UnpaidHolds /\ \A r \in Refunds : RefundHolds(parts, refund, r)
News ==
  /\ \A o \in Objects : EventsHold(o)
  /\ \A x \in reads : ReadHolds(x)
  /\ \A r \in Refunds : LocalRefundHolds(r)
  /\ \A d \in Disputes : LocalDisputeHolds(d)
AccessInv == AccessType /\ Money /\ News /\ AccessFollowsFacts

\* An attribution that keeps what there was.
Grows(ps, after) ==
  /\ PartsHold(after) /\ SplitHolds(after)
  /\ \A r \in Refunds, i \in Items : Minor(ps[r][i]) > 0 => after[r][i] = ps[r][i]
  /\ \A i \in Items : FullyAllocated(ps, i) => FullyAllocated(after, i)

\* Planning new amounts keeps what there was.
LEMMA PlanGrows ==
  ASSUME NEW ps, PartsHold(ps), SplitHolds(ps), NEW new, Assignable(ps, new)
  PROVE Grows(ps, WithComponents(ps, new))
<1>1. ASSUME NEW r \in Refunds, NEW i \in Items, Minor(ps[r][i]) > 0
      PROVE WithComponents(ps, new)[r][i] = ps[r][i]
  <2>1. ps[r][i] # NoPart
    BY <1>1 DEF Minor, NoPart
  <2>2. new[r][i] \in Nat /\ ~(new[r][i] > 0)
    BY <2>1 DEF Assignable, Amounts
  <2>3. new[r][i] = 0
    BY <2>2
  <2> QED
    BY <2>3, AfterIs
<1> QED
  BY <1>1, AfterIs, AfterSplit, AfterAllocated DEF Grows

\* What is read about a refund or a dispute is a status of one.
LEMMA ReadIs ==
  ASSUME AccessType, News, NEW x \in reads
  PROVE /\ x.object \in Objects /\ x.time \in Times
        /\ x.object \in Refunds => WasRefund(provider[x.object], x.status) /\ x.status \in RefundStatus \ {"none"}
        /\ x.object \in Disputes =>
             /\ x.object \notin Refunds
             /\ WasDispute(provider[x.object], x.status) /\ x.status \in DisputeStatus \ {"none"}
<1>1. x \in Reads /\ ReadHolds(x)
  BY DEF AccessType, TypeOK, News
<1>2. x.object \in Objects /\ x.time \in Times
  BY <1>1 DEF Reads
<1>3. x.object \in Disputes => x.object \notin Refunds
  BY ObjectsAssumption
<1>4. Was(x.object, x.status)
  BY <1>1 DEF ReadHolds
<1> QED
  BY <1>2, <1>3, <1>4 DEF Was, WasRefund, WasDispute, RefundStatus, DisputeStatus

\* What a refund event does.
LEMMA RefundEventIs ==
  ASSUME AccessInv, NEW x \in reads, FulfillRefundEvent(x)
  PROVE \/ /\ RefundConflict(x.object, x.status)
           /\ event' = Completed(x, "exception")
           /\ UNCHANGED <<refund, parts, grant, entitlement>>
        \/ /\ ~RefundConflict(x.object, x.status)
           /\ event' = Completed(x, "processed") \/ event' = Completed(x, "exception")
           /\ refund' \in [Refunds -> [status : RefundStatus, attribution : Attribution]]
           /\ \A q \in Refunds : refund'[q].status =
                IF q = x.object THEN StoredRefund(x.object, x.status).status ELSE refund[q].status
           /\ \A q \in Refunds : RefundHolds(parts', refund', q)
           /\ Grows(parts, parts')
           /\ grant' = Recomputed(parts') \/ (parts' = parts /\ grant' = grant)
           /\ entitlement' = Projected(Changed(grant'), grant', recovery)
<1> DEFINE r == x.object
           stored == [refund EXCEPT ![r] = StoredRefund(r, x.status)]
           succ == Succeeded(stored)
           new == NewAmounts(succ, parts)
           first == AllocationState(succ, parts)
           state == OutOfOrderResult(first, new)
           after == IF state = "allocated" THEN WithComponents(parts, new) ELSE parts
           access == IF state \in {"allocated", "noop"} THEN Recomputed(after) ELSE grant
           attribution == NextAttribution(stored, state, after)
           conflict == RefundConflict(r, x.status)
<1>0. AccessType /\ Money /\ News
  BY DEF AccessInv
<1>1. /\ r \in Refunds
      /\ IF conflict \/ (state = "allocated" /\ Rejected(parts, new))
         THEN /\ event' = Completed(x, "exception")
              /\ UNCHANGED <<refund, parts, grant, entitlement>>
         ELSE /\ event' = Completed(x, IF state \in {"allocated", "noop"}
                                       THEN "processed" ELSE "exception")
              /\ refund' = [q \in Refunds |->
                   [status |-> stored[q].status, attribution |-> attribution[q]]]
              /\ parts' = after
              /\ grant' = access
              /\ entitlement' = Projected(Changed(access), access, recovery)
  BY DEF FulfillRefundEvent
<1>2. refund \in [Refunds -> [status : RefundStatus, attribution : Attribution]]
  BY <1>0 DEF AccessType, TypeOK
<1>3. x.status \in RefundStatus
  BY <1>0, <1>1, ReadIs
<1>4. /\ StoredRefund(r, x.status) \in [status : RefundStatus, attribution : Attribution]
      /\ refund[r].status = "succeeded" => StoredRefund(r, x.status).status = "succeeded"
  BY <1>1, <1>2, <1>3 DEF StoredRefund, RefundStatus, Attribution
<1>5. /\ stored \in [Refunds -> [status : RefundStatus, attribution : Attribution]]
      /\ \A q \in Refunds : /\ stored[q].status = IF q = r THEN StoredRefund(r, x.status).status ELSE refund[q].status
                            /\ refund[q].status = "succeeded" => stored[q].status = "succeeded"
  BY <1>1, <1>2, <1>4
<1> HIDE DEF stored
<1>6. succ \subseteq Refunds /\ \A q \in Refunds : q \in succ <=> stored[q].status = "succeeded"
  BY DEF Succeeded
<1>7. /\ PartsHold(parts) /\ SplitHolds(parts)
      /\ parts \in [Refunds -> [Items -> Part]]
      /\ \A q \in Refunds : RefundAllocated(parts, q) \in IF refund[q].status = "succeeded" THEN {0, Amount[q]} ELSE {0}
  BY <1>0 DEF Money, RefundHolds, PartsHold
<1>8. \A q \in Refunds : RefundAllocated(parts, q) \in IF q \in succ THEN {0, Amount[q]} ELSE {0}
  BY <1>5, <1>6, <1>7
<1> HIDE DEF succ, new, first
<1>9. state = "allocated" => first = "allocated" /\ ~OutOfOrder(parts, new)
  BY DEF OutOfOrderResult
<1>10. ASSUME state = "allocated"
       PROVE /\ ~Rejected(parts, new)
             /\ Grows(parts, WithComponents(parts, new))
             /\ \A q \in Refunds : RefundAllocated(WithComponents(parts, new), q) \in IF q \in succ THEN {0, Amount[q]} ELSE {0}
  <2>1. /\ ~OutOfOrder(parts, new) => Assignable(parts, new)
        /\ \A q \in succ : RefundAllocated(parts, q) + Sum(new[q], Items) = Amount[q]
        /\ \A q \in Refunds \ succ : Sum(new[q], Items) = 0
    BY <1>6, <1>7, <1>8, <1>9, <1>10, NewAmountsAre DEF new, first
  <2>2. Assignable(parts, new)
    BY <1>9, <1>10, <2>1
  <2>3. \A q \in Refunds : RefundAllocated(WithComponents(parts, new), q) = RefundAllocated(parts, q) + Sum(new[q], Items)
    BY <1>7, <2>2, AfterAllocated
  <2>4. \A q \in Refunds : RefundAllocated(WithComponents(parts, new), q) \in IF q \in succ THEN {0, Amount[q]} ELSE {0}
    BY <1>8, <2>1, <2>3
  <2> QED
    BY <1>7, <2>2, <2>4, AfterIs, PlanGrows
<1> HIDE DEF state
<1>11. /\ Grows(parts, after)
       /\ \A q \in Refunds : RefundAllocated(after, q) \in IF q \in succ THEN {0, Amount[q]} ELSE {0}
  <2>1. CASE state = "allocated"
    BY <1>10, <2>1
  <2>2. CASE state # "allocated"
    BY <1>7, <1>8, <2>2 DEF Grows
  <2> QED
    BY <2>1, <2>2
<1>12. CASE conflict
  BY <1>1, <1>12
<1>13. CASE ~conflict
  <2>1. /\ event' = Completed(x, IF state \in {"allocated", "noop"} THEN "processed" ELSE "exception")
        /\ refund' = [q \in Refunds |-> [status |-> stored[q].status, attribution |-> attribution[q]]]
        /\ parts' = after
        /\ grant' = access
        /\ entitlement' = Projected(Changed(access), access, recovery)
    BY <1>1, <1>10, <1>13
  <2>2. \A q \in Refunds : refund'[q].status = stored[q].status /\ refund'[q].attribution = attribution[q]
    BY <2>1
  <2>3. \A q \in Refunds :
          /\ attribution[q] \in Attribution
          /\ attribution[q] = "finalized" => RefundAllocated(after, q) = Amount[q]
          /\ attribution[q] \in {"needs_review", "draft"} =>
               stored[q].status = "succeeded" /\ RefundAllocated(after, q) # Amount[q]
    <3> HIDE DEF after
    <3> QED
      BY DEF NextAttribution, Attribution
  <2>4. refund' \in [Refunds -> [status : RefundStatus, attribution : Attribution]]
    <3> HIDE DEF attribution
    <3> QED
      BY <1>5, <2>1, <2>3
  <2> HIDE DEF attribution
  <2>5. \A q \in Refunds : RefundHolds(parts', refund', q)
    <3> TAKE q \in Refunds
    <3>1. RefundAllocated(parts', q) = RefundAllocated(after, q)
      BY <2>1
    <3> HIDE DEF after
    <3> QED
      BY <1>6, <1>11, <2>2, <2>3, <3>1 DEF RefundHolds
  <2>6. grant' = Recomputed(parts') \/ (parts' = parts /\ grant' = grant)
    <3>1. CASE state \in {"allocated", "noop"}
      BY <2>1, <3>1
    <3>2. CASE state \notin {"allocated", "noop"}
      BY <2>1, <3>2
    <3> QED
      BY <3>1, <3>2
  <2>7. entitlement' = Projected(Changed(grant'), grant', recovery)
    BY <2>1
  <2>8. event' = Completed(x, "processed") \/ event' = Completed(x, "exception")
    BY <2>1
  <2>9. Grows(parts, parts')
    BY <1>11, <2>1
  <2> HIDE DEF after, access
  <2> QED
    BY <1>5, <1>13, <2>2, <2>4, <2>5, <2>6, <2>7, <2>8, <2>9
<1> QED
  BY <1>12, <1>13

\* What finalizing a draft does.
LEMMA FinalizeIs ==
  ASSUME AccessInv, NEW r \in Refunds, FinalizeRefund(r)
  PROVE /\ Grows(parts, parts')
        /\ \A q \in Refunds : RefundHolds(parts', refund', q)
        /\ grant' = Recomputed(parts')
        /\ entitlement' = Projected(Changed(grant'), grant', recovery)
        /\ effects' \subseteq Items
<1> DEFINE new == [q \in Refunds |-> [i \in Items |-> IF q = r THEN draft[r][i] ELSE 0]]
           after == WithComponents(parts, new)
           access == Recomputed(after)
<1>0. AccessType /\ Money
  BY DEF AccessInv
<1>1. /\ PartsHold(parts) /\ SplitHolds(parts) /\ parts \in [Refunds -> [Items -> Part]]
      /\ \A q \in Refunds : RefundHolds(parts, refund, q)
  BY <1>0 DEF Money, PartsHold
<1>2. /\ refund[r].status = "succeeded" /\ RefundAllocated(parts, r) = 0
      /\ draft[r] # NoDraft /\ InChronology(r, new)
      /\ \A i \in Items : draft[r][i] <= ItemRest(parts, i)
      /\ Proposed(draft[r]) = Amount[r]
  BY DEF FinalizeRefund, Proposable
<1>3. /\ parts' = after /\ refund' = [refund EXCEPT ![r].attribution = "finalized"]
      /\ grant' = access /\ effects' = effects \cup {i \in Changed(access) : draft[r][i] > 0}
      /\ entitlement' = Projected(Changed(access), access, recovery)
  BY DEF FinalizeRefund
<1>4. draft[r] \in [Items -> Nat]
  <2>1. draft[r] \in Proposals
    BY <1>0, <1>2 DEF AccessType
  <2>2. 0 .. OrderTotal \subseteq Nat
    OBVIOUS
  <2> QED
    BY <2>1, <2>2 DEF Proposals
<1>5. /\ new \in Amounts /\ new[r] = draft[r]
      /\ \A q \in Refunds, i \in Items : new[q][i] = IF q = r THEN draft[r][i] ELSE 0
  BY <1>4 DEF Amounts
<1> HIDE DEF new
<1>6. \A i \in Items : Sum(Column(new, i), Refunds) <= ItemRest(parts, i)
  <2> TAKE i \in Items
  <2> DEFINE f == Column(new, i)
  <2>1. \A q \in Refunds : f[q] \in Nat /\ (q # r => f[q] = 0) /\ f[r] = draft[r][i]
    BY <1>4, <1>5 DEF Column
  <2> HIDE DEF f
  <2>2. Sum(f, Refunds) = f[r] + Sum(f, Refunds \ {r})
    BY <2>1, SumRemove, Finite
  <2>3. Sum(f, Refunds \ {r}) = 0
    <3>1. IsFiniteSet(Refunds \ {r}) /\ \A q \in Refunds \ {r} : f[q] \in Nat /\ f[q] = 0
      BY <2>1, Finite, FS_Subset
    <3> QED
      BY <3>1, SumZero
  <2>4. Sum(f, Refunds) = draft[r][i]
    BY <2>1, <2>2, <2>3
  <2> QED
    BY <1>2, <2>4 DEF f
<1>7. Assignable(parts, new)
  <2>1. \A q \in Refunds, i \in Items : new[q][i] > 0 => parts[q][i] = NoPart
    <3>1. \A i \in Items : parts[r][i] = NoPart
      BY <1>1, <1>2, RefundAllocatedIs
    <3>2. \A q \in Refunds, i \in Items : new[q][i] > 0 => q = r
      BY <1>5
    <3> QED
      BY <3>1, <3>2
  <2>2. ~OutOfOrder(parts, new)
    BY <1>2 DEF InChronology
  <2> QED
    BY <1>5, <1>6, <2>1, <2>2 DEF Assignable
<1>8. Grows(parts, after)
  BY <1>1, <1>7, PlanGrows
<1>9. \A q \in Refunds : RefundAllocated(after, q) = IF q = r THEN Amount[r] ELSE RefundAllocated(parts, q)
  <2> TAKE q \in Refunds
  <2>1. RefundAllocated(after, q) = RefundAllocated(parts, q) + Sum(new[q], Items)
    BY <1>1, <1>7, AfterAllocated
  <2>2. CASE q = r
    <3>1. Sum(new[r], Items) = Amount[r]
      BY <1>2, <1>4, <1>5, SumFunctionIs DEF Proposed
    <3>2. Amount[r] \in Nat
      BY AmountsAssumption
    <3> QED
      BY <1>2, <2>1, <2>2, <3>1, <3>2
  <2>3. CASE q # r
    <3> DEFINE f == new[q]
    <3>1. \A i \in Items : f[i] = 0
      BY <1>5, <2>3
    <3> HIDE DEF f
    <3>2. Sum(f, Items) = 0
      BY <3>1, SumZero, Finite
    <3>3. RefundAllocated(parts, q) \in Nat
      BY <1>1, RefundAllocatedIs
    <3> QED
      BY <2>1, <2>3, <3>2, <3>3 DEF f
  <2> QED
    BY <2>2, <2>3
<1> HIDE DEF after
<1>10. \A q \in Refunds : RefundHolds(parts', refund', q)
  <2> TAKE q \in Refunds
  <2>1. refund \in [Refunds -> [status : RefundStatus, attribution : Attribution]]
    BY <1>0 DEF AccessType, TypeOK
  <2>2. RefundAllocated(parts', q) = RefundAllocated(after, q)
    BY <1>3
  <2>3. CASE q = r
    <3>1. refund'[q].status = "succeeded" /\ refund'[q].attribution = "finalized"
      BY <1>2, <1>3, <2>1, <2>3
    <3> QED
      BY <1>9, <2>2, <2>3, <3>1 DEF RefundHolds
  <2>4. CASE q # r
    <3>1. refund'[q] = refund[q]
      BY <1>3, <2>1, <2>4
    <3> QED
      BY <1>1, <1>9, <2>2, <2>4, <3>1 DEF RefundHolds
  <2> QED
    BY <2>3, <2>4
<1>11. effects' \subseteq Items
  <2>1. effects \subseteq Items /\ Changed(access) \subseteq Items
    BY <1>0 DEF AccessType, TypeOK, Changed
  <2> QED
    BY <1>3, <2>1
<1>12. Grows(parts, parts')
  BY <1>3, <1>8
<1> QED
  BY <1>3, <1>10, <1>11, <1>12

\* What the buyer may read, as the stored facts say.
Fact(i, isPaid, lost, open, ps, hasUser) ==
  IF ~isPaid THEN "none"
  ELSE IF lost \/ FullyAllocated(ps, i) THEN "revoked"
  ELSE IF open THEN "suspended"
  ELSE IF hasUser THEN "active" ELSE "unclaimed"
Lost(ds) == \E d \in Disputes : ds[d].status = "lost"
Open(ds) == \E d \in Disputes : ds[d].status = "open"
Readable(g, rec, hasUser, e) == \A i \in Items : e[i] <=> hasUser /\ Effective(g, rec, i)

\* The property, in these terms.
LEMMA FactsAre ==
  AccessFollowsFacts <=>
    /\ \A i \in Items : grant[i] = Fact(i, paid, Lost(dispute), Open(dispute), parts, owner)
    /\ Readable(grant, recovery, owner, entitlement)
BY DEF AccessFollowsFacts, Fact, Lost, Open, Readable

\* Projecting the changed grants is enough.
LEMMA ProjectedIs ==
  ASSUME AccessType, AccessFollowsFacts, NEW g \in [Items -> GrantState], owner' = owner, recovery' = recovery,
         entitlement' = Projected(Changed(g), g, recovery)
  PROVE Readable(g, recovery, owner, entitlement')
<1> SUFFICES ASSUME NEW i \in Items PROVE entitlement'[i] <=> owner /\ Effective(g, recovery, i)
  BY DEF Readable
<1>1. entitlement[i] <=> owner /\ Effective(grant, recovery, i)
  BY DEF AccessFollowsFacts
<1>2. entitlement'[i] = IF i \in Changed(g) /\ owner THEN Effective(g, recovery, i) ELSE entitlement[i]
  BY DEF Projected
<1>3. CASE i \in Changed(g)
  BY <1>1, <1>2, <1>3
<1>4. CASE i \notin Changed(g)
  <2>1. g[i] = grant[i]
    BY <1>4 DEF Changed
  <2> QED
    BY <1>1, <1>2, <1>4, <2>1 DEF Effective
<1> QED
  BY <1>3, <1>4

\* Revoking what is fully refunded follows the facts.
LEMMA RecomputedFollows ==
  ASSUME AccessInv, paid, Grows(parts, parts'), paid' = paid, owner' = owner, recovery' = recovery, dispute' = dispute,
         grant' = Recomputed(parts') \/ (parts' = parts /\ grant' = grant),
         entitlement' = Projected(Changed(grant'), grant', recovery)
  PROVE AccessFollowsFacts' /\ grant' \in [Items -> GrantState] /\ entitlement' \in [Items -> BOOLEAN]
<1>0. AccessType /\ AccessFollowsFacts
  BY DEF AccessInv
<1>1. grant \in [Items -> GrantState] /\ entitlement \in [Items -> BOOLEAN]
  BY <1>0 DEF AccessType, TypeOK
<1>2. grant' \in [Items -> GrantState]
  BY <1>1 DEF Recomputed, GrantState
<1>3. Readable(grant', recovery, owner, entitlement')
  BY <1>0, <1>2, ProjectedIs
<1>4. \A i \in Items : grant'[i] = Fact(i, paid, Lost(dispute), Open(dispute), parts', owner)
  <2> TAKE i \in Items
  <2>1. grant[i] = Fact(i, paid, Lost(dispute), Open(dispute), parts, owner)
    BY <1>0, FactsAre
  <2>2. FullyAllocated(parts, i) => FullyAllocated(parts', i)
    BY DEF Grows
  <2>3. CASE grant' = Recomputed(parts')
    <3>1. grant'[i] = IF FullyAllocated(parts', i) THEN "revoked" ELSE grant[i]
      BY <2>3 DEF Recomputed
    <3> QED
      BY <2>1, <2>2, <3>1 DEF Fact
  <2>4. CASE parts' = parts /\ grant' = grant
    BY <2>1, <2>4
  <2> QED
    BY <2>3, <2>4
<1>5. entitlement' \in [Items -> BOOLEAN]
  BY <1>1 DEF Projected, Effective
<1>6. AccessFollowsFacts'
  BY <1>3, <1>4 DEF AccessFollowsFacts, Fact, Lost, Open, Readable
<1> QED
  BY <1>2, <1>5, <1>6

-----------------------------------------------------------------------------
(* The news *)

\* Steps that change no status keep the news.
LEMMA NewsKept ==
  ASSUME News, event' = event, provider' = provider, dispute' = dispute, reads' \subseteq reads,
         \A q \in Refunds : refund'[q].status = refund[q].status
  PROVE News'
<1>1. \A o \in Objects : EventsHold(o)'
  BY DEF News, EventsHold
<1>2. \A x \in reads' : ReadHolds(x)'
  BY DEF News, ReadHolds, LatestSent, Was
<1>3. \A q \in Refunds : LocalRefundHolds(q)'
  BY DEF News, LocalRefundHolds, LatestSent, Was
<1>4. \A d \in Disputes : LocalDisputeHolds(d)'
  BY DEF News, LocalDisputeHolds, LatestSent, Was
<1> QED
  BY <1>1, <1>2, <1>3, <1>4 DEF News

\* A read of what the provider says now.
LEMMA RetrieveKeepsNews ==
  ASSUME AccessType, News, NEW o \in Objects, NEW n \in Times, RetrieveObject(o, n)
  PROVE News'
<1> DEFINE new == [object |-> o, time |-> n, status |-> provider[o]]
<1>1. /\ event[o][n] = "pending" /\ reads' = reads \cup {new}
      /\ event' = event /\ provider' = provider /\ dispute' = dispute /\ refund' = refund
  BY DEF RetrieveObject
<1>2. EventsHold(o)
  BY DEF News
<1>3. event[o][n] \notin Unsent
  BY <1>1 DEF Unsent
<1>4. provider[o] # "none" /\ provider[o] \in IF o \in Refunds THEN RefundStatus ELSE DisputeStatus
  BY <1>2, <1>3 DEF EventsHold
<1>5. Was(o, provider[o])
  BY <1>4 DEF Was, WasRefund, WasDispute, RefundStatus, DisputeStatus
<1>6. new.object = o /\ new.time = n /\ new.status = provider[o]
  OBVIOUS
<1>7. ASSUME NEW x, x = new PROVE ReadHolds(x)'
  <2>1. x.object = o /\ x.time = n /\ x.status = provider[o]
    BY <1>6, <1>7
  <2> QED
    BY <1>1, <1>3, <1>5, <2>1 DEF ReadHolds, Was
<1>8. \A x \in reads : ReadHolds(x)'
  BY <1>1 DEF News, ReadHolds, LatestSent, Was
<1>9. \A x \in reads' : ReadHolds(x)'
  <2> HIDE DEF new
  <2> QED
    BY <1>1, <1>7, <1>8
<1>10. \A e \in Objects : EventsHold(e)'
  BY <1>1 DEF News, EventsHold
<1>11. \A q \in Refunds : LocalRefundHolds(q)'
  BY <1>1 DEF News, LocalRefundHolds, LatestSent, Was
<1>12. \A d \in Disputes : LocalDisputeHolds(d)'
  BY <1>1 DEF News, LocalDisputeHolds, LatestSent, Was
<1> QED
  BY <1>9, <1>10, <1>11, <1>12 DEF News

\* A change at the provider: what was true stays a truth of the past.
LEMMA ProviderKeepsNews ==
  ASSUME AccessType, News, NEW o \in Objects, NEW n \in Times, ProviderChanges(o, n)
  PROVE News' /\ provider' \in [Objects -> RefundStatus \cup DisputeStatus]
<1>1. /\ event[o][n] = "unsent" /\ (n > 1 => event[o][n - 1] # "unsent")
      /\ provider' \in {[provider EXCEPT ![o] = s] : s \in Later(o)}
      /\ event' = [event EXCEPT ![o][n] = "pending"]
      /\ UNCHANGED <<reads, refund, dispute>>
  BY DEF ProviderChanges
<1>2. PICK s \in Later(o) : provider' = [provider EXCEPT ![o] = s]
  BY <1>1
<1>3. /\ provider \in [Objects -> RefundStatus \cup DisputeStatus]
      /\ event \in [Objects -> [Times -> {"unsent", "pending", "processed", "exception", "never"}]]
      /\ reads \subseteq Reads
  BY DEF AccessType, TypeOK
<1>4. /\ \A e \in Objects : provider'[e] = IF e = o THEN s ELSE provider[e]
      /\ \A e \in Objects, m \in Times : event'[e][m] = IF e = o /\ m = n THEN "pending" ELSE event[e][m]
  BY <1>1, <1>2, <1>3
<1>5. /\ \A e \in Objects : EventsHold(e)
      /\ \A m \in Times : m \in Int
  BY DEF News, Times
<1>6. /\ s # "none" /\ s \in IF o \in Refunds THEN RefundStatus ELSE DisputeStatus
      /\ \A status : Was(o, status) => IF o \in Refunds THEN WasRefund(s, status) ELSE WasDispute(s, status)
  BY <1>2 DEF Later, Was, WasRefund, WasDispute, RefundStatus, DisputeStatus
<1>7. /\ \A m \in Times : m > n => event[o][m] \in Unsent
      /\ \A m \in Times : m < n => event[o][m] \notin Unsent
  <2>1. \A a, b \in Times : a < b =>
           /\ event[o][a] \in Unsent => event[o][b] \in Unsent
           /\ event[o][a] = "never" => event[o][b] = "never"
    BY <1>5 DEF EventsHold
  <2>2. \A m \in Times : m > n => event[o][m] \in Unsent
    BY <1>1, <1>5, <2>1 DEF Unsent
  <2>3. ASSUME NEW m \in Times, m < n PROVE event[o][m] \notin Unsent
    <3>1. n - 1 \in Times /\ n > 1 /\ n - 1 < n /\ (m = n - 1 \/ m < n - 1)
      BY <2>3, BoundsAssumption DEF Times
    <3>2. event[o][n - 1] \notin Unsent
      BY <1>1, <2>1, <3>1 DEF Unsent
    <3> QED
      BY <2>1, <3>1, <3>2
  <2> QED
    BY <2>2, <2>3
<1>8. \A e \in Objects, m \in Times : event'[e][m] \in Unsent <=> event[e][m] \in Unsent /\ ~(e = o /\ m = n)
  BY <1>4 DEF Unsent
<1>9. \A e \in Objects : EventsHold(e)'
  <2> TAKE e \in Objects
  <2>1. CASE e # o
    <3>1. \A m \in Times : event'[e][m] = event[e][m]
      BY <1>4, <2>1
    <3>2. provider'[e] = provider[e]
      BY <1>4, <2>1
    <3>3. EventsHold(e)
      BY <1>5
    <3> QED
      BY <3>1, <3>2, <3>3 DEF EventsHold
  <2>2. CASE e = o
    <3>1. provider'[e] = s /\ event'[e][n] \notin Unsent
      BY <1>4, <2>2 DEF Unsent
    <3>2. \A a, b \in Times : a < b =>
           /\ event'[e][a] \in Unsent => event'[e][b] \in Unsent
           /\ event'[e][a] = "never" => event'[e][b] = "never"
      <4> TAKE a, b \in Times
      <4> HAVE a < b
      <4>1. /\ event[e][a] \in Unsent => event[e][b] \in Unsent
            /\ event[e][a] = "never" => event[e][b] = "never"
        BY <1>5 DEF EventsHold
      <4>2. event'[e][a] \in Unsent => event'[e][b] \in Unsent
        BY <1>5, <1>7, <1>8, <2>2, <4>1
      <4>3. event'[e][a] = "never" => event'[e][b] = "never"
        <5>1. event'[e][a] = "never" => a # n /\ event[e][a] = "never" /\ event[e][a] \in Unsent
          BY <1>4, <2>2 DEF Unsent
        <5>2. b = n => event[e][a] \notin Unsent
          BY <1>7, <2>2
        <5> QED
          BY <1>4, <4>1, <5>1, <5>2
      <4> QED
        BY <4>2, <4>3
    <3> QED
      BY <1>6, <2>2, <3>1, <3>2 DEF EventsHold
  <2> QED
    BY <2>1, <2>2
<1>10. /\ \A e \in Objects, m \in Times : e # o => (LatestSent(e, m)' <=> LatestSent(e, m))
       /\ \A m \in Times : LatestSent(o, m)' => m = n
  <2>1. \A e \in Objects, m \in Times : e # o => (LatestSent(e, m)' <=> LatestSent(e, m))
    BY <1>4 DEF LatestSent
  <2>2. ASSUME NEW m \in Times, LatestSent(o, m)' PROVE m = n
    <3>1. event'[o][m] \notin Unsent /\ \A k \in Times : k > m => event'[o][k] \in Unsent
      BY <2>2 DEF LatestSent
    <3>2. event'[o][n] \notin Unsent
      BY <1>8
    <3>3. m > n => event'[o][m] \in Unsent
      BY <1>5, <1>7, <1>8
    <3> QED
      BY <1>5, <3>1, <3>2, <3>3
  <2> QED
    BY <2>1, <2>2
<1>11. \A e \in Objects : \A status : Was(e, status) => Was(e, status)'
  BY <1>4, <1>6 DEF Was
<1>12. \A x \in reads' : ReadHolds(x)'
  <2> TAKE x \in reads'
  <2>1. x \in reads /\ x.object \in Objects /\ x.time \in Times /\ ReadHolds(x)
    BY <1>1, <1>3 DEF News, Reads
  <2>2. event'[x.object][x.time] \notin Unsent /\ ~(x.object = o /\ x.time = n)
    BY <1>1, <1>8, <2>1 DEF ReadHolds, Unsent
  <2>3. Was(x.object, x.status)'
    BY <1>11, <2>1 DEF ReadHolds, Was
  <2>4. LatestSent(x.object, x.time)' => x.status = provider'[x.object]
    BY <1>4, <1>10, <2>1, <2>2 DEF ReadHolds
  <2> QED
    BY <2>2, <2>3, <2>4 DEF ReadHolds
<1>13. \A r \in Refunds : LocalRefundHolds(r)'
  <2> TAKE r \in Refunds
  <2>1. r \in Objects /\ LocalRefundHolds(r) /\ refund' = refund
    BY <1>1 DEF News, Objects
  <2>2. refund[r].status = "none" \/ Was(r, refund[r].status)'
    BY <1>11, <2>1 DEF LocalRefundHolds
  <2>3. provider'[r] = "none" => refund[r].status = "none"
    BY <1>4, <1>6, <2>1 DEF LocalRefundHolds
  <2>4. ASSUME NEW m \in Times, LatestSent(r, m)', event'[r][m] # "pending"
        PROVE \/ refund[r].status = provider'[r]
              \/ /\ refund[r].status = "succeeded" /\ provider'[r] = "failed"
                 /\ \E k \in Times : event'[r][k] = "exception"
    <3>1. r # o
      BY <1>4, <1>10, <2>1, <2>4
    <3>2. LatestSent(r, m) /\ event[r][m] # "pending" /\ provider'[r] = provider[r] /\ event'[r] = event[r]
      BY <1>1, <1>3, <1>4, <1>10, <2>1, <2>4, <3>1
    <3> QED
      BY <2>1, <3>2 DEF LocalRefundHolds
  <2> QED
    BY <2>1, <2>2, <2>3, <2>4 DEF LocalRefundHolds, Was
<1>14. \A d \in Disputes : LocalDisputeHolds(d)'
  <2> TAKE d \in Disputes
  <2>1. d \in Objects /\ LocalDisputeHolds(d) /\ dispute' = dispute
    BY <1>1 DEF News, Objects
  <2>2. dispute[d].status = "none" \/ Was(d, dispute[d].status)'
    BY <1>11, <2>1 DEF LocalDisputeHolds
  <2>3. provider'[d] = "none" => dispute[d].status = "none"
    BY <1>4, <1>6, <2>1 DEF LocalDisputeHolds
  <2>4. ASSUME NEW m \in Times, LatestSent(d, m)', event'[d][m] # "pending"
        PROVE dispute[d] = [status |-> provider'[d], at |-> m]
    <3>1. d # o
      BY <1>4, <1>10, <2>1, <2>4
    <3>2. LatestSent(d, m) /\ event[d][m] # "pending" /\ provider'[d] = provider[d]
      BY <1>4, <1>10, <2>1, <2>4, <3>1
    <3> QED
      BY <2>1, <3>2 DEF LocalDisputeHolds
  <2>5. \A m \in Times : event'[d][m] \in Unsent => dispute[d].at < m
    BY <1>8, <2>1 DEF LocalDisputeHolds
  <2> QED
    BY <2>1, <2>2, <2>3, <2>4, <2>5 DEF LocalDisputeHolds, Was
<1>15. provider' \in [Objects -> RefundStatus \cup DisputeStatus]
  BY <1>2, <1>3, <1>6
<1> QED
  BY <1>9, <1>12, <1>13, <1>14, <1>15 DEF News

\* Handling an event changes what no other event says, and not what has happened.
LEMMA HandledIs ==
  ASSUME AccessType, News, NEW x \in reads, Handled(x),
         event' = Completed(x, "processed") \/ event' = Completed(x, "exception"), provider' = provider
  PROVE /\ \A o \in Objects : EventsHold(o)'
        /\ \A y \in reads' : ReadHolds(y)'
        /\ \A o \in Objects, n \in Times :
             /\ event'[o][n] \in Unsent <=> event[o][n] \in Unsent
             /\ LatestSent(o, n)' <=> LatestSent(o, n)
             /\ ~(o = x.object /\ n = x.time) => event'[o][n] = event[o][n]
        /\ event[x.object][x.time] = "pending"
        /\ event' = Completed(x, "exception") => event'[x.object][x.time] = "exception"
<1>1. /\ event \in [Objects -> [Times -> {"unsent", "pending", "processed", "exception", "never"}]]
      /\ reads \subseteq Reads /\ x.object \in Objects /\ x.time \in Times
      /\ event[x.object][x.time] = "pending" /\ reads' = reads \ {x}
  BY ReadIs DEF AccessType, TypeOK, Handled
<1>2. /\ \A o \in Objects, n \in Times : ~(o = x.object /\ n = x.time) => event'[o][n] = event[o][n]
      /\ event'[x.object][x.time] \in {"processed", "exception"}
      /\ event' = Completed(x, "exception") => event'[x.object][x.time] = "exception"
  BY <1>1 DEF Completed
<1>3. \A o \in Objects, n \in Times :
        /\ event'[o][n] \in Unsent <=> event[o][n] \in Unsent
        /\ event'[o][n] = "never" <=> event[o][n] = "never"
  <2> TAKE o \in Objects, n \in Times
  <2>1. CASE o = x.object /\ n = x.time
    BY <1>1, <1>2, <2>1 DEF Unsent
  <2>2. CASE ~(o = x.object /\ n = x.time)
    BY <1>2, <2>2
  <2> QED
    BY <2>1, <2>2
<1>4. \A o \in Objects, n \in Times : LatestSent(o, n)' <=> LatestSent(o, n)
  BY <1>3 DEF LatestSent
<1>5. \A o \in Objects : EventsHold(o)'
  <2> TAKE o \in Objects
  <2>1. EventsHold(o)
    BY DEF News
  <2> QED
    BY <1>3, <2>1 DEF EventsHold
<1>6. \A y \in reads' : ReadHolds(y)'
  <2> TAKE y \in reads'
  <2>1. y \in reads /\ ReadHolds(y) /\ y.object \in Objects /\ y.time \in Times
    BY <1>1 DEF News, Reads
  <2>2. event'[y.object][y.time] \notin Unsent /\ (LatestSent(y.object, y.time)' => y.status = provider'[y.object])
    BY <1>3, <1>4, <2>1 DEF ReadHolds
  <2>3. Was(y.object, y.status)'
    BY <2>1 DEF ReadHolds, Was
  <2> QED
    BY <2>2, <2>3 DEF ReadHolds
<1> QED
  BY <1>1, <1>2, <1>3, <1>4, <1>5, <1>6

\* A handled refund event leaves the refund's last final status.
LEMMA RefundEventKeepsNews ==
  ASSUME AccessInv, NEW x \in reads, FulfillRefundEvent(x)
  PROVE News'
<1> DEFINE r == x.object
<1>0. /\ AccessType /\ News /\ r \in Refunds /\ Handled(x) /\ provider' = provider /\ dispute' = dispute
      /\ refund \in [Refunds -> [status : RefundStatus, attribution : Attribution]]
  BY DEF AccessInv, FulfillRefundEvent, AccessType, TypeOK
<1>1. /\ r \in Objects /\ x.time \in Times /\ WasRefund(provider[r], x.status)
      /\ ReadHolds(x)
  BY <1>0, ReadIs DEF News
<1>2. event' = Completed(x, "processed") \/ event' = Completed(x, "exception")
  BY RefundEventIs
<1>3. /\ \A o \in Objects : EventsHold(o)'
      /\ \A y \in reads' : ReadHolds(y)'
      /\ \A o \in Objects, n \in Times :
           /\ event'[o][n] \in Unsent <=> event[o][n] \in Unsent
           /\ LatestSent(o, n)' <=> LatestSent(o, n)
           /\ ~(o = x.object /\ n = x.time) => event'[o][n] = event[o][n]
      /\ event[x.object][x.time] = "pending"
      /\ event' = Completed(x, "exception") => event'[x.object][x.time] = "exception"
  BY <1>0, <1>2, HandledIs
<1>4. \A d \in Disputes : LocalDisputeHolds(d)'
  <2> TAKE d \in Disputes
  <2>1. d \in Objects /\ d # r /\ LocalDisputeHolds(d)
    BY <1>0, ObjectsAssumption DEF Objects, News
  <2>2. \A n \in Times : event'[d][n] = event[d][n] /\ (LatestSent(d, n)' <=> LatestSent(d, n))
    BY <1>3, <2>1
  <2> QED
    BY <1>0, <2>1, <2>2 DEF LocalDisputeHolds, Was
<1>5. \A q \in Refunds : q \in Objects /\ LocalRefundHolds(q)
  BY <1>0 DEF Objects, News
<1>6. \A q \in Refunds : \A n \in Times : event[q][n] = "exception" => event'[q][n] = "exception"
  <2> TAKE q \in Refunds
  <2> TAKE n \in Times
  <2> HAVE event[q][n] = "exception"
  <2>1. ~(q = x.object /\ n = x.time)
    BY <1>3
  <2> QED
    BY <1>3, <1>5, <2>1
<1>7. ASSUME NEW q \in Refunds, refund'[q].status = refund[q].status,
             q = r => refund[q].status # "none" /\
                (LatestSent(q, x.time) =>
                   \/ refund[q].status = provider[q]
                   \/ /\ refund[q].status = "succeeded" /\ provider[q] = "failed"
                      /\ event' = Completed(x, "exception") \/ \E m \in Times : event[q][m] = "exception")
      PROVE LocalRefundHolds(q)'
  <2>1. q \in Objects /\ LocalRefundHolds(q)
    BY <1>5
  <2>2. ASSUME NEW n \in Times, LatestSent(q, n)', event'[q][n] # "pending"
        PROVE \/ refund[q].status = provider[q]
              \/ /\ refund[q].status = "succeeded" /\ provider[q] = "failed"
                 /\ \E m \in Times : event'[q][m] = "exception"
    <3>1. LatestSent(q, n)
      BY <1>3, <2>1, <2>2
    <3>2. CASE q = r /\ n = x.time
      BY <1>1, <1>3, <1>6, <1>7, <3>1, <3>2
    <3>3. CASE ~(q = r /\ n = x.time)
      <4>1. event[q][n] # "pending"
        BY <1>3, <2>1, <2>2, <3>3
      <4> QED
        BY <1>6, <2>1, <3>1, <4>1 DEF LocalRefundHolds
    <3> QED
      BY <3>2, <3>3
  <2> QED
    BY <1>0, <1>7, <2>1, <2>2 DEF LocalRefundHolds, Was
<1>8. /\ LocalRefundHolds(r) /\ (refund[r].status = "none" \/ WasRefund(provider[r], refund[r].status))
      /\ refund[r].status \in RefundStatus /\ provider[r] # "none"
      /\ LatestSent(r, x.time) => x.status = provider[r]
  <2>1. LocalRefundHolds(r) /\ refund[r].status \in RefundStatus
    BY <1>0, <1>5
  <2>2. refund[r].status = "none" \/ WasRefund(provider[r], refund[r].status)
    BY <1>0, <2>1 DEF LocalRefundHolds, Was
  <2>3. provider[r] # "none"
    <3>1. EventsHold(r) /\ event[r][x.time] \notin Unsent
      BY <1>1 DEF News, ReadHolds, AccessInv
    <3> QED
      BY <1>1, <3>1 DEF EventsHold
  <2> QED
    BY <1>1, <2>1, <2>2, <2>3 DEF ReadHolds
<1>9. \A q \in Refunds : LocalRefundHolds(q)'
  <2> TAKE q \in Refunds
  <2>1. CASE q # r
    <3>1. refund'[q].status = refund[q].status
      BY <2>1, RefundEventIs
    <3> QED
      BY <1>7, <2>1, <3>1
  <2>2. CASE q = r /\ RefundConflict(r, x.status)
    <3>1. refund' = refund /\ event' = Completed(x, "exception")
      BY <2>2, RefundEventIs
    <3>2. refund[r].status \in {"succeeded", "failed"} /\ x.status # refund[r].status /\ x.status # "pending"
      BY <1>8, <2>2 DEF RefundConflict, RefundStatus
    <3>3. LatestSent(r, x.time) =>
             \/ refund[r].status = provider[r]
             \/ refund[r].status = "succeeded" /\ provider[r] = "failed"
      BY <1>1, <1>8, <3>2 DEF WasRefund
    <3> QED
      BY <1>7, <2>2, <3>1, <3>2, <3>3
  <2>3. CASE q = r /\ ~RefundConflict(r, x.status)
    <3>1. refund'[r].status = IF refund[r].status \in {"none", "pending"} THEN x.status ELSE refund[r].status
      BY <1>0, <2>3, RefundEventIs DEF StoredRefund
    <3>2. CASE refund[r].status \in {"none", "pending"}
      <4>1. refund'[r].status = x.status
        BY <3>1, <3>2
      <4>2. ASSUME NEW n \in Times, LatestSent(r, n)', event'[r][n] # "pending"
            PROVE x.status = provider[r]
        <5>1. LatestSent(r, n)
          BY <1>1, <1>3, <4>2
        <5>2. CASE n = x.time
          BY <1>8, <5>1, <5>2
        <5>3. CASE n # x.time
          <6>1. event[r][n] # "pending"
            BY <1>1, <1>3, <4>2, <5>3
          <6>2. refund[r].status = provider[r]
            BY <1>8, <3>2, <5>1, <6>1 DEF LocalRefundHolds
          <6>3. provider[r] = "pending"
            BY <1>8, <3>2, <6>2
          <6> QED
            BY <1>1, <6>3 DEF WasRefund
        <5> QED
          BY <5>2, <5>3
      <4> QED
        BY <1>0, <1>1, <1>8, <2>3, <4>1, <4>2 DEF LocalRefundHolds, Was
    <3>3. CASE refund[r].status \notin {"none", "pending"}
      <4>1. refund'[r].status = refund[r].status
        BY <3>1, <3>3
      <4>2. x.status \in {refund[r].status, "pending"}
        BY <2>3, <3>3 DEF RefundConflict
      <4>3. LatestSent(r, x.time) => refund[r].status = provider[r]
        BY <1>8, <3>3, <4>2 DEF WasRefund
      <4> QED
        BY <1>7, <2>3, <3>3, <4>1, <4>3
    <3> QED
      BY <3>2, <3>3
  <2> QED
    BY <2>1, <2>2, <2>3
<1> QED
  BY <1>3, <1>4, <1>9 DEF News

\* What a dispute event does: the invariant leaves no conflict.
LEMMA DisputeEventIs ==
  ASSUME AccessInv, NEW x \in reads, FulfillDisputeEvent(x)
  PROVE LET d == x.object IN
        /\ d \in Disputes /\ d \in Objects /\ x.status \in {"open", "won", "lost"}
        /\ event' = Completed(x, "processed")
        /\ dispute' \in [Disputes -> [status : DisputeStatus, at : 0 .. MaxEvents]]
        /\ \A e \in Disputes : dispute'[e] = IF e = d THEN StoredDispute(d, x.status, x.time) ELSE dispute[e]
        /\ StoredDispute(d, x.status, x.time) \in {dispute[d], [status |-> x.status, at |-> x.time]}
        /\ \A e \in Disputes : dispute[e].status \in {"won", "lost"} => dispute'[e].status = dispute[e].status
        /\ grant' = [i \in Items |-> DerivedGrant(i, grant[i], parts, dispute', owner)]
        /\ entitlement' = Projected(Changed(grant'), grant', recovery)
<1> DEFINE d == x.object
           stored == [dispute EXCEPT ![d] = StoredDispute(d, x.status, x.time)]
           access == [i \in Items |-> DerivedGrant(i, grant[i], parts, stored, owner)]
<1>1. /\ d \in Disputes
      /\ IF DisputeConflict(d, x.status)
         THEN /\ event' = Completed(x, "exception")
              /\ UNCHANGED <<dispute, grant, entitlement>>
         ELSE /\ event' = Completed(x, "processed")
              /\ dispute' = stored
              /\ grant' = access
              /\ entitlement' = Projected(Changed(access), access, recovery)
  BY DEF FulfillDisputeEvent
<1>2. AccessType /\ News
  BY DEF AccessInv
<1>3. /\ d \in Objects /\ x.time \in Times /\ d \notin Refunds
      /\ WasDispute(provider[d], x.status)
  BY <1>1, <1>2, ReadIs
<1>4. dispute \in [Disputes -> [status : DisputeStatus, at : 0 .. MaxEvents]]
  BY <1>2 DEF AccessType, TypeOK
<1>5. LocalDisputeHolds(d)
  BY <1>1, <1>2 DEF News
<1>6. dispute[d].status = "none" \/ WasDispute(provider[d], dispute[d].status)
  BY <1>3, <1>5 DEF LocalDisputeHolds, Was
<1>7. x.status \in {"open", "won", "lost"}
  BY <1>3 DEF WasDispute
<1>8. ~DisputeConflict(d, x.status)
  BY <1>3, <1>6 DEF DisputeConflict, WasDispute
<1>9. dispute' = stored /\ event' = Completed(x, "processed") /\ grant' = access
      /\ entitlement' = Projected(Changed(access), access, recovery)
  BY <1>1, <1>8
<1>10. StoredDispute(d, x.status, x.time) \in {dispute[d], [status |-> x.status, at |-> x.time]}
  BY DEF StoredDispute
<1>11. [status |-> x.status, at |-> x.time] \in [status : DisputeStatus, at : 0 .. MaxEvents]
  BY <1>3, <1>7, BoundsAssumption DEF DisputeStatus, Times
<1>12. dispute' \in [Disputes -> [status : DisputeStatus, at : 0 .. MaxEvents]]
  BY <1>1, <1>4, <1>9, <1>10, <1>11
<1>13. \A e \in Disputes : dispute'[e] = IF e = d THEN StoredDispute(d, x.status, x.time) ELSE dispute[e]
  BY <1>4, <1>9
<1>14. dispute[d].status \in {"won", "lost"} => dispute'[d].status = dispute[d].status
  <2>1. dispute[d].status \in {"won", "lost"} => x.status \in {"open", dispute[d].status}
    BY <1>8 DEF DisputeConflict
  <2> QED
    BY <1>1, <1>7, <1>13, <2>1 DEF StoredDispute
<1>15. \A e \in Disputes : dispute[e].status \in {"won", "lost"} => dispute'[e].status = dispute[e].status
  BY <1>13, <1>14
<1> QED
  BY <1>1, <1>3, <1>7, <1>9, <1>10, <1>12, <1>13, <1>15

\* A handled dispute event leaves the news of the last event that has been handled.
LEMMA DisputeEventKeepsNews ==
  ASSUME AccessInv, NEW x \in reads, FulfillDisputeEvent(x)
  PROVE News'
<1> DEFINE d == x.object
           t == x.time
<1>0. /\ AccessType /\ News /\ Handled(x) /\ provider' = provider /\ refund' = refund
      /\ dispute \in [Disputes -> [status : DisputeStatus, at : 0 .. MaxEvents]]
  BY DEF AccessInv, FulfillDisputeEvent, AccessType, TypeOK
<1>1. /\ d \in Disputes /\ d \in Objects /\ t \in Times /\ d \notin Refunds
      /\ WasDispute(provider[d], x.status) /\ ReadHolds(x)
  BY <1>0, DisputeEventIs, ReadIs DEF News
<1>2. /\ event' = Completed(x, "processed")
      /\ \A e \in Disputes : dispute'[e] = IF e = d THEN StoredDispute(d, x.status, t) ELSE dispute[e]
      /\ StoredDispute(d, x.status, t) \in {dispute[d], [status |-> x.status, at |-> t]}
  BY DisputeEventIs
<1>3. /\ \A o \in Objects : EventsHold(o)'
      /\ \A y \in reads' : ReadHolds(y)'
      /\ \A o \in Objects, n \in Times :
           /\ event'[o][n] \in Unsent <=> event[o][n] \in Unsent
           /\ LatestSent(o, n)' <=> LatestSent(o, n)
           /\ ~(o = d /\ n = t) => event'[o][n] = event[o][n]
  BY <1>0, <1>2, HandledIs
<1>4. \A r \in Refunds : LocalRefundHolds(r)'
  <2> TAKE r \in Refunds
  <2>1. r \in Objects /\ r # d /\ LocalRefundHolds(r)
    BY <1>0, <1>1 DEF Objects, News
  <2>2. \A n \in Times : event'[r][n] = event[r][n] /\ (LatestSent(r, n)' <=> LatestSent(r, n))
    BY <1>3, <2>1
  <2> QED
    BY <1>0, <2>1, <2>2 DEF LocalRefundHolds, Was
<1>5. ASSUME NEW e \in Disputes, e # d PROVE LocalDisputeHolds(e)'
  <2>1. e \in Objects /\ LocalDisputeHolds(e) /\ dispute'[e] = dispute[e]
    BY <1>0, <1>2, <1>5 DEF Objects, News
  <2>2. \A n \in Times : event'[e][n] = event[e][n] /\ (LatestSent(e, n)' <=> LatestSent(e, n))
    BY <1>3, <1>5, <2>1
  <2> QED
    BY <1>0, <2>1, <2>2 DEF LocalDisputeHolds, Was
<1>6. LocalDisputeHolds(d)'
  <2>1. LocalDisputeHolds(d) /\ EventsHold(d) /\ event[d][t] \notin Unsent
    BY <1>0, <1>1 DEF News, ReadHolds
  <2>2. /\ dispute[d].status = "none" \/ WasDispute(provider[d], dispute[d].status)
        /\ provider[d] # "none"
        /\ \A n \in Times : event[d][n] \in Unsent => dispute[d].at < n
        /\ \A n \in Times : LatestSent(d, n) /\ event[d][n] # "pending" =>
             dispute[d] = [status |-> provider[d], at |-> n]
    BY <1>1, <2>1 DEF LocalDisputeHolds, EventsHold, Was
  <2>3. /\ dispute'[d] = StoredDispute(d, x.status, t)
        /\ dispute'[d] \in {dispute[d], [status |-> x.status, at |-> t]}
    BY <1>1, <1>2
  <2>4. \A n \in Times : n \in Int /\ n <= MaxEvents /\ (n < MaxEvents => n + 1 \in Times)
    BY BoundsAssumption DEF Times
  <2>5. \A n \in Times : event[d][n] \in Unsent => t < n
    <3> TAKE n \in Times
    <3> HAVE event[d][n] \in Unsent
    <3>1. n < t => event[d][t] \in Unsent
      BY <1>1, <2>1 DEF EventsHold
    <3>2. n # t
      BY <2>1
    <3> QED
      BY <1>1, <2>1, <2>4, <3>1, <3>2
  <2>6. \A n \in Times : event'[d][n] \in Unsent => dispute'[d].at < n
    BY <1>1, <1>3, <2>2, <2>3, <2>5
  <2>7. dispute'[d].status = "none" \/ WasDispute(provider[d], dispute'[d].status)
    BY <1>1, <2>2, <2>3
  <2>8. ASSUME NEW n \in Times, LatestSent(d, n), event'[d][n] # "pending"
        PROVE dispute'[d] = [status |-> provider[d], at |-> n]
    <3>1. CASE n = t
      <4>1. x.status = provider[d]
        BY <1>1, <2>8, <3>1 DEF ReadHolds
      <4>2. ~(t < dispute[d].at)
        <5>1. dispute[d].at \in 0 .. MaxEvents
          BY <1>0, <1>1
        <5>2. CASE t < MaxEvents
          <6>1. event[d][t + 1] \in Unsent /\ t + 1 \in Times
            BY <1>1, <2>4, <2>8, <3>1, <5>2 DEF LatestSent
          <6>2. dispute[d].at < t + 1
            BY <2>2, <6>1
          <6> QED
            BY <1>1, <2>4, <5>1, <6>2
        <5>3. CASE ~(t < MaxEvents)
          BY <1>1, <2>4, <5>1, <5>3, BoundsAssumption
        <5> QED
          BY <5>2, <5>3
      <4>3. dispute[d].status \notin {"none", "open"} => x.status # "open"
        BY <2>2, <4>1 DEF WasDispute
      <4>4. StoredDispute(d, x.status, t) = [status |-> x.status, at |-> t]
        BY <4>2, <4>3 DEF StoredDispute
      <4> QED
        BY <2>3, <3>1, <4>1, <4>4
    <3>2. CASE n # t
      <4>1. event[d][n] # "pending"
        BY <1>1, <1>3, <2>8, <3>2
      <4>2. dispute[d] = [status |-> provider[d], at |-> n]
        BY <2>2, <2>8, <4>1
      <4>3. t < n
        BY <1>1, <2>1, <2>4, <2>8, <3>2 DEF LatestSent
      <4>4. dispute[d].status # "none" /\ t < dispute[d].at
        BY <2>2, <4>2, <4>3
      <4>5. StoredDispute(d, x.status, t) = dispute[d]
        BY <4>4 DEF StoredDispute
      <4> QED
        BY <2>3, <4>2, <4>5
    <3> QED
      BY <3>1, <3>2
  <2>9. \A n \in Times : LatestSent(d, n)' <=> LatestSent(d, n)
    BY <1>1, <1>3
  <2> QED
    BY <1>0, <1>1, <2>2, <2>6, <2>7, <2>8, <2>9 DEF LocalDisputeHolds, Was
<1> QED
  BY <1>3, <1>4, <1>5, <1>6 DEF News

\* A dispute event leaves the access that the facts give.
LEMMA DisputeEventFollows ==
  ASSUME AccessInv, NEW x \in reads, FulfillDisputeEvent(x)
  PROVE AccessFollowsFacts' /\ grant' \in [Items -> GrantState] /\ entitlement' \in [Items -> BOOLEAN]
<1>0. /\ AccessType /\ AccessFollowsFacts /\ paid /\ paid' = paid /\ owner' = owner
      /\ parts' = parts /\ recovery' = recovery
  BY DEF AccessInv, FulfillDisputeEvent, Handled
<1>1. /\ \A e \in Disputes : dispute[e].status \in {"won", "lost"} => dispute'[e].status = dispute[e].status
      /\ grant' = [i \in Items |-> DerivedGrant(i, grant[i], parts, dispute', owner)]
      /\ entitlement' = Projected(Changed(grant'), grant', recovery)
  BY DisputeEventIs
<1>2. entitlement \in [Items -> BOOLEAN]
  BY <1>0 DEF AccessType, TypeOK
<1>3. grant' \in [Items -> GrantState]
  BY <1>1 DEF DerivedGrant, GrantState
<1>4. Readable(grant', recovery, owner, entitlement')
  BY <1>0, <1>1, <1>3, ProjectedIs
<1>5. entitlement' \in [Items -> BOOLEAN]
  BY <1>1, <1>2 DEF Projected, Effective
<1>6. \A i \in Items : grant'[i] = Fact(i, paid, Lost(dispute'), Open(dispute'), parts, owner)
  <2> TAKE i \in Items
  <2>1. grant[i] = Fact(i, paid, Lost(dispute), Open(dispute), parts, owner)
    BY <1>0, FactsAre
  <2>2. grant[i] = "revoked" => Lost(dispute) \/ FullyAllocated(parts, i)
    BY <1>0, <2>1 DEF Fact
  <2>3. Lost(dispute) => Lost(dispute')
    BY <1>1 DEF Lost
  <2>4. grant'[i] = DerivedGrant(i, grant[i], parts, dispute', owner)
    BY <1>1
  <2> QED
    BY <1>0, <2>2, <2>3, <2>4 DEF DerivedGrant, Fact, Lost, Open
<1>7. AccessFollowsFacts'
  BY <1>0, <1>4, <1>6 DEF AccessFollowsFacts, Fact, Lost, Open, Readable
<1> QED
  BY <1>3, <1>5, <1>7

-----------------------------------------------------------------------------
(* The steps of the refunds, disputes and grants *)

\* The payment's fulfillment gives the first access.
LEMMA PaymentFollows ==
  ASSUME AccessInv, PaymentFulfilled
  PROVE AccessFollowsFacts' /\ grant' \in [Items -> GrantState] /\ entitlement' \in [Items -> BOOLEAN]
<1>0. /\ AccessType /\ UnpaidHolds /\ ~paid /\ paid' /\ owner' = owner
      /\ parts' = parts /\ dispute' = dispute /\ recovery' = recovery
      /\ grant' = [i \in Items |-> IF owner THEN "active" ELSE "unclaimed"]
      /\ entitlement' = [i \in Items |-> owner]
  BY DEF AccessInv, Money, PaymentFulfilled
<1>1. owner \in BOOLEAN
  BY <1>0 DEF AccessType, TypeOK
<1>2. parts = Nothing /\ ~Lost(dispute) /\ ~Open(dispute)
  BY <1>0 DEF UnpaidHolds, Lost, Open
<1>3. \A i \in Items : ~FullyAllocated(parts, i)
  <2> TAKE i \in Items
  <2>1. ItemAllocated(parts, i) = 0
    BY <1>2, NothingHolds
  <2>2. Total(i) > 0
    BY AmountsAssumption
  <2> QED
    BY <2>1, <2>2 DEF FullyAllocated
<1>4. \A i \in Items : grant'[i] = Fact(i, TRUE, Lost(dispute), Open(dispute), parts, owner)
  BY <1>0, <1>2, <1>3 DEF Fact
<1>5. Readable(grant', recovery, owner, entitlement')
  BY <1>0 DEF Readable, Effective
<1>6. AccessFollowsFacts'
  BY <1>0, <1>4, <1>5 DEF AccessFollowsFacts, Fact, Lost, Open, Readable
<1>7. grant' \in [Items -> GrantState]
  BY <1>0 DEF GrantState
<1>8. entitlement' \in [Items -> BOOLEAN]
  BY <1>0, <1>1
<1> QED
  BY <1>6, <1>7, <1>8

\* A claim gives the owner what the facts give.
LEMMA ClaimFollows ==
  ASSUME AccessInv, ClaimGuestPurchases
  PROVE AccessFollowsFacts' /\ grant' \in [Items -> GrantState] /\ entitlement' \in [Items -> BOOLEAN]
<1>0. /\ AccessFollowsFacts /\ paid /\ paid' = paid /\ owner' = TRUE
      /\ parts' = parts /\ dispute' = dispute /\ recovery' = recovery
      /\ grant' = [i \in Items |-> DerivedGrant(i, grant[i], parts, dispute, TRUE)]
      /\ entitlement' = [i \in Items |-> Effective(grant', recovery, i)]
  BY DEF AccessInv, ClaimGuestPurchases, ClaimedGrant
<1>1. \A i \in Items : grant'[i] = Fact(i, paid, Lost(dispute), Open(dispute), parts, TRUE)
  <2> TAKE i \in Items
  <2>1. grant[i] = "revoked" => Lost(dispute) \/ FullyAllocated(parts, i)
    BY <1>0, FactsAre DEF Fact
  <2>2. grant'[i] = DerivedGrant(i, grant[i], parts, dispute, TRUE)
    BY <1>0
  <2> QED
    BY <1>0, <2>1, <2>2 DEF DerivedGrant, Fact, Lost, Open
<1>2. Readable(grant', recovery, TRUE, entitlement')
  BY <1>0 DEF Readable
<1>3. AccessFollowsFacts'
  BY <1>0, <1>1, <1>2 DEF AccessFollowsFacts, Fact, Lost, Open, Readable
<1>4. grant' \in [Items -> GrantState]
  BY <1>0 DEF DerivedGrant, GrantState
<1>5. entitlement' \in [Items -> BOOLEAN]
  BY <1>0 DEF Effective
<1> QED
  BY <1>3, <1>4, <1>5

\* A recovery grant changes what the owner reads of its item.
LEMMA RecoveryFollows ==
  ASSUME AccessInv, NEW i \in Items, NEW s \in {"active", "revoked"}, recovery' = [recovery EXCEPT ![i] = s],
         entitlement' = Projected({i}, grant, recovery'),
         UNCHANGED <<paid, owner, parts, dispute, grant>>
  PROVE /\ AccessFollowsFacts' /\ entitlement' \in [Items -> BOOLEAN]
        /\ recovery' \in [Items -> {"none", "active", "revoked"}]
<1>0. /\ AccessFollowsFacts /\ recovery \in [Items -> {"none", "active", "revoked"}]
      /\ entitlement \in [Items -> BOOLEAN]
  BY DEF AccessInv, AccessType, TypeOK
<1>1. Readable(grant, recovery', owner, entitlement')
  <2> SUFFICES ASSUME NEW j \in Items PROVE entitlement'[j] <=> owner /\ Effective(grant, recovery', j)
    BY DEF Readable
  <2>1. entitlement[j] <=> owner /\ Effective(grant, recovery, j)
    BY <1>0 DEF AccessFollowsFacts
  <2>2. entitlement'[j] = IF j \in {i} /\ owner THEN Effective(grant, recovery', j) ELSE entitlement[j]
    BY DEF Projected
  <2>3. CASE j = i
    BY <2>1, <2>2, <2>3
  <2>4. CASE j # i
    <3>1. recovery'[j] = recovery[j]
      BY <1>0, <2>4
    <3> QED
      BY <2>1, <2>2, <2>4, <3>1 DEF Effective
  <2> QED
    BY <2>3, <2>4
<1>2. AccessFollowsFacts'
  BY <1>0, <1>1 DEF AccessFollowsFacts, Readable
<1>3. entitlement' \in [Items -> BOOLEAN]
  BY <1>0 DEF Projected, Effective
<1>4. recovery' \in [Items -> {"none", "active", "revoked"}]
  BY <1>0
<1> QED
  BY <1>2, <1>3, <1>4

\* Steps that attribute nothing keep the money.
LEMMA MoneyKept ==
  ASSUME Money, UNCHANGED <<parts, refund>>, paid' \/ UNCHANGED <<paid, dispute>>
  PROVE Money'
<1>1. UnpaidHolds'
  BY DEF Money, UnpaidHolds
<1>2. \A r \in Refunds : RefundHolds(parts', refund', r)
  BY DEF Money
<1>3. PartsHold(parts') /\ SplitHolds(parts')
  BY DEF Money
<1> QED
  BY <1>1, <1>2, <1>3 DEF Money

\* A draft is for a refund that has nothing attributed.
LEMMA DraftKeepsMoney ==
  ASSUME AccessType, Money, NEW r \in Refunds, NEW s \in {"draft", "needs_review"}, RefundAllocated(parts, r) = 0, paid,
         refund' = [refund EXCEPT ![r].attribution = s], UNCHANGED <<parts, paid>>
  PROVE /\ Money' /\ refund' \in [Refunds -> [status : RefundStatus, attribution : Attribution]]
        /\ \A q \in Refunds : refund'[q].status = refund[q].status
<1>1. refund \in [Refunds -> [status : RefundStatus, attribution : Attribution]]
  BY DEF AccessType, TypeOK
<1>2. /\ \A q \in Refunds : refund'[q].status = refund[q].status /\ (q # r => refund'[q] = refund[q])
      /\ refund'[r].attribution = s
  BY <1>1
<1>3. \A q \in Refunds : RefundHolds(parts', refund', q)
  <2> TAKE q \in Refunds
  <2>1. RefundHolds(parts, refund, q)
    BY DEF Money
  <2> QED
    BY <1>2, <2>1 DEF RefundHolds
<1>4. UnpaidHolds'
  BY DEF UnpaidHolds
<1>5. Money'
  BY <1>3, <1>4 DEF Money
<1>6. refund' \in [Refunds -> [status : RefundStatus, attribution : Attribution]]
  <2>1. \A q \in Refunds : refund'[q] \in [status : RefundStatus, attribution : Attribution]
    BY <1>1 DEF Attribution
  <2> QED
    BY <1>1, <2>1
<1> QED
  BY <1>2, <1>5, <1>6

\* The invariant holds at the start.
LEMMA AccessStarts == Init => AccessInv
<1> SUFFICES ASSUME Init PROVE AccessInv
  OBVIOUS
<1>1. /\ provider = [o \in Objects |-> "none"] /\ reads = {} /\ paid = FALSE /\ effects = {}
      /\ refund = [r \in Refunds |-> [status |-> "none", attribution |-> "not_applicable"]]
      /\ parts = Nothing /\ draft = [r \in Refunds |-> NoDraft]
      /\ dispute = [d \in Disputes |-> [status |-> "none", at |-> 0]]
      /\ grant = [i \in Items |-> "none"] /\ recovery = [i \in Items |-> "none"]
      /\ entitlement = [i \in Items |-> FALSE]
  BY DEF Init
<1>2. PICK start \in Orders :
        /\ owner = start.account
        /\ event = [o \in Objects |-> [n \in Times |-> IF n <= start.events[o] THEN "unsent" ELSE "never"]]
  BY DEF Init
<1>3. owner \in BOOLEAN /\ start.events \in [Objects -> 0 .. MaxEvents]
  BY <1>2, OrdersAssumption
<1>4. /\ \A o \in Objects, n \in Times : event[o][n] = IF n <= start.events[o] THEN "unsent" ELSE "never"
      /\ event \in [Objects -> [Times -> {"unsent", "pending", "processed", "exception", "never"}]]
  BY <1>2
<1>5. parts \in [Refunds -> [Items -> Part]]
  BY <1>1, NothingHolds DEF PartsHold
<1>6. AccessType
  <2>1. /\ provider \in [Objects -> RefundStatus \cup DisputeStatus] /\ reads \subseteq Reads
        /\ refund \in [Refunds -> [status : RefundStatus, attribution : Attribution]]
        /\ grant \in [Items -> GrantState] /\ effects \subseteq Items
        /\ recovery \in [Items -> {"none", "active", "revoked"}] /\ entitlement \in [Items -> BOOLEAN]
        /\ paid \in BOOLEAN
    BY <1>1 DEF RefundStatus, Attribution, GrantState
  <2>2. dispute \in [Disputes -> [status : DisputeStatus, at : 0 .. MaxEvents]]
    BY <1>1, BoundsAssumption DEF DisputeStatus
  <2>3. draft \in [Refunds -> Proposals \cup {NoDraft}] /\ \A r \in Refunds : draft[r] = NoDraft
    BY <1>1
  <2> QED
    BY <1>3, <1>4, <1>5, <2>1, <2>2, <2>3 DEF AccessType, TypeOK
<1>7. Money
  <2>1. UnpaidHolds
    BY <1>1 DEF UnpaidHolds
  <2>2. ASSUME NEW r \in Refunds PROVE RefundHolds(parts, refund, r)
    <3>1. RefundAllocated(parts, r) = 0
      BY <1>1, NothingHolds
    <3>2. refund[r].status = "none" /\ refund[r].attribution = "not_applicable"
      BY <1>1
    <3> QED
      BY <3>1, <3>2 DEF RefundHolds
  <2> QED
    BY <1>1, <2>1, <2>2, NothingHolds DEF Money
<1>8. News
  <2>1. \A o \in Objects, n \in Times : event[o][n] \in Unsent
    BY <1>4 DEF Unsent
  <2>2. ASSUME NEW o \in Objects PROVE EventsHold(o)
    <3>1. \A n, m \in Times : n < m /\ event[o][n] = "never" => event[o][m] = "never"
      <4> TAKE n, m \in Times
      <4>1. start.events[o] \in Int /\ n \in Int /\ m \in Int
        BY <1>3 DEF Times
      <4> QED
        BY <1>4, <4>1
    <3> QED
      BY <1>1, <2>1, <3>1 DEF EventsHold, RefundStatus, DisputeStatus
  <2>3. ASSUME NEW r \in Refunds PROVE LocalRefundHolds(r)
    <3>1. r \in Objects /\ refund[r].status = "none"
      BY <1>1 DEF Objects
    <3> QED
      BY <2>1, <3>1 DEF LocalRefundHolds, LatestSent
  <2>4. ASSUME NEW d \in Disputes PROVE LocalDisputeHolds(d)
    <3>1. d \in Objects /\ dispute[d].status = "none" /\ dispute[d].at = 0
      BY <1>1 DEF Objects
    <3>2. \A n \in Times : 0 < n
      BY DEF Times
    <3> QED
      BY <2>1, <3>1, <3>2 DEF LocalDisputeHolds, LatestSent
  <2> QED
    BY <1>1, <2>2, <2>3, <2>4 DEF News
<1>9. AccessFollowsFacts
  BY <1>1 DEF AccessFollowsFacts, Effective
<1> QED
  BY <1>6, <1>7, <1>8, <1>9 DEF AccessInv

\* Steps of the provider and of its readers keep the invariant.
LEMMA ProviderKeeps ==
  ASSUME AccessInv, NEW o \in Objects, NEW n \in Times, ProviderChanges(o, n) \/ RetrieveObject(o, n)
  PROVE AccessInv'
<1>0. AccessType /\ Money /\ News /\ AccessFollowsFacts
  BY DEF AccessInv
<1>1. CASE ProviderChanges(o, n)
  <2>1. News' /\ provider' \in [Objects -> RefundStatus \cup DisputeStatus]
    BY <1>0, <1>1, ProviderKeepsNews
  <2>2. /\ event' = [event EXCEPT ![o][n] = "pending"]
        /\ UNCHANGED <<reads, paid, owner, refund, parts, draft, dispute, grant, effects, recovery, entitlement>>
    BY <1>1 DEF ProviderChanges
  <2>3. event' \in [Objects -> [Times -> {"unsent", "pending", "processed", "exception", "never"}]]
    BY <1>0, <2>2 DEF AccessType, TypeOK
  <2>4. AccessType'
    BY <1>0, <2>1, <2>2, <2>3 DEF AccessType, TypeOK
  <2>5. Money'
    BY <1>0, <2>2, MoneyKept
  <2>6. AccessFollowsFacts'
    BY <1>0, <2>2 DEF AccessFollowsFacts, Effective
  <2> QED
    BY <2>1, <2>4, <2>5, <2>6 DEF AccessInv
<1>2. CASE RetrieveObject(o, n)
  <2>1. News'
    BY <1>0, <1>2, RetrieveKeepsNews
  <2>2. /\ reads' = reads \cup {[object |-> o, time |-> n, status |-> provider[o]]}
        /\ UNCHANGED <<provider, event, paid, owner, refund, parts, draft, dispute, grant, effects, recovery, entitlement>>
    BY <1>2 DEF RetrieveObject
  <2>3. reads' \subseteq Reads
    BY <1>0, <2>2 DEF AccessType, TypeOK, Reads
  <2>4. AccessType'
    BY <1>0, <2>2, <2>3 DEF AccessType, TypeOK
  <2>5. Money'
    BY <1>0, <2>2, MoneyKept
  <2>6. AccessFollowsFacts'
    BY <1>0, <2>2 DEF AccessFollowsFacts, Effective
  <2> QED
    BY <2>1, <2>4, <2>5, <2>6 DEF AccessInv
<1> QED
  BY <1>1, <1>2

\* Handlers keep the invariant.
LEMMA HandlerKeeps ==
  ASSUME AccessInv, NEW x \in reads, HandlerStops(x) \/ FulfillRefundEvent(x) \/ FulfillDisputeEvent(x)
  PROVE AccessInv'
<1>0. AccessType /\ Money /\ News /\ AccessFollowsFacts
  BY DEF AccessInv
<1>1. x \in Reads /\ x.object \in Objects /\ x.time \in Times
  BY <1>0 DEF AccessType, TypeOK, Reads
<1>2. ASSUME event' = Completed(x, "processed") \/ event' = Completed(x, "exception")
      PROVE event' \in [Objects -> [Times -> {"unsent", "pending", "processed", "exception", "never"}]]
  <2>1. PICK outcome \in {"processed", "exception"} : event' = [event EXCEPT ![x.object][x.time] = outcome]
    BY <1>2 DEF Completed
  <2> QED
    BY <1>0, <1>1, <2>1 DEF AccessType, TypeOK
<1>3. CASE HandlerStops(x)
  <2>1. /\ reads' = reads \ {x}
        /\ UNCHANGED <<provider, event, paid, owner, refund, parts, draft, dispute, grant, effects, recovery, entitlement>>
    BY <1>3 DEF HandlerStops
  <2>2. News'
    BY <1>0, <2>1, NewsKept
  <2>3. AccessType'
    BY <1>0, <2>1 DEF AccessType, TypeOK
  <2>4. Money'
    BY <1>0, <2>1, MoneyKept
  <2>5. AccessFollowsFacts'
    BY <1>0, <2>1 DEF AccessFollowsFacts, Effective
  <2> QED
    BY <2>2, <2>3, <2>4, <2>5 DEF AccessInv
<1>4. CASE FulfillRefundEvent(x)
  <2>1. News'
    BY <1>4, RefundEventKeepsNews
  <2>2. /\ reads' = reads \ {x} /\ paid /\ paid' = paid
        /\ UNCHANGED <<provider, owner, draft, dispute, effects, recovery>>
    BY <1>4 DEF FulfillRefundEvent, Handled
  <2>3. /\ event' = Completed(x, "processed") \/ event' = Completed(x, "exception")
        /\ refund' \in [Refunds -> [status : RefundStatus, attribution : Attribution]]
        /\ \A q \in Refunds : RefundHolds(parts', refund', q)
        /\ Grows(parts, parts')
        /\ grant' = Recomputed(parts') \/ (parts' = parts /\ grant' = grant)
        /\ entitlement' = Projected(Changed(grant'), grant', recovery)
    <3>1. CASE RefundConflict(x.object, x.status)
      <4>1. event' = Completed(x, "exception") /\ UNCHANGED <<refund, parts, grant, entitlement>>
        BY <1>4, <3>1, RefundEventIs
      <4>2. \A q \in Refunds : RefundHolds(parts', refund', q)
        BY <1>0, <4>1 DEF Money
      <4>3. Grows(parts, parts')
        BY <1>0, <4>1 DEF Money, Grows
      <4>4. refund' \in [Refunds -> [status : RefundStatus, attribution : Attribution]]
        BY <1>0, <4>1 DEF AccessType, TypeOK
      <4>5. entitlement' = Projected(Changed(grant'), grant', recovery)
        <5>1. Changed(grant') = {}
          BY <4>1 DEF Changed
        <5>2. entitlement \in [Items -> BOOLEAN]
          BY <1>0 DEF AccessType, TypeOK
        <5> QED
          BY <4>1, <5>1, <5>2 DEF Projected
      <4> QED
        BY <4>1, <4>2, <4>3, <4>4, <4>5
    <3>2. CASE ~RefundConflict(x.object, x.status)
      BY <1>4, <3>2, RefundEventIs
    <3> QED
      BY <3>1, <3>2
  <2>4. AccessFollowsFacts' /\ grant' \in [Items -> GrantState] /\ entitlement' \in [Items -> BOOLEAN]
    BY <2>2, <2>3, RecomputedFollows
  <2>5. Money'
    <3>1. UnpaidHolds'
      BY <2>2 DEF UnpaidHolds
    <3>2. PartsHold(parts') /\ SplitHolds(parts')
      BY <2>3 DEF Grows
    <3> QED
      BY <2>3, <3>1, <3>2 DEF Money
  <2>6. event' \in [Objects -> [Times -> {"unsent", "pending", "processed", "exception", "never"}]]
    BY <1>2, <2>3
  <2>7. parts' \in [Refunds -> [Items -> Part]]
    BY <2>3 DEF Grows, PartsHold
  <2>8. AccessType'
    BY <1>0, <2>2, <2>3, <2>4, <2>6, <2>7 DEF AccessType, TypeOK
  <2> QED
    BY <2>1, <2>4, <2>5, <2>8 DEF AccessInv
<1>5. CASE FulfillDisputeEvent(x)
  <2>1. News'
    BY <1>5, DisputeEventKeepsNews
  <2>2. /\ reads' = reads \ {x} /\ paid /\ paid' = paid
        /\ UNCHANGED <<provider, owner, refund, parts, draft, effects, recovery>>
    BY <1>5 DEF FulfillDisputeEvent, Handled
  <2>3. /\ event' = Completed(x, "processed")
        /\ dispute' \in [Disputes -> [status : DisputeStatus, at : 0 .. MaxEvents]]
    BY <1>5, DisputeEventIs
  <2>4. AccessFollowsFacts' /\ grant' \in [Items -> GrantState] /\ entitlement' \in [Items -> BOOLEAN]
    BY <1>5, DisputeEventFollows
  <2>5. Money'
    BY <1>0, <2>2, MoneyKept
  <2>6. event' \in [Objects -> [Times -> {"unsent", "pending", "processed", "exception", "never"}]]
    BY <1>2, <2>3
  <2>7. AccessType'
    BY <1>0, <2>2, <2>3, <2>4, <2>6 DEF AccessType, TypeOK
  <2> QED
    BY <2>1, <2>4, <2>5, <2>7 DEF AccessInv
<1> QED
  BY <1>3, <1>4, <1>5

\* The buyer's payment and claim keep the invariant.
LEMMA BuyerKeeps ==
  ASSUME AccessInv, PaymentFulfilled \/ ClaimGuestPurchases
  PROVE AccessInv'
<1>0. AccessType /\ Money /\ News
  BY DEF AccessInv
<1>1. /\ AccessFollowsFacts' /\ grant' \in [Items -> GrantState] /\ entitlement' \in [Items -> BOOLEAN]
  BY PaymentFollows, ClaimFollows
<1>2. /\ paid' = TRUE /\ owner' \in BOOLEAN
      /\ UNCHANGED <<provider, event, reads, refund, parts, draft, dispute, effects, recovery>>
  <2>1. paid \in BOOLEAN /\ owner \in BOOLEAN
    BY <1>0 DEF AccessType, TypeOK
  <2> QED
    BY <2>1 DEF PaymentFulfilled, ClaimGuestPurchases
<1>3. News'
  BY <1>0, <1>2, NewsKept
<1>4. Money'
  BY <1>0, <1>2, MoneyKept
<1>5. AccessType'
  BY <1>0, <1>1, <1>2 DEF AccessType, TypeOK
<1> QED
  BY <1>1, <1>3, <1>4, <1>5 DEF AccessInv

\* The administrator's commands keep the invariant.
LEMMA AdminKeeps ==
  ASSUME AccessInv,
         \/ \E r \in Refunds, p \in Proposals : SaveRefundDraft(r, p)
         \/ \E r \in Refunds : DiscardRefundDraft(r) \/ FinalizeRefund(r)
         \/ \E i \in Items : ActivateRecovery(i) \/ DeactivateRecovery(i)
  PROVE AccessInv'
<1>0. /\ AccessType /\ Money /\ News /\ AccessFollowsFacts
      /\ draft \in [Refunds -> Proposals \cup {NoDraft}]
      /\ \A q \in Refunds : draft[q] # NoDraft => draft[q] \in Proposals /\ Proposed(draft[q]) = Amount[q]
  BY DEF AccessInv, AccessType, TypeOK
<1>1. ASSUME NEW r \in Refunds, NEW d, NEW s \in {"draft", "needs_review"},
             d = NoDraft \/ (d \in Proposals /\ Proposed(d) = Amount[r]), Draftable(r),
             draft' = [draft EXCEPT ![r] = d], refund' = [refund EXCEPT ![r].attribution = s],
             UNCHANGED <<provider, event, reads, paid, owner, parts, dispute, grant, effects, recovery, entitlement>>
      PROVE AccessInv'
  <2>1. paid /\ RefundAllocated(parts, r) = 0
    BY <1>1 DEF Draftable
  <2>2. /\ Money' /\ refund' \in [Refunds -> [status : RefundStatus, attribution : Attribution]]
        /\ \A q \in Refunds : refund'[q].status = refund[q].status
    BY <1>0, <1>1, <2>1, DraftKeepsMoney
  <2>3. News'
    BY <1>0, <1>1, <2>2, NewsKept
  <2>4. /\ draft' \in [Refunds -> Proposals \cup {NoDraft}]
        /\ \A q \in Refunds : draft'[q] # NoDraft => draft'[q] \in Proposals /\ Proposed(draft'[q]) = Amount[q]
    BY <1>0, <1>1
  <2>5. AccessType'
    BY <1>0, <1>1, <2>2, <2>4 DEF AccessType, TypeOK
  <2>6. AccessFollowsFacts'
    BY <1>0, <1>1 DEF AccessFollowsFacts, Effective
  <2> QED
    BY <2>2, <2>3, <2>5, <2>6 DEF AccessInv
<1>2. ASSUME NEW r \in Refunds, NEW p \in Proposals, SaveRefundDraft(r, p) PROVE AccessInv'
  <2>1. /\ Draftable(r) /\ Proposed(p) = Amount[r]
        /\ draft' = [draft EXCEPT ![r] = p] /\ refund' = [refund EXCEPT ![r].attribution = "draft"]
        /\ UNCHANGED <<provider, event, reads, paid, owner, parts, dispute, grant, effects, recovery, entitlement>>
    BY <1>2 DEF SaveRefundDraft, Proposable
  <2> QED
    BY <1>1, <2>1
<1>3. ASSUME NEW r \in Refunds, DiscardRefundDraft(r) PROVE AccessInv'
  <2>1. /\ Draftable(r)
        /\ draft' = [draft EXCEPT ![r] = NoDraft] /\ refund' = [refund EXCEPT ![r].attribution = "needs_review"]
        /\ UNCHANGED <<provider, event, reads, paid, owner, parts, dispute, grant, effects, recovery, entitlement>>
    BY <1>3 DEF DiscardRefundDraft
  <2> QED
    BY <1>1, <2>1
<1>4. ASSUME NEW r \in Refunds, FinalizeRefund(r) PROVE AccessInv'
  <2>1. /\ paid /\ draft' = [draft EXCEPT ![r] = NoDraft] /\ refund' = [refund EXCEPT ![r].attribution = "finalized"]
        /\ UNCHANGED <<provider, event, reads, paid, owner, dispute, recovery>>
    BY <1>4 DEF FinalizeRefund
  <2>2. /\ Grows(parts, parts')
        /\ \A q \in Refunds : RefundHolds(parts', refund', q)
        /\ grant' = Recomputed(parts')
        /\ entitlement' = Projected(Changed(grant'), grant', recovery)
        /\ effects' \subseteq Items
    BY <1>4, FinalizeIs
  <2>3. AccessFollowsFacts' /\ grant' \in [Items -> GrantState] /\ entitlement' \in [Items -> BOOLEAN]
    BY <2>1, <2>2, RecomputedFollows
  <2>4. /\ refund' \in [Refunds -> [status : RefundStatus, attribution : Attribution]]
        /\ \A q \in Refunds : refund'[q].status = refund[q].status
    <3>1. refund \in [Refunds -> [status : RefundStatus, attribution : Attribution]] /\ "finalized" \in Attribution
      BY <1>0 DEF AccessType, TypeOK, Attribution
    <3> QED
      BY <2>1, <3>1
  <2>5. News'
    BY <1>0, <2>1, <2>4, NewsKept
  <2>6. Money'
    <3>1. UnpaidHolds'
      BY <2>1 DEF UnpaidHolds
    <3>2. PartsHold(parts') /\ SplitHolds(parts')
      BY <2>2 DEF Grows
    <3> QED
      BY <2>2, <3>1, <3>2 DEF Money
  <2>7. parts' \in [Refunds -> [Items -> Part]]
    BY <2>2 DEF Grows, PartsHold
  <2>8. /\ draft' \in [Refunds -> Proposals \cup {NoDraft}]
        /\ \A q \in Refunds : draft'[q] # NoDraft => draft'[q] \in Proposals /\ Proposed(draft'[q]) = Amount[q]
    BY <1>0, <2>1
  <2>9. AccessType'
    BY <1>0, <2>1, <2>2, <2>3, <2>4, <2>7, <2>8 DEF AccessType, TypeOK
  <2> QED
    BY <2>3, <2>5, <2>6, <2>9 DEF AccessInv
<1>5. ASSUME NEW i \in Items, ActivateRecovery(i) \/ DeactivateRecovery(i) PROVE AccessInv'
  <2>1. PICK s \in {"active", "revoked"} :
          /\ recovery' = [recovery EXCEPT ![i] = s]
          /\ entitlement' = Projected({i}, grant, recovery')
          /\ UNCHANGED <<provider, event, reads, paid, owner, refund, parts, draft, dispute, grant, effects>>
    BY <1>5 DEF ActivateRecovery, DeactivateRecovery
  <2>2. /\ AccessFollowsFacts' /\ entitlement' \in [Items -> BOOLEAN]
        /\ recovery' \in [Items -> {"none", "active", "revoked"}]
    BY <2>1, RecoveryFollows
  <2>3. News'
    BY <1>0, <2>1, NewsKept
  <2>4. Money'
    BY <1>0, <2>1, MoneyKept
  <2>5. AccessType'
    BY <1>0, <2>1, <2>2 DEF AccessType, TypeOK
  <2> QED
    BY <2>2, <2>3, <2>4, <2>5 DEF AccessInv
<1> QED
  BY <1>2, <1>3, <1>4, <1>5

\* Every step of the provider, the handlers, the buyer and the administrator keeps the
\* invariant.
THEOREM AccessInductive == Spec => []AccessInv
<1>1. ASSUME AccessInv, [Next]_vars PROVE AccessInv'
  <2>1. CASE UNCHANGED vars
    <3>1. UNCHANGED <<provider, event, reads, paid, owner, refund, parts, draft, dispute,
                      grant, effects, recovery, entitlement>>
      BY <2>1 DEF vars
    <3>2. AccessType /\ Money /\ News /\ AccessFollowsFacts
      BY <1>1 DEF AccessInv
    <3>3. News'
      BY <3>1, <3>2, NewsKept
    <3>4. Money'
      BY <3>1, <3>2, MoneyKept
    <3>5. AccessType'
      BY <3>1, <3>2 DEF AccessType, TypeOK
    <3>6. AccessFollowsFacts'
      BY <3>1, <3>2 DEF AccessFollowsFacts, Effective
    <3> QED
      BY <3>3, <3>4, <3>5, <3>6 DEF AccessInv
  <2>2. CASE Next
    BY <1>1, <2>2, ProviderKeeps, HandlerKeeps, BuyerKeeps, AdminKeeps DEF Next
  <2> QED
    BY <1>1, <2>1, <2>2
<1> QED
  BY <1>1, AccessStarts, PTL DEF Spec

-----------------------------------------------------------------------------
(* What the refunds, disputes and grants keep *)

\* Whatever event handler, claim or command came last, a purchase grant is what the
\* stored refunds and disputes say, and the entitlement what the grants say
\* (deriveDisputedPurchaseGrantState, recomputeRefundPurchaseAccess, the claim's SQL).
THEOREM AccessIsWhatFactsSay == Spec => []AccessFollowsFacts
<1>1. AccessInv => AccessFollowsFacts
  BY DEF AccessInv
<1> QED
  BY <1>1, AccessInductive, PTL

\* A refund shown as finalized is attributed in full, one that waits for review or has
\* a draft not at all (refunds.allocationStatus).
THEOREM ReviewIsTrue == Spec => []AttributionIsComplete
<1>1. AccessInv => AttributionIsComplete
  BY DEF AccessInv, Money, RefundHolds, AttributionIsComplete
<1> QED
  BY <1>1, AccessInductive, PTL

\* Attributing refunds as their news comes in, by the worker or by hand, splits each
\* amount as attributing them all in chronological order would
\* (planRefundAllocationComponents).
THEOREM SplitIsInOrder == Spec => []SplitAsInOrder
<1>1. AccessInv => SplitAsInOrder
  BY SplitInOrder DEF AccessInv, Money, SplitAsInOrder
<1> QED
  BY <1>1, AccessInductive, PTL

\* No item's price or tax is refunded more than once, and a refund is attributed in full
\* or not at all (allocateDeterministicRefunds, executeRefundAllocationFinalizeLocked).
THEOREM RefundsWithinAmounts == Spec => []WithinAmounts
<1>1. ASSUME AccessInv PROVE WithinAmounts
  <2>1. /\ parts \in [Refunds -> [Items -> Part]] /\ \A i \in Items : Left(parts, i) \in Part
        /\ \A r \in Refunds : RefundHolds(parts, refund, r)
    BY <1>1 DEF AccessInv, Money, PartsHold
  <2>2. ASSUME NEW i \in Items
        PROVE /\ SumFunction([r \in Refunds |-> parts[r][i].subtotal]) <= Subtotal[i]
              /\ SumFunction([r \in Refunds |-> parts[r][i].tax]) <= Tax[i]
    <3> DEFINE f == [r \in Refunds |-> parts[r][i].subtotal]
               g == [r \in Refunds |-> parts[r][i].tax]
    <3>1. /\ SumFunction(f) = Sum(f, Refunds) /\ SumFunction(g) = Sum(g, Refunds)
      BY SumFunctionIs
    <3>2. \A r \in Refunds : f[r] \in Nat /\ g[r] \in Nat
      BY <2>1 DEF Part
    <3>3. Subtotal[i] - SumFunction(f) \in Nat /\ Tax[i] - SumFunction(g) \in Nat
      <4>1. Left(parts, i) = [subtotal |-> Subtotal[i] - SumFunction(f), tax |-> Tax[i] - SumFunction(g)]
        BY DEF Left
      <4> HIDE DEF f, g
      <4> QED
        BY <2>1, <4>1 DEF Part
    <3>4. Subtotal[i] \in Nat /\ Tax[i] \in Nat
      BY AmountsAssumption
    <3> HIDE DEF f, g
    <3>5. Sum(f, Refunds) \in Nat
      BY <3>2, SumNat, Finite
    <3>6. Sum(g, Refunds) \in Nat
      BY <3>2, SumNat, Finite
    <3>7. SumFunction(f) <= Subtotal[i] /\ SumFunction(g) <= Tax[i]
      BY <3>1, <3>3, <3>4, <3>5, <3>6
    <3> QED
      BY <3>7 DEF f, g
  <2> QED
    BY <2>1, <2>2 DEF WithinAmounts, RefundHolds
<1> QED
  BY <1>1, AccessInductive, PTL

\* Once every event that was sent has been handled, in whatever order, the local status
\* is the provider's (storeCanonicalRefund, storeDispute).
THEOREM StatusConverges == Spec => []Converged
<1>1. ASSUME AccessInv PROVE Converged
  <2>1. /\ \A o \in Objects : EventsHold(o)
        /\ \A r \in Refunds : LocalRefundHolds(r)
        /\ \A d \in Disputes : LocalDisputeHolds(d)
    BY <1>1 DEF AccessInv, News
  <2>2. ASSUME NEW o \in Objects
        PROVE provider[o] = "none" \/ \E n \in Times : LatestSent(o, n)
    <3> DEFINE After == {k \in Nat : \A m \in Times : m > k => event[o][m] \in Unsent}
    <3>1. After \subseteq Nat /\ After # {}
      <4>1. MaxEvents \in Nat /\ \A m \in Times : ~(m > MaxEvents)
        BY BoundsAssumption DEF Times
      <4> QED
        BY <4>1
    <3>2. PICK k \in After : \A j \in After : k <= j
      <4> HIDE DEF After
      <4> QED
        BY <3>1, SmallestNumber
    <3>3. CASE k = 0
      <4>1. \A m \in Times : m > 0
        BY DEF Times
      <4> QED
        BY <2>1, <3>2, <3>3, <4>1 DEF EventsHold
    <3>4. CASE k # 0
      <4>1. k \in Nat /\ k - 1 \in Nat /\ k - 1 \notin After
        BY <3>2, <3>4
      <4>2. PICK m \in Times : m > k - 1 /\ event[o][m] \notin Unsent
        BY <4>1
      <4>3. m = k
        BY <3>2, <4>1, <4>2 DEF Times
      <4>4. LatestSent(o, k)
        BY <3>2, <4>2, <4>3 DEF LatestSent
      <4> QED
        BY <4>2, <4>3, <4>4
    <3> QED
      BY <3>3, <3>4
  <2>3. ASSUME NEW r \in Refunds, \A n \in Times : event[r][n] # "pending"
        PROVE \/ refund[r].status = provider[r]
              \/ /\ refund[r].status = "succeeded" /\ provider[r] = "failed"
                 /\ \E n \in Times : event[r][n] = "exception"
    <3>1. r \in Objects
      BY DEF Objects
    <3> QED
      BY <2>1, <2>2, <2>3, <3>1 DEF LocalRefundHolds
  <2>4. ASSUME NEW d \in Disputes, \A n \in Times : event[d][n] # "pending"
        PROVE dispute[d].status = provider[d]
    <3>1. d \in Objects /\ LocalDisputeHolds(d)
      BY <2>1 DEF Objects
    <3>2. CASE provider[d] = "none"
      BY <3>1, <3>2 DEF LocalDisputeHolds
    <3>3. CASE provider[d] # "none"
      <4>1. PICK n \in Times : LatestSent(d, n)
        BY <2>2, <3>1, <3>3
      <4>2. dispute[d] = [status |-> provider[d], at |-> n]
        BY <2>4, <3>1, <4>1 DEF LocalDisputeHolds
      <4> QED
        BY <4>2
    <3> QED
      BY <3>2, <3>3
  <2> QED
    BY <2>3, <2>4 DEF Converged
<1> QED
  BY <1>1, AccessInductive, PTL

\* No step of a handler, a claim or a command takes back an attribution, a final status,
\* a lost dispute or a revocation.
THEOREM NothingIsTakenBack == Spec => NothingTakenBack
<1> DEFINE Kept == /\ \A r \in Refunds, i \in Items :
                        Minor(parts[r][i]) > 0 => parts'[r][i] = parts[r][i]
                   /\ \A r \in Refunds : refund[r].status \in {"succeeded", "failed"} =>
                        refund'[r].status = refund[r].status
                   /\ \A d \in Disputes : dispute[d].status \in {"won", "lost"} =>
                        dispute'[d].status = dispute[d].status
                   /\ \A i \in Items : grant[i] = "revoked" => grant'[i] = "revoked"
<1>1. ASSUME AccessInv, [Next]_vars PROVE [Kept]_vars
  <2>0. /\ AccessFollowsFacts /\ PartsHold(parts) /\ SplitHolds(parts)
        /\ refund \in [Refunds -> [status : RefundStatus, attribution : Attribution]]
    BY <1>1 DEF AccessInv, AccessType, TypeOK, Money
  <2>1. ASSUME NEW o \in Objects, NEW n \in Times, ProviderChanges(o, n) \/ RetrieveObject(o, n) PROVE Kept
    <3>1. UNCHANGED <<parts, refund, dispute, grant>>
      BY <2>1 DEF ProviderChanges, RetrieveObject
    <3> QED
      BY <3>1
  <2>2. ASSUME NEW x \in reads, HandlerStops(x) PROVE Kept
    <3>1. UNCHANGED <<parts, refund, dispute, grant>>
      BY <2>2 DEF HandlerStops
    <3> QED
      BY <3>1
  <2>3. ASSUME NEW x \in reads, FulfillRefundEvent(x) PROVE Kept
    <3>1. dispute' = dispute
      BY <2>3 DEF FulfillRefundEvent
    <3>2. CASE RefundConflict(x.object, x.status)
      <4>1. UNCHANGED <<refund, parts, grant>>
        BY <1>1, <2>3, <3>2, RefundEventIs
      <4> QED
        BY <3>1, <4>1
    <3>3. CASE ~RefundConflict(x.object, x.status)
      <4>1. /\ \A q \in Refunds : refund'[q].status =
                 IF q = x.object THEN StoredRefund(x.object, x.status).status ELSE refund[q].status
            /\ Grows(parts, parts')
            /\ grant' = Recomputed(parts') \/ (parts' = parts /\ grant' = grant)
        BY <1>1, <2>3, <3>3, RefundEventIs
      <4>2. \A q \in Refunds : refund[q].status \in {"succeeded", "failed"} => refund'[q].status = refund[q].status
        BY <4>1 DEF StoredRefund
      <4>3. \A i \in Items : grant[i] = "revoked" => grant'[i] = "revoked"
        BY <4>1 DEF Recomputed
      <4> QED
        BY <3>1, <4>1, <4>2, <4>3 DEF Grows
    <3> QED
      BY <3>2, <3>3
  <2>4. ASSUME NEW x \in reads, FulfillDisputeEvent(x) PROVE Kept
    <3>1. UNCHANGED <<parts, refund>>
      BY <2>4 DEF FulfillDisputeEvent
    <3>2. /\ \A e \in Disputes : dispute[e].status \in {"won", "lost"} => dispute'[e].status = dispute[e].status
          /\ grant' = [i \in Items |-> DerivedGrant(i, grant[i], parts, dispute', owner)]
      BY <1>1, <2>4, DisputeEventIs
    <3>3. \A i \in Items : grant[i] = "revoked" => grant'[i] = "revoked"
      BY <3>2 DEF DerivedGrant
    <3> QED
      BY <3>1, <3>2, <3>3
  <2>5. ASSUME PaymentFulfilled PROVE Kept
    <3>1. UNCHANGED <<parts, refund, dispute>> /\ ~paid
      BY <2>5 DEF PaymentFulfilled
    <3>2. \A i \in Items : grant[i] = "none"
      BY <2>0, <3>1 DEF AccessFollowsFacts
    <3> QED
      BY <3>1, <3>2
  <2>6. ASSUME ClaimGuestPurchases PROVE Kept
    <3>1. UNCHANGED <<parts, refund, dispute>>
      BY <2>6 DEF ClaimGuestPurchases
    <3>2. \A i \in Items : grant[i] = "revoked" => grant'[i] = "revoked"
      BY <2>6 DEF ClaimGuestPurchases, ClaimedGrant, DerivedGrant
    <3> QED
      BY <3>1, <3>2
  <2>7. ASSUME NEW r \in Refunds, NEW p \in Proposals, SaveRefundDraft(r, p) PROVE Kept
    <3>1. UNCHANGED <<parts, dispute, grant>> /\ refund' = [refund EXCEPT ![r].attribution = "draft"]
      BY <2>7 DEF SaveRefundDraft
    <3> QED
      BY <2>0, <3>1
  <2>8. ASSUME NEW r \in Refunds, DiscardRefundDraft(r) PROVE Kept
    <3>1. UNCHANGED <<parts, dispute, grant>> /\ refund' = [refund EXCEPT ![r].attribution = "needs_review"]
      BY <2>8 DEF DiscardRefundDraft
    <3> QED
      BY <2>0, <3>1
  <2>9. ASSUME NEW r \in Refunds, FinalizeRefund(r) PROVE Kept
    <3>1. dispute' = dispute /\ refund' = [refund EXCEPT ![r].attribution = "finalized"]
      BY <2>9 DEF FinalizeRefund
    <3>2. Grows(parts, parts') /\ grant' = Recomputed(parts')
      BY <1>1, <2>9, FinalizeIs
    <3>3. \A i \in Items : grant[i] = "revoked" => grant'[i] = "revoked"
      BY <3>2 DEF Recomputed
    <3> QED
      BY <2>0, <3>1, <3>2, <3>3 DEF Grows
  <2>10. ASSUME NEW i \in Items, ActivateRecovery(i) \/ DeactivateRecovery(i) PROVE Kept
    <3>1. UNCHANGED <<parts, refund, dispute, grant>>
      BY <2>10 DEF ActivateRecovery, DeactivateRecovery
    <3> QED
      BY <3>1
  <2> HIDE DEF Kept
  <2>11. CASE Next
    BY <2>1, <2>2, <2>3, <2>4, <2>5, <2>6, <2>7, <2>8, <2>9, <2>10, <2>11 DEF Next
  <2> QED
    BY <1>1, <2>11
<1> QED
  BY <1>1, AccessInductive, PTL DEF Spec, NothingTakenBack

\* Every variable of PurchaseAccess has its type, drafts propose a whole refund.
THEOREM AccessIsTyped == Spec => []TypeOK
<1>1. AccessInv => TypeOK
  BY DEF AccessInv, AccessType
<1> QED
  BY <1>1, AccessInductive, PTL

\* In every state, whatever further refunds succeed: the attribution is one the
\* arithmetic is exact on, the loops over refunds and items give the overlap of their
\* intervals, and what they add is exact.
RefundArithmetic ==
  \A succ \in SUBSET Refunds : Succeeded(refund) \subseteq succ =>
    Attributable(succ, parts) /\ GivesOverlaps(succ, parts) /\ IsExact(succ, parts)

\* No order of news, drafts and repairs brings the attribution into a state from which
\* allocateDeterministicRefunds or planRefundAllocationComponents is inexact.
THEOREM ArithmeticStaysExact == Spec => []RefundArithmetic
<1>1. ASSUME AccessInv PROVE RefundArithmetic
  <2> SUFFICES ASSUME NEW succ \in SUBSET Refunds, Succeeded(refund) \subseteq succ
               PROVE Attributable(succ, parts) /\ GivesOverlaps(succ, parts) /\ IsExact(succ, parts)
    BY DEF RefundArithmetic
  <2>1. PartsHold(parts) /\ \A r \in Refunds : RefundHolds(parts, refund, r)
    BY <1>1 DEF AccessInv, Money
  <2>2. \A r \in Refunds : RefundAllocated(parts, r) \in IF r \in succ THEN {0, Amount[r]} ELSE {0}
    <3> TAKE r \in Refunds
    <3>1. RefundAllocated(parts, r) \in IF refund[r].status = "succeeded" THEN {0, Amount[r]} ELSE {0}
      BY <2>1 DEF RefundHolds
    <3>2. refund[r].status = "succeeded" => r \in succ
      BY DEF Succeeded
    <3> QED
      BY <3>1, <3>2
  <2>3. Attributable(succ, parts)
    BY <2>1, <2>2 DEF Attributable
  <2>4. IsExact(succ, parts)
    BY <2>3, AttributesExactly
  <2>5. GivesOverlaps(succ, parts)
    BY <2>1, LoopsGiveOverlaps DEF PartsHold
  <2> QED
    BY <2>3, <2>4, <2>5
<1>2. AccessInv => RefundArithmetic
  BY <1>1
<1> QED
  BY <1>2, AccessInductive, PTL

\* The order as ReportingCorrections takes it, when these refunds have evidence.
OrderOf(rf, ps, staged) ==
  [items |-> ItemCount, refunds |-> RefundCount, subtotal |-> Subtotal, tax |-> Tax, amount |-> Amount,
   attributed |-> ps, succeeded |-> Succeeded(rf), staged |-> staged]

SuitsReports == \A staged \in SUBSET Succeeded(refund) : IsAttributed(OrderOf(refund, parts, staged))

\* What ReportingCorrections assumes of an order holds of every order here, at any time
\* and whichever of its succeeded refunds have evidence.
THEOREM AttributionSuitsReports == Spec => []SuitsReports
<1>1. ASSUME AccessInv, NEW staged \in SUBSET Succeeded(refund)
      PROVE IsAttributed(OrderOf(refund, parts, staged))
  <2> DEFINE o == OrderOf(refund, parts, staged)
             succ == Succeeded(refund)
  <2>1. /\ parts \in [Refunds -> [Items -> Part]] /\ \A i \in Items : Left(parts, i) \in Part
    BY <1>1 DEF AccessInv, Money, PartsHold
  <2>2. /\ ItemCount \in Nat /\ Subtotal \in [Items -> Nat] /\ Tax \in [Items -> Nat]
        /\ \A r \in Refunds : Amount[r] \in Nat
    BY AmountsAssumption
  <2>3. succ \subseteq Refunds /\ IsFiniteSet(succ)
    <3>1. succ \subseteq Refunds
      BY DEF Succeeded
    <3> QED
      BY <3>1, Finite, FS_Subset
  <2>4. ASSUME NEW c \in Items \X {"subtotal", "tax"}
        PROVE SumFunction([r \in succ |-> At(parts[r], c)]) <= (IF c[2] = "subtotal" THEN Subtotal[c[1]] ELSE Tax[c[1]])
    <3> DEFINE i == c[1]
               some == [r \in succ |-> At(parts[r], c)]
               all == [r \in Refunds |-> At(parts[r], c)]
               paidIn == IF c[2] = "subtotal" THEN Subtotal[i] ELSE Tax[i]
    <3>1. i \in Items /\ c[2] \in {"subtotal", "tax"}
      OBVIOUS
    <3>2. \A r \in Refunds : At(parts[r], c) = IF c[2] = "subtotal" THEN parts[r][i].subtotal ELSE parts[r][i].tax
      BY <3>1 DEF At
    <3>3. \A r \in Refunds : parts[r][i].subtotal \in Nat /\ parts[r][i].tax \in Nat
      BY <2>1, <3>1 DEF Part
    <3>4. \A r \in Refunds : all[r] \in Nat /\ (r \in succ => some[r] = all[r])
      BY <3>1, <3>2, <3>3
    <3>5. SumFunction(some) = Sum(some, succ) /\ SumFunction(all) = Sum(all, Refunds)
      BY SumFunctionIs
    <3>6. paidIn - SumFunction(all) \in Nat /\ paidIn \in Nat
      <4>1. Left(parts, i) = [subtotal |-> Subtotal[i] - SumFunction([r \in Refunds |-> parts[r][i].subtotal]),
                              tax |-> Tax[i] - SumFunction([r \in Refunds |-> parts[r][i].tax])]
        BY DEF Left
      <4>2. CASE c[2] = "subtotal"
        <5>1. all = [r \in Refunds |-> parts[r][i].subtotal]
          BY <3>2, <4>2
        <5>2. Left(parts, i).subtotal = Subtotal[i] - SumFunction(all)
          BY <4>1, <5>1
        <5>3. Left(parts, i).subtotal \in Nat /\ Subtotal[i] \in Nat
          BY <2>1, <2>2, <3>1 DEF Part
        <5> QED
          BY <4>2, <5>2, <5>3
      <4>3. CASE c[2] = "tax"
        <5>1. all = [r \in Refunds |-> parts[r][i].tax]
          BY <3>2, <4>3
        <5>2. Left(parts, i).tax = Tax[i] - SumFunction(all)
          BY <4>1, <5>1
        <5>3. Left(parts, i).tax \in Nat /\ Tax[i] \in Nat
          BY <2>1, <2>2, <3>1 DEF Part
        <5> QED
          BY <4>3, <5>2, <5>3
      <4> QED
        BY <3>1, <4>2, <4>3
    <3> HIDE DEF some, all, paidIn, succ
    <3>7. Sum(some, succ) <= Sum(all, Refunds)
      BY <2>3, <3>4, SumMonotone, Finite
    <3>8. Sum(some, succ) \in Nat /\ Sum(all, Refunds) \in Nat
      <4>1. Sum(some, succ) \in Nat
        BY <2>3, <3>4, SumNat
      <4>2. Sum(all, Refunds) \in Nat
        BY <3>4, SumNat, Finite
      <4> QED
        BY <4>1, <4>2
    <3>9. SumFunction(some) <= paidIn
      BY <3>5, <3>6, <3>7, <3>8
    <3> QED
      BY <3>9 DEF some, paidIn, succ
  <2>5. /\ o.items = ItemCount /\ o.subtotal = Subtotal /\ o.tax = Tax /\ o.amount = Amount
        /\ o.attributed = parts /\ o.succeeded = succ /\ o.staged = staged
    BY DEF OrderOf
  <2>6. /\ ComponentOf(o) = Items \X {"subtotal", "tax"}
        /\ \A c : PaidIn(o, c) = IF c[2] = "subtotal" THEN Subtotal[c[1]] ELSE Tax[c[1]]
    BY <2>5 DEF ComponentOf, PaidIn, Items
  <2>7. \A r \in succ : o.amount[r] \in Nat /\ o.attributed[r] \in [1 .. o.items -> [subtotal : Nat, tax : Nat]]
    BY <2>1, <2>2, <2>3, <2>5 DEF Items, Part
  <2>8. /\ o.items \in Nat /\ o.subtotal \in [1 .. o.items -> Nat] /\ o.tax \in [1 .. o.items -> Nat]
        /\ IsFiniteSet(o.succeeded) /\ o.staged \subseteq o.succeeded
    BY <2>2, <2>3, <2>5 DEF Items
  <2>9. \A c \in ComponentOf(o) : SumFunction([r \in o.succeeded |-> At(o.attributed[r], c)]) <= PaidIn(o, c)
    <3> HIDE DEF o
    <3> QED
      BY <2>4, <2>5, <2>6
  <2> HIDE DEF o
  <2> QED
    BY <2>5, <2>7, <2>8, <2>9 DEF IsAttributed, o
<1>2. AccessInv => SuitsReports
  BY <1>1 DEF SuitsReports
<1> QED
  BY <1>2, AccessInductive, PTL

-----------------------------------------------------------------------------
(* The arithmetic of the order of the reports *)

\* The order of the reports is the one that the constants name.
OrderIs ==
  /\ order.items = ItemCount /\ order.refunds = RefundCount
  /\ order.subtotal = Subtotal /\ order.tax = Tax /\ order.amount = Amount

\* The sum, the smallest and the largest are the same for any order.
LEMMA SameFolds ==
  /\ \A f : A!SumFunction(f) = SumFunction(f)
  /\ \A s : A!Min(s) = Min(s) /\ A!Max(s) = Max(s)
<1>1. ASSUME NEW f PROVE A!SumFunction(f) = SumFunction(f)
  BY DEF A!SumFunction, SumFunction, A!SumFunctionOnSet, SumFunctionOnSet,
         A!FoldFunctionOnSet, FoldFunctionOnSet, A!MapThenFoldSet, MapThenFoldSet
<1>2. ASSUME NEW s PROVE A!Min(s) = Min(s) /\ A!Max(s) = Max(s)
  BY DEF A!Min, Min, A!Max, Max
<1> QED
  BY <1>1, <1>2

\* What the arithmetic is made of, for this order.
LEMMA SameParts ==
  ASSUME OrderIs
  PROVE /\ A!Items = Items /\ A!Refunds = Refunds /\ A!NoPart = NoPart
        /\ \A part : A!Minor(part) = Minor(part)
        /\ \A i : A!Total(i) = Total(i)
        /\ A!NoAmounts = NoAmounts /\ A!Cells = Cells
<1>1. A!Items = Items /\ A!Refunds = Refunds /\ A!NoPart = NoPart
  BY DEF OrderIs, A!Items, Items, A!Refunds, Refunds, A!NoPart, NoPart
<1>2. ASSUME NEW part PROVE A!Minor(part) = Minor(part)
  BY DEF A!Minor, Minor
<1>3. ASSUME NEW i PROVE A!Total(i) = Total(i)
  BY DEF OrderIs, A!Total, Total
<1>4. A!NoAmounts = NoAmounts
  BY <1>1 DEF A!NoAmounts, NoAmounts
<1>5. A!Cells = Cells
  BY DEF OrderIs, A!Cells, Cells
<1> QED
  BY <1>1, <1>2, <1>3, <1>4, <1>5

\* What is attributed and what is left.
LEMMA SameRests ==
  ASSUME OrderIs, NEW ps
  PROVE /\ \A i : /\ A!ItemAllocated(ps, i) = ItemAllocated(ps, i)
                  /\ A!ItemRest(ps, i) = ItemRest(ps, i)
                  /\ A!FullyAllocated(ps, i) <=> FullyAllocated(ps, i)
                  /\ A!Left(ps, i) = Left(ps, i)
        /\ \A r : /\ A!RefundAllocated(ps, r) = RefundAllocated(ps, r)
                  /\ A!RefundRest(ps, r) = RefundRest(ps, r)
<1>1. ASSUME NEW i
      PROVE A!ItemAllocated(ps, i) = ItemAllocated(ps, i)
  <2> DEFINE f == [r \in A!Refunds |-> A!Minor(ps[r][i])]
             g == [r \in Refunds |-> Minor(ps[r][i])]
  <2>1. f = g
    BY SameParts
  <2>2. A!ItemAllocated(ps, i) = A!SumFunction(f) /\ ItemAllocated(ps, i) = SumFunction(g)
    BY DEF A!ItemAllocated, ItemAllocated
  <2> QED
    BY <2>1, <2>2, SameFolds
<1>2. ASSUME NEW i
      PROVE /\ A!ItemRest(ps, i) = ItemRest(ps, i)
            /\ A!FullyAllocated(ps, i) <=> FullyAllocated(ps, i)
  BY <1>1, SameParts DEF A!ItemRest, ItemRest, A!FullyAllocated, FullyAllocated
<1>3. ASSUME NEW i
      PROVE A!Left(ps, i) = Left(ps, i)
  <2> DEFINE f == [r \in Refunds |-> ps[r][i].subtotal]
             g == [r \in Refunds |-> ps[r][i].tax]
  <2>1. A!Left(ps, i) = [subtotal |-> Subtotal[i] - A!SumFunction(f), tax |-> Tax[i] - A!SumFunction(g)]
    BY SameParts DEF OrderIs, A!Left
  <2>2. Left(ps, i) = [subtotal |-> Subtotal[i] - SumFunction(f), tax |-> Tax[i] - SumFunction(g)]
    BY DEF Left
  <2> QED
    BY <2>1, <2>2, SameFolds
<1>4. ASSUME NEW r
      PROVE A!RefundAllocated(ps, r) = RefundAllocated(ps, r)
  <2> DEFINE f == [i \in A!Items |-> A!Minor(ps[r][i])]
             g == [i \in Items |-> Minor(ps[r][i])]
  <2>1. f = g
    BY SameParts
  <2>2. A!RefundAllocated(ps, r) = A!SumFunction(f) /\ RefundAllocated(ps, r) = SumFunction(g)
    BY DEF A!RefundAllocated, RefundAllocated
  <2> QED
    BY <2>1, <2>2, SameFolds
<1>5. ASSUME NEW r PROVE A!RefundRest(ps, r) = RefundRest(ps, r)
  BY <1>4 DEF OrderIs, A!RefundRest, RefundRest
<1> QED
  BY <1>1, <1>2, <1>3, <1>4, <1>5

\* What the arithmetic finds.
LEMMA SameState ==
  ASSUME OrderIs, NEW ps, NEW succ
  PROVE /\ A!OrderTotal = OrderTotal /\ A!RefundedBy(succ) = RefundedBy(succ)
        /\ A!AllocationState(succ, ps) = AllocationState(succ, ps)
<1>1. A!OrderTotal = OrderTotal
  <2>1. [i \in A!Items |-> A!Total(i)] = [i \in Items |-> Total(i)]
    BY SameParts
  <2> QED
    BY <2>1, SameFolds DEF A!OrderTotal, OrderTotal
<1>2. A!RefundedBy(succ) = RefundedBy(succ)
  BY SameFolds DEF OrderIs, A!RefundedBy, RefundedBy
<1>3. A!Inconsistent(succ, ps) <=> Inconsistent(succ, ps)
  <2>1. A!Refunds = Refunds /\ A!Items = Items
    BY SameParts
  <2>2. /\ \A r : A!RefundAllocated(ps, r) = RefundAllocated(ps, r)
        /\ \A r : A!RefundRest(ps, r) = RefundRest(ps, r)
        /\ \A i : A!ItemRest(ps, i) = ItemRest(ps, i)
    BY SameRests
  <2> QED
    BY <1>1, <1>2, <2>1, <2>2 DEF A!Inconsistent, Inconsistent
<1>4. /\ A!SumFunction([r \in succ |-> A!RefundRest(ps, r)]) = SumFunction([r \in succ |-> RefundRest(ps, r)])
      /\ A!SumFunction([i \in A!Items |-> A!ItemRest(ps, i)]) = SumFunction([i \in Items |-> ItemRest(ps, i)])
  <2>1. [r \in succ |-> A!RefundRest(ps, r)] = [r \in succ |-> RefundRest(ps, r)]
    BY SameRests
  <2>2. [i \in A!Items |-> A!ItemRest(ps, i)] = [i \in Items |-> ItemRest(ps, i)]
    BY SameParts, SameRests
  <2> QED
    BY <2>1, <2>2, SameFolds
<1>5. A!AllocationState(succ, ps) = AllocationState(succ, ps)
  BY <1>3, <1>4 DEF OrderIs, A!AllocationState, AllocationState
<1> QED
  BY <1>1, <1>2, <1>5

\* One step of the loop over refunds and items.
LEMMA SameGive ==
  ASSUME OrderIs, NEW ps, NEW succ, NEW new, NEW cell
  PROVE A!Give(succ, ps, new, cell) = Give(succ, ps, new, cell)
<1>1. A!RefundOpen(ps, new, cell[1]) = RefundOpen(ps, new, cell[1])
  BY SameRests, SameFolds DEF A!RefundOpen, RefundOpen
<1>2. A!ItemOpen(ps, new, cell[2]) = ItemOpen(ps, new, cell[2])
  <2>1. [r \in A!Refunds |-> new[r][cell[2]]] = [r \in Refunds |-> new[r][cell[2]]]
    BY SameParts
  <2> QED
    BY <2>1, SameRests, SameFolds DEF A!ItemOpen, ItemOpen
<1> QED
  BY <1>1, <1>2, SameFolds DEF OrderIs, A!Give, Give

\* What the loop gives.
LEMMA SameAmounts ==
  ASSUME OrderIs, NEW ps, NEW succ
  PROVE A!NewAmounts(succ, ps) = NewAmounts(succ, ps)
<1> DEFINE n == RefundCount * ItemCount
           F(f) == [k \in 0 .. n |-> IF k = 0 THEN NoAmounts ELSE Give(succ, ps, f[k - 1], Cells[k])]
           G(f) == [k \in 0 .. n |-> IF k = 0 THEN A!NoAmounts ELSE A!Give(succ, ps, f[k - 1], A!Cells[k])]
<1>1. \A f : F(f) = G(f)
  BY SameParts, SameGive
<1>2. (CHOOSE f : f = F(f)) = (CHOOSE f : f = G(f))
  <2>1. \A f : f = F(f) <=> f = G(f)
    BY <1>1
  <2> HIDE DEF F, G
  <2> QED
    BY <2>1, Zenon
<1>3. NewAmounts(succ, ps) = (CHOOSE f : f = F(f))[n]
  BY DEF NewAmounts, Given
<1>4. A!NewAmounts(succ, ps) = (CHOOSE f : f = G(f))[n]
  BY DEF OrderIs, A!NewAmounts, A!Given
<1> QED
  BY <1>2, <1>3, <1>4

\* One step of the loop that splits.
LEMMA SamePlan ==
  ASSUME NEW plan, NEW r, NEW amount
  PROVE A!Plan(plan, r, amount) = Plan(plan, r, amount)
BY DEF A!Plan, Plan, A!Split, Split, A!Minor, Minor, A!Fits, Fits, A!Minus, Minus

\* How the new amounts are split.
LEMMA SameComponents ==
  ASSUME OrderIs, NEW ps, NEW new
  PROVE /\ A!WithComponents(ps, new) = WithComponents(ps, new)
        /\ A!Rejected(ps, new) <=> Rejected(ps, new)
        /\ A!OutOfOrder(ps, new) <=> OutOfOrder(ps, new)
<1>1. ASSUME NEW i PROVE A!PlannedItem(ps, new, i) = PlannedItem(ps, new, i)
  <2> DEFINE F(f) == [k \in 0 .. RefundCount |->
                        IF k = 0 THEN [left |-> Left(ps, i), rejected |-> FALSE,
                                       part |-> [r \in Refunds |-> ps[r][i]]]
                        ELSE Plan(f[k - 1], k, new[k][i])]
             G(f) == [k \in 0 .. RefundCount |->
                        IF k = 0 THEN [left |-> A!Left(ps, i), rejected |-> FALSE,
                                       part |-> [r \in A!Refunds |-> ps[r][i]]]
                        ELSE A!Plan(f[k - 1], k, new[k][i])]
  <2>1. \A f : F(f) = G(f)
    <3>1. A!Refunds = Refunds /\ A!Left(ps, i) = Left(ps, i)
      BY SameParts, SameRests
    <3> QED
      BY <3>1, SamePlan
  <2>2. (CHOOSE f : f = F(f)) = (CHOOSE f : f = G(f))
    <3>1. \A f : f = F(f) <=> f = G(f)
      BY <2>1
    <3> HIDE DEF F, G
    <3> QED
      BY <3>1, Zenon
  <2>3. PlannedItem(ps, new, i) = (CHOOSE f : f = F(f))[RefundCount]
    BY DEF PlannedItem, Plans
  <2>4. A!PlannedItem(ps, new, i) = (CHOOSE f : f = G(f))[RefundCount]
    BY DEF OrderIs, A!PlannedItem, A!Plans
  <2> QED
    BY <2>2, <2>3, <2>4
<1>2. A!WithComponents(ps, new) = WithComponents(ps, new)
  BY <1>1, SameParts DEF A!WithComponents, WithComponents
<1>3. A!Rejected(ps, new) <=> Rejected(ps, new)
  BY <1>1, SameParts DEF A!Rejected, Rejected
<1>4. A!OutOfOrder(ps, new) <=> OutOfOrder(ps, new)
  BY SameParts DEF A!OutOfOrder, OutOfOrder
<1> QED
  BY <1>2, <1>3, <1>4

\* What the loops should give.
LEMMA SameOverlaps ==
  ASSUME OrderIs, NEW ps, NEW succ
  PROVE A!GivesOverlaps(succ, ps) <=> GivesOverlaps(succ, ps)
<1>1. ASSUME NEW r PROVE A!RefundsBefore(succ, ps, r) = RefundsBefore(succ, ps, r)
  <2>1. [q \in {q \in succ : q < r} |-> A!RefundRest(ps, q)] = [q \in {q \in succ : q < r} |-> RefundRest(ps, q)]
    BY SameRests
  <2> QED
    BY <2>1, SameFolds DEF A!RefundsBefore, RefundsBefore
<1>2. ASSUME NEW i PROVE A!ItemsBefore(ps, i) = ItemsBefore(ps, i)
  <2>1. [j \in {j \in A!Items : j < i} |-> A!ItemRest(ps, j)] = [j \in {j \in Items : j < i} |-> ItemRest(ps, j)]
    BY SameParts, SameRests
  <2> QED
    BY <2>1, SameFolds DEF A!ItemsBefore, ItemsBefore
<1>3. ASSUME NEW a, NEW x, NEW c, NEW y PROVE A!Overlap(a, x, c, y) = Overlap(a, x, c, y)
  BY SameFolds DEF A!Overlap, Overlap
<1>4. /\ A!Refunds = Refunds /\ A!Items = Items
      /\ A!AllocationState(succ, ps) = AllocationState(succ, ps)
      /\ A!NewAmounts(succ, ps) = NewAmounts(succ, ps)
  BY SameParts, SameState, SameAmounts
<1>5. ASSUME NEW r, NEW i
      PROVE A!RefundRest(ps, r) = RefundRest(ps, r) /\ A!ItemRest(ps, i) = ItemRest(ps, i)
  BY SameRests
<1> QED
  BY <1>1, <1>2, <1>3, <1>4, <1>5 DEF A!GivesOverlaps, GivesOverlaps

\* What the arithmetic should be.
LEMMA SameExactness ==
  ASSUME OrderIs, NEW ps, NEW succ
  PROVE A!IsExact(succ, ps) <=> IsExact(succ, ps)
<1>1. /\ A!Refunds = Refunds /\ A!Items = Items
      /\ \A part : A!Minor(part) = Minor(part)
  BY SameParts
<1>2. /\ A!AllocationState(succ, ps) = AllocationState(succ, ps)
      /\ A!RefundedBy(succ) = RefundedBy(succ) /\ A!OrderTotal = OrderTotal
      /\ A!NewAmounts(succ, ps) = NewAmounts(succ, ps)
  BY SameState, SameAmounts
<1>3. ASSUME NEW new
      PROVE /\ A!WithComponents(ps, new) = WithComponents(ps, new)
            /\ A!Rejected(ps, new) <=> Rejected(ps, new)
            /\ A!OutOfOrder(ps, new) <=> OutOfOrder(ps, new)
  BY SameComponents
<1>4. ASSUME NEW after, NEW r, NEW i
      PROVE /\ A!RefundRest(after, r) = RefundRest(after, r)
            /\ A!FullyAllocated(after, i) <=> FullyAllocated(after, i)
            /\ A!Left(after, i) = Left(after, i)
  BY SameRests
<1>5. ASSUME NEW after, NEW r, NEW i
      PROVE A!LeftFor(ps, after, r, i) = LeftFor(ps, after, r, i)
  <2>1. [q \in A!Refunds |-> IF q < r \/ A!Minor(ps[q][i]) > 0 THEN after[q] ELSE ps[q]]
          = [q \in Refunds |-> IF q < r \/ Minor(ps[q][i]) > 0 THEN after[q] ELSE ps[q]]
    BY <1>1
  <2> QED
    BY <2>1, <1>4 DEF A!LeftFor, LeftFor
<1> QED
  BY <1>1, <1>2, <1>3, <1>4, <1>5 DEF OrderIs, A!IsExact, IsExact

\* The order of the reports is the one the constants name, attributed as PurchaseAccess
\* leaves it (ArithmeticStaysExact).
OrderGiven == OrderIs /\ Attributable(order.succeeded, order.attributed)

\* No step of the reports changes the order.
LEMMA OrderStays ==
  ASSUME [ReportsNext]_reportVars
  PROVE order' = order
<1>1. CASE \E r \in Staged : Reconcile(r) \/ Correct(r) \/ Rearm(r)
  BY <1>1 DEF Reconcile, Correct, Rearm
<1>2. CASE \E r \in Staged, v \in Versions : Replay(r, v)
  BY <1>2 DEF Replay
<1>3. CASE RegisterPending \/ Activate
  BY <1>3 DEF RegisterPending, Activate
<1>4. CASE UNCHANGED reportVars
  BY <1>4 DEF reportVars
<1> QED
  BY <1>1, <1>2, <1>3, <1>4 DEF ReportsNext

\* So what the reports were given stays.
LEMMA OrderGivenStays ==
  ASSUME OrderGiven, [ReportsNext]_reportVars
  PROVE OrderGiven'
<1>1. order' = order
  BY OrderStays
<1> QED
  BY <1>1 DEF OrderGiven, OrderIs

\* For any items, prices, taxes and refunds, and whatever part of the refunds has been
\* attributed: when the worker attributes the others, its loops give every refund and
\* item the overlap of their intervals (allocateDeterministicRefunds).
THEOREM AttributedByOverlap == ReportsSpec /\ OrderGiven => []GreedyIsOverlap
<1>1. ASSUME OrderGiven PROVE GreedyIsOverlap
  <2>1. OrderIs /\ order.succeeded \subseteq Refunds /\ order.attributed \in [Refunds -> [Items -> Part]]
    BY <1>1 DEF OrderGiven, Attributable, PartsHold
  <2>2. GivesOverlaps(order.succeeded, order.attributed)
    BY <2>1, LoopsGiveOverlaps
  <2>3. A!GivesOverlaps(order.succeeded, order.attributed)
    BY <2>1, <2>2, SameOverlaps
  <2> QED
    BY <2>3 DEF GreedyIsOverlap, Attributed
<1>2. OrderGiven => GreedyIsOverlap
  BY <1>1
<1>3. OrderGiven /\ [ReportsNext]_reportVars => OrderGiven'
  BY OrderGivenStays
<1> QED
  BY <1>2, <1>3, PTL DEF ReportsSpec

\* For any such order: what the worker adds is complete, never rejected, within price
\* and tax, and rounded to the nearest unit (planRefundAllocationComponents).
THEOREM AttributedExactly == ReportsSpec /\ OrderGiven => []AttributionIsExact
<1>1. ASSUME OrderGiven PROVE AttributionIsExact
  <2>1. OrderIs /\ Attributable(order.succeeded, order.attributed)
    BY <1>1 DEF OrderGiven
  <2>2. IsExact(order.succeeded, order.attributed)
    BY <2>1, AttributesExactly
  <2>3. A!IsExact(order.succeeded, order.attributed)
    BY <2>1, <2>2, SameExactness
  <2> QED
    BY <2>3 DEF AttributionIsExact, Attributed
<1>2. OrderGiven => AttributionIsExact
  BY <1>1
<1>3. OrderGiven /\ [ReportsNext]_reportVars => OrderGiven'
  BY OrderGivenStays
<1> QED
  BY <1>2, <1>3, PTL DEF ReportsSpec

-----------------------------------------------------------------------------
(* The reports: the inductive invariant *)

ItemParts == [A!Items -> Part]
Correction == [base : Versions, approved : ItemParts, kind : {"approved", "rebase"}]
Row == [sets : SUBSET Versions, corrections : Seq(Correction),
        issues : [Versions -> SUBSET {"rebase", "missing"}],
        evidence : {"pending", "exception", "fee_reconciled"}, due : SUBSET Versions]

ReportsTypeOK ==
  /\ order \in Purchases
  /\ active \in Versions
  /\ pending = None \/ (pending \in Versions /\ pending = active + 1)
  /\ ledger \in [Staged -> Row]

\* Nothing belongs to an implementation that is not registered yet.
Known(v, a, p) == v <= a \/ v = p
KnownOnly(row, a, p) ==
  /\ \A v \in row.sets \cup row.due : Known(v, a, p)
  /\ \A k \in DOMAIN row.corrections :
       /\ row.corrections[k].base \in row.sets
       /\ row.corrections[k].kind = "approved" => row.corrections[k].base <= a

\* The anchors never go back, and a rebase skips no set.
Ordered(row) ==
  LET chain == row.corrections IN
  /\ \A j, k \in DOMAIN chain : j <= k => chain[j].base <= chain[k].base
  /\ \A j, k \in DOMAIN chain : k = j + 1 /\ chain[k].kind = "rebase" =>
       /\ chain[j].base < chain[k].base
       /\ \A w \in row.sets : w <= chain[j].base \/ chain[k].base <= w

\* Correction j is the approval that correction k repeats.
Repeats(chain, j, k) ==
  /\ j <= k /\ chain[j].kind = "approved"
  /\ chain[j].approved = chain[k].approved
  /\ \A m \in DOMAIN chain : j < m /\ m <= k => chain[m].kind = "rebase"
Descends(chain) == \A k \in DOMAIN chain : \E j \in DOMAIN chain : Repeats(chain, j, k)

\* A replay that has built its set has carried the correction over, or says so.
CarriedOver(row, p) ==
  p # None /\ p \in row.sets /\ row.corrections # << >> =>
    RawTip(row.corrections).base = p \/ "rebase" \in row.issues[p]

RowOK(row, a, p) ==
  KnownOnly(row, a, p) /\ Ordered(row) /\ Descends(row.corrections) /\ CarriedOver(row, p)

ReportsInv == ReportsTypeOK /\ \A r \in Staged : RowOK(ledger[r], active, pending)

-----------------------------------------------------------------------------
(* The reports: types *)

\* What is assumed of the order a behaviour starts with.
LEMMA OrderType ==
  ASSUME ReportsTypeOK
  PROVE  /\ IsAttributed(order) /\ order.items \in Nat /\ A!Items = 1 .. order.items
         /\ IsFiniteSet(order.succeeded) /\ Staged \subseteq order.succeeded
         /\ \A r \in order.succeeded : order.amount[r] \in Nat /\ Attributed[r] \in ItemParts
         /\ \A c \in Component : Paid(c) \in Nat /\ c \in A!Items \X {"subtotal", "tax"}
         /\ Component = A!Items \X {"subtotal", "tax"}
<1>1. IsAttributed(order)
  BY PurchasesAssumption DEF ReportsTypeOK
<1>2. /\ order.items \in Nat /\ A!Items = 1 .. order.items
      /\ IsFiniteSet(order.succeeded) /\ Staged \subseteq order.succeeded
      /\ Component = A!Items \X {"subtotal", "tax"}
  BY <1>1 DEF IsAttributed, A!Items, Component, ComponentOf, Staged
<1>3. \A r \in order.succeeded : order.amount[r] \in Nat /\ Attributed[r] \in ItemParts
  BY <1>1 DEF IsAttributed, A!Items, Attributed, ItemParts, Part
<1>4. \A c \in Component : Paid(c) \in Nat
  BY <1>1 DEF IsAttributed, Component, ComponentOf, Paid, PaidIn
<1> QED
  BY <1>1, <1>2, <1>3, <1>4

\* A distribution is a number at every component.
LEMMA AtType ==
  ASSUME ReportsTypeOK, NEW p \in ItemParts, NEW c \in Component
  PROVE At(p, c) \in Nat
<1>1. c \in A!Items \X {"subtotal", "tax"}
  BY OrderType
<1>2. p[c[1]] \in Part
  BY <1>1 DEF ItemParts
<1> QED
  BY <1>1, <1>2 DEF At, Part

\* The candidates for an implementation are positions of the chain of corrections.
LEMMA CandidatesType ==
  ASSUME NEW l \in [Staged -> Row], NEW v, NEW r \in Staged
  PROVE /\ l[r].corrections \in Seq(Correction)
        /\ Candidates(l, v, r) \subseteq DOMAIN l[r].corrections
        /\ IsFiniteSet(Candidates(l, v, r))
        /\ \A k \in Candidates(l, v, r) :
             l[r].corrections[k] \in Correction /\ l[r].corrections[k].approved \in ItemParts
        /\ Cardinality(Candidates(l, v, r)) = 1 =>
             \E k \in DOMAIN l[r].corrections : Candidates(l, v, r) = {k}
<1>1. l[r].corrections \in Seq(Correction)
  BY DEF Row
<1>2. Candidates(l, v, r) \subseteq DOMAIN l[r].corrections
  BY DEF Candidates
<1>3. IsFiniteSet(1 .. Len(l[r].corrections))
  BY <1>1, FS_Interval
<1>4. IsFiniteSet(Candidates(l, v, r))
  BY <1>1, <1>2, <1>3, FS_Subset
<1>5. \A k \in DOMAIN l[r].corrections : l[r].corrections[k] \in Correction
  BY <1>1
<1> QED
  BY <1>1, <1>2, <1>4, <1>5, FS_Singleton DEF Correction

\* What counts for a refund at a component is a number.
LEMMA EffectiveAmountType ==
  ASSUME ReportsTypeOK, NEW l \in [Staged -> Row], NEW v, NEW r \in order.succeeded, NEW c \in Component
  PROVE EffectiveAmount(l, v, r, c) \in Nat
<1>1. At(Attributed[r], c) \in Nat
  BY OrderType, AtType
<1>2. CASE r \notin Staged \/ Candidates(l, v, r) = {}
  BY <1>1, <1>2 DEF EffectiveAmount
<1>3. CASE r \in Staged /\ Candidates(l, v, r) # {}
  <2> DEFINE f == [k \in Candidates(l, v, r) |-> At(l[r].corrections[k].approved, c)]
  <2>1. \A k \in Candidates(l, v, r) : f[k] \in Nat
    BY <1>3, CandidatesType, AtType
  <2>2. IsFiniteSet(Candidates(l, v, r))
    BY <1>3, CandidatesType
  <2>3. Sum(f, Candidates(l, v, r)) \in Nat
    <3> HIDE DEF f
    <3> QED
      BY <2>1, <2>2, SumNat
  <2> QED
    BY <2>3, <1>3 DEF EffectiveAmount, Sum, SumFunction
<1> QED
  BY <1>2, <1>3

\* A share of what is left has no negative part.
LEMMA SplitType ==
  ASSUME NEW left \in Part, NEW amount \in Nat, amount <= A!Minor(left), amount # 0
  PROVE A!Split(left, amount) \in Part
<1> DEFINE s == left.subtotal
           t == left.tax
           q == (amount * s) \div (s + t)
           p == (amount * t) \div (s + t)
           first == (amount * s) % (s + t) >= (amount * t) % (s + t)
<1>1. s \in Nat /\ t \in Nat /\ s + t > 0
  BY DEF Part, A!Minor
<1>2. q + p <= amount
  <2> HIDE DEF s, t
  <2> QED
    BY <1>1, TwoSharesFit
<1>3. q \in Nat /\ p \in Nat
  <2> HIDE DEF s, t
  <2>1. amount * s \in Nat /\ amount * t \in Nat /\ s + t \in Nat \ {0}
    BY <1>1
  <2> QED
    BY <2>1, DivisionIs
<1>4. A!Split(left, amount) =
        [subtotal |-> q + (IF first THEN (amount - q) - p ELSE 0),
         tax |-> p + (IF first THEN 0 ELSE (amount - q) - p)]
  BY DEF A!Split, A!Minor
<1> HIDE DEF q, p, first
<1> QED
  BY <1>2, <1>3, <1>4 DEF Part

\* What a report of another refund takes is a number.
LEMMA SiblingType ==
  ASSUME ReportsTypeOK, NEW q \in order.succeeded, NEW c \in Component,
         NEW tips, q \notin Staged => tips = {},
         q \in Staged => tips \subseteq Candidates(ledger, active, q)
  PROVE Sibling(ledger, q, c, tips) \in Nat
<1>1. At(Attributed[q], c) \in Nat
  BY OrderType, AtType
<1>2. CASE tips = {}
  BY <1>1, <1>2 DEF Sibling
<1>3. CASE tips # {}
  <2>1. (CHOOSE k \in tips : TRUE) \in Candidates(ledger, active, q)
    BY <1>3
  <2>2. At(ledger[q].corrections[CHOOSE k \in tips : TRUE].approved, c) \in Nat
    BY <1>3, <2>1, CandidatesType, AtType DEF ReportsTypeOK
  <2> QED
    BY <1>3, <2>2 DEF Sibling
<1> QED
  BY <1>2, <1>3

\* The tip in force is one of the candidates.
LEMMA CompatibleTipType ==
  ASSUME NEW q
  PROVE CompatibleTip(ledger, active, q) \subseteq Candidates(ledger, active, q)
BY DEF CompatibleTip

\* What is left of a component is an integer.
LEMMA RestType ==
  ASSUME ReportsTypeOK, NEW r \in Staged, NEW c \in Component
  PROVE Rest(r, c) \in Int
<1> DEFINE Tips(q) == IF q \in Staged THEN CompatibleTip(ledger, active, q) ELSE {}
           others == order.succeeded \ {r}
           f == [q \in others |-> Sibling(ledger, q, c, Tips(q))]
<1>1. \A q \in others : f[q] \in Nat
  <2>1. \A q \in others : Sibling(ledger, q, c, Tips(q)) \in Nat
    BY SiblingType, CompatibleTipType
  <2> QED
    BY <2>1
<1>2. IsFiniteSet(others)
  BY OrderType, FS_Subset
<1>3. Sum(f, others) \in Nat
  <2> HIDE DEF f, others
  <2> QED
    BY <1>1, <1>2, SumNat
<1>4. Rest(r, c) = Paid(c) - Sum(f, others)
  BY DEF Rest, SumFunction, Sum
<1> QED
  BY <1>3, <1>4, OrderType

\* A distribution that passes the planner's checks has no negative part.
LEMMA PlannedType ==
  ASSUME ReportsTypeOK, NEW r \in Staged, NEW totals \in Distributions(r),
         \A c \in Component : At(Attributed[r], c) <= Rest(r, c),
         \A i \in A!Items : totals[i] <= A!Minor(RestOf(r, i))
  PROVE Planned(r, totals) \in ItemParts
<1> SUFFICES ASSUME NEW i \in A!Items
             PROVE (IF totals[i] = 0 THEN A!NoPart ELSE A!Split(RestOf(r, i), totals[i])) \in Part
  BY DEF Planned, ItemParts
<1>1. \A c \in Component : Rest(r, c) \in Nat
  BY RestType, AtType, OrderType
<1>2. RestOf(r, i) \in Part
  <2>1. <<i, "subtotal">> \in Component /\ <<i, "tax">> \in Component
    BY OrderType
  <2> QED
    BY <1>1, <2>1 DEF RestOf, Part
<1>3. totals[i] \in Nat
  BY OrderType DEF Distributions
<1>4. totals[i] # 0 => A!Split(RestOf(r, i), totals[i]) \in Part
  BY <1>2, <1>3, SplitType
<1> QED
  BY <1>4 DEF A!NoPart, Part

-----------------------------------------------------------------------------
(* The reports: what the operations make of a row *)

\* A head is incomplete while some issue of its set is open.
LEMMA HeadIssueIs ==
  ASSUME NEW l, NEW v, NEW r
  PROVE /\ HeadIssue(l, v, r) \in {"rebase", "missing", "none"}
        /\ l[r].issues[v] # {} => HeadIssue(l, v, r) \in {"rebase", "missing"}
BY DEF HeadIssue

\* Resolving adds the set and touches neither corrections nor jobs.
LEMMA ResolvedIs ==
  ASSUME NEW row \in Row, NEW v \in Versions
  PROVE /\ Resolved(row, v) \in Row
        /\ Resolved(row, v).corrections = row.corrections
        /\ Resolved(row, v).sets = row.sets \cup {v}
        /\ Resolved(row, v).due = row.due
BY DEF Resolved, Row

\* Recording an issue arms a replay and touches nothing else of the row.
LEMMA RecordedIs ==
  ASSUME NEW row \in Row, NEW v \in Versions, NEW issue \in {"rebase", "missing"}
  PROVE /\ Recorded(row, v, issue) \in Row
        /\ Recorded(row, v, issue).corrections = row.corrections
        /\ Recorded(row, v, issue).sets = row.sets
        /\ Recorded(row, v, issue).due = row.due \cup {v}
<1>1. \A set \in SUBSET {"rebase", "missing"} :
        (IF v \in row.sets THEN set \cup {issue} ELSE set) \in SUBSET {"rebase", "missing"}
  OBVIOUS
<1> QED
  BY <1>1 DEF Recorded, Row

\* A recompute adds the active set and touches no correction.
LEMMA RecomputeIs ==
  ASSUME ReportsTypeOK, NEW r \in Staged
  PROVE /\ Recompute(r) \in Row
        /\ Recompute(r).corrections = ledger[r].corrections
        /\ Recompute(r).sets = ledger[r].sets \cup {active}
        /\ Recompute(r).due \subseteq ledger[r].due \cup {active}
<1> DEFINE row == ledger[r]
           tried == [ledger EXCEPT ![r] = Resolved(row, active)]
           asWas == [tried EXCEPT ![r].issues = row.issues]
           issue == IF row.issues[active] = {} THEN HeadIssue(tried, active, r)
                    ELSE HeadIssue(asWas, active, r)
           recorded == Recorded(row, active, issue)
<1>1. row \in Row /\ active \in Versions
  BY DEF ReportsTypeOK
<1>2. tried[r] = Resolved(row, active) /\ tried[r] \in Row
  BY <1>1, ResolvedIs DEF ReportsTypeOK
<1>3. CASE HeadComplete(tried, active, r)
  <2>1. Recompute(r) = [tried[r] EXCEPT !.evidence = "fee_reconciled"]
    BY <1>3 DEF Recompute
  <2> HIDE DEF tried
  <2>2. /\ Recompute(r) \in Row
        /\ Recompute(r).corrections = tried[r].corrections
        /\ Recompute(r).sets = tried[r].sets
        /\ Recompute(r).due = tried[r].due
    BY <2>1, <1>2 DEF Row
  <2> QED
    BY <2>2, <1>1, <1>2, ResolvedIs
<1>4. CASE ~HeadComplete(tried, active, r)
  <2>1. HeadIssue(tried, active, r) \in {"rebase", "missing"}
    BY <1>4, HeadIssueIs DEF HeadComplete
  <2>2. asWas[r].issues = row.issues
    <3>1. asWas[r] = [tried[r] EXCEPT !.issues = row.issues]
      BY DEF ReportsTypeOK
    <3> HIDE DEF tried, asWas
    <3> QED
      BY <3>1, <1>2 DEF Row
  <2>3. row.issues[active] # {} => HeadIssue(asWas, active, r) \in {"rebase", "missing"}
    <3> HIDE DEF asWas
    <3> QED
      BY <2>2, HeadIssueIs
  <2>4. issue \in {"rebase", "missing"}
    BY <2>1, <2>3
  <2>5. Recompute(r) = [recorded EXCEPT !.sets = @ \cup {active}]
    BY <1>4 DEF Recompute
  <2> HIDE DEF issue
  <2>6. /\ recorded \in Row /\ recorded.corrections = row.corrections
        /\ recorded.sets = row.sets /\ recorded.due = row.due \cup {active}
    BY <1>1, <2>4, RecordedIs
  <2> HIDE DEF recorded
  <2> QED
    BY <2>5, <2>6, <1>1 DEF Row
<1> QED
  BY <1>3, <1>4

\* What appending makes of a sequence.
LEMMA AppendIs ==
  ASSUME NEW S, NEW chain \in Seq(S), NEW x \in S
  PROVE /\ Append(chain, x) \in Seq(S)
        /\ Len(chain) \in Nat /\ Len(Append(chain, x)) = Len(chain) + 1
        /\ DOMAIN chain = 1 .. Len(chain)
        /\ DOMAIN Append(chain, x) = 1 .. (Len(chain) + 1)
        /\ \A k \in DOMAIN chain : Append(chain, x)[k] = chain[k]
        /\ Append(chain, x)[Len(chain) + 1] = x
OBVIOUS

\* An approval appends one correction, anchored at the active set.
LEMMA CorrectedIs ==
  ASSUME ReportsTypeOK, NEW r \in Staged, NEW approved \in ItemParts
  PROVE /\ Corrected(r, approved) \in Row
        /\ Corrected(r, approved).corrections =
             Append(ledger[r].corrections, [base |-> active, approved |-> approved, kind |-> "approved"])
        /\ Corrected(r, approved).sets = ledger[r].sets \cup {active}
        /\ Corrected(r, approved).due = ledger[r].due
<1> DEFINE row == Resolved(ledger[r], active)
           new == [base |-> active, approved |-> approved, kind |-> "approved"]
<1>1. ledger[r] \in Row /\ active \in Versions
  BY DEF ReportsTypeOK
<1>2. /\ row \in Row /\ row.corrections = ledger[r].corrections
      /\ row.sets = ledger[r].sets \cup {active} /\ row.due = ledger[r].due
  BY <1>1, ResolvedIs
<1>3. new \in Correction
  BY <1>1 DEF Correction
<1>4. Append(row.corrections, new) \in Seq(Correction)
  BY <1>2, <1>3, AppendIs DEF Row
<1>5. Corrected(r, approved) = [row EXCEPT !.corrections = Append(row.corrections, new)]
  BY DEF Corrected
<1> HIDE DEF row, new
<1>6. /\ Corrected(r, approved) \in Row
      /\ Corrected(r, approved).corrections = Append(row.corrections, new)
      /\ Corrected(r, approved).sets = row.sets
      /\ Corrected(r, approved).due = row.due
  BY <1>2, <1>4, <1>5 DEF Row
<1> QED
  BY <1>2, <1>6 DEF new

\* What a replay may leave of the row: its set is there and its job done; the
\* correction was carried over, or already was, or it is flagged.
Carries(row, new, v) ==
  /\ new.corrections = Append(row.corrections,
       [base |-> v, approved |-> RawTip(row.corrections).approved, kind |-> "rebase"])
  /\ row.corrections # << >>
  /\ RawTip(row.corrections).base < v
  /\ RawTip(row.corrections).base \in new.sets
  /\ \A w \in new.sets : w <= RawTip(row.corrections).base \/ w = v
Keeps(row, new, v) ==
  /\ new.corrections = row.corrections
  /\ row.corrections # << >> =>
       RawTip(row.corrections).base = v \/ "rebase" \in new.issues[v]

\* A replay of an implementation carries the newest correction over, or leaves the
\* chain alone and says so by an issue, or has nothing to carry.
LEMMA ReplayedIs ==
  ASSUME ReportsTypeOK, NEW r \in Staged, NEW v \in Versions, NEW settles \in BOOLEAN
  PROVE LET row == ledger[r]
            new == Replayed(r, v, settles)
        IN /\ new \in Row
           /\ new.sets = row.sets \cup {v} /\ new.due = row.due \ {v}
           /\ \A w \in Versions : w # v => new.issues[w] = row.issues[w]
           /\ Carries(row, new, v) \/ Keeps(row, new, v)
<1> DEFINE old == ledger[r]
           row == [ledger[r] EXCEPT !.sets = @ \cup {v}, !.issues[v] = @ \ {"missing"}, !.due = @ \ {v}]
           clear == [row EXCEPT !.issues[v] = @ \ {"rebase"}]
           tip == RawTip(row.corrections)
           rebased == [base |-> v, approved |-> tip.approved, kind |-> "rebase"]
           carried == [clear EXCEPT !.corrections = Append(@, rebased)]
           Same(new) == /\ new \in Row
                        /\ new.sets = old.sets \cup {v} /\ new.due = old.due \ {v}
                        /\ \A w \in Versions : w # v => new.issues[w] = old.issues[w]
<1>1. old \in Row
  BY DEF ReportsTypeOK
<1>2. Same(row) /\ row.corrections = old.corrections
  <2> HIDE DEF old
  <2> QED
    BY <1>1 DEF Row, old
<1> HIDE DEF row
<1>3. Same(clear) /\ clear.corrections = old.corrections
  BY <1>2 DEF Row
<1>4. /\ Same(Flagged(row, v)) /\ Flagged(row, v).corrections = old.corrections
      /\ "rebase" \in Flagged(row, v).issues[v]
  BY <1>2 DEF Flagged, Row
<1> HIDE DEF clear
<1>5. old.corrections # << >> =>
        Same(carried) /\ carried.corrections = Append(old.corrections, rebased)
  <2> SUFFICES ASSUME old.corrections # << >>
               PROVE Same(carried) /\ carried.corrections = Append(old.corrections, rebased)
    OBVIOUS
  <2>1. old.corrections \in Seq(Correction)
    BY <1>1 DEF Row
  <2>2. tip \in Correction
    BY <1>2, <2>1 DEF RawTip
  <2>3. rebased \in Correction
    BY <2>2 DEF Correction
  <2>4. Append(clear.corrections, rebased) \in Seq(Correction)
    BY <1>3, <2>1, <2>3, AppendIs
  <2> HIDE DEF rebased
  <2> QED
    BY <1>3, <2>4 DEF Row
<1>6. \/ Replayed(r, v, settles) = row /\ row.corrections = << >>
      \/ Replayed(r, v, settles) = clear /\ tip.base = v
      \/ Replayed(r, v, settles) = carried /\ row.corrections # << >> /\ Anchored(row, v, tip.base)
      \/ Replayed(r, v, settles) = Flagged(row, v)
  BY DEF Replayed, Carried, row, clear
<1>7. CASE Replayed(r, v, settles) = row /\ row.corrections = << >>
  BY <1>2, <1>7 DEF Keeps
<1>8. CASE Replayed(r, v, settles) = clear /\ tip.base = v
  BY <1>2, <1>3, <1>8 DEF Keeps
<1>9. CASE Replayed(r, v, settles) = carried /\ row.corrections # << >> /\ Anchored(row, v, tip.base)
  <2>1. Same(carried) /\ carried.corrections = Append(old.corrections, rebased)
    BY <1>2, <1>5, <1>9
  <2>2. /\ tip.base < v /\ tip.base \in row.sets
        /\ \A w \in row.sets : w <= tip.base \/ w = v
    BY <1>9 DEF Anchored
  <2> HIDE DEF carried
  <2> QED
    BY <1>2, <1>9, <2>1, <2>2 DEF Carries
<1>10. CASE Replayed(r, v, settles) = Flagged(row, v)
  BY <1>4, <1>10 DEF Keeps
<1> QED
  BY <1>6, <1>7, <1>8, <1>9, <1>10

-----------------------------------------------------------------------------
(* The reports: the invariant of a row is kept *)

\* A chain in which everything carried is a copy stays one when a copy or an approval
\* is appended.
LEMMA DescendsGrows ==
  ASSUME NEW chain \in Seq(Correction), NEW x \in Correction, Descends(chain),
         x.kind # "approved" => chain # << >> /\ x.approved = RawTip(chain).approved
  PROVE Descends(Append(chain, x))
<1> DEFINE new == Append(chain, x)
           n == Len(chain)
<1>1. /\ n \in Nat /\ DOMAIN chain = 1 .. n /\ DOMAIN new = 1 .. (n + 1)
      /\ \A k \in 1 .. n : new[k] = chain[k]
      /\ new[n + 1] = x
  BY AppendIs
<1>2. x.kind = "approved" \/ x.kind = "rebase"
  BY DEF Correction
<1> HIDE DEF new
<1>3. ASSUME NEW k \in 1 .. n PROVE \E j \in DOMAIN new : Repeats(new, j, k)
  <2>1. PICK j \in 1 .. n : Repeats(chain, j, k)
    BY <1>1 DEF Descends
  <2>2. Repeats(new, j, k)
    BY <1>1, <2>1 DEF Repeats
  <2> QED
    BY <1>1, <2>2
<1>4. \E j \in DOMAIN new : Repeats(new, j, n + 1)
  <2>1. CASE x.kind = "approved"
    <3>1. Repeats(new, n + 1, n + 1)
      BY <1>1, <2>1 DEF Repeats
    <3> QED
      BY <1>1, <3>1
  <2>2. CASE x.kind = "rebase"
    <3>1. n \in 1 .. n /\ x.approved = chain[n].approved
      BY <1>1, <2>2 DEF RawTip
    <3>2. PICK j \in 1 .. n : Repeats(chain, j, n)
      BY <1>1, <3>1 DEF Descends
    <3>3. Repeats(new, j, n + 1)
      BY <1>1, <2>2, <3>1, <3>2 DEF Repeats
    <3> QED
      BY <1>1, <3>3
  <2> QED
    BY <1>2, <2>1, <2>2
<1> QED
  <2>1. \A k \in 1 .. (n + 1) : \E j \in DOMAIN new : Repeats(new, j, k)
    BY <1>1, <1>3, <1>4
  <2>2. Descends(new)
    BY <1>1, <2>1 DEF Descends
  <2> QED
    BY <2>2 DEF new

\* A recompute keeps the invariant of its row; no replay is pending then.
LEMMA RecomputedOK ==
  ASSUME NEW a \in Versions, NEW row \in Row, NEW new \in Row, RowOK(row, a, None),
         new.corrections = row.corrections, new.sets = row.sets \cup {a},
         new.due \subseteq row.due \cup {a}
  PROVE RowOK(new, a, None)
<1>1. \A k \in DOMAIN row.corrections :
        row.corrections[k].base <= a /\ row.corrections[k].base \in Versions
  BY DEF Row, RowOK, KnownOnly, Known, None, Versions
<1>2. KnownOnly(new, a, None)
  BY DEF RowOK, KnownOnly, Known, Versions
<1>3. Ordered(new)
  BY <1>1 DEF RowOK, Ordered, Row, Versions
<1> QED
  BY <1>2, <1>3 DEF RowOK, CarriedOver

\* So does an approval.
LEMMA CorrectedOK ==
  ASSUME NEW a \in Versions, NEW row \in Row, NEW new \in Row, RowOK(row, a, None),
         NEW x \in Correction, x.base = a, x.kind = "approved",
         new.corrections = Append(row.corrections, x), new.sets = row.sets \cup {a},
         new.due \subseteq row.due
  PROVE RowOK(new, a, None)
<1> DEFINE n == Len(row.corrections)
<1>1. /\ n \in Nat /\ DOMAIN row.corrections = 1 .. n /\ DOMAIN new.corrections = 1 .. (n + 1)
      /\ \A k \in 1 .. n : new.corrections[k] = row.corrections[k]
      /\ new.corrections[n + 1] = x
  BY AppendIs DEF Row
<1>2. \A k \in 1 .. n : row.corrections[k].base <= a /\ row.corrections[k].base \in Versions
  BY <1>1 DEF Row, RowOK, KnownOnly, Known, None, Versions
<1> HIDE DEF n
<1>3. KnownOnly(new, a, None)
  BY <1>1 DEF RowOK, KnownOnly, Known, Versions
<1>4. Ordered(new)
  <2>1. \A j, k \in 1 .. (n + 1) : j <= k => new.corrections[j].base <= new.corrections[k].base
    <3>1. \A j, k \in 1 .. n : j <= k => row.corrections[j].base <= row.corrections[k].base
      BY <1>1 DEF RowOK, Ordered
    <3>2. \A j \in 1 .. (n + 1) : new.corrections[j].base <= a
      BY <1>1, <1>2 DEF Versions
    <3>3. ASSUME NEW j \in 1 .. (n + 1), NEW k \in 1 .. (n + 1), j <= k
          PROVE new.corrections[j].base <= new.corrections[k].base
      <4>1. CASE k = n + 1
        BY <1>1, <3>2, <4>1
      <4>2. CASE k # n + 1
        <5>1. k \in 1 .. n /\ j \in 1 .. n
          BY <1>1, <3>3, <4>2
        <5> QED
          BY <1>1, <3>1, <3>3, <5>1
      <4> QED
        BY <4>1, <4>2
    <3> QED
      BY <3>3
  <2>2. ASSUME NEW j \in 1 .. (n + 1), NEW k \in 1 .. (n + 1),
               k = j + 1, new.corrections[k].kind = "rebase"
        PROVE /\ new.corrections[j].base < new.corrections[k].base
              /\ \A w \in new.sets : w <= new.corrections[j].base \/ new.corrections[k].base <= w
    <3>1. k \in 1 .. n /\ j \in 1 .. n
      BY <1>1, <2>2
    <3>2. new.corrections[j] = row.corrections[j] /\ new.corrections[k] = row.corrections[k]
      BY <1>1, <3>1
    <3> QED
      BY <1>1, <1>2, <2>2, <3>1, <3>2 DEF RowOK, Ordered
  <2> QED
    BY <1>1, <2>1, <2>2 DEF Ordered
<1>5. Descends(new.corrections)
  BY DescendsGrows DEF RowOK, Row
<1> QED
  BY <1>3, <1>4, <1>5 DEF RowOK, CarriedOver

\* Arming replays of known implementations keeps the invariant of a row.
LEMMA DueOK ==
  ASSUME NEW a, NEW p, NEW row, NEW new, RowOK(row, a, p),
         new.corrections = row.corrections, new.sets = row.sets, new.issues = row.issues,
         \A v \in new.due : Known(v, a, p)
  PROVE RowOK(new, a, p)
BY DEF RowOK, KnownOnly, Ordered, CarriedOver

\* A new pending implementation keeps the invariant of a row.
LEMMA RegisteredOK ==
  ASSUME NEW a \in Versions, NEW row \in Row, RowOK(row, a, None)
  PROVE RowOK(row, a, a + 1)
BY DEF RowOK, KnownOnly, CarriedOver, Known, Versions, None, Row

\* The switch of implementations keeps the invariant of a row.
LEMMA ActivatedOK ==
  ASSUME NEW a \in Versions, NEW row \in Row, RowOK(row, a, a + 1)
  PROVE RowOK(row, a + 1, None)
<1>1. KnownOnly(row, a + 1, None)
  BY DEF RowOK, KnownOnly, Known, Versions, Row, Correction
<1> QED
  BY <1>1 DEF RowOK, CarriedOver

\* A replay of v builds its set only when no later one is there.
LEMMA KeptOK ==
  ASSUME NEW a \in Versions, NEW p, p = None \/ p = a + 1, NEW v \in Versions, v = a \/ v = p,
         NEW row \in Row, NEW new \in Row, RowOK(row, a, p), CanPersist(row, v),
         new.sets = row.sets \cup {v}, new.due = row.due \ {v},
         \A w \in Versions : w # v => new.issues[w] = row.issues[w],
         Keeps(row, new, v)
  PROVE RowOK(new, a, p)
<1> DEFINE n == Len(row.corrections)
<1>1. n \in Nat /\ DOMAIN row.corrections = 1 .. n
  BY DEF Row
<1>2. \A k \in 1 .. n : row.corrections[k].base \in row.sets /\ row.corrections[k].base \in Versions
  BY <1>1 DEF RowOK, KnownOnly, Row
<1>3. new.corrections = row.corrections
  BY DEF Keeps
<1> HIDE DEF n
<1>4. KnownOnly(new, a, p)
  BY <1>3 DEF RowOK, KnownOnly, Known, Versions
<1>5. Ordered(new)
  <2>1. v \notin row.sets => \A k \in 1 .. n : row.corrections[k].base < v
    BY <1>2 DEF CanPersist
  <2> QED
    <3>1. ASSUME NEW j \in 1 .. n, NEW k \in 1 .. n, k = j + 1, row.corrections[k].kind = "rebase",
                 NEW w \in new.sets
          PROVE w <= row.corrections[j].base \/ row.corrections[k].base <= w
      <4>1. CASE w \in row.sets
        BY <1>1, <3>1, <4>1 DEF RowOK, Ordered
      <4>2. CASE w \notin row.sets
        <5>1. w = v /\ v \notin row.sets
          BY <4>2
        <5> QED
          BY <1>2, <2>1, <5>1 DEF Versions
      <4> QED
        BY <4>1, <4>2
    <3> QED
      BY <1>1, <1>3, <3>1 DEF RowOK, Ordered
<1>6. CarriedOver(new, p)
  <2>1. CASE v = p
    BY <2>1, <1>3 DEF Keeps, CarriedOver
  <2>2. CASE v # p
    <3>1. SUFFICES ASSUME p # None, p \in new.sets
                   PROVE p \in row.sets /\ new.issues[p] = row.issues[p]
      BY <1>3 DEF RowOK, CarriedOver
    <3> QED
      BY <2>2, <3>1 DEF Row
  <2> QED
    BY <2>1, <2>2
<1> QED
  BY <1>3, <1>4, <1>5, <1>6 DEF RowOK

\* A replay that carries the newest correction over keeps the invariant of its row.
LEMMA CarriedOK ==
  ASSUME NEW a \in Versions, NEW p, p = None \/ p = a + 1, NEW v \in Versions, v = a \/ v = p,
         NEW row \in Row, NEW new \in Row, RowOK(row, a, p), CanPersist(row, v),
         new.sets = row.sets \cup {v}, new.due = row.due \ {v},
         Carries(row, new, v)
  PROVE RowOK(new, a, p)
<1> DEFINE n == Len(row.corrections)
           x == [base |-> v, approved |-> RawTip(row.corrections).approved, kind |-> "rebase"]
<1>1. /\ n \in Nat /\ DOMAIN row.corrections = 1 .. n /\ n \in 1 .. n
      /\ RawTip(row.corrections) = row.corrections[n] /\ x \in Correction
  <2>1. row.corrections \in Seq(Correction) /\ row.corrections # << >>
    BY DEF Carries, Row
  <2>2. n \in Nat /\ DOMAIN row.corrections = 1 .. n /\ n \in 1 .. n
    BY <2>1
  <2>3. RawTip(row.corrections) = row.corrections[n] /\ row.corrections[n] \in Correction
    BY <2>1, <2>2 DEF RawTip
  <2> QED
    BY <2>2, <2>3 DEF Correction
<1>2. /\ new.corrections = Append(row.corrections, x)
      /\ DOMAIN new.corrections = 1 .. (n + 1)
      /\ \A k \in 1 .. n : new.corrections[k] = row.corrections[k]
      /\ new.corrections[n + 1] = x
  <2>1. new.corrections = Append(row.corrections, x) /\ row.corrections \in Seq(Correction)
    BY DEF Carries, Row
  <2> HIDE DEF x
  <2> QED
    BY <1>1, <2>1, AppendIs
<1>3. /\ row.corrections[n].base < v
      /\ \A w \in new.sets : w <= row.corrections[n].base \/ w = v
  BY <1>1 DEF Carries
<1>4. \A k \in 1 .. n : /\ row.corrections[k].base \in row.sets /\ row.corrections[k].base \in Versions
                        /\ row.corrections[k].base <= row.corrections[n].base
  BY <1>1 DEF RowOK, KnownOnly, Ordered, Row
<1>5. x.base = v /\ x.kind = "rebase"
  OBVIOUS
<1>6. Descends(new.corrections)
  <2>1. x.approved = RawTip(row.corrections).approved /\ row.corrections # << >>
        /\ row.corrections \in Seq(Correction) /\ Descends(row.corrections)
    BY DEF Carries, RowOK, Row
  <2> HIDE DEF x
  <2> QED
    BY <1>1, <1>2, <2>1, DescendsGrows
<1> HIDE DEF n, x
<1>7. KnownOnly(new, a, p)
  <2>1. \A w \in new.sets \cup new.due : Known(w, a, p)
    BY DEF RowOK, KnownOnly, Known, Versions
  <2>2. ASSUME NEW k \in 1 .. (n + 1)
        PROVE /\ new.corrections[k].base \in new.sets
              /\ new.corrections[k].kind = "approved" => new.corrections[k].base <= a
    BY <1>1, <1>2, <1>4, <1>5, <2>2 DEF RowOK, KnownOnly
  <2> QED
    BY <1>2, <2>1, <2>2 DEF KnownOnly
<1>8. Ordered(new)
  <2>1. \A j, k \in 1 .. (n + 1) : j <= k => new.corrections[j].base <= new.corrections[k].base
    BY <1>1, <1>2, <1>3, <1>4, <1>5 DEF RowOK, Ordered, Versions
  <2>2. ASSUME NEW j \in 1 .. (n + 1), NEW k \in 1 .. (n + 1),
               k = j + 1, new.corrections[k].kind = "rebase"
        PROVE /\ new.corrections[j].base < new.corrections[k].base
              /\ \A w \in new.sets : w <= new.corrections[j].base \/ new.corrections[k].base <= w
    <3>1. CASE k = n + 1
      <4>1. j = n
        BY <2>2, <3>1, <1>1
      <4> QED
        BY <1>1, <1>2, <1>3, <1>5, <3>1, <4>1 DEF Versions
    <3>2. CASE k # n + 1
      <4>1. k \in 1 .. n /\ j \in 1 .. n
        BY <1>1, <2>2, <3>2
      <4>2. new.corrections[j] = row.corrections[j] /\ new.corrections[k] = row.corrections[k]
        BY <1>2, <4>1
      <4>3. /\ row.corrections[j].base < row.corrections[k].base
            /\ \A w \in row.sets : w <= row.corrections[j].base \/ row.corrections[k].base <= w
        BY <1>1, <2>2, <4>1, <4>2 DEF RowOK, Ordered
      <4>4. row.corrections[k].base <= v
        BY <1>3, <1>4, <1>1, <4>1 DEF Versions
      <4> QED
        BY <4>2, <4>3, <4>4
    <3> QED
      BY <3>1, <3>2
  <2> QED
    BY <1>2, <2>1, <2>2 DEF Ordered
<1>9. CarriedOver(new, p)
  <2>1. new.corrections # << >> /\ RawTip(new.corrections) = x
    BY <1>1, <1>2, AppendIs DEF RawTip, Row
  <2>2. v # p /\ p # None => p \notin new.sets
    <3>1. SUFFICES ASSUME v = a, p = a + 1, p \in new.sets PROVE FALSE
      OBVIOUS
    <3>2. p <= row.corrections[n].base \/ p = v
      BY <1>3, <3>1
    <3> QED
      BY <1>1, <1>3, <1>4, <3>1, <3>2 DEF Versions
  <2> QED
    BY <2>1, <2>2, <1>5 DEF CarriedOver
<1> QED
  BY <1>6, <1>7, <1>8, <1>9 DEF RowOK

-----------------------------------------------------------------------------
(* The reports: the steps *)

\* The invariant holds before anything is reported.
LEMMA ReportsInitHolds == ReportsInit => ReportsInv
<1> SUFFICES ASSUME ReportsInit PROVE ReportsInv
  OBVIOUS
<1>1. 1 \in Versions
  BY VersionsAssumption DEF Versions
<1>2. Unseen \in Row
  BY DEF Unseen, Row
<1>3. RowOK(Unseen, 1, None)
  BY DEF RowOK, KnownOnly, Ordered, Descends, CarriedOver, Unseen, None
<1>4. ReportsTypeOK
  BY <1>1, <1>2 DEF ReportsInit, ReportsTypeOK, Staged
<1> QED
  BY <1>3, <1>4 DEF ReportsInit, ReportsInv, Staged

\* Nothing but row r changes.
LEMMA RowChanges ==
  ASSUME ReportsInv, UNCHANGED <<order, active, pending>>, NEW r \in Staged, NEW new \in Row,
         ledger' = [ledger EXCEPT ![r] = new], RowOK(new, active, pending)
  PROVE ReportsInv'
<1>1. ledger' \in [Staged -> Row]
  BY DEF ReportsInv, ReportsTypeOK
<1>2. \A q \in Staged : RowOK(ledger'[q], active, pending)
  BY DEF ReportsInv, ReportsTypeOK
<1> QED
  BY <1>1, <1>2 DEF ReportsInv, ReportsTypeOK, Staged, Row, Correction, ItemParts, A!Items

\* The recompute of a refund keeps the invariant.
LEMMA ReconcileKeeps ==
  ASSUME ReportsInv, NEW r \in Staged, Reconcile(r)
  PROVE ReportsInv'
<1>1. /\ ReportsTypeOK /\ ledger[r] \in Row /\ active \in Versions
      /\ RowOK(ledger[r], active, None) /\ pending = None
  BY DEF ReportsInv, ReportsTypeOK, Reconcile
<1>2. RowOK(Recompute(r), active, None)
  BY <1>1, RecomputeIs, RecomputedOK
<1> QED
  BY <1>1, <1>2, RecomputeIs, RowChanges DEF Reconcile

\* A step that approves a correction of r, and what it approves.
Approves(r, approved) ==
  /\ approved \in ItemParts
  /\ pending = None
  /\ active \in ledger[r].sets
  /\ ledger' = [ledger EXCEPT ![r] = Corrected(r, approved)]
  /\ UNCHANGED <<order, active, pending>>

\* A step that corrects is the approval of one distribution.
LEMMA CorrectApproves ==
  ASSUME ReportsTypeOK, NEW r \in Staged, Correct(r)
  PROVE \E approved : Approves(r, approved)
<1>1. /\ \A c \in Component : At(Attributed[r], c) <= Rest(r, c)
      /\ pending = None /\ active \in ledger[r].sets
      /\ UNCHANGED <<order, active, pending>>
  BY DEF Correct, CanonicalAuthority, Ready
<1>2. PICK totals \in Distributions(r) :
        /\ \A i \in A!Items : totals[i] <= A!Minor(RestOf(r, i))
        /\ ledger' = [ledger EXCEPT ![r] = Corrected(r, Planned(r, totals))]
  BY DEF Correct
<1>3. Planned(r, totals) \in ItemParts
  BY <1>1, <1>2, PlannedType
<1> QED
  BY <1>1, <1>2, <1>3 DEF Approves

\* An approval keeps the invariant.
LEMMA CorrectKeeps ==
  ASSUME ReportsInv, NEW r \in Staged, Correct(r)
  PROVE ReportsInv'
<1>1. /\ ReportsTypeOK /\ ledger[r] \in Row /\ active \in Versions
      /\ RowOK(ledger[r], active, pending)
  BY DEF ReportsInv, ReportsTypeOK
<1>2. PICK approved : Approves(r, approved)
  BY <1>1, CorrectApproves
<1> DEFINE x == [base |-> active, approved |-> approved, kind |-> "approved"]
           new == Corrected(r, approved)
<1>3. x \in Correction /\ x.base = active /\ x.kind = "approved"
  BY <1>1, <1>2 DEF Correction, Approves
<1>4. /\ new \in Row /\ new.corrections = Append(ledger[r].corrections, x)
      /\ new.sets = ledger[r].sets \cup {active} /\ new.due = ledger[r].due
  BY <1>1, <1>2, CorrectedIs DEF Approves
<1>5. pending = None
  BY <1>2 DEF Approves
<1> HIDE DEF x, new
<1>6. RowOK(new, active, pending)
  BY <1>1, <1>3, <1>4, <1>5, CorrectedOK
<1> QED
  BY <1>2, <1>4, <1>6, RowChanges DEF Approves, new

\* Arming a replay keeps the invariant.
LEMMA RearmKeeps ==
  ASSUME ReportsInv, NEW r \in Staged, Rearm(r)
  PROVE ReportsInv'
<1> DEFINE new == [ledger[r] EXCEPT !.due = @ \cup ({active, pending} \ {None})]
<1>1. /\ ledger[r] \in Row /\ active \in Versions /\ pending \in Versions \cup {None}
      /\ RowOK(ledger[r], active, pending)
      /\ ledger' = [ledger EXCEPT ![r] = new]
  BY DEF ReportsInv, ReportsTypeOK, Rearm
<1>2. /\ new \in Row /\ new.corrections = ledger[r].corrections
      /\ new.sets = ledger[r].sets /\ new.issues = ledger[r].issues
      /\ new.due = ledger[r].due \cup ({active, pending} \ {None})
  BY <1>1 DEF Row
<1>3. \A v \in new.due : Known(v, active, pending)
  BY <1>1, <1>2 DEF RowOK, KnownOnly, Known, Versions
<1> HIDE DEF new
<1>4. RowOK(new, active, pending)
  BY <1>1, <1>2, <1>3, DueOK
<1> QED
  BY <1>1, <1>2, <1>4, RowChanges DEF Rearm

\* A replay keeps the invariant.
LEMMA ReplayKeeps ==
  ASSUME ReportsInv, NEW r \in Staged, NEW v \in Versions, Replay(r, v)
  PROVE ReportsInv'
<1>1. /\ ReportsTypeOK /\ ledger[r] \in Row /\ active \in Versions
      /\ pending = None \/ pending = active + 1
      /\ RowOK(ledger[r], active, pending)
  BY DEF ReportsInv, ReportsTypeOK
<1>2. CASE v < active
  <2> DEFINE new == [ledger[r] EXCEPT !.due = @ \ {v}]
  <2>1. ledger' = [ledger EXCEPT ![r] = new]
    BY <1>2 DEF Replay
  <2>2. /\ new \in Row /\ new.corrections = ledger[r].corrections
        /\ new.sets = ledger[r].sets /\ new.issues = ledger[r].issues
        /\ new.due = ledger[r].due \ {v}
    BY <1>1 DEF Row
  <2>3. \A w \in new.due : Known(w, active, pending)
    BY <1>1, <2>2 DEF RowOK, KnownOnly
  <2> HIDE DEF new
  <2>4. RowOK(new, active, pending)
    BY <1>1, <2>2, <2>3, DueOK
  <2> QED
    BY <2>1, <2>2, <2>4, RowChanges DEF Replay
<1>3. CASE ~(v < active)
  <2>1. CanPersist(ledger[r], v) /\ v \in ledger[r].due
    BY <1>3 DEF Replay
  <2>2. PICK settles \in BOOLEAN : ledger' = [ledger EXCEPT ![r] = Replayed(r, v, settles)]
    BY <1>3 DEF Replay
  <2>3. v = active \/ v = pending
    BY <1>1, <1>3, <2>1 DEF RowOK, KnownOnly, Known, Versions
  <2> DEFINE new == Replayed(r, v, settles)
  <2>4. /\ new \in Row
        /\ new.sets = ledger[r].sets \cup {v} /\ new.due = ledger[r].due \ {v}
        /\ \A w \in Versions : w # v => new.issues[w] = ledger[r].issues[w]
        /\ Carries(ledger[r], new, v) \/ Keeps(ledger[r], new, v)
    BY <1>1, ReplayedIs
  <2> HIDE DEF new
  <2>5. RowOK(new, active, pending)
    BY <1>1, <2>1, <2>3, <2>4, KeptOK, CarriedOK
  <2> QED
    BY <2>2, <2>4, <2>5, RowChanges DEF Replay, new
<1> QED
  BY <1>2, <1>3

\* Starting the preparation of an implementation keeps the invariant.
LEMMA RegisterKeeps ==
  ASSUME ReportsInv, RegisterPending
  PROVE ReportsInv'
<1>1. /\ ReportsTypeOK /\ active \in Versions /\ pending = None
      /\ pending' = active + 1 /\ active + 1 \in Versions
      /\ UNCHANGED <<order, active>>
      /\ ledger' = [r \in Staged |-> [ledger[r] EXCEPT !.due = @ \cup {active + 1}]]
  BY VersionsAssumption DEF ReportsInv, ReportsTypeOK, RegisterPending, Versions
<1>2. ASSUME NEW r \in Staged
      PROVE ledger'[r] \in Row /\ RowOK(ledger'[r], active, active + 1)
  <2> DEFINE new == [ledger[r] EXCEPT !.due = @ \cup {active + 1}]
  <2>1. ledger[r] \in Row /\ RowOK(ledger[r], active, None) /\ ledger'[r] = new
    BY <1>1 DEF ReportsInv, ReportsTypeOK
  <2>2. /\ new \in Row /\ new.corrections = ledger[r].corrections
        /\ new.sets = ledger[r].sets /\ new.issues = ledger[r].issues
        /\ new.due = ledger[r].due \cup {active + 1}
    BY <1>1, <2>1 DEF Row
  <2>3. RowOK(ledger[r], active, active + 1)
    BY <1>1, <2>1, RegisteredOK
  <2>4. \A v \in new.due : Known(v, active, active + 1)
    BY <2>2, <2>3 DEF RowOK, KnownOnly, Known
  <2> HIDE DEF new
  <2> QED
    BY <2>1, <2>2, <2>3, <2>4, DueOK
<1>3. ledger' \in [Staged -> Row]
  BY <1>1, <1>2
<1> QED
  BY <1>1, <1>2, <1>3 DEF ReportsInv, ReportsTypeOK, Staged, Row, Correction, ItemParts, A!Items

\* The switch keeps the invariant.
LEMMA ActivateKeeps ==
  ASSUME ReportsInv, Activate
  PROVE ReportsInv'
<1>1. /\ ReportsTypeOK /\ active \in Versions /\ pending \in Versions /\ pending = active + 1
      /\ active' = active + 1 /\ pending' = None
      /\ UNCHANGED <<order, ledger>>
  BY DEF ReportsInv, ReportsTypeOK, Activate
<1>2. \A r \in Staged : RowOK(ledger[r], active + 1, None)
  BY <1>1, ActivatedOK DEF ReportsInv, ReportsTypeOK
<1> QED
  BY <1>1, <1>2 DEF ReportsInv, ReportsTypeOK, Staged, Row, Correction, ItemParts, A!Items

\* Every step keeps the invariant.
LEMMA ReportsStepKeeps == ReportsInv /\ [ReportsNext]_reportVars => ReportsInv'
<1> SUFFICES ASSUME ReportsInv, [ReportsNext]_reportVars PROVE ReportsInv'
  OBVIOUS
<1>1. ASSUME NEW r \in Staged, Reconcile(r) \/ Correct(r) \/ Rearm(r) PROVE ReportsInv'
  BY <1>1, ReconcileKeeps, CorrectKeeps, RearmKeeps
<1>2. ASSUME NEW r \in Staged, NEW v \in Versions, Replay(r, v) PROVE ReportsInv'
  BY <1>2, ReplayKeeps
<1>3. CASE RegisterPending
  BY <1>3, RegisterKeeps
<1>4. CASE Activate
  BY <1>4, ActivateKeeps
<1>5. CASE UNCHANGED reportVars
  BY <1>5 DEF reportVars, ReportsInv, ReportsTypeOK, Staged, Row, Correction, ItemParts, A!Items
<1> QED
  BY <1>1, <1>2, <1>3, <1>4, <1>5 DEF ReportsNext

\* The inductive invariant holds in every reachable state.
THEOREM ReportsInductive == ReportsSpec => []ReportsInv
BY ReportsInitHolds, ReportsStepKeeps, PTL DEF ReportsSpec

-----------------------------------------------------------------------------
(* What a report shows *)

\* A complete head with a correction has exactly one.
LEMMA OneCandidate ==
  ASSUME NEW l \in [Staged -> Row], NEW v, NEW r \in Staged,
         HeadComplete(l, v, r), Candidates(l, v, r) # {}
  PROVE \E k \in DOMAIN l[r].corrections : Candidates(l, v, r) = {k}
BY CandidatesType DEF HeadComplete, HeadIssue, Compatible

\* A report shows the correction in force, or the attribution when there is none.
LEMMA ShownIs ==
  ASSUME ReportsTypeOK, NEW l \in [Staged -> Row], NEW v, NEW r \in Staged, NEW c \in Component
  PROVE /\ Candidates(l, v, r) = {} => Shown(l, v, r, c) = At(Attributed[r], c)
        /\ \A k : Candidates(l, v, r) = {k} =>
             Shown(l, v, r, c) = At(l[r].corrections[k].approved, c)
<1>1. Candidates(l, v, r) = {} => Shown(l, v, r, c) = At(Attributed[r], c)
  BY DEF Shown, EffectiveAmount
<1>2. ASSUME NEW k, Candidates(l, v, r) = {k}
      PROVE Shown(l, v, r, c) = At(l[r].corrections[k].approved, c)
  <2> DEFINE f == [j \in {k} |-> At(l[r].corrections[j].approved, c)]
  <2>1. Shown(l, v, r, c) = Sum(f, {k})
    BY <1>2 DEF Shown, EffectiveAmount, Sum, SumFunction
  <2>2. f[k] \in Nat /\ f[k] = At(l[r].corrections[k].approved, c)
    BY <1>2, CandidatesType, AtType
  <2> HIDE DEF f
  <2>3. IsFiniteSet({k}) /\ IsFiniteSet({}) /\ {k} \ {k} = {}
    BY FS_Singleton, FS_EmptySet
  <2>4. Sum(f, {k}) = f[k] + Sum(f, {k} \ {k})
    BY <2>2, <2>3, SumRemove
  <2>5. Sum(f, {}) = 0
    BY <2>3, SumStep
  <2> QED
    BY <2>1, <2>2, <2>3, <2>4, <2>5
<1> QED
  BY <1>1, <1>2

\* All the refunds that are reported together never give back more of an item's
\* price, or of its tax, than was paid.
LEMMA WithinPaidHolds == ReportsTypeOK => ReportsWithinPaid
<1> SUFFICES ASSUME ReportsTypeOK, NEW c \in Component
             PROVE SumFunction([r \in Reported |-> Shown(ledger, active, r, c)]) <= Paid(c)
  BY DEF ReportsWithinPaid
<1> DEFINE shown == [r \in Reported |-> Shown(ledger, active, r, c)]
           succeeded == order.succeeded
<1>1. /\ IsFiniteSet(succeeded) /\ Reported \subseteq succeeded /\ Reported \subseteq Staged
      /\ ledger \in [Staged -> Row] /\ Paid(c) \in Nat
  BY OrderType DEF Reported, ReportsTypeOK
<1>2. \A r \in Reported : shown[r] \in Nat
  BY <1>1, EffectiveAmountType DEF Shown
<1>3. SumFunction(shown) = Sum(shown, Reported) /\ Sum(shown, Reported) \in Int
  <2>1. IsFiniteSet(Reported)
    BY <1>1, FS_Subset
  <2>2. DOMAIN shown = Reported
    OBVIOUS
  <2> HIDE DEF shown
  <2> QED
    BY <1>2, <2>1, <2>2, SumType DEF SumFunction, Sum
<1>4. CASE WithinPaid(ledger, active, c)
  <2> DEFINE all == [r \in succeeded |-> EffectiveAmount(ledger, active, r, c)]
  <2>1. SumFunction(all) <= Paid(c)
    BY <1>4 DEF WithinPaid
  <2>2. \A r \in succeeded : all[r] \in Nat
    BY <1>1, EffectiveAmountType
  <2>3. \A r \in Reported : shown[r] \in Int /\ shown[r] <= all[r]
    BY <1>1, <1>2 DEF Shown
  <2>4. DOMAIN all = succeeded
    OBVIOUS
  <2> HIDE DEF shown, all, succeeded
  <2>5. Sum(shown, Reported) <= Sum(all, succeeded)
    BY <1>1, <2>2, <2>3, SumMonotone
  <2>6. Sum(all, succeeded) \in Int
    BY <1>1, <2>2, SumType
  <2> QED
    BY <1>1, <1>3, <2>1, <2>4, <2>5, <2>6 DEF SumFunction, Sum, shown
<1>5. CASE ~WithinPaid(ledger, active, c)
  <2> DEFINE all == [r \in succeeded |-> At(Attributed[r], c)]
  <2>1. SumFunction(all) <= Paid(c)
    BY OrderType DEF IsAttributed, Attributed, Component, Paid
  <2>2. \A r \in succeeded : all[r] \in Nat
    BY OrderType, AtType
  <2>3. ASSUME NEW r \in Reported PROVE shown[r] \in Int /\ shown[r] <= all[r]
    <3>1. r \in Staged /\ HeadComplete(ledger, active, r) /\ all[r] = At(Attributed[r], c)
      BY <1>1 DEF Reported
    <3>2. CASE Candidates(ledger, active, r) = {}
      BY <1>1, <1>2, <3>1, <3>2, ShownIs
    <3>3. CASE Candidates(ledger, active, r) # {}
      <4>1. PICK k : Candidates(ledger, active, r) = {k}
        BY <1>1, <3>1, <3>3, OneCandidate
      <4> DEFINE approved == ledger[r].corrections[k].approved
      <4>2. shown[r] = At(approved, c) /\ At(approved, c) \in Nat
        <5>1. approved \in ItemParts
          BY <1>1, <3>1, <4>1, CandidatesType
        <5>2. shown[r] = Shown(ledger, active, r, c)
          OBVIOUS
        <5>3. Shown(ledger, active, r, c) = At(approved, c)
          BY <1>1, <3>1, <4>1, ShownIs
        <5> QED
          BY <5>1, <5>2, <5>3, AtType
      <4>3. c \notin Listed(r, approved)
        BY <1>5, <3>1, <4>1 DEF HeadComplete, HeadIssue, Compatible
      <4>4. ~(At(approved, c) > 0)
        BY <4>3 DEF Listed
      <4>5. all[r] \in Nat
        BY <1>1, <2>2
      <4> HIDE DEF approved, shown, all
      <4> QED
        BY <4>2, <4>4, <4>5
    <3> QED
      BY <3>2, <3>3
  <2>4. DOMAIN all = succeeded
    OBVIOUS
  <2> HIDE DEF shown, all, succeeded
  <2>5. Sum(shown, Reported) <= Sum(all, succeeded)
    BY <1>1, <2>2, <2>3, SumMonotone
  <2>6. Sum(all, succeeded) \in Int
    BY <1>1, <2>2, SumType
  <2> QED
    BY <1>1, <1>3, <2>1, <2>4, <2>5, <2>6 DEF SumFunction, Sum, shown
<1> QED
  BY <1>4, <1>5

\* Reports of different refunds, corrected and replayed independently, never exceed
\* together what the customer paid for a component (the view's presentment capacity).
THEOREM NeverMoreThanPaid == ReportsSpec => []ReportsWithinPaid
<1>1. ReportsInv => ReportsWithinPaid
  BY WithinPaidHolds DEF ReportsInv
<1> QED
  BY <1>1, ReportsInductive, PTL

-----------------------------------------------------------------------------
(* The newest approval *)

\* A correction at the end of its implementation's stretch of the chain distributes
\* what the newest approval said.
LEMMA NewestIs ==
  ASSUME NEW a \in Versions, NEW p, NEW row \in Row, RowOK(row, a, p),
         NEW k \in DOMAIN row.corrections, row.corrections[k].base = a,
         k = Len(row.corrections) \/ row.corrections[k + 1].base # a
  PROVE row.corrections[k].approved =
          row.corrections[A!Max(Approvals(row.corrections))].approved
<1> DEFINE chain == row.corrections
           n == Len(chain)
<1>1. n \in Nat /\ k \in 1 .. n /\ DOMAIN chain = 1 .. n /\ \A m \in 1 .. n : chain[m] \in Correction
  BY DEF Row
<1>2. PICK j \in 1 .. n : Repeats(chain, j, k)
  BY <1>1 DEF RowOK, Descends
<1>3. ASSUME NEW m \in 1 .. n, k < m PROVE chain[m].kind # "approved"
  <2>1. k + 1 \in 1 .. n /\ k + 1 <= m /\ k # n
    BY <1>1, <1>3
  <2>2. chain[k + 1].base # a /\ a <= chain[k + 1].base /\ chain[k + 1].base <= chain[m].base
    BY <1>1, <2>1 DEF RowOK, Ordered
  <2>3. chain[k + 1].base \in Int /\ chain[m].base \in Int /\ a \in Int
    BY <1>1, <2>1 DEF Correction, Versions
  <2>4. chain[m].kind = "approved" => chain[m].base <= a
    BY <1>1 DEF RowOK, KnownOnly
  <2> HIDE DEF chain
  <2> QED
    BY <2>2, <2>3, <2>4
<1>4. \A m \in 1 .. n : chain[m].kind = "approved" => m <= j
  <2>1. \A m \in 1 .. n : j < m /\ m <= k => chain[m].kind = "rebase"
    BY <1>1, <1>2 DEF Repeats
  <2> HIDE DEF chain
  <2> QED
    BY <1>1, <1>3, <2>1
<1>5. j \in Approvals(chain) /\ \A m \in Approvals(chain) : m \in 1 .. n /\ j >= m
  BY <1>1, <1>2, <1>4 DEF Approvals, Repeats
<1> HIDE DEF chain
<1>6. A!Max(Approvals(chain)) = j
  <2>1. \A x \in Approvals(chain) : (\A m \in Approvals(chain) : x >= m) => x = j
    BY <1>1, <1>5
  <2> QED
    BY <1>5, <2>1 DEF A!Max
<1> QED
  BY <1>2, <1>6 DEF Repeats, chain

\* The invariant implies that reports show the newest approval.
LEMMA NewestHolds == ReportsInv => NewestApprovalShown
<1> SUFFICES ASSUME ReportsInv, NEW r \in Reported, Candidates(ledger, active, r) # {},
                    NEW c \in Component
             PROVE Shown(ledger, active, r, c) =
                     At(ledger[r].corrections[A!Max(Approvals(ledger[r].corrections))].approved, c)
  BY DEF NewestApprovalShown
<1>1. /\ ReportsTypeOK /\ ledger \in [Staged -> Row] /\ active \in Versions
      /\ r \in Staged /\ HeadComplete(ledger, active, r) /\ RowOK(ledger[r], active, pending)
      /\ ledger[r] \in Row
  BY DEF ReportsInv, ReportsTypeOK, Reported
<1>2. PICK k \in DOMAIN ledger[r].corrections : Candidates(ledger, active, r) = {k}
  BY <1>1, OneCandidate
<1>3. ledger[r].corrections[k].approved =
        ledger[r].corrections[A!Max(Approvals(ledger[r].corrections))].approved
  <2>1. /\ ledger[r].corrections[k].base = active
        /\ k = Len(ledger[r].corrections) \/ ledger[r].corrections[k + 1].base # active
    BY <1>2 DEF Candidates
  <2> QED
    BY <1>1, <2>1, NewestIs
<1> QED
  BY <1>1, <1>2, <1>3, ShownIs

\* Across replays and switches in any order, a complete report shows the distribution
\* that was approved last, not an older one and not the attribution.
THEOREM NewestIsShown == ReportsSpec => []NewestApprovalShown
BY NewestHolds, ReportsInductive, PTL

-----------------------------------------------------------------------------
(* Reports change by approval *)

\* The two ledgers show the same of r, one with implementation v, the other with w.
SameShown(l, v, m, w, r) ==
  \A c \in Component : Shown(m, w, r, c) = Shown(l, v, r, c)

\* Two heads whose candidates distribute the same show the same.
LEMMA ShownSame ==
  ASSUME ReportsTypeOK, NEW l \in [Staged -> Row], NEW m \in [Staged -> Row], NEW v, NEW w, NEW r \in Staged,
         HeadComplete(l, v, r), HeadComplete(m, w, r),
         Candidates(l, v, r) = {} <=> Candidates(m, w, r) = {},
         \A j \in Candidates(l, v, r), k \in Candidates(m, w, r) :
           l[r].corrections[j].approved = m[r].corrections[k].approved
  PROVE SameShown(l, v, m, w, r)
<1> SUFFICES ASSUME NEW c \in Component PROVE Shown(m, w, r, c) = Shown(l, v, r, c)
  BY DEF SameShown
<1>1. CASE Candidates(l, v, r) = {}
  BY <1>1, ShownIs
<1>2. CASE Candidates(l, v, r) # {}
  <2>1. PICK j \in DOMAIN l[r].corrections : Candidates(l, v, r) = {j}
    BY <1>2, OneCandidate
  <2>2. PICK k \in DOMAIN m[r].corrections : Candidates(m, w, r) = {k}
    <3>1. Candidates(m, w, r) # {}
      BY <1>2
    <3> QED
      BY <3>1, OneCandidate
  <2>3. Shown(l, v, r, c) = At(l[r].corrections[j].approved, c)
    BY <2>1, ShownIs
  <2>4. Shown(m, w, r, c) = At(m[r].corrections[k].approved, c)
    BY <2>2, ShownIs
  <2> QED
    BY <2>1, <2>2, <2>3, <2>4
<1> QED
  BY <1>1, <1>2

\* While the chain is the same, so is the report.
LEMMA SameChainShownSame ==
  ASSUME ReportsTypeOK, NEW m \in [Staged -> Row], NEW r \in Staged,
         HeadComplete(ledger, active, r), HeadComplete(m, active, r),
         m[r].corrections = ledger[r].corrections
  PROVE SameShown(ledger, active, m, active, r)
<1>1. Candidates(m, active, r) = Candidates(ledger, active, r)
  BY DEF Candidates
<1>2. \A j \in Candidates(ledger, active, r), k \in Candidates(m, active, r) : j = k
  BY <1>1, OneCandidate DEF ReportsTypeOK
<1> QED
  BY <1>1, <1>2, ShownSame DEF ReportsTypeOK

\* A replay that carries a reported correction over prepares the next implementation.
LEMMA CarriedShownSame ==
  ASSUME ReportsTypeOK, NEW m \in [Staged -> Row], NEW r \in Staged, NEW v \in Versions, v # active,
         HeadComplete(ledger, active, r), HeadComplete(m, active, r),
         Carries(ledger[r], m[r], v)
  PROVE SameShown(ledger, active, m, active, r)
<1> DEFINE chain == ledger[r].corrections
           n == Len(chain)
           x == [base |-> v, approved |-> RawTip(chain).approved, kind |-> "rebase"]
           new == m[r].corrections
<1>1. /\ n \in Nat /\ DOMAIN chain = 1 .. n /\ DOMAIN new = 1 .. (n + 1)
      /\ Len(new) = n + 1
      /\ \A k \in 1 .. n : new[k] = chain[k]
      /\ new[n + 1] = x
  <2>1. chain \in Seq(Correction) /\ chain # << >> /\ new = Append(chain, x)
    BY DEF ReportsTypeOK, Row, Carries
  <2>2. RawTip(chain) \in Correction
    BY <2>1 DEF RawTip
  <2>3. x \in Correction
    BY <2>2 DEF Correction
  <2> HIDE DEF x, chain, new
  <2> QED
    BY <2>1, <2>3, AppendIs
<1>2. x.base = v
  OBVIOUS
<1> HIDE DEF x
<1>3. Candidates(m, active, r) = Candidates(ledger, active, r)
  <2>1. ASSUME NEW k \in 1 .. n
        PROVE k \in Candidates(m, active, r) <=> k \in Candidates(ledger, active, r)
    <3>1. k \in Candidates(m, active, r) <=> new[k].base = active /\ (k = n + 1 \/ new[k + 1].base # active)
      BY <1>1 DEF Candidates
    <3>2. k \in Candidates(ledger, active, r) <=> chain[k].base = active /\ (k = n \/ chain[k + 1].base # active)
      BY <1>1 DEF Candidates
    <3> HIDE DEF n, chain, new
    <3>3. CASE k = n
      BY <1>1, <1>2, <3>1, <3>2, <3>3
    <3>4. CASE k # n
      <4>1. k + 1 \in 1 .. n /\ k # n + 1
        BY <1>1, <3>4
      <4> QED
        BY <1>1, <3>1, <3>2, <3>4, <4>1
    <3> QED
      BY <3>3, <3>4
  <2>2. n + 1 \notin Candidates(m, active, r)
    BY <1>1, <1>2 DEF Candidates
  <2>3. Candidates(m, active, r) \subseteq 1 .. (n + 1) /\ Candidates(ledger, active, r) \subseteq 1 .. n
    BY <1>1 DEF Candidates
  <2> HIDE DEF n, chain, new
  <2>4. ASSUME NEW k PROVE k \in Candidates(m, active, r) <=> k \in Candidates(ledger, active, r)
    <3>1. k \in 1 .. (n + 1) => k \in 1 .. n \/ k = n + 1
      BY <1>1
    <3> QED
      BY <1>1, <2>1, <2>2, <2>3, <3>1
  <2> QED
    BY <2>4
<1>4. \A j \in Candidates(ledger, active, r) : new[j] = chain[j]
  BY <1>1 DEF Candidates
<1>5. \A j \in Candidates(ledger, active, r), k \in Candidates(m, active, r) : j = k
  BY <1>3, OneCandidate DEF ReportsTypeOK
<1> QED
  BY <1>3, <1>4, <1>5, ShownSame DEF ReportsTypeOK

\* The switch: either implementation shows the newest approval, or neither does.
LEMMA SwitchShowsSame ==
  ASSUME ReportsInv, NEW r \in Staged, pending = active + 1, pending \in Versions,
         HeadComplete(ledger, active, r), HeadComplete(ledger, pending, r)
  PROVE SameShown(ledger, active, ledger, pending, r)
<1> DEFINE chain == ledger[r].corrections
           n == Len(chain)
<1>1. /\ ReportsTypeOK /\ ledger[r] \in Row /\ active \in Versions
      /\ RowOK(ledger[r], active, pending) /\ RowOK(ledger[r], pending, None)
  BY ActivatedOK DEF ReportsInv, ReportsTypeOK
<1>2. /\ n \in Nat /\ DOMAIN chain = 1 .. n
      /\ \A k \in 1 .. n : chain[k] \in Correction /\ chain[k].base \in Versions
  <2>1. chain \in Seq(Correction)
    BY <1>1 DEF Row
  <2>2. \A k \in 1 .. n : chain[k] \in Correction
    BY <2>1
  <2> QED
    BY <2>1, <2>2 DEF Correction
<1>3. /\ active \in ledger[r].sets /\ pending \in ledger[r].sets
      /\ "rebase" \notin ledger[r].issues[pending]
  BY DEF HeadComplete, HeadIssue
<1>4. CASE chain = << >>
  <2>1. Candidates(ledger, active, r) = {} /\ Candidates(ledger, pending, r) = {}
    BY <1>4 DEF Candidates
  <2> QED
    BY <1>1, <2>1, ShownSame DEF ReportsTypeOK
<1>5. CASE chain # << >>
  <2>1. n \in 1 .. n /\ RawTip(chain) = chain[n]
    BY <1>1, <1>2, <1>5 DEF RawTip, Row
  <2>2. chain[n].base = pending
    <3>1. pending # None
      BY DEF None, Versions
    <3> QED
      BY <1>1, <1>3, <1>5, <2>1, <3>1 DEF RowOK, CarriedOver
  <2>3. n \in Candidates(ledger, pending, r)
    BY <1>2, <2>1, <2>2 DEF Candidates
  <2>4. chain[n].kind = "rebase"
    BY <1>1, <1>2, <2>1, <2>2 DEF RowOK, KnownOnly, Correction, Versions
  <2>5. n - 1 \in 1 .. n
    <3>1. PICK j \in 1 .. n : Repeats(chain, j, n)
      BY <1>1, <1>2, <2>1 DEF RowOK, Descends
    <3>2. chain[j].kind = "approved" /\ j <= n
      BY <3>1 DEF Repeats
    <3>3. j # n
      BY <2>4, <3>2
    <3> QED
      BY <1>2, <3>2, <3>3
  <2>6. chain[n - 1].base = active
    <3>1. /\ chain[n - 1].base < pending
          /\ \A w \in ledger[r].sets : w <= chain[n - 1].base \/ pending <= w
      <4>1. n = (n - 1) + 1
        BY <1>2
      <4>2. \A j, k \in 1 .. n : k = j + 1 /\ chain[k].kind = "rebase" =>
              /\ chain[j].base < chain[k].base
              /\ \A w \in ledger[r].sets : w <= chain[j].base \/ chain[k].base <= w
        BY <1>1, <1>2 DEF RowOK, Ordered
      <4> HIDE DEF n, chain
      <4> QED
        BY <2>1, <2>2, <2>4, <2>5, <4>1, <4>2
    <3>2. chain[n - 1].base \in Versions
      BY <1>2, <2>5
    <3>3. active <= chain[n - 1].base
      <4>1. ~(pending <= active)
        BY <1>1 DEF Versions
      <4> HIDE DEF n, chain
      <4> QED
        BY <1>3, <3>1, <4>1
    <3> HIDE DEF n, chain
    <3> QED
      BY <1>1, <3>1, <3>2, <3>3 DEF Versions
  <2>7. n - 1 \in Candidates(ledger, active, r)
    <3>1. chain[(n - 1) + 1].base # active
      BY <1>1, <1>2, <2>2 DEF Versions
    <3> HIDE DEF n
    <3> QED
      BY <1>2, <2>5, <2>6, <3>1 DEF Candidates
  <2>8. ASSUME NEW k \in Candidates(ledger, active, r)
        PROVE chain[k].approved = chain[A!Max(Approvals(chain))].approved
    <3>1. /\ k \in DOMAIN chain /\ chain[k].base = active
          /\ k = Len(chain) \/ chain[k + 1].base # active
      BY DEF Candidates
    <3> QED
      BY <1>1, <3>1, NewestIs
  <2>9. ASSUME NEW k \in Candidates(ledger, pending, r)
        PROVE chain[k].approved = chain[A!Max(Approvals(chain))].approved
    <3>1. /\ k \in DOMAIN chain /\ chain[k].base = pending
          /\ k = Len(chain) \/ chain[k + 1].base # pending
      BY DEF Candidates
    <3> QED
      BY <1>1, <3>1, NewestIs
  <2> QED
    BY <1>1, <2>3, <2>7, <2>8, <2>9, ShownSame DEF ReportsTypeOK
<1> QED
  BY <1>4, <1>5

\* What the property says of one refund and one step.
ChangesByApproval(r) ==
  \/ ~HeadComplete(ledger', active', r)
  \/ SameShown(ledger, active, ledger', active', r)
  \/ /\ Len(ledger'[r].corrections) > Len(ledger[r].corrections)
     /\ RawTip(ledger'[r].corrections).kind = "approved"

\* A step that leaves chain and active implementation alone changes no report.
LEMMA SameRowSameReport ==
  ASSUME ReportsTypeOK, NEW r \in Reported, active' = active, ledger' \in [Staged -> Row],
         ledger'[r].corrections = ledger[r].corrections
  PROVE ChangesByApproval(r)
BY SameChainShownSame DEF ChangesByApproval, Reported

\* Whatever the step, the report of a refund changes by an approval of it only.
LEMMA StepChanges ==
  ASSUME ReportsInv, ReportsInv', [ReportsNext]_reportVars, NEW r \in Reported
  PROVE ChangesByApproval(r)
<1>1. /\ ReportsTypeOK /\ r \in Staged /\ HeadComplete(ledger, active, r)
      /\ ledger \in [Staged -> Row] /\ active \in Versions
  BY DEF ReportsInv, ReportsTypeOK, Reported
<1>2. order' = order
  BY DEF ReportsNext, reportVars, Reconcile, Correct, Rearm, Replay, RegisterPending, Activate
<1>3. ledger' \in [Staged -> Row]
  BY <1>2 DEF ReportsInv, ReportsTypeOK, Staged, Row, Correction, ItemParts, A!Items
<1>4. ASSUME NEW q \in Staged, Reconcile(q) PROVE ChangesByApproval(r)
  <2>1. active' = active /\ ledger' = [ledger EXCEPT ![q] = Recompute(q)]
    BY <1>4 DEF Reconcile
  <2>2. ledger'[r].corrections = ledger[r].corrections
    BY <1>1, <2>1, RecomputeIs
  <2> QED
    BY <1>1, <1>3, <2>1, <2>2, SameRowSameReport
<1>5. ASSUME NEW q \in Staged, Correct(q) PROVE ChangesByApproval(r)
  <2>1. PICK approved : Approves(q, approved)
    BY <1>1, <1>5, CorrectApproves
  <2>2. active' = active /\ ledger' = [ledger EXCEPT ![q] = Corrected(q, approved)]
    BY <2>1 DEF Approves
  <2>3. CASE q # r
    <3>1. ledger'[r].corrections = ledger[r].corrections
      BY <1>1, <2>2, <2>3
    <3> QED
      BY <1>1, <1>3, <2>2, <3>1, SameRowSameReport
  <2>4. CASE q = r
    <3> DEFINE x == [base |-> active, approved |-> approved, kind |-> "approved"]
    <3>1. ledger'[r].corrections = Append(ledger[r].corrections, x)
      BY <1>1, <2>1, <2>2, <2>4, CorrectedIs DEF Approves
    <3>2. ledger[r].corrections \in Seq(Correction) /\ x \in Correction /\ x.kind = "approved"
      BY <1>1, <2>1 DEF Row, Correction, Approves
    <3> HIDE DEF x
    <3> QED
      BY <3>1, <3>2, AppendIs DEF ChangesByApproval, RawTip
  <2> QED
    BY <2>3, <2>4
<1>6. ASSUME NEW q \in Staged, Rearm(q) PROVE ChangesByApproval(r)
  <2>1. /\ active' = active
        /\ ledger' = [ledger EXCEPT ![q].due = @ \cup ({active, pending} \ {None})]
    BY <1>6 DEF Rearm
  <2>2. ledger'[r].corrections = ledger[r].corrections
    BY <1>1, <2>1 DEF Row
  <2> QED
    BY <1>1, <1>3, <2>1, <2>2, SameRowSameReport
<1>7. ASSUME NEW q \in Staged, NEW v \in Versions, Replay(q, v) PROVE ChangesByApproval(r)
  <2>1. active' = active /\ v \in ledger[q].due
    BY <1>7 DEF Replay
  <2>2. CASE v < active
    <3>1. ledger' = [ledger EXCEPT ![q].due = @ \ {v}]
      BY <1>7, <2>2 DEF Replay
    <3>2. ledger'[r].corrections = ledger[r].corrections
      BY <1>1, <3>1 DEF Row
    <3> QED
      BY <1>1, <1>3, <2>1, <3>2, SameRowSameReport
  <2>3. CASE ~(v < active)
    <3>1. PICK settles \in BOOLEAN : ledger' = [ledger EXCEPT ![q] = Replayed(q, v, settles)]
      BY <1>7, <2>3 DEF Replay
    <3>2. q # r => ledger'[r].corrections = ledger[r].corrections
      BY <1>1, <3>1
    <3>3. CASE q = r
      <4>1. ledger'[r] = Replayed(r, v, settles)
        BY <1>1, <3>1, <3>3
      <4>2. Carries(ledger[r], ledger'[r], v) \/ ledger'[r].corrections = ledger[r].corrections
        BY <1>1, <4>1, ReplayedIs DEF Keeps
      <4>3. v # active
        BY <1>1, <2>1, <3>3 DEF HeadComplete, HeadIssue
      <4>4. Carries(ledger[r], ledger'[r], v) => ChangesByApproval(r)
        BY <1>1, <1>3, <2>1, <4>3, CarriedShownSame DEF ChangesByApproval
      <4> QED
        BY <1>1, <1>3, <2>1, <4>2, <4>4, SameRowSameReport
    <3> QED
      BY <1>1, <1>3, <2>1, <3>2, <3>3, SameRowSameReport
  <2> QED
    BY <2>2, <2>3
<1>8. CASE RegisterPending
  <2>1. /\ active' = active
        /\ ledger' = [s \in Staged |-> [ledger[s] EXCEPT !.due = @ \cup {active + 1}]]
    BY <1>8 DEF RegisterPending
  <2>2. ledger'[r].corrections = ledger[r].corrections
    BY <1>1, <2>1 DEF Row
  <2> QED
    BY <1>1, <1>3, <2>1, <2>2, SameRowSameReport
<1>9. CASE Activate
  <2>1. /\ active' = pending /\ ledger' = ledger
        /\ pending = active + 1 /\ pending \in Versions
    BY <1>9 DEF Activate, ReportsInv, ReportsTypeOK
  <2>2. HeadComplete(ledger, pending, r) => SameShown(ledger, active, ledger, pending, r)
    BY <1>1, <2>1, SwitchShowsSame
  <2> QED
    BY <2>1, <2>2 DEF ChangesByApproval
<1>10. CASE UNCHANGED reportVars
  BY <1>1, <1>3, <1>10, SameRowSameReport DEF reportVars
<1> QED
  BY <1>4, <1>5, <1>6, <1>7, <1>8, <1>9, <1>10 DEF ReportsNext

\* No recompute, replay or switch changes what a complete report shows, though it
\* may make the report incomplete; only the approval of a correction of that very
\* refund does.
THEOREM ReportsChangeByApproval == ReportsSpec => ReportChangesByApproval
<1> DEFINE Changes ==
      \A r \in Reported :
         \/ ~HeadComplete(ledger', active', r)
         \/ \A c \in Component : Shown(ledger', active', r, c) = Shown(ledger, active, r, c)
         \/ /\ Len(ledger'[r].corrections) > Len(ledger[r].corrections)
            /\ RawTip(ledger'[r].corrections).kind = "approved"
<1>1. ReportsInv /\ ReportsInv' /\ [ReportsNext]_reportVars => [Changes]_reportVars
  BY StepChanges DEF ChangesByApproval, SameShown
<1> QED
  BY <1>1, ReportsInductive, PTL DEF ReportsSpec, ReportChangesByApproval

=============================================================================
