-------------------------- MODULE ForwardPassProofs --------------------------
(***************************************************************************)
(* Proofs about the walk through the layers, for every model, cache and    *)
(* prediction: whatever is prefetched, adopted, exchanged and evicted, a   *)
(* tagged slot holds the weights its tag names, an expert is evaluated     *)
(* with its own weights, no read outlives its layer, and a layer runs with *)
(* its own weights beside at most the next layer's.                        *)
(*                                                                         *)
(* An adoption exchanges buffers one expert after another; that it keeps   *)
(* slots and temporary slots apart, and adopts every expert it should, is  *)
(* proved over the visits of the fold (CommonLemmas: FoldRuns).  Adopt     *)
(* evicts the slot that goes before all others: there is one, because the  *)
(* policy never gives two slots the same recency.                          *)
(***************************************************************************)
EXTENDS ForwardPass, CommonLemmas

-------------------------------------------------------------------------------
(* The replacement policy: whatever is touched and published, no two slots  *)
(* have the same recency, so that one slot goes before all others.          *)

PolicyType == [seg : [Slot -> 0..2], age : [Slot -> Nat], prot : [Layer -> Int]]

Ranked(p) == p \in PolicyType /\ IsInjective(p.age)

(* The slot used last comes first, the others keep their order. *)
LEMMA RefreshRanked ==
    ASSUME NEW age \in [Slot -> Nat], IsInjective(age), NEW s \in Slot
    PROVE  Refresh(age, s) \in [Slot -> Nat] /\ IsInjective(Refresh(age, s))
<1> DEFINE r == Refresh(age, s)
<1>1. r = [t \in Slot |-> IF t = s THEN 0 ELSE IF age[t] < age[s] THEN age[t] + 1 ELSE age[t]]
  BY DEF Refresh
<1>2. /\ r \in [Slot -> Nat] /\ DOMAIN r = Slot
      /\ \A t \in Slot :
            r[t] = IF t = s THEN 0 ELSE IF age[t] < age[s] THEN age[t] + 1 ELSE age[t]
  BY <1>1
<1>3. \A t, u \in Slot : age[t] = age[u] => t = u
  BY DEF IsInjective
<1> HIDE DEF r
<1>4. ASSUME NEW t \in Slot, NEW u \in Slot, r[t] = r[u], t # u  PROVE FALSE
  <2>1. age[t] # age[u] /\ age[s] \in Nat /\ age[t] \in Nat /\ age[u] \in Nat
    BY <1>3, <1>4
  <2>2. (t # s => age[t] # age[s]) /\ (u # s => age[u] # age[s])
    BY <1>3
  <2> QED  BY <1>2, <1>4, <2>1, <2>2
<1> QED  BY <1>2, <1>4 DEF IsInjective, r

(* What the updates of a policy record make of its fields. *)
LEMMA PolicyFields ==
    ASSUME NEW x, NEW y, NEW z, NEW p, p = [seg |-> x, age |-> y, prot |-> z]
    PROVE  /\ \A a : [p EXCEPT !.age = a] = [seg |-> x, age |-> a, prot |-> z]
           /\ \A s, v : [p EXCEPT !.seg[s] = v]
                         = [seg |-> [x EXCEPT ![s] = v], age |-> y, prot |-> z]
           /\ \A l : [p EXCEPT !.prot[l] = @ + 1]
                      = [seg |-> x, age |-> y, prot |-> [z EXCEPT ![l] = z[l] + 1]]
           /\ \A l : [p EXCEPT !.prot[l] = @ - 1]
                      = [seg |-> x, age |-> y, prot |-> [z EXCEPT ![l] = z[l] - 1]]
<1>1. p.seg = x /\ p.age = y /\ p.prot = z
  OBVIOUS
<1>2. ASSUME NEW a PROVE [p EXCEPT !.age = a] = [seg |-> x, age |-> a, prot |-> z]
  OBVIOUS
<1>3. ASSUME NEW s, NEW v
      PROVE  [p EXCEPT !.seg[s] = v] = [seg |-> [x EXCEPT ![s] = v], age |-> y, prot |-> z]
  <2> DEFINE h == [x EXCEPT ![s] = v]
  <2>1. [p EXCEPT !.seg[s] = v] = [p EXCEPT !.seg = h]
    BY <1>1
  <2> HIDE DEF h
  <2>2. [p EXCEPT !.seg = h] = [seg |-> h, age |-> y, prot |-> z]
    OBVIOUS
  <2> QED BY <2>1, <2>2 DEF h
<1>4. ASSUME NEW l, NEW w
      PROVE  [p EXCEPT !.prot[l] = w] = [seg |-> x, age |-> y, prot |-> [z EXCEPT ![l] = w]]
  <2> DEFINE h == [z EXCEPT ![l] = w]
  <2>1. [p EXCEPT !.prot[l] = w] = [p EXCEPT !.prot = h]
    BY <1>1
  <2> HIDE DEF h
  <2>2. [p EXCEPT !.prot = h] = [seg |-> x, age |-> y, prot |-> h]
    OBVIOUS
  <2> QED BY <2>1, <2>2 DEF h
<1>5. \A l : /\ [p EXCEPT !.prot[l] = @ + 1]
                = [seg |-> x, age |-> y, prot |-> [z EXCEPT ![l] = z[l] + 1]]
             /\ [p EXCEPT !.prot[l] = @ - 1]
                = [seg |-> x, age |-> y, prot |-> [z EXCEPT ![l] = z[l] - 1]]
  BY <1>1, <1>4, Zenon
<1> QED BY <1>2, <1>3, <1>5

(* A publication keeps the slots in an order. *)
LEMMA PublishRanked ==
    ASSUME NEW p, Ranked(p), NEW l \in Layer, NEW s \in Slot
    PROVE  Ranked(Publish(p, l, s))
<1> DEFINE r == Refresh(p.age, s)
           g == [p.seg EXCEPT ![s] = 1]
           aged == [p EXCEPT !.age = r, !.seg[s] = 1]
           q == [p.prot EXCEPT ![l] = p.prot[l] - 1]
<1>1. /\ p = [seg |-> p.seg, age |-> p.age, prot |-> p.prot]
      /\ p.seg \in [Slot -> 0..2] /\ p.age \in [Slot -> Nat] /\ p.prot \in [Layer -> Int]
      /\ IsInjective(p.age)
  BY DEF Ranked, PolicyType
<1>2. r \in [Slot -> Nat] /\ IsInjective(r)
  BY <1>1, RefreshRanked
<1>3. g \in [Slot -> 0..2] /\ q \in [Layer -> Int]
  BY <1>1
<1> DEFINE fresh == [p EXCEPT !.age = r]
<1>4. aged = [seg |-> g, age |-> r, prot |-> p.prot]
  <2>1. fresh = [seg |-> p.seg, age |-> r, prot |-> p.prot]
    BY <1>1, PolicyFields
  <2>2. aged = [fresh EXCEPT !.seg[s] = 1]
    OBVIOUS
  <2> HIDE DEF fresh, aged, r
  <2> QED  BY <2>1, <2>2, PolicyFields
<1>5. [aged EXCEPT !.prot[l] = @ - 1] = [seg |-> g, age |-> r, prot |-> q]
  <2> HIDE DEF aged, r, g
  <2> QED  BY <1>4, PolicyFields
<1>6. Publish(p, l, s) = IF Slru /\ p.seg[s] = 2 THEN [aged EXCEPT !.prot[l] = @ - 1] ELSE aged
  BY DEF Publish
<1> HIDE DEF r, g, aged, q
<1> QED  BY <1>1, <1>2, <1>3, <1>4, <1>5, <1>6 DEF Ranked, PolicyType

(* So does a hit, whichever of its cases it falls into. *)
LEMMA TouchRanked ==
    ASSUME NEW p, Ranked(p), NEW l \in Layer, NEW R, NEW s \in Slot
    PROVE  Ranked(Touch(p, l, R, s))
<1> DEFINE r == Refresh(p.age, s)
           g == [p.seg EXCEPT ![s] = 2]
           others == {t \in R \ {s} : p.seg[t] = 2}
           fresh == [p EXCEPT !.age = Refresh(@, s)]
           promoted == [fresh EXCEPT !.seg[s] = 2]
           o == Oldest(fresh, others)
           q == [p.prot EXCEPT ![l] = p.prot[l] + 1]
<1>1. /\ p = [seg |-> p.seg, age |-> p.age, prot |-> p.prot]
      /\ p.seg \in [Slot -> 0..2] /\ p.age \in [Slot -> Nat] /\ p.prot \in [Layer -> Int]
      /\ IsInjective(p.age)
  BY DEF Ranked, PolicyType
<1>2. r \in [Slot -> Nat] /\ IsInjective(r)
  BY <1>1, RefreshRanked
<1>3. g \in [Slot -> 0..2] /\ q \in [Layer -> Int]
  BY <1>1
<1>4. fresh = [seg |-> p.seg, age |-> r, prot |-> p.prot]
  BY <1>1, PolicyFields
<1>5. promoted = [seg |-> g, age |-> r, prot |-> p.prot]
  <2> HIDE DEF fresh, r
  <2> QED  BY <1>4, PolicyFields
<1>6. [promoted EXCEPT !.prot[l] = @ + 1] = [seg |-> g, age |-> r, prot |-> q]
  <2> HIDE DEF fresh, promoted, r, g
  <2> QED  BY <1>5, PolicyFields
<1>7. [promoted EXCEPT !.seg[o] = 1] = [seg |-> [g EXCEPT ![o] = 1], age |-> r, prot |-> p.prot]
  <2> HIDE DEF fresh, promoted, r, g, o
  <2> QED  BY <1>5, PolicyFields
<1>8. [g EXCEPT ![o] = 1] \in [Slot -> 0..2]
  <2>1. ASSUME NEW x \in [Slot -> 0..2], NEW u
        PROVE  [x EXCEPT ![u] = 1] \in [Slot -> 0..2]
    <3>1. [x EXCEPT ![u] = 1] = [t \in Slot |-> IF t = u THEN 1 ELSE x[t]]
      OBVIOUS
    <3>2. \A t \in Slot : (IF t = u THEN 1 ELSE x[t]) \in 0..2
      OBVIOUS
    <3> QED  BY <3>1, <3>2
  <2>2. g \in [Slot -> 0..2]
    BY <1>3
  <2> HIDE DEF g, o
  <2> QED  BY <2>1, <2>2, Zenon
<1>9. Touch(p, l, R, s) \in {fresh, [promoted EXCEPT !.prot[l] = @ + 1], promoted,
                             [promoted EXCEPT !.seg[o] = 1]}
  BY Zenon DEF Touch
<1> DEFINE a == [promoted EXCEPT !.prot[l] = @ + 1]
           b == [promoted EXCEPT !.seg[o] = 1]
           h == [g EXCEPT ![o] = 1]
<1>10. /\ Touch(p, l, R, s) \in {fresh, a, promoted, b}
       /\ a = [seg |-> g, age |-> r, prot |-> q] /\ b = [seg |-> h, age |-> r, prot |-> p.prot]
       /\ h \in [Slot -> 0..2]
  BY <1>6, <1>7, <1>8, <1>9
<1> HIDE DEF r, g, others, fresh, promoted, o, q, a, b, h
<1> QED  BY <1>1, <1>2, <1>3, <1>4, <1>5, <1>10 DEF Ranked, PolicyType

(* One of the slots that may be evicted goes before the others. *)
LEMMA FirstToEvict ==
    ASSUME NEW p, Ranked(p), NEW empty, NEW free \in SUBSET Slot, free # {}
    PROVE  \E v \in free : \A t \in free \ {v} : EvictBefore(p, empty, v, t)
<1>1. /\ p.age \in [Slot -> Nat]
      /\ \A t, u \in Slot : p.age[t] = p.age[u] => t = u
  BY DEF Ranked, PolicyType, IsInjective
<1>2. Slot \in SUBSET Nat /\ free \in SUBSET Nat
  BY SizesAssumption DEF Slot
<1>o. ASSUME NEW S \in SUBSET free, S # {}
      PROVE  \E v \in S : \A t \in S \ {v} : p.age[v] > p.age[t]
  <2> DEFINE A == {p.age[t] : t \in S}
  <2>1. IsFiniteSet(Slot)
    <3>1. NSlots \in Nat /\ NSlots \in Int /\ NSlots <= NSlots
      BY SizesAssumption
    <3> QED  BY <3>1, UpToSize DEF Slot
  <2>2. IsFiniteSet(S)
    BY <2>1, FS_Subset
  <2>3. A \in SUBSET Nat /\ A # {}
    BY <1>1, <1>o
  <2>4. IsFiniteSet(A)
    <3> DEFINE f == [t \in S |-> p.age[t]]
    <3>1. f \in Surjection(S, A)
      BY DEF Surjection
    <3> HIDE DEF f, A
    <3> QED  BY <2>2, <3>1, FS_Surjection
  <2> HIDE DEF A
  <2>5. PICK b \in Nat : \A x \in A : x <= b
    BY <2>3, <2>4, FiniteBounded
  <2>6. Max(A) \in A /\ \A x \in A : x <= Max(A)
    BY <2>3, <2>5, GreatestExists
  <2>7. PICK v \in S : p.age[v] = Max(A)
    BY <2>6 DEF A
  <2>8. ASSUME NEW t \in S \ {v}  PROVE p.age[v] > p.age[t]
    <3>1. p.age[t] \in A
      BY DEF A
    <3>2. p.age[t] <= p.age[v] /\ p.age[t] # p.age[v] /\ p.age[t] \in Nat /\ p.age[v] \in Nat
      BY <1>1, <2>6, <2>7, <3>1
    <3> QED  BY <3>2
  <2> QED  BY <2>8
<1>3. CASE free \cap empty # {}
  <2> DEFINE E == free \cap empty
  <2>1. E \in SUBSET Nat /\ E # {}
    BY <1>2, <1>3
  <2> HIDE DEF E
  <2>2. PICK v \in E : \A t \in E : v <= t
    BY <2>1, LeastExists
  <2>3. v \in free /\ v \in empty
    BY DEF E
  <2>4. ASSUME NEW t \in free \ {v}  PROVE EvictBefore(p, empty, v, t)
    <3>1. t \in empty => v < t
      <4> SUFFICES ASSUME t \in empty  PROVE v < t
        OBVIOUS
      <4>1. t \in E
        BY DEF E
      <4>2. v <= t /\ v # t /\ v \in Nat /\ t \in Nat
        BY <1>2, <2>2, <2>3, <4>1
      <4> QED  BY <4>2
    <3> QED  BY <2>3, <3>1 DEF EvictBefore
  <2> QED  BY <2>3, <2>4
<1>4. CASE free \cap empty = {}
  <2>0. \A t \in free : t \notin empty
    BY <1>4
  <2>1. CASE Slru /\ \E t \in free : p.seg[t] # 2
    <3> DEFINE S == {t \in free : p.seg[t] # 2}
    <3>1. S \in SUBSET free /\ S # {}
      BY <2>1
    <3> HIDE DEF S
    <3>2. PICK v \in S : \A t \in S \ {v} : p.age[v] > p.age[t]
      BY <1>o, <3>1
    <3>3. v \in free /\ p.seg[v] # 2
      BY DEF S
    <3>4. ASSUME NEW t \in free \ {v}  PROVE EvictBefore(p, empty, v, t)
      <4>1. CASE p.seg[t] = 2
        BY <2>0, <2>1, <3>3, <4>1 DEF EvictBefore
      <4>2. CASE p.seg[t] # 2
        <5>1. t \in S \ {v}
          BY <4>2 DEF S
        <5> QED  BY <2>0, <3>2, <3>3, <4>2, <5>1 DEF EvictBefore
      <4> QED  BY <4>1, <4>2
    <3> QED  BY <3>3, <3>4
  <2>2. CASE ~(Slru /\ \E t \in free : p.seg[t] # 2)
    <3>1. PICK v \in free : \A t \in free \ {v} : p.age[v] > p.age[t]
      BY <1>o
    <3>2. ASSUME NEW t \in free \ {v}  PROVE EvictBefore(p, empty, v, t)
      <4>1. ~(Slru /\ (p.seg[v] = 2) # (p.seg[t] = 2))
        BY <2>2
      <4> QED  BY <2>0, <3>1, <4>1 DEF EvictBefore
    <3> QED  BY <3>2
  <2> QED  BY <2>1, <2>2
<1> QED  BY <1>3, <1>4

RankedPolicy == {p \in PolicyType : Ranked(p)}

(* And so do the hits and the publications of an evaluation. *)
LEMMA TouchAllRanked ==
    ASSUME NEW p, Ranked(p), NEW slots \in Seq(Slot), layer \in Layer
    PROVE  Ranked(TouchAll(p, slots))
<1> DEFINE n == Len(slots)
           Op(x, k) == Touch(x, layer, Owned, slots[k])
           Eq(g) == g = [s \in SUBSET (1..n) |->
                           IF s = {} THEN p ELSE Op(g[s \ {Max(s)}], Max(s))]
           f == CHOOSE g : Eq(g)
<1>1. /\ \A x \in RankedPolicy, k \in 1..n : Op(x, k) \in RankedPolicy
      /\ n \in Nat /\ p \in RankedPolicy
  <2>1. n \in Nat /\ \A k \in 1..n : slots[k] \in Slot
    OBVIOUS
  <2> HIDE DEF n
  <2>2. ASSUME NEW x, Ranked(x), NEW k \in 1..n  PROVE Ranked(Op(x, k))
    BY <2>1, <2>2, TouchRanked
  <2> QED  BY <2>1, <2>2 DEF RankedPolicy, Ranked
<1>2. TouchAll(p, slots) = f[1..n]
  <2>1. DOMAIN slots = 1..n
    OBVIOUS
  <2> QED  BY <2>1 DEF TouchAll, FoldLeft, MapThenFoldSet
<1> DEFINE F == [y \in RankedPolicy \X (1..n) |-> Op(y[1], y[2])]
<1>3. \A x \in RankedPolicy, k \in 1..n : F[<<x, k>>] = Op(x, k)
  <2> HIDE DEF Op, n
  <2>1. \A y \in RankedPolicy \X (1..n) : F[y] = Op(y[1], y[2])
    OBVIOUS
  <2> HIDE DEF F
  <2> QED  BY <2>1
<1>4. \A x \in RankedPolicy, k \in 1..n : F[<<x, k>>] \in RankedPolicy
  <2> HIDE DEF F, Op, n
  <2> QED  BY <1>1, <1>3
<1>n. n \in Nat /\ p \in RankedPolicy
  BY <1>1
<1> HIDE DEF F, n
<1>5. PICK h : Folding(h, n, p, F)
  BY <1>n, FoldExists
<1>6. /\ h \in [SUBSET (1..n) -> RankedPolicy]
      /\ \E a : Accumulates(a, n, p, F, RankedPolicy, h[1..n])
  <2> HIDE DEF Op, Eq, f
  <2> QED  BY <1>n, <1>4, <1>5, FoldRuns
<1> HIDE DEF Op
<1>7. Eq(h)
  <2>1. h = [s \in SUBSET (1..n) |-> IF s = {} THEN p ELSE F[<<h[s \ {Max(s)}], Max(s)>>]]
    BY <1>5 DEF Folding
  <2>2. ASSUME NEW s \in SUBSET (1..n), s # {}
        PROVE  F[<<h[s \ {Max(s)}], Max(s)>>] = Op(h[s \ {Max(s)}], Max(s))
    <3>1. Max(s) \in 1..n /\ s \ {Max(s)} \in SUBSET (1..n)
      BY <1>n, <2>2, MaxOfPositions
    <3>2. h[s \ {Max(s)}] \in RankedPolicy
      BY <1>6, <3>1
    <3> QED  BY <1>3, <3>1, <3>2
  <2> QED  BY <2>1, <2>2, Zenon
<1>8. Eq(f)
  <2> HIDE DEF Eq
  <2> QED  BY <1>7
<1> HIDE DEF f
<1> DEFINE G == RankedPolicy \cup {f[s] : s \in SUBSET (1..n)}
           H == [y \in G \X (1..n) |-> Op(y[1], y[2])]
<1>9. \A x \in G, k \in 1..n : H[<<x, k>>] = Op(x, k)
  <2>1. \A y \in G \X (1..n) : H[y] = Op(y[1], y[2])
    OBVIOUS
  <2> HIDE DEF H, G
  <2> QED  BY <2>1
<1>10. RankedPolicy \subseteq G /\ \A s \in SUBSET (1..n) : f[s] \in G
  OBVIOUS
<1> HIDE DEF G, H
<1>11. Folding(f, n, p, H)
  <2>1. f = [s \in SUBSET (1..n) |-> IF s = {} THEN p ELSE Op(f[s \ {Max(s)}], Max(s))]
    BY <1>8
  <2>2. ASSUME NEW s \in SUBSET (1..n), s # {}
        PROVE  H[<<f[s \ {Max(s)}], Max(s)>>] = Op(f[s \ {Max(s)}], Max(s))
    <3>1. Max(s) \in 1..n /\ s \ {Max(s)} \in SUBSET (1..n)
      BY <1>n, <2>2, MaxOfPositions
    <3>2. f[s \ {Max(s)}] \in G
      BY <1>10, <3>1
    <3> QED  BY <1>9, <3>1, <3>2
  <2> HIDE DEF Eq
  <2> QED  BY <2>1, <2>2, Zenon DEF Folding
<1>12. \A x \in RankedPolicy, k \in 1..n : H[<<x, k>>] \in RankedPolicy /\ H[<<x, k>>] = Op(x, k)
  BY <1>1, <1>9, <1>10
<1>13. /\ f \in [SUBSET (1..n) -> RankedPolicy]
       /\ \E a : Accumulates(a, n, p, H, RankedPolicy, f[1..n])
  <2>1. \A x \in RankedPolicy, k \in 1..n : H[<<x, k>>] \in RankedPolicy
    BY <1>12
  <2> HIDE DEF Eq
  <2> QED  BY <1>n, <1>11, <2>1, FoldRuns
<1>14. f[1..n] \in RankedPolicy
  BY <1>13
<1> QED  BY <1>2, <1>14 DEF RankedPolicy

(* The publications are visited in order too. *)
LEMMA PublishAllRanked ==
    ASSUME NEW p, Ranked(p), NEW slots \in Seq(Slot), layer \in Layer,
           tag \in [Slot -> Key \cup {NoKey}]
    PROVE  Ranked(PublishAll(p, slots))
<1> DEFINE n == Len(slots)
           Op(x, k) == Publish(x, OldLayer(tag, slots[k]), slots[k])
           Eq(g) == g = [s \in SUBSET (1..n) |->
                           IF s = {} THEN p ELSE Op(g[s \ {Max(s)}], Max(s))]
           f == CHOOSE g : Eq(g)
<1>1. /\ \A x \in RankedPolicy, k \in 1..n : Op(x, k) \in RankedPolicy
      /\ n \in Nat /\ p \in RankedPolicy
  <2>1. n \in Nat /\ \A k \in 1..n : slots[k] \in Slot
    OBVIOUS
  <2> HIDE DEF n
  <2>3. \A s \in Slot : OldLayer(tag, s) \in Layer
    BY DEF OldLayer, Key
  <2>2. ASSUME NEW x, Ranked(x), NEW k \in 1..n  PROVE Ranked(Op(x, k))
    BY <2>1, <2>2, <2>3, PublishRanked
  <2> QED  BY <2>1, <2>2 DEF RankedPolicy, Ranked
<1>2. PublishAll(p, slots) = f[1..n]
  <2>1. DOMAIN slots = 1..n
    OBVIOUS
  <2> QED  BY <2>1 DEF PublishAll, FoldLeft, MapThenFoldSet
<1> DEFINE F == [y \in RankedPolicy \X (1..n) |-> Op(y[1], y[2])]
<1>3. \A x \in RankedPolicy, k \in 1..n : F[<<x, k>>] = Op(x, k)
  <2> HIDE DEF Op, n
  <2>1. \A y \in RankedPolicy \X (1..n) : F[y] = Op(y[1], y[2])
    OBVIOUS
  <2> HIDE DEF F
  <2> QED  BY <2>1
<1>4. \A x \in RankedPolicy, k \in 1..n : F[<<x, k>>] \in RankedPolicy
  <2> HIDE DEF F, Op, n
  <2> QED  BY <1>1, <1>3
<1>n. n \in Nat /\ p \in RankedPolicy
  BY <1>1
<1> HIDE DEF F, n
<1>5. PICK h : Folding(h, n, p, F)
  BY <1>n, FoldExists
<1>6. /\ h \in [SUBSET (1..n) -> RankedPolicy]
      /\ \E a : Accumulates(a, n, p, F, RankedPolicy, h[1..n])
  <2> HIDE DEF Op, Eq, f
  <2> QED  BY <1>n, <1>4, <1>5, FoldRuns
<1> HIDE DEF Op
<1>7. Eq(h)
  <2>1. h = [s \in SUBSET (1..n) |-> IF s = {} THEN p ELSE F[<<h[s \ {Max(s)}], Max(s)>>]]
    BY <1>5 DEF Folding
  <2>2. ASSUME NEW s \in SUBSET (1..n), s # {}
        PROVE  F[<<h[s \ {Max(s)}], Max(s)>>] = Op(h[s \ {Max(s)}], Max(s))
    <3>1. Max(s) \in 1..n /\ s \ {Max(s)} \in SUBSET (1..n)
      BY <1>n, <2>2, MaxOfPositions
    <3>2. h[s \ {Max(s)}] \in RankedPolicy
      BY <1>6, <3>1
    <3> QED  BY <1>3, <3>1, <3>2
  <2> QED  BY <2>1, <2>2, Zenon
<1>8. Eq(f)
  <2> HIDE DEF Eq
  <2> QED  BY <1>7
<1> HIDE DEF f
<1> DEFINE G == RankedPolicy \cup {f[s] : s \in SUBSET (1..n)}
           H == [y \in G \X (1..n) |-> Op(y[1], y[2])]
<1>9. \A x \in G, k \in 1..n : H[<<x, k>>] = Op(x, k)
  <2>1. \A y \in G \X (1..n) : H[y] = Op(y[1], y[2])
    OBVIOUS
  <2> HIDE DEF H, G
  <2> QED  BY <2>1
<1>10. RankedPolicy \subseteq G /\ \A s \in SUBSET (1..n) : f[s] \in G
  OBVIOUS
<1> HIDE DEF G, H
<1>11. Folding(f, n, p, H)
  <2>1. f = [s \in SUBSET (1..n) |-> IF s = {} THEN p ELSE Op(f[s \ {Max(s)}], Max(s))]
    BY <1>8
  <2>2. ASSUME NEW s \in SUBSET (1..n), s # {}
        PROVE  H[<<f[s \ {Max(s)}], Max(s)>>] = Op(f[s \ {Max(s)}], Max(s))
    <3>1. Max(s) \in 1..n /\ s \ {Max(s)} \in SUBSET (1..n)
      BY <1>n, <2>2, MaxOfPositions
    <3>2. f[s \ {Max(s)}] \in G
      BY <1>10, <3>1
    <3> QED  BY <1>9, <3>1, <3>2
  <2> HIDE DEF Eq
  <2> QED  BY <2>1, <2>2, Zenon DEF Folding
<1>12. \A x \in RankedPolicy, k \in 1..n : H[<<x, k>>] \in RankedPolicy /\ H[<<x, k>>] = Op(x, k)
  BY <1>1, <1>9, <1>10
<1>13. /\ f \in [SUBSET (1..n) -> RankedPolicy]
       /\ \E a : Accumulates(a, n, p, H, RankedPolicy, f[1..n])
  <2>1. \A x \in RankedPolicy, k \in 1..n : H[<<x, k>>] \in RankedPolicy
    BY <1>12
  <2> HIDE DEF Eq
  <2> QED  BY <1>n, <1>11, <2>1, FoldRuns
<1>14. f[1..n] \in RankedPolicy
  BY <1>13
<1> QED  BY <1>2, <1>14 DEF RankedPolicy

-------------------------------------------------------------------------------
(* The adoption of the prefetched experts a layer needs, one after another. *)

AdoptStates ==
    {st \in [tag : [Slot -> Key \cup {NoKey}], policy : PolicyType,
             buffer : [Slot -> Memory], temp : [Temp -> Memory], adopted : SUBSET Owned] :
        Ranked(st.policy)}

Visit(st, i, S) == IF fetch.experts[i] \in S THEN Adopt(st, i, Pinned(S)) ELSE st

(* Whether a visit changes anything, and into what. *)
Placeable(st, i, S) ==
    /\ fetch.experts[i] \in S
    /\ Free(st.adopted, Pinned(S)) # {}
    /\ ~\E s \in Owned : st.tag[s] = <<layer, fetch.experts[i]>>

Placed(st, i, v) ==
    [tag |-> [st.tag EXCEPT ![v] = <<layer, fetch.experts[i]>>],
     policy |-> Publish(st.policy, OldLayer(st.tag, v), v),
     buffer |-> [st.buffer EXCEPT ![v] = st.temp[i]],
     temp |-> [st.temp EXCEPT ![i] = st.buffer[v]],
     adopted |-> st.adopted \cup {v}]

(* What a layer owns is a part of the cache. *)
LEMMA OwnedSlots ==
    /\ Owned \in SUBSET Slot
    /\ \A l \in Layer : RangeOf(l, Topk) \in SUBSET Slot
  BY DEF Owned, RangeOf, Share

(* The fields of the record the adoption makes. *)
LEMMA AdoptFields ==
    ASSUME NEW st, NEW i, NEW v,
           st = [tag |-> st.tag, policy |-> st.policy, buffer |-> st.buffer, temp |-> st.temp,
                 adopted |-> st.adopted]
    PROVE  [Exchanged(st, i, v) EXCEPT
                !.tag[v] = <<layer, fetch.experts[i]>>,
                !.policy = Publish(@, OldLayer(st.tag, v), v),
                !.adopted = @ \cup {v}] = Placed(st, i, v)
<1> DEFINE t == st.tag
           p == st.policy
           b == st.buffer
           m == st.temp
           a == st.adopted
<1>1. /\ st.tag = t /\ st.policy = p /\ st.buffer = b /\ st.temp = m /\ st.adopted = a
      /\ st = [tag |-> t, policy |-> p, buffer |-> b, temp |-> m, adopted |-> a]
  OBVIOUS
<1> HIDE DEF t, p, b, m, a
<1> DEFINE nb == [b EXCEPT ![v] = m[i]]
           nm == [m EXCEPT ![i] = b[v]]
           key == <<layer, fetch.experts[i]>>
           nt == [t EXCEPT ![v] = key]
           np == Publish(p, OldLayer(t, v), v)
           x == Exchanged(st, i, v)
<1>2. Exchanged(st, i, v) = [[st EXCEPT !.buffer = nb] EXCEPT !.temp = nm]
  <2>1. Exchanged(st, i, v) = [st EXCEPT !.buffer[v] = st.temp[i], !.temp[i] = st.buffer[v]]
    BY DEF Exchanged, TempOf
  <2> QED  BY <1>1, <2>1
<1> HIDE DEF nb, nm
<1>3. x = [tag |-> t, policy |-> p, buffer |-> nb, temp |-> nm, adopted |-> a]
  <2>1. [st EXCEPT !.buffer = nb]
        = [tag |-> t, policy |-> p, buffer |-> nb, temp |-> m, adopted |-> a]
    BY <1>1
  <2> QED  BY <1>2, <2>1
<1>4. x.tag = t /\ x.policy = p /\ x.adopted = a
  <2> HIDE DEF x
  <2> QED  BY <1>3
<1>5. [x EXCEPT !.tag[v] = key, !.policy = Publish(@, OldLayer(st.tag, v), v),
                !.adopted = @ \cup {v}]
      = [[[x EXCEPT !.tag = nt] EXCEPT !.policy = np] EXCEPT !.adopted = a \cup {v}]
  <2> HIDE DEF x
  <2>1. [x EXCEPT !.tag[v] = key] = [x EXCEPT !.tag = nt]
    BY <1>4
  <2> DEFINE y == [x EXCEPT !.tag = nt]
  <2>2. y.policy = p /\ y.adopted = a
    <3> HIDE DEF nt
    <3> QED  BY <1>3
  <2>3. [y EXCEPT !.policy = Publish(@, OldLayer(st.tag, v), v)] = [y EXCEPT !.policy = np]
    BY <1>1, <2>2
  <2> DEFINE z == [y EXCEPT !.policy = np]
  <2>4. z.adopted = a
    <3> HIDE DEF np
    <3> QED  BY <1>3, <1>4, <2>2
  <2>5. [z EXCEPT !.adopted = @ \cup {v}] = [z EXCEPT !.adopted = a \cup {v}]
    <3> HIDE DEF z
    <3> QED  BY <2>4
  <2> QED  BY <2>1, <2>3, <2>5
<1> DEFINE na == a \cup {v}
<1>6. [[[x EXCEPT !.tag = nt] EXCEPT !.policy = np] EXCEPT !.adopted = na]
      = [tag |-> nt, policy |-> np, buffer |-> nb, temp |-> nm, adopted |-> na]
  <2> HIDE DEF x, nt, np, na
  <2>1. [x EXCEPT !.tag = nt]
        = [tag |-> nt, policy |-> p, buffer |-> nb, temp |-> nm, adopted |-> a]
    BY <1>3
  <2> DEFINE y == [x EXCEPT !.tag = nt]
             z == [y EXCEPT !.policy = np]
  <2>2. z = [tag |-> nt, policy |-> np, buffer |-> nb, temp |-> nm, adopted |-> a]
    <3>1. y = [tag |-> nt, policy |-> p, buffer |-> nb, temp |-> nm, adopted |-> a]
      BY <2>1
    <3> HIDE DEF y
    <3> QED  BY <3>1
  <2>3. [z EXCEPT !.adopted = na]
        = [tag |-> nt, policy |-> np, buffer |-> nb, temp |-> nm, adopted |-> na]
    <3> HIDE DEF z
    <3> QED  BY <2>2
  <2> QED  BY <2>3
<1>7. Placed(st, i, v) = [tag |-> nt, policy |-> np, buffer |-> nb, temp |-> nm, adopted |-> na]
  BY <1>1 DEF Placed, nb, nm
<1> QED  BY <1>5, <1>6, <1>7

(* A visit leaves everything as it was, or places the expert in a free slot. *)
LEMMA VisitIs ==
    ASSUME NEW S, NEW i \in Fetched, NEW st \in AdoptStates,
           layer \in Layer, fetch.experts \in Seq(Expert), Len(fetch.experts) <= MaxTopk
    PROVE  /\ Visit(st, i, S) \in AdoptStates
           /\ ~Placeable(st, i, S) => Visit(st, i, S) = st
           /\ Placeable(st, i, S) =>
                 \E v \in Free(st.adopted, Pinned(S)) : Visit(st, i, S) = Placed(st, i, v)
<1> DEFINE free == Free(st.adopted, Pinned(S))
           v == CHOOSE s \in free :
                   \A t \in free \ {s} : EvictBefore(st.policy, Empty(st.tag), s, t)
           key == <<layer, fetch.experts[i]>>
<1>1. /\ st = [tag |-> st.tag, policy |-> st.policy, buffer |-> st.buffer, temp |-> st.temp,
               adopted |-> st.adopted]
      /\ st.tag \in [Slot -> Key \cup {NoKey}] /\ st.policy \in PolicyType /\ Ranked(st.policy)
      /\ st.buffer \in [Slot -> Memory] /\ st.temp \in [Temp -> Memory]
      /\ st.adopted \in SUBSET Owned
  BY DEF AdoptStates
<1>2. i \in Temp /\ fetch.experts[i] \in Expert /\ key \in Key
  <2>1. MaxTopk \in Nat
    BY MaxTopkAssumption
  <2> QED  BY <2>1 DEF Fetched, Temp, Key
<1>3. CASE ~Placeable(st, i, S)
  <2>1. Visit(st, i, S) = st
    <3>1. CASE fetch.experts[i] \notin S
      BY <3>1 DEF Visit
    <3>2. CASE fetch.experts[i] \in S
      <4>1. free = {} \/ \E s \in Owned : st.tag[s] = key
        BY <1>3, <3>2 DEF Placeable
      <4>2. Adopt(st, i, Pinned(S)) = st
        BY <4>1, Zenon DEF Adopt
      <4> QED  BY <3>2, <4>2 DEF Visit
    <3> QED  BY <3>1, <3>2
  <2> QED  BY <1>3, <2>1
<1>4. CASE Placeable(st, i, S)
  <2>1. free \in SUBSET Slot /\ free # {}
    BY <1>4, OwnedSlots DEF Placeable, Free
  <2>2. \E s \in free : \A t \in free \ {s} : EvictBefore(st.policy, Empty(st.tag), s, t)
    <3> HIDE DEF free
    <3> QED  BY <1>1, <2>1, FirstToEvict
  <2>3. v \in free
    <3> HIDE DEF free
    <3> QED  BY <2>2, Zenon
  <2>4. /\ Visit(st, i, S) = Adopt(st, i, Pinned(S))
        /\ free # {} /\ ~\E s \in Owned : st.tag[s] = key
    BY <1>4 DEF Placeable, Visit
  <2>5. Adopt(st, i, Pinned(S)) = [Exchanged(st, i, v) EXCEPT
                !.tag[v] = key,
                !.policy = Publish(@, OldLayer(st.tag, v), v),
                !.adopted = @ \cup {v}]
    BY <2>4, Zenon DEF Adopt
  <2>6. Visit(st, i, S) = Placed(st, i, v)
    <3> HIDE DEF v
    <3>1. st = [tag |-> st.tag, policy |-> st.policy, buffer |-> st.buffer, temp |-> st.temp,
                adopted |-> st.adopted]
      BY <1>1
    <3> DEFINE new == [Exchanged(st, i, v) EXCEPT
                         !.tag[v] = <<layer, fetch.experts[i]>>,
                         !.policy = Publish(@, OldLayer(st.tag, v), v),
                         !.adopted = @ \cup {v}]
    <3>2. new = Placed(st, i, v)
      BY <3>1, AdoptFields
    <3>3. Adopt(st, i, Pinned(S)) = new
      BY <2>5
    <3> HIDE DEF new
    <3> QED  BY <2>4, <3>2, <3>3
  <2> HIDE DEF v
  <2>7. v \in Slot /\ v \in Owned
    BY <2>1, <2>3 DEF Free
  <2>8. Placed(st, i, v) \in AdoptStates
    <3> DEFINE np == Publish(st.policy, OldLayer(st.tag, v), v)
    <3>1. OldLayer(st.tag, v) \in Layer
      BY <1>1, <2>7 DEF OldLayer, Key
    <3>2. Ranked(np)
      BY <1>1, <2>7, <3>1, PublishRanked
    <3>3. np \in PolicyType
      BY <3>2 DEF Ranked
    <3>4. [st.tag EXCEPT ![v] = key] \in [Slot -> Key \cup {NoKey}]
      <4> HIDE DEF key
      <4> QED  BY <1>1, <1>2
    <3>5. /\ [st.buffer EXCEPT ![v] = st.temp[i]] \in [Slot -> Memory]
          /\ [st.temp EXCEPT ![i] = st.buffer[v]] \in [Temp -> Memory]
      BY <1>1, <1>2, <2>7
    <3>6. st.adopted \cup {v} \in SUBSET Owned
      BY <1>1, <2>7
    <3> DEFINE nt == [st.tag EXCEPT ![v] = key]
               nb == [st.buffer EXCEPT ![v] = st.temp[i]]
               nm == [st.temp EXCEPT ![i] = st.buffer[v]]
               na == st.adopted \cup {v}
    <3>7. Placed(st, i, v)
          = [tag |-> nt, policy |-> np, buffer |-> nb, temp |-> nm, adopted |-> na]
      BY DEF Placed
    <3>8. /\ nt \in [Slot -> Key \cup {NoKey}] /\ nb \in [Slot -> Memory]
          /\ nm \in [Temp -> Memory] /\ na \in SUBSET Owned
      BY <3>4, <3>5, <3>6
    <3> HIDE DEF nt, np, nb, nm, na
    <3> QED  BY <3>2, <3>3, <3>7, <3>8 DEF AdoptStates
  <2> QED  BY <1>4, <2>3, <2>6, <2>8
<1> QED  BY <1>3, <1>4

BeforeAdoption ==
    [tag |-> tag, policy |-> policy, buffer |-> buffer, temp |-> temp, adopted |-> {}]

(* The states the adoption goes through, one visit after another. *)
Adopting(a, S) ==
    /\ a \in [0..Len(fetch.experts) -> AdoptStates]
    /\ a[0] = BeforeAdoption /\ a[Len(fetch.experts)] = AdoptNeeded(S)
    /\ \A k \in 1..Len(fetch.experts) : a[k] = Visit(a[k - 1], k, S)

(* The fold over the prefetched experts is the run of their visits. *)
LEMMA AdoptionRuns ==
    ASSUME NEW S, layer \in Layer, fetch.experts \in Seq(Expert), Len(fetch.experts) <= MaxTopk,
           tag \in [Slot -> Key \cup {NoKey}], Ranked(policy),
           buffer \in [Slot -> Memory], temp \in [Temp -> Memory]
    PROVE  \E a : Adopting(a, S)
<1> DEFINE n == Len(fetch.experts)
           q == [i \in Fetched |-> i]
           first == BeforeAdoption
           Op(x, k) == IF fetch.experts[q[k]] \in S THEN Adopt(x, q[k], Pinned(S)) ELSE x
           Eq(g) == g = [s \in SUBSET (1..n) |->
                           IF s = {} THEN first ELSE Op(g[s \ {Max(s)}], Max(s))]
           f == CHOOSE g : Eq(g)
<1>1. /\ \A x \in AdoptStates, k \in 1..n : Op(x, k) \in AdoptStates /\ Op(x, k) = Visit(x, k, S)
      /\ n \in Nat /\ first \in AdoptStates
  <2>1. n \in Nat /\ Fetched = 1..n /\ \A k \in 1..n : q[k] = k
    BY DEF Fetched
  <2> HIDE DEF n, q
  <2>2. ASSUME NEW x \in AdoptStates, NEW k \in 1..n
        PROVE  Op(x, k) = Visit(x, k, S) /\ Visit(x, k, S) \in AdoptStates
    <3>1. Op(x, k) = Visit(x, k, S)
      BY <2>1 DEF Visit
    <3>2. k \in Fetched
      BY <2>1
    <3> QED  BY <3>1, <3>2, VisitIs
  <2>3. first \in AdoptStates
    BY DEF AdoptStates, Ranked, BeforeAdoption
  <2> QED  BY <2>1, <2>2, <2>3
<1>2. AdoptNeeded(S) = f[1..n]
  <2>1. DOMAIN q = 1..n
    BY DEF Fetched
  <2> QED  BY <2>1 DEF AdoptNeeded, BeforeAdoption, FoldLeft, MapThenFoldSet
<1> DEFINE F == [y \in AdoptStates \X (1..n) |-> Op(y[1], y[2])]
<1>3. \A x \in AdoptStates, k \in 1..n : F[<<x, k>>] = Op(x, k)
  <2> HIDE DEF Op, n, first
  <2>1. \A y \in AdoptStates \X (1..n) : F[y] = Op(y[1], y[2])
    OBVIOUS
  <2> HIDE DEF F
  <2> QED  BY <2>1
<1>4. \A x \in AdoptStates, k \in 1..n : F[<<x, k>>] \in AdoptStates
  <2> HIDE DEF F, Op, n, first
  <2> QED  BY <1>1, <1>3
<1>n. n \in Nat /\ first \in AdoptStates
  BY <1>1
<1> HIDE DEF F, n, q, first
<1>5. PICK h : Folding(h, n, first, F)
  BY <1>n, FoldExists
<1>6. /\ h \in [SUBSET (1..n) -> AdoptStates]
      /\ \E a : Accumulates(a, n, first, F, AdoptStates, h[1..n])
  <2> HIDE DEF Op, Eq, f
  <2> QED  BY <1>n, <1>4, <1>5, FoldRuns
<1> HIDE DEF Op
<1>7. Eq(h)
  <2>1. h = [s \in SUBSET (1..n) |-> IF s = {} THEN first ELSE F[<<h[s \ {Max(s)}], Max(s)>>]]
    BY <1>5 DEF Folding
  <2>2. ASSUME NEW s \in SUBSET (1..n), s # {}
        PROVE  F[<<h[s \ {Max(s)}], Max(s)>>] = Op(h[s \ {Max(s)}], Max(s))
    <3>1. Max(s) \in 1..n /\ s \ {Max(s)} \in SUBSET (1..n)
      BY <1>n, <2>2, MaxOfPositions
    <3>2. h[s \ {Max(s)}] \in AdoptStates
      BY <1>6, <3>1
    <3> QED  BY <1>3, <3>1, <3>2
  <2> QED  BY <2>1, <2>2, Zenon
<1>8. Eq(f)
  <2> HIDE DEF Eq
  <2> QED  BY <1>7
<1> HIDE DEF f
<1> DEFINE G == AdoptStates \cup {f[s] : s \in SUBSET (1..n)}
           H == [y \in G \X (1..n) |-> Op(y[1], y[2])]
<1>9. \A x \in G, k \in 1..n : H[<<x, k>>] = Op(x, k)
  <2>1. \A y \in G \X (1..n) : H[y] = Op(y[1], y[2])
    OBVIOUS
  <2> HIDE DEF H, G
  <2> QED  BY <2>1
<1>10. AdoptStates \subseteq G /\ \A s \in SUBSET (1..n) : f[s] \in G
  OBVIOUS
<1> HIDE DEF G, H
<1>11. Folding(f, n, first, H)
  <2>1. f = [s \in SUBSET (1..n) |-> IF s = {} THEN first ELSE Op(f[s \ {Max(s)}], Max(s))]
    BY <1>8
  <2>2. ASSUME NEW s \in SUBSET (1..n), s # {}
        PROVE  H[<<f[s \ {Max(s)}], Max(s)>>] = Op(f[s \ {Max(s)}], Max(s))
    <3>1. Max(s) \in 1..n /\ s \ {Max(s)} \in SUBSET (1..n)
      BY <1>n, <2>2, MaxOfPositions
    <3>2. f[s \ {Max(s)}] \in G
      BY <1>10, <3>1
    <3> QED  BY <1>9, <3>1, <3>2
  <2> HIDE DEF Eq
  <2> QED  BY <2>1, <2>2, Zenon DEF Folding
<1>12. \A x \in AdoptStates, k \in 1..n : H[<<x, k>>] \in AdoptStates /\ H[<<x, k>>] = Op(x, k)
  BY <1>1, <1>9, <1>10
<1>13. /\ f \in [SUBSET (1..n) -> AdoptStates]
       /\ \E a : Accumulates(a, n, first, H, AdoptStates, f[1..n])
  <2>1. \A x \in AdoptStates, k \in 1..n : H[<<x, k>>] \in AdoptStates
    BY <1>12
  <2> HIDE DEF Eq
  <2> QED  BY <1>n, <1>11, <2>1, FoldRuns
<1>14. PICK a : Accumulates(a, n, first, H, AdoptStates, f[1..n])
  BY <1>13
<1>15. /\ a \in [0..n -> AdoptStates] /\ a[0] = first /\ a[n] = f[1..n]
       /\ \A k \in 1..n : a[k] = H[<<a[k - 1], k>>]
  BY <1>14 DEF Accumulates
<1>16. ASSUME NEW k \in 1..n  PROVE a[k] = Visit(a[k - 1], k, S)
  <2>1. k - 1 \in 0..n
    BY <1>n
  <2>2. a[k - 1] \in AdoptStates
    BY <1>15, <2>1
  <2>3. H[<<a[k - 1], k>>] = Op(a[k - 1], k) /\ Op(a[k - 1], k) = Visit(a[k - 1], k, S)
    BY <1>1, <1>12, <2>2
  <2> QED  BY <1>15, <2>3
<1>17. Adopting(a, S)
  BY <1>2, <1>15, <1>16 DEF Adopting, n, first
<1> QED  BY <1>17

Apart(b, m) == IsInjective(b) /\ IsInjective(m) /\ Range(b) \cap Range(m) = {}

TagsHold(t, b, c) == \A s \in Slot : t[s] # NoKey => c[b[s]] = t[s]

(* Within the range of a layer an expert has at most one slot. *)
TagsDistinct(t) ==
    \A l \in Layer, e \in Expert : \A s, u \in RangeOf(l, Topk) :
        t[s] = <<l, e>> /\ t[u] = <<l, e>> => s = u

(* What the visits of the first k experts leave as it was. *)
AdoptionKept(st, k, S) ==
    /\ st \in AdoptStates
    /\ Apart(st.buffer, st.temp)
    /\ TagsHold(st.tag, st.buffer, content)
    /\ TagsDistinct(st.tag)
    /\ \A i \in Fetched : i > k => st.temp[i] = temp[i]
    /\ \A s \in Slot \ st.adopted : st.tag[s] = tag[s]
    /\ st.adopted \cap Pinned(S) = {}
    /\ \A s \in st.adopted : \E e \in S : st.tag[s] = <<layer, e>>

(* An exchange of buffers loses none and shares none. *)
LEMMA ExchangeApart ==
    ASSUME NEW b \in [Slot -> Memory], NEW m \in [Temp -> Memory], Apart(b, m),
           NEW v \in Slot, NEW i \in Temp
    PROVE  Apart([b EXCEPT ![v] = m[i]], [m EXCEPT ![i] = b[v]])
<1> DEFINE nb == [b EXCEPT ![v] = m[i]]
           nm == [m EXCEPT ![i] = b[v]]
<1>1. /\ \A s, u \in Slot : b[s] = b[u] => s = u
      /\ \A j, k \in Temp : m[j] = m[k] => j = k
      /\ \A s \in Slot, j \in Temp : b[s] # m[j]
  BY DEF Apart, IsInjective, Range
<1>2. /\ \A s \in Slot : nb[s] = IF s = v THEN m[i] ELSE b[s]
      /\ \A j \in Temp : nm[j] = IF j = i THEN b[v] ELSE m[j]
      /\ DOMAIN nb = Slot /\ DOMAIN nm = Temp
  OBVIOUS
<1> HIDE DEF nb, nm
<1>3. /\ \A s, u \in Slot : nb[s] = nb[u] => s = u
      /\ \A j, k \in Temp : nm[j] = nm[k] => j = k
      /\ \A s \in Slot, j \in Temp : nb[s] # nm[j]
  BY <1>1, <1>2
<1>4. IsInjective(nb) /\ IsInjective(nm)
  BY <1>2, <1>3 DEF IsInjective
<1>5. Range(nb) \cap Range(nm) = {}
  BY <1>2, <1>3 DEF Range
<1> QED  BY <1>4, <1>5 DEF Apart, nb, nm

(* A read that ended well is in its temporary slot. *)
Loaded == \A i \in Fetched : content[temp[i]] = <<layer, fetch.experts[i]>>

(* One visit keeps what the visits before it kept. *)
LEMMA VisitKeeps ==
    ASSUME NEW S, NEW i \in Fetched, NEW st, AdoptionKept(st, i - 1, S), Loaded,
           layer \in Layer, fetch.experts \in Seq(Expert), Len(fetch.experts) <= MaxTopk
    PROVE  AdoptionKept(Visit(st, i, S), i, S)
<1>1. st \in AdoptStates
  BY DEF AdoptionKept
<1>2. /\ i \in Nat /\ i \in Temp /\ fetch.experts[i] \in Expert
      /\ \A j \in Fetched : j \in Nat
  BY MaxTopkAssumption DEF Fetched, Temp
<1>3. CASE ~Placeable(st, i, S)
  <2>1. Visit(st, i, S) = st
    BY <1>1, <1>3, VisitIs
  <2>2. \A j \in Fetched : j > i => j > i - 1
    BY <1>2
  <2> QED  BY <2>1, <2>2 DEF AdoptionKept
<1>4. CASE Placeable(st, i, S)
  <2>1. PICK v \in Free(st.adopted, Pinned(S)) : Visit(st, i, S) = Placed(st, i, v)
    BY <1>1, <1>4, VisitIs
  <2>2. Placed(st, i, v) \in AdoptStates
    BY <1>1, <2>1, VisitIs
  <2> DEFINE q == Placed(st, i, v)
             key == <<layer, fetch.experts[i]>>
  <2>3. v \in Owned /\ v \in Slot /\ v \notin Pinned(S) /\ v \notin st.adopted
    BY <2>1, OwnedSlots DEF Free
  <2>4. /\ st.tag \in [Slot -> Key \cup {NoKey}] /\ st.buffer \in [Slot -> Memory]
        /\ st.temp \in [Temp -> Memory]
    BY <1>1 DEF AdoptStates
  <2>5. /\ q.tag = [st.tag EXCEPT ![v] = key]
        /\ q.buffer = [st.buffer EXCEPT ![v] = st.temp[i]]
        /\ q.temp = [st.temp EXCEPT ![i] = st.buffer[v]]
        /\ q.adopted = st.adopted \cup {v}
    BY DEF Placed
  <2>6. /\ \A s \in Slot : q.tag[s] = IF s = v THEN key ELSE st.tag[s]
        /\ \A s \in Slot : q.buffer[s] = IF s = v THEN st.temp[i] ELSE st.buffer[s]
        /\ \A j \in Temp : q.temp[j] = IF j = i THEN st.buffer[v] ELSE st.temp[j]
    <3> HIDE DEF q, key
    <3> QED  BY <2>3, <2>4, <2>5, <1>2
  <2>7. /\ Apart(st.buffer, st.temp) /\ TagsHold(st.tag, st.buffer, content)
        /\ TagsDistinct(st.tag)
        /\ \A j \in Fetched : j > i - 1 => st.temp[j] = temp[j]
        /\ \A s \in Slot \ st.adopted : st.tag[s] = tag[s]
        /\ st.adopted \cap Pinned(S) = {}
        /\ \A s \in st.adopted : \E e \in S : st.tag[s] = <<layer, e>>
        /\ st.adopted \in SUBSET Slot
    BY <1>1, OwnedSlots DEF AdoptionKept, AdoptStates
  <2>8. /\ fetch.experts[i] \in S
        /\ \A s \in Owned : st.tag[s] # key
    BY <1>4 DEF Placeable
  <2>9. Apart(q.buffer, q.temp)
    <3> DEFINE b == st.buffer
               m == st.temp
    <3>1. b \in [Slot -> Memory] /\ m \in [Temp -> Memory] /\ Apart(b, m)
      BY <2>4, <2>7
    <3>2. q.buffer = [b EXCEPT ![v] = m[i]] /\ q.temp = [m EXCEPT ![i] = b[v]]
      BY <2>5
    <3> HIDE DEF b, m, q
    <3>3. Apart([b EXCEPT ![v] = m[i]], [m EXCEPT ![i] = b[v]])
      BY <1>2, <2>3, <3>1, ExchangeApart
    <3> QED  BY <3>2, <3>3
  <2>10. content[st.temp[i]] = key
    <3>1. st.temp[i] = temp[i]
      BY <1>2, <2>7
    <3> QED  BY <3>1 DEF Loaded
  <2>a. key \in Key
    BY <1>2 DEF Key
  <2>b. q \in AdoptStates
    BY <2>2
  <2> HIDE DEF q
  <2>11. TagsHold(q.tag, q.buffer, content)
    <3> HIDE DEF key
    <3> QED  BY <2>6, <2>7, <2>10 DEF TagsHold
  <2>12. TagsDistinct(q.tag)
    <3> SUFFICES ASSUME NEW l \in Layer, NEW e \in Expert, NEW s \in RangeOf(l, Topk),
                        NEW u \in RangeOf(l, Topk), q.tag[s] = <<l, e>>, q.tag[u] = <<l, e>>, s # u
                 PROVE  FALSE
      BY DEF TagsDistinct
    <3>1. s \in Slot /\ u \in Slot
      BY OwnedSlots
    <3>2. CASE s # v /\ u # v
      BY <2>6, <2>7, <3>1, <3>2 DEF TagsDistinct
    <3>3. ASSUME s = v \/ u = v  PROVE FALSE
      <4>1. key = <<l, e>>
        BY <2>6, <3>1, <3>3
      <4>2. l = layer
        BY <4>1
      <4>3. s \in Owned /\ u \in Owned
        BY <4>2 DEF Owned
      <4> HIDE DEF key
      <4> QED  BY <2>6, <2>8, <3>1, <3>3, <4>1, <4>3
    <3> QED  BY <3>2, <3>3
  <2>13. \A j \in Fetched : j > i => q.temp[j] = temp[j]
    <3> SUFFICES ASSUME NEW j \in Fetched, j > i  PROVE q.temp[j] = temp[j]
      OBVIOUS
    <3>1. j # i /\ j > i - 1 /\ j \in Temp
      BY <1>2, MaxTopkAssumption DEF Fetched, Temp
    <3> QED  BY <2>6, <2>7, <3>1
  <2>14. \A s \in Slot \ q.adopted : q.tag[s] = tag[s]
    BY <2>5, <2>6, <2>7
  <2>15. q.adopted \cap Pinned(S) = {}
    BY <2>3, <2>5, <2>7
  <2>16. \A s \in q.adopted : \E e \in S : q.tag[s] = <<layer, e>>
    <3> SUFFICES ASSUME NEW s \in q.adopted  PROVE \E e \in S : q.tag[s] = <<layer, e>>
      OBVIOUS
    <3>1. CASE s = v
      BY <2>3, <2>6, <2>8, <3>1
    <3>2. CASE s # v
      <4>1. s \in st.adopted /\ s \in Slot
        BY <2>5, <2>7, <3>2
      <4> QED  BY <2>6, <2>7, <3>2, <4>1
    <3> QED  BY <3>1, <3>2
  <2>17. AdoptionKept(q, i, S)
    BY <2>b, <2>9, <2>11, <2>12, <2>13, <2>14, <2>15, <2>16 DEF AdoptionKept
  <2> QED  BY <2>1, <2>17 DEF q
<1> QED  BY <1>3, <1>4

(* The experts visited that are needed have a slot, if the layer has one    *)
(* for every expert it needs: the slots pinned and adopted hold different    *)
(* experts it needs, and not the one being visited.                          *)
AdoptionPlaces(st, k, S) ==
    \A j \in Fetched : j <= k /\ fetch.experts[j] \in S =>
        \E s \in Owned : st.tag[s] = <<layer, fetch.experts[j]>>

(* After its visit a needed expert has a slot, if there is room for all. *)
LEMMA VisitPlaces ==
    ASSUME NEW S \in SUBSET Expert, NEW i \in Fetched, NEW st, AdoptionKept(st, i - 1, S),
           AdoptionPlaces(st, i - 1, S), IsFiniteSet(S), Cardinality(S) <= Cardinality(Owned),
           IsFiniteSet(Owned),
           layer \in Layer, fetch.experts \in Seq(Expert), Len(fetch.experts) <= MaxTopk
    PROVE  AdoptionPlaces(Visit(st, i, S), i, S)
<1>1. st \in AdoptStates
  BY DEF AdoptionKept
<1>2. /\ i \in Nat /\ i \in Temp /\ fetch.experts[i] \in Expert
      /\ \A j \in Fetched : j \in Nat
  BY MaxTopkAssumption DEF Fetched, Temp
<1>3. \A j \in Fetched : j <= i => j = i \/ j <= i - 1
  BY <1>2
<1>k. /\ TagsDistinct(st.tag)
      /\ \A s \in Slot \ st.adopted : st.tag[s] = tag[s]
      /\ st.adopted \cap Pinned(S) = {}
      /\ \A s \in st.adopted : \E e \in S : st.tag[s] = <<layer, e>>
      /\ st.tag \in [Slot -> Key \cup {NoKey}]
  BY <1>1 DEF AdoptionKept, AdoptStates
<1>4. CASE Placeable(st, i, S)
  <2>1. PICK v \in Free(st.adopted, Pinned(S)) : Visit(st, i, S) = Placed(st, i, v)
    BY <1>1, <1>4, VisitIs
  <2> DEFINE q == Placed(st, i, v)
             key == <<layer, fetch.experts[i]>>
  <2>2. v \in Owned /\ v \in Slot /\ v \notin Pinned(S) /\ v \notin st.adopted
    BY <2>1, OwnedSlots DEF Free
  <2>3. q.tag = [st.tag EXCEPT ![v] = key]
    BY DEF Placed
  <2>4. \A s \in Slot : q.tag[s] = IF s = v THEN key ELSE st.tag[s]
    <3> HIDE DEF q, key
    <3> QED  BY <1>k, <2>2, <2>3
  <2> HIDE DEF q
  <2>5. ASSUME NEW j \in Fetched, j <= i, fetch.experts[j] \in S
        PROVE  \E s \in Owned : q.tag[s] = <<layer, fetch.experts[j]>>
    <3>1. CASE j = i
      BY <2>2, <2>4, <3>1
    <3>2. CASE j # i
      <4>1. j <= i - 1
        BY <1>3, <2>5, <3>2
      <4>2. PICK s \in Owned : st.tag[s] = <<layer, fetch.experts[j]>>
        BY <2>5, <4>1 DEF AdoptionPlaces
      <4>3. s \in Slot
        BY OwnedSlots
      <4>4. s # v
        <5> SUFFICES ASSUME s = v  PROVE FALSE
          OBVIOUS
        <5>1. tag[v] = <<layer, fetch.experts[j]>>
          BY <1>k, <2>2, <4>2
        <5>2. v \in Pinned(S)
          BY <2>2, <2>5, <5>1 DEF Pinned, Wanted
        <5> QED  BY <2>2, <5>2
      <4> QED  BY <2>4, <4>2, <4>3, <4>4
    <3> QED  BY <3>1, <3>2
  <2> QED  BY <2>1, <2>5 DEF AdoptionPlaces, q
<1>5. CASE ~Placeable(st, i, S)
  <2>1. Visit(st, i, S) = st
    BY <1>1, <1>5, VisitIs
  <2>2. ASSUME fetch.experts[i] \in S
        PROVE  \E s \in Owned : st.tag[s] = <<layer, fetch.experts[i]>>
    <3> SUFFICES ASSUME \A s \in Owned : st.tag[s] # <<layer, fetch.experts[i]>>  PROVE FALSE
      OBVIOUS
    <3> DEFINE e == fetch.experts[i]
    <3>1. Owned \subseteq Pinned(S) \cup st.adopted
      BY <1>5, <2>2 DEF Placeable, Free
    <3>2. ASSUME NEW s \in Owned  PROVE \E x \in S \ {e} : st.tag[s] = <<layer, x>>
      <4>1. s \in Slot
        BY OwnedSlots
      <4>2. \E x \in S : st.tag[s] = <<layer, x>>
        <5>1. CASE s \in st.adopted
          BY <1>k, <5>1
        <5>2. CASE s \notin st.adopted
          <6>1. s \in Pinned(S)
            BY <3>1, <5>2
          <6> QED  BY <1>k, <4>1, <5>2, <6>1 DEF Pinned, Wanted
        <5> QED  BY <5>1, <5>2
      <4> QED  BY <4>2
    <3> DEFINE f == [s \in Owned |-> st.tag[s][2]]
    <3>3. ASSUME NEW s \in Owned  PROVE f[s] \in S \ {e} /\ st.tag[s] = <<layer, f[s]>>
      <4>1. PICK x \in S \ {e} : st.tag[s] = <<layer, x>>
        BY <3>2
      <4>2. f[s] = x
        BY <4>1
      <4> QED  BY <4>1, <4>2
    <3> HIDE DEF e
    <3>4. DOMAIN f = Owned /\ f \in [Owned -> S \ {e}]
      BY <3>3
    <3> HIDE DEF f
    <3>5. \A s, u \in Owned : f[s] = f[u] => s = u
      <4> SUFFICES ASSUME NEW s \in Owned, NEW u \in Owned, f[s] = f[u]  PROVE s = u
        OBVIOUS
      <4>1. st.tag[s] = <<layer, f[s]>> /\ st.tag[u] = <<layer, f[s]>> /\ f[s] \in Expert
        BY <3>3
      <4>2. s \in RangeOf(layer, Topk) /\ u \in RangeOf(layer, Topk)
        BY DEF Owned
      <4> QED  BY <1>k, <4>1, <4>2 DEF TagsDistinct
    <3>6. f \in Injection(Owned, S \ {e})
      BY <3>4, <3>5 DEF Injection, IsInjective
    <3>7. IsFiniteSet(S \ {e}) /\ Cardinality(S \ {e}) = Cardinality(S) - 1
      BY <2>2, FS_RemoveElement DEF e
    <3>8. Cardinality(Owned) <= Cardinality(S \ {e})
      BY <3>6, <3>7, FS_Injection
    <3>9. Cardinality(S) \in Nat /\ Cardinality(Owned) \in Nat
      BY FS_CardinalityType
    <3> QED  BY <3>7, <3>8, <3>9
  <2> QED  BY <1>3, <2>1, <2>2 DEF AdoptionPlaces
<1> QED  BY <1>4, <1>5

Room(S) ==
    /\ S \in SUBSET Expert /\ IsFiniteSet(S) /\ IsFiniteSet(Owned)
    /\ Cardinality(S) <= Cardinality(Owned)

(* All visits together: by induction over the prefetched experts. *)
LEMMA AdoptionKeeps ==
    ASSUME NEW S, layer \in Layer, fetch.experts \in Seq(Expert), Len(fetch.experts) <= MaxTopk,
           tag \in [Slot -> Key \cup {NoKey}], Ranked(policy),
           buffer \in [Slot -> Memory], temp \in [Temp -> Memory],
           Apart(buffer, temp), TagsHold(tag, buffer, content), TagsDistinct(tag), Loaded
    PROVE  /\ AdoptionKept(AdoptNeeded(S), Len(fetch.experts), S)
           /\ Room(S) => AdoptionPlaces(AdoptNeeded(S), Len(fetch.experts), S)
<1>1. PICK a : Adopting(a, S)
  BY AdoptionRuns
<1> DEFINE n == Len(fetch.experts)
           Good(k) == AdoptionKept(a[k], k, S) /\ (Room(S) => AdoptionPlaces(a[k], k, S))
           T == {k \in Nat : k <= n => Good(k)}
<1>2. /\ a \in [0..n -> AdoptStates]
      /\ a[0] = BeforeAdoption /\ a[n] = AdoptNeeded(S)
      /\ \A k \in 1..n : a[k] = Visit(a[k - 1], k, S)
      /\ n \in Nat /\ Fetched = 1..n
  BY <1>1 DEF Adopting, Fetched
<1>3. 0 \in T
  <2>1. a[0] \in AdoptStates /\ a[0] = BeforeAdoption
    BY <1>2
  <2> DEFINE st == BeforeAdoption
  <2>2. /\ st.tag = tag /\ st.buffer = buffer /\ st.temp = temp /\ st.adopted = {}
    BY DEF BeforeAdoption
  <2>3. st \in AdoptStates
    BY <2>1
  <2> HIDE DEF st
  <2>4. AdoptionKept(st, 0, S)
    BY <2>2, <2>3 DEF AdoptionKept
  <2>5. AdoptionPlaces(st, 0, S)
    BY <1>2 DEF AdoptionPlaces
  <2> QED  BY <2>1, <2>4, <2>5 DEF st
<1>4. ASSUME NEW k \in Nat, k \in T  PROVE k + 1 \in T
  <2> SUFFICES ASSUME k + 1 <= n  PROVE Good(k + 1)
    <3> HIDE DEF Good
    <3> QED  OBVIOUS
  <2> DEFINE i == k + 1
             st == a[k]
  <2>1. i \in Fetched /\ i - 1 = k /\ a[i] = Visit(st, i, S)
    BY <1>2
  <2>2. Good(k)
    <3> HIDE DEF Good
    <3> QED  BY <1>2, <1>4
  <2>3. AdoptionKept(st, i - 1, S) /\ (Room(S) => AdoptionPlaces(st, i - 1, S))
    BY <2>1, <2>2
  <2> HIDE DEF i, st
  <2>4. AdoptionKept(Visit(st, i, S), i, S)
    BY <2>1, <2>3, VisitKeeps
  <2>5. Room(S) => AdoptionPlaces(Visit(st, i, S), i, S)
    BY <2>1, <2>3, VisitPlaces DEF Room
  <2>6. Good(i)
    BY <2>1, <2>4, <2>5
  <2> QED  BY <2>6 DEF i
<1>5. Good(n)
  <2>1. \A k \in Nat : k \in T
    <3> HIDE DEF T
    <3> QED  BY <1>3, <1>4, Induct
  <2> HIDE DEF Good
  <2> QED  BY <1>2, <2>1
<1> QED  BY <1>2, <1>5

-------------------------------------------------------------------------------
(* Sets of experts and of slots. *)

(* Sets of slots and of experts can be counted. *)
LEMMA SubsetsFinite ==
    /\ IsFiniteSet(Slot) /\ Cardinality(Slot) = NSlots
    /\ \A S \in SUBSET Slot : IsFiniteSet(S) /\ Cardinality(S) \in Nat
    /\ \A S \in SUBSET Expert : IsFiniteSet(S) /\ Cardinality(S) \in Nat
<1>1. IsFiniteSet(Slot) /\ Cardinality(Slot) = NSlots
  <2> DEFINE b == NSlots - 1
  <2>1. b \in Int /\ 0 \in Int /\ ~(0 > b) /\ b - 0 + 1 = NSlots
    BY SizesAssumption
  <2> HIDE DEF b
  <2>2. IsFiniteSet(0..b) /\ Cardinality(0..b) = IF 0 > b THEN 0 ELSE b - 0 + 1
    BY <2>1, FS_Interval, Zenon
  <2> QED  BY <2>1, <2>2 DEF Slot, b
<1>2. IsFiniteSet(Expert)
  <2>1. NExperts \in Nat /\ NExperts \in Int /\ NExperts <= NExperts
    BY SizesAssumption
  <2>2. IsFiniteSet(0..(NExperts - 1))
    BY <2>1, UpToSize
  <2> QED  BY <2>2 DEF Expert
<1> QED  BY <1>1, <1>2, FS_Subset, FS_CardinalityType

(* The experts of a set can be listed by increasing id. *)
LEMMA InOrderIs ==
    ASSUME NEW S \in SUBSET Expert
    PROVE  InOrder(S) \in [1..Cardinality(S) -> S]
<1>1. IsFiniteSet(S) /\ S \in SUBSET Nat
  BY SubsetsFinite DEF Expert
<1>2. PICK q : Listed(q, S)
  BY <1>1, ListedExists
<1>3. /\ q \in [1..Cardinality(S) -> S] /\ DOMAIN q = 1..Cardinality(S)
      /\ \A i, k \in 1..Cardinality(S) : i < k => q[i] < q[k]
      /\ \A i, k \in 1..Cardinality(S) : i # k => q[i] # q[k]
  BY <1>2 DEF Listed
<1>4. q \in SetToSeqs(S)
  BY <1>3 DEF SetToSeqs
<1>5. InOrder(S) \in SetToSeqs(S)
  <2>1. \E r \in SetToSeqs(S) : \A i, k \in DOMAIN r : i < k => r[i] < r[k]
    BY <1>3, <1>4
  <2> QED  BY <2>1, Zenon DEF InOrder
<1> QED  BY <1>5 DEF SetToSeqs

(* Every order the experts of a set may be prefetched in. *)
LEMMA OrderIs ==
    ASSUME NEW S \in SUBSET Expert,
           NEW order \in IF kind = "token" THEN {InOrder(S)} ELSE SetToSeqs(S)
    PROVE  /\ order \in Seq(Expert) /\ Len(order) = Cardinality(S)
<1>1. order \in [1..Cardinality(S) -> S]
  BY InOrderIs DEF SetToSeqs
<1>2. Cardinality(S) \in Nat
  BY SubsetsFinite
<1> DEFINE n == Cardinality(S)
<1> HIDE DEF n
<1>3. order \in [1..n -> Expert] /\ n \in Nat
  BY <1>1, <1>2 DEF n
<1>4. order \in Seq(Expert) /\ Len(order) = n
  BY <1>3
<1> QED  BY <1>4 DEF n

(* The slots of experts that all have one. *)
LEMMA SlotsOfIs ==
    ASSUME NEW t, NEW S \in SUBSET Expert, \A e \in S : \E s \in Owned : t[s] = <<layer, e>>
    PROVE  SlotsOf(t, S) \in Seq(Slot)
<1> DEFINE n == Cardinality(S)
           o == InOrder(S)
<1>1. n \in Nat /\ o \in [1..n -> S]
  BY SubsetsFinite, InOrderIs
<1>2. SlotsOf(t, S) = [i \in 1..n |-> CHOOSE s \in Owned : t[s] = <<layer, o[i]>>]
  BY DEF SlotsOf
<1> HIDE DEF n, o
<1>3. ASSUME NEW i \in 1..n  PROVE (CHOOSE s \in Owned : t[s] = <<layer, o[i]>>) \in Slot
  <2>1. \E s \in Owned : t[s] = <<layer, o[i]>>
    BY <1>1
  <2>2. (CHOOSE s \in Owned : t[s] = <<layer, o[i]>>) \in Owned
    BY <2>1, Zenon
  <2> QED  BY <2>2, OwnedSlots
<1>4. SlotsOf(t, S) \in [1..n -> Slot]
  BY <1>2, <1>3
<1> QED  BY <1>1, <1>4

-------------------------------------------------------------------------------
(* The inductive invariant. *)

FlowType ==
    /\ fetch \in [layer : Layer, experts : Seq(Expert), active : BOOLEAN]
    /\ Len(fetch.experts) <= MaxTopk
    /\ read \in [Temp -> ReadState]
    /\ pc \in PC /\ kind \in {"token", "prompt"} /\ layer \in Layer
    /\ chunks \in [all : 0..MaxChunks, left : 0..MaxChunks]
    /\ weights \in Layer \cup {NoLayer}
    /\ loader \in [layer : Layer \cup {NoLayer}, done : BOOLEAN]
    /\ decoded \subseteq Layer /\ need \subseteq Expert
    /\ result \in [Expert -> Key \cup {NoKey}]

CacheType ==
    /\ tag \in [Slot -> Key \cup {NoKey}] /\ Ranked(policy)
    /\ buffer \in [Slot -> Memory] /\ temp \in [Temp -> Memory]
    /\ content \in [Memory -> Key \cup {NoKey}]

(* Chunks are left while the layer is walked. *)
ChunksInv ==
    /\ pc # "idle" => chunks.all >= 1
    /\ pc \in {"load", "join", "overlap", "predict", "attend", "evaluate", "chunk"} =>
          chunks.left >= 1

(* Whose weights are in memory, and whose are being loaded. *)
WeightsInv ==
    /\ pc \in {"overlap", "predict", "attend", "evaluate", "chunk", "release", "failed"} =>
          weights = layer
    /\ pc \in {"idle", "load", "join"} => weights = NoLayer

LoaderInv ==
    /\ loader.layer # NoLayer =>
          /\ loader.layer = (IF weights = NoLayer THEN layer ELSE layer + 1)
          /\ loader.layer \in decoded
    /\ pc \in {"idle", "load", "overlap"} => loader.layer = NoLayer
    /\ pc = "join" => loader.layer # NoLayer

(* The prefetch is over when the layer is evaluated. *)
FetchInv ==
    /\ fetch.active => pc \in {"attend", "failed"} /\ fetch.layer = layer
    /\ \A i \in Temp : read[i] = "reading" => fetch.active /\ i <= Len(fetch.experts)

(* What a read brought is in its temporary slot until it is adopted. *)
ReadInv ==
    fetch.active =>
        \A i \in Fetched : read[i] = "done" => content[temp[i]] = <<fetch.layer, fetch.experts[i]>>

CacheInv == Apart(buffer, temp) /\ TagsHold(tag, buffer, content) /\ TagsDistinct(tag)

IInv ==
    /\ FlowType /\ CacheType
    /\ ChunksInv /\ WeightsInv /\ LoaderInv /\ FetchInv /\ ReadInv
    /\ CacheInv /\ OwnWeights

(* The constants. *)
LEMMA Sizes ==
    /\ MaxTopk \in Nat /\ Topk \in Nat /\ Topk <= MaxTopk
    /\ NLayers \in Nat \ {0} /\ Layer = 0..(NLayers - 1)
    /\ 0 \in Layer /\ NoLayer \notin Layer /\ MaxChunks \in Nat \ {0}
    /\ NoKey \notin Key
  BY SizesAssumption, MaxTopkAssumption, NoLayerAssumption, ChunksAssumption, MemoryAssumption
     DEF Layer

(* The cache opens empty, its buffers apart. *)
LEMMA InitIInv == Init => IInv
<1> SUFFICES ASSUME Init  PROVE IInv
  OBVIOUS
<1>1. FlowType
  BY Sizes DEF Init, FlowType, NoFetch, NoLoader, NoResult, ReadState, PC
<1>2. Policy0 \in PolicyType /\ Ranked(Policy0)
  <2> DEFINE g == [s \in Slot |-> 0]
             a == [s \in Slot |-> s]
             p == [l \in Layer |-> 0]
  <2>1. a \in [Slot -> Nat] /\ IsInjective(a) /\ g \in [Slot -> 0..2] /\ p \in [Layer -> Int]
    BY SizesAssumption DEF Slot, IsInjective
  <2>2. Policy0 = [seg |-> g, age |-> a, prot |-> p]
    BY DEF Policy0
  <2> HIDE DEF g, a, p
  <2> QED  BY <2>1, <2>2 DEF Ranked, PolicyType
<1>3. PICK place \in [Slot \cup {NSlots + i : i \in Temp} -> Memory] :
          /\ IsInjective(place)
          /\ buffer = [s \in Slot |-> place[s]]
          /\ temp = [i \in Temp |-> place[NSlots + i]]
  BY DEF Init
<1>4. /\ \A s \in Slot : buffer[s] = place[s] /\ s \in DOMAIN place
      /\ \A i \in Temp : temp[i] = place[NSlots + i] /\ NSlots + i \in DOMAIN place
      /\ buffer \in [Slot -> Memory] /\ temp \in [Temp -> Memory]
      /\ DOMAIN buffer = Slot /\ DOMAIN temp = Temp
  BY <1>3
<1>5. CacheType
  BY <1>2, <1>4 DEF Init, CacheType
<1>6. Apart(buffer, temp)
  <2>1. \A s \in Slot, i \in Temp : s # NSlots + i
    BY SizesAssumption DEF Slot, Temp
  <2>2. \A i, j \in Temp : NSlots + i = NSlots + j => i = j
    BY SizesAssumption DEF Temp
  <2>3. \A x, y \in DOMAIN place : place[x] = place[y] => x = y
    BY <1>3 DEF IsInjective
  <2>4. /\ \A s, u \in Slot : buffer[s] = buffer[u] => s = u
        /\ \A i, j \in Temp : temp[i] = temp[j] => i = j
        /\ \A s \in Slot, i \in Temp : buffer[s] # temp[i]
    BY <1>4, <2>1, <2>2, <2>3
  <2>5. IsInjective(buffer) /\ IsInjective(temp)
    BY <1>4, <2>4 DEF IsInjective
  <2>6. Range(buffer) \cap Range(temp) = {}
    BY <1>4, <2>4 DEF Range
  <2> QED  BY <2>5, <2>6 DEF Apart
<1>7. TagsHold(tag, buffer, content) /\ TagsDistinct(tag)
  <2>1. \A s \in Slot : tag[s] = NoKey
    BY DEF Init
  <2>2. \A l \in Layer, e \in Expert : <<l, e>> # NoKey
    BY Sizes DEF Key
  <2> QED  BY <2>1, <2>2, OwnedSlots DEF TagsHold, TagsDistinct
<1> QED  BY <1>1, <1>5, <1>6, <1>7
         DEF Init, IInv, ChunksInv, WeightsInv, LoaderInv, FetchInv, ReadInv, CacheInv, OwnWeights,
             NoFetch, NoLoader

(* A step that changes neither the cache nor what was read into it. *)
LEMMA CacheStays ==
    ASSUME CacheType, CacheInv, UNCHANGED cacheVars
    PROVE  CacheType' /\ CacheInv'
  BY DEF CacheType, CacheInv, cacheVars, TagsHold, TagsDistinct, Apart

(* A step that leaves the prefetch and the buffers alone. *)
LEMMA ReadsStay ==
    ASSUME ReadInv, UNCHANGED <<content, temp, fetch, read>>
    PROVE  ReadInv'
  BY DEF ReadInv, Fetched

(* Loading a layer never drops a decoded wo_a. *)
LEMMA DecodedGrows ==
    ASSUME NEW l \in Layer, decoded \subseteq Layer
    PROVE  decoded \subseteq DecodedWith(l) /\ DecodedWith(l) \subseteq Layer
  BY DEF DecodedWith

(* The steps of the walk that leave the cache and the prefetch alone. *)
Quiet ==
    \/ BeginToken \/ BeginPrompt \/ LoadLayer \/ StartLoader \/ SkipLoader
    \/ NextChunk \/ Release \/ JoinLoader \/ LoaderEnds \/ FetchShort \/ EvaluateShort
    \/ FinishNothing

(* They keep the invariant. *)
LEMMA QuietStep == IInv /\ Quiet => IInv'
<1> SUFFICES ASSUME IInv, Quiet  PROVE IInv'
  OBVIOUS
<1> USE Sizes
<1>1. UNCHANGED cacheVars /\ UNCHANGED <<fetch, read>>
  BY DEF Quiet, BeginToken, BeginPrompt, LoadLayer, StartLoader, SkipLoader, NextChunk, Release,
         JoinLoader, LoaderEnds, FetchShort, EvaluateShort, FinishNothing
<1>2. CacheType' /\ CacheInv' /\ ReadInv'
  BY <1>1, CacheStays, ReadsStay DEF IInv, cacheVars
<1>3. /\ FlowType /\ ChunksInv /\ WeightsInv /\ LoaderInv /\ FetchInv /\ OwnWeights
  BY DEF IInv
<1>4. CASE BeginToken
  <2>1. FlowType' /\ ChunksInv' /\ WeightsInv' /\ LoaderInv' /\ FetchInv' /\ OwnWeights'
    BY <1>1, <1>3, <1>4 DEF BeginToken, FlowType, ChunksInv, WeightsInv, LoaderInv, FetchInv,
           OwnWeights, PC, layerVars
  <2> QED  BY <1>2, <2>1 DEF IInv
<1>5. CASE BeginPrompt
  <2>1. FlowType' /\ ChunksInv' /\ WeightsInv' /\ LoaderInv' /\ FetchInv' /\ OwnWeights'
    BY <1>1, <1>3, <1>5 DEF BeginPrompt, FlowType, ChunksInv, WeightsInv, LoaderInv, FetchInv,
           OwnWeights, PC, layerVars
  <2> QED  BY <1>2, <2>1 DEF IInv
<1>6. CASE LoadLayer
  <2>1. FlowType' /\ ChunksInv' /\ WeightsInv' /\ LoaderInv' /\ FetchInv' /\ OwnWeights'
    BY <1>1, <1>3, <1>6, DecodedGrows DEF LoadLayer, FlowType, ChunksInv, WeightsInv, LoaderInv,
           FetchInv, OwnWeights, PC, layerVars
  <2> QED  BY <1>2, <2>1 DEF IInv
<1>7. CASE StartLoader
  <2>1. FlowType' /\ ChunksInv' /\ WeightsInv' /\ LoaderInv' /\ FetchInv' /\ OwnWeights'
    BY <1>1, <1>3, <1>7 DEF StartLoader, FlowType, ChunksInv, WeightsInv, LoaderInv, FetchInv,
           OwnWeights, PC, MayOverlap
  <2> QED  BY <1>2, <2>1 DEF IInv
<1>8. CASE SkipLoader
  <2>1. FlowType' /\ ChunksInv' /\ WeightsInv' /\ LoaderInv' /\ FetchInv' /\ OwnWeights'
    BY <1>1, <1>3, <1>8 DEF SkipLoader, FlowType, ChunksInv, WeightsInv, LoaderInv, FetchInv,
           OwnWeights, PC, layerVars
  <2> QED  BY <1>2, <2>1 DEF IInv
<1>9. CASE NextChunk
  <2>1. FlowType' /\ ChunksInv' /\ WeightsInv' /\ LoaderInv' /\ FetchInv' /\ OwnWeights'
    BY <1>1, <1>3, <1>9 DEF NextChunk, FlowType, ChunksInv, WeightsInv, LoaderInv, FetchInv,
           OwnWeights, PC, layerVars, NoResult
  <2> QED  BY <1>2, <2>1 DEF IInv
<1>10. CASE Release
  <2>1. FlowType' /\ ChunksInv' /\ WeightsInv' /\ LoaderInv' /\ FetchInv' /\ OwnWeights'
    BY <1>1, <1>3, <1>10 DEF Release, FlowType, ChunksInv, WeightsInv, LoaderInv, FetchInv,
           OwnWeights, PC
  <2> QED  BY <1>2, <2>1 DEF IInv
<1>11. CASE JoinLoader
  <2>1. FlowType' /\ ChunksInv' /\ WeightsInv' /\ LoaderInv' /\ FetchInv' /\ OwnWeights'
    BY <1>1, <1>3, <1>11 DEF JoinLoader, FlowType, ChunksInv, WeightsInv, LoaderInv, FetchInv,
           OwnWeights, PC, NoLoader
  <2> QED  BY <1>2, <2>1 DEF IInv
<1>12. CASE LoaderEnds
  <2>1. FlowType' /\ ChunksInv' /\ WeightsInv' /\ LoaderInv' /\ FetchInv' /\ OwnWeights'
    BY <1>1, <1>3, <1>12, DecodedGrows DEF LoaderEnds, FlowType, ChunksInv, WeightsInv, LoaderInv,
           FetchInv, OwnWeights, PC
  <2> QED  BY <1>2, <2>1 DEF IInv
<1>13. CASE FetchShort
  <2>1. FlowType' /\ ChunksInv' /\ WeightsInv' /\ LoaderInv' /\ FetchInv' /\ OwnWeights'
    BY <1>1, <1>3, <1>13 DEF FetchShort, FlowType, ChunksInv, WeightsInv, LoaderInv, FetchInv,
           OwnWeights, PC, layerVars
  <2> QED  BY <1>2, <2>1 DEF IInv
<1>14. CASE EvaluateShort
  <2>1. FlowType' /\ ChunksInv' /\ WeightsInv' /\ LoaderInv' /\ FetchInv' /\ OwnWeights'
    BY <1>1, <1>3, <1>14 DEF EvaluateShort, FlowType, ChunksInv, WeightsInv, LoaderInv, FetchInv,
           OwnWeights, PC, layerVars
  <2> QED  BY <1>2, <2>1 DEF IInv
<1>15. CASE FinishNothing
  <2>1. PICK S \in SUBSET Routes[layer] : need' = S
    BY <1>15 DEF FinishNothing
  <2>2. need' \subseteq Expert
    BY <1>3, <2>1, RoutesAssumption DEF FlowType
  <2>3. FlowType' /\ ChunksInv' /\ WeightsInv' /\ LoaderInv' /\ FetchInv' /\ OwnWeights'
    BY <1>1, <1>3, <1>15, <2>2 DEF FinishNothing, FlowType, ChunksInv, WeightsInv, LoaderInv,
           FetchInv, OwnWeights, PC, layerVars
  <2> QED  BY <1>2, <2>3 DEF IInv
<1> QED  BY <1>4, <1>5, <1>6, <1>7, <1>8, <1>9, <1>10, <1>11, <1>12, <1>13, <1>14, <1>15 DEF Quiet

(* A layer without a prediction: a token's prefetch keeps its old record. *)
LEMMA PredictNothingStep == IInv /\ PredictNothing => IInv'
<1> SUFFICES ASSUME IInv, PredictNothing  PROVE IInv'
  OBVIOUS
<1>1. UNCHANGED cacheVars /\ pc = "predict" /\ pc' = "attend" /\ read' = read
  BY DEF PredictNothing
<1>2. CacheType' /\ CacheInv'
  BY <1>1, CacheStays DEF IInv
<1>3. FlowType /\ ChunksInv /\ WeightsInv /\ LoaderInv /\ FetchInv
  BY DEF IInv
<1>4. ~fetch.active /\ fetch' \in {fetch, NoFetch(layer)}
  BY <1>1, <1>3 DEF FetchInv, PredictNothing
<1>5. /\ fetch' \in [layer : Layer, experts : Seq(Expert), active : BOOLEAN]
      /\ Len(fetch'.experts) <= MaxTopk /\ ~fetch'.active
  <2>1. CASE fetch' = fetch
    <3>1. /\ fetch \in [layer : Layer, experts : Seq(Expert), active : BOOLEAN]
          /\ Len(fetch.experts) <= MaxTopk
      BY <1>3 DEF FlowType
    <3> QED  BY <1>4, <2>1, <3>1
  <2>2. CASE fetch' = NoFetch(layer)
    <3>1. fetch'.layer = layer /\ fetch'.experts = <<>> /\ fetch'.active = FALSE
      BY <2>2 DEF NoFetch
    <3>2. layer \in Layer /\ <<>> \in Seq(Expert) /\ Len(<<>>) = 0
      BY <1>3 DEF FlowType
    <3>3. fetch' \in [layer : Layer, experts : Seq(Expert), active : BOOLEAN]
      BY <2>2, <3>2 DEF NoFetch
    <3> QED  BY <3>1, <3>2, <3>3, Sizes
  <2> QED  BY <1>4, <2>1, <2>2
<1>6. FlowType' /\ ChunksInv' /\ WeightsInv' /\ LoaderInv'
  BY <1>1, <1>3, <1>5 DEF PredictNothing, FlowType, ChunksInv, WeightsInv, LoaderInv, PC, layerVars
<1>7. FetchInv' /\ ReadInv' /\ OwnWeights'
  BY <1>1, <1>3, <1>4, <1>5 DEF FetchInv, ReadInv, OwnWeights
<1> QED  BY <1>2, <1>6, <1>7 DEF IInv

(* A prefetch starts: its reads are all open. *)
LEMMA PredictStep == IInv /\ Predict => IInv'
<1> SUFFICES ASSUME IInv, Predict  PROVE IInv'
  OBVIOUS
<1>1. UNCHANGED cacheVars /\ pc = "predict" /\ pc' = "attend"
  BY DEF Predict
<1>2. CacheType' /\ CacheInv'
  BY <1>1, CacheStays DEF IInv
<1>3. FlowType /\ ChunksInv /\ WeightsInv /\ LoaderInv /\ FetchInv
  BY DEF IInv
<1>4. PICK S \in (SUBSET Missing) \ {{}} :
          /\ Fits(S)
          /\ \E order \in IF kind = "token" THEN {InOrder(S)} ELSE SetToSeqs(S) :
                /\ fetch' = [layer |-> layer, experts |-> order, active |-> TRUE]
                /\ read' = [i \in Temp |-> IF i <= Len(order) THEN "reading" ELSE "none"]
  BY DEF Predict
<1>5. S \in SUBSET Expert
  BY <1>3, RoutesAssumption DEF Missing, FlowType
<1>6. PICK order \in IF kind = "token" THEN {InOrder(S)} ELSE SetToSeqs(S) :
                /\ fetch' = [layer |-> layer, experts |-> order, active |-> TRUE]
                /\ read' = [i \in Temp |-> IF i <= Len(order) THEN "reading" ELSE "none"]
  BY <1>4
<1>7. order \in Seq(Expert) /\ Len(order) = Cardinality(S)
  BY <1>5, <1>6, OrderIs
<1>8. Len(order) <= MaxTopk
  <2>1. Cardinality(S) \in Nat
    BY <1>5, SubsetsFinite
  <2> QED  BY <1>4, <1>7, <2>1, Sizes DEF Fits
<1>9. /\ fetch' \in [layer : Layer, experts : Seq(Expert), active : BOOLEAN]
      /\ Len(fetch'.experts) <= MaxTopk /\ fetch'.layer = layer /\ fetch'.experts = order
  BY <1>3, <1>6, <1>7, <1>8 DEF FlowType
<1>10. /\ read' \in [Temp -> ReadState]
       /\ \A i \in Temp : /\ read'[i] = "reading" => i <= Len(order)
                          /\ read'[i] # "done"
  BY <1>6 DEF ReadState
<1>11. FlowType' /\ ChunksInv' /\ WeightsInv' /\ LoaderInv'
  BY <1>1, <1>3, <1>9, <1>10 DEF Predict, FlowType, ChunksInv, WeightsInv, LoaderInv, PC, layerVars
<1>12. FetchInv' /\ OwnWeights'
  <2>1. fetch'.active /\ layer' = layer
    BY <1>6 DEF Predict
  <2> QED  BY <1>1, <1>9, <1>10, <2>1 DEF FetchInv, OwnWeights
<1>13. ReadInv'
  <2>1. \A i \in 1..Len(order) : i \in Temp
    BY <1>7, <1>8, Sizes DEF Temp
  <2> QED  BY <1>9, <1>10, <2>1 DEF ReadInv, Fetched
<1> QED  BY <1>2, <1>11, <1>12, <1>13 DEF IInv

(* A read ends in its temporary slot, which no cache slot shares. *)
LEMMA ReadStep == ASSUME NEW i \in Temp  PROVE IInv /\ ReadEnds(i) => IInv'
<1> SUFFICES ASSUME IInv, ReadEnds(i)  PROVE IInv'
  OBVIOUS
<1>1. PICK outcome \in {"done", "short"} :
          /\ read' = [read EXCEPT ![i] = outcome]
          /\ content' = [content EXCEPT ![temp[i]] =
                            IF outcome = "done" THEN <<fetch.layer, fetch.experts[i]>> ELSE NoKey]
  BY DEF ReadEnds
<1>2. /\ read[i] = "reading" /\ pc # "failed"
      /\ UNCHANGED <<tag, policy, buffer, temp, fetch, pc, kind, layer, chunks, layerVars, need,
                     result>>
  BY DEF ReadEnds
<1>3. FlowType /\ CacheType /\ FetchInv /\ ReadInv /\ CacheInv
  BY DEF IInv
<1>4. fetch.active /\ i <= Len(fetch.experts) /\ pc = "attend" /\ i \in Fetched
  BY <1>2, <1>3 DEF FetchInv, Temp, Fetched
<1> DEFINE key == IF outcome = "done" THEN <<fetch.layer, fetch.experts[i]>> ELSE NoKey
<1>5. key \in Key \cup {NoKey}
  BY <1>3, <1>4 DEF FlowType, Fetched, Key
<1> HIDE DEF key
<1>6. content' = [content EXCEPT ![temp[i]] = key] /\ temp[i] \in Memory
  BY <1>1, <1>3 DEF CacheType, key
<1>7. CacheType'
  BY <1>2, <1>3, <1>5, <1>6 DEF CacheType
<1>8. /\ \A s \in Slot : buffer[s] # temp[i] /\ buffer[s] \in Memory
      /\ \A j \in Temp : j # i => temp[j] # temp[i]
      /\ \A j \in Temp : temp[j] \in Memory
  BY <1>3 DEF CacheInv, Apart, IsInjective, Range, CacheType
<1>9. CacheInv'
  <2>1. \A s \in Slot : content'[buffer[s]] = content[buffer[s]]
    BY <1>3, <1>6, <1>8 DEF CacheType
  <2>2. TagsHold(tag, buffer, content')
    BY <1>3, <2>1 DEF CacheInv, TagsHold
  <2>3. Apart(buffer, temp) /\ TagsDistinct(tag)
    BY <1>3 DEF CacheInv
  <2>4. tag' = tag /\ buffer' = buffer /\ temp' = temp
    BY <1>2
  <2>5. Apart(buffer', temp') /\ TagsHold(tag', buffer', content') /\ TagsDistinct(tag')
    BY <2>2, <2>3, <2>4
  <2> QED  BY <2>5 DEF CacheInv, Apart, TagsHold, TagsDistinct
<1>10. /\ read' \in [Temp -> ReadState]
       /\ \A j \in Temp : read'[j] = IF j = i THEN outcome ELSE read[j]
  BY <1>1, <1>3 DEF FlowType, ReadState
<1>11. ReadInv'
  <2> SUFFICES ASSUME NEW j \in Fetched, read'[j] = "done"
               PROVE  content'[temp[j]] = <<fetch.layer, fetch.experts[j]>>
    BY <1>2 DEF ReadInv, Fetched
  <2>1. j \in Temp
    BY <1>3, Sizes DEF FlowType, Fetched, Temp
  <2>2. CASE j = i
    BY <1>3, <1>6, <1>10, <2>1, <2>2 DEF key, CacheType
  <2>3. CASE j # i
    <3>1. content'[temp[j]] = content[temp[j]]
      BY <1>3, <1>6, <1>8, <2>1, <2>3 DEF CacheType
    <3>2. read[j] = "done"
      BY <1>10, <2>1, <2>3
    <3> QED  BY <1>3, <1>4, <3>1, <3>2 DEF ReadInv
  <2> QED  BY <2>2, <2>3
<1>12. FetchInv'
  BY <1>2, <1>3, <1>4, <1>10 DEF FetchInv
<1>13. FlowType'
  BY <1>2, <1>3, <1>10 DEF FlowType, layerVars
<1>14. ChunksInv' /\ WeightsInv' /\ LoaderInv' /\ OwnWeights'
  BY <1>2 DEF IInv, ChunksInv, WeightsInv, LoaderInv, OwnWeights, layerVars
<1> QED  BY <1>7, <1>9, <1>11, <1>12, <1>13, <1>14 DEF IInv

(* What the adoption is given and what it returns. *)
LEMMA AdoptionOf ==
    ASSUME IInv, pc = "attend", fetch.active, NEW S, Waited(S)
    PROVE  /\ AdoptionKept(AdoptNeeded(S), Len(fetch.experts), S)
           /\ Room(S) => AdoptionPlaces(AdoptNeeded(S), Len(fetch.experts), S)
<1>1. FlowType /\ CacheType /\ FetchInv /\ ReadInv /\ CacheInv
  BY DEF IInv
<1>2. Loaded
  BY <1>1 DEF Waited, ReadInv, FetchInv, Loaded
<1>3. layer \in Layer /\ fetch.experts \in Seq(Expert) /\ Len(fetch.experts) <= MaxTopk
  BY <1>1 DEF FlowType
<1> QED  BY <1>1, <1>2, <1>3, AdoptionKeeps DEF CacheType, CacheInv

(* The adoption, and the temporary slots whose content is given up. *)
LEMMA FinishStep == IInv /\ FinishFetch => IInv'
<1> SUFFICES ASSUME IInv, FinishFetch  PROVE IInv'
  OBVIOUS
<1>1. PICK S \in SUBSET Routes[layer] :
          /\ Needs(S) /\ Waited(S) /\ need' = S
          /\ tag' = AdoptNeeded(S).tag /\ policy' = AdoptNeeded(S).policy
          /\ buffer' = AdoptNeeded(S).buffer /\ temp' = AdoptNeeded(S).temp
          /\ content' = [b \in Memory |->
                            IF /\ b \in Range(AdoptNeeded(S).temp)
                               /\ b \notin Range(AdoptNeeded(S).buffer)
                            THEN NoKey ELSE content[b]]
  BY DEF FinishFetch
<1>2. /\ pc = "attend" /\ pc' = "evaluate" /\ fetch.active
      /\ fetch' = [fetch EXCEPT !.active = FALSE]
      /\ read' = [i \in Temp |-> IF read[i] = "reading" THEN "reading" ELSE "none"]
      /\ UNCHANGED <<kind, layer, chunks, layerVars, result>>
  BY DEF FinishFetch
<1>3. FlowType /\ CacheType /\ FetchInv /\ ReadInv /\ CacheInv
  BY DEF IInv
<1> DEFINE st == AdoptNeeded(S)
<1>4. AdoptionKept(st, Len(fetch.experts), S)
  BY <1>1, <1>2, AdoptionOf
<1> HIDE DEF st
<1>5. /\ tag' = st.tag /\ policy' = st.policy /\ buffer' = st.buffer /\ temp' = st.temp
      /\ content' = [b \in Memory |-> IF b \in Range(st.temp) /\ b \notin Range(st.buffer)
                                      THEN NoKey ELSE content[b]]
  BY <1>1 DEF st
<1>6. /\ tag' \in [Slot -> Key \cup {NoKey}] /\ Ranked(policy')
      /\ buffer' \in [Slot -> Memory] /\ temp' \in [Temp -> Memory]
      /\ Apart(buffer', temp') /\ TagsHold(tag', buffer', content) /\ TagsDistinct(tag')
  BY <1>4, <1>5 DEF AdoptionKept, AdoptStates
<1>7. \A s \in Slot : content'[buffer'[s]] = content[buffer'[s]]
  <2>1. ASSUME NEW s \in Slot  PROVE buffer'[s] \in Memory /\ buffer'[s] \in Range(st.buffer)
    BY <1>5, <1>6 DEF Range
  <2> QED  BY <1>5, <2>1
<1>8. content' \in [Memory -> Key \cup {NoKey}]
  BY <1>3, <1>5 DEF CacheType
<1>9. CacheType'
  BY <1>6, <1>8 DEF CacheType, Ranked
<1>10. CacheInv'
  <2>1. TagsHold(tag', buffer', content')
    BY <1>6, <1>7 DEF TagsHold
  <2> QED  BY <1>6, <2>1 DEF CacheInv, Apart, TagsHold, TagsDistinct
<1>11. /\ read' \in [Temp -> ReadState] /\ \A i \in Temp : read'[i] # "reading"
  <2>1. ASSUME NEW i \in Temp, read[i] = "reading"  PROVE FALSE
    <3>1. i \in Fetched
      BY <1>3, <2>1 DEF FetchInv, Fetched, Temp
    <3> QED  BY <1>1, <2>1, <3>1 DEF Waited
  <2> QED  BY <1>2, <2>1 DEF ReadState
<1>12. /\ fetch' \in [layer : Layer, experts : Seq(Expert), active : BOOLEAN]
       /\ fetch'.experts = fetch.experts /\ ~fetch'.active
  BY <1>2, <1>3 DEF FlowType
<1>13. need' \subseteq Expert
  BY <1>1, <1>3, RoutesAssumption DEF FlowType
<1>14. FlowType'
  BY <1>2, <1>3, <1>11, <1>12, <1>13 DEF FlowType, PC, layerVars
<1>15. FetchInv' /\ ReadInv' /\ OwnWeights'
  BY <1>2, <1>11, <1>12 DEF FetchInv, ReadInv, OwnWeights
<1>16. ChunksInv' /\ WeightsInv' /\ LoaderInv'
  BY <1>2 DEF IInv, ChunksInv, WeightsInv, LoaderInv, layerVars
<1> QED  BY <1>9, <1>10, <1>14, <1>15, <1>16 DEF IInv

(* The evaluation: the misses go into slots that hold nothing needed. *)
LEMMA EvaluateStep == IInv /\ Evaluate => IInv'
<1> SUFFICES ASSUME IInv, Evaluate  PROVE IInv'
  OBVIOUS
<1> DEFINE hits == {e \in need : Resident(e)}
           misses == need \ hits
           free == Owned \ Pinned(need)
           T(victim) == [s \in Slot |-> IF \E e \in misses : victim[e] = s
                                        THEN <<layer, CHOOSE e \in misses : victim[e] = s>> ELSE tag[s]]
           C(victim) == [b \in Memory |-> IF \E e \in misses : buffer[victim[e]] = b
                                          THEN <<layer, CHOOSE e \in misses : buffer[victim[e]] = b>>
                                          ELSE content[b]]
<1>1. PICK victim \in [misses -> free] :
          /\ IsInjective(victim)
          /\ \E reused \in IF kind = "token" THEN {{}} ELSE SUBSET need :
                /\ tag' = T(victim) /\ content' = C(victim)
                /\ policy' = TouchAll(TouchAll(PublishAll(policy, SlotsOf(T(victim), misses)),
                                               SlotsOf(T(victim), hits)), SlotsOf(T(victim), reused))
                /\ result' = [e \in Expert |->
                                 IF e \in need
                                 THEN C(victim)[buffer[CHOOSE s \in Owned : T(victim)[s] = <<layer, e>>]]
                                 ELSE NoKey]
  BY Zenon DEF Evaluate
<1> DEFINE t == T(victim)
           c == C(victim)
<1>2. PICK reused \in IF kind = "token" THEN {{}} ELSE SUBSET need :
                /\ tag' = t /\ content' = c
                /\ policy' = TouchAll(TouchAll(PublishAll(policy, SlotsOf(t, misses)),
                                               SlotsOf(t, hits)), SlotsOf(t, reused))
                /\ result' = [e \in Expert |->
                                 IF e \in need
                                 THEN c[buffer[CHOOSE s \in Owned : t[s] = <<layer, e>>]]
                                 ELSE NoKey]
  BY <1>1
<1>3. /\ pc = "evaluate" /\ pc' = "chunk"
      /\ UNCHANGED <<buffer, temp, fetch, read, kind, layer, chunks, layerVars, need>>
  BY DEF Evaluate
<1>4. FlowType /\ CacheType /\ FetchInv /\ ReadInv /\ CacheInv
  BY DEF IInv
<1>5. /\ tag \in [Slot -> Key \cup {NoKey}] /\ Ranked(policy)
      /\ buffer \in [Slot -> Memory] /\ content \in [Memory -> Key \cup {NoKey}]
      /\ layer \in Layer /\ need \subseteq Expert
      /\ \A s, u \in Slot : buffer[s] = buffer[u] => s = u
      /\ \A s \in Slot : tag[s] # NoKey => content[buffer[s]] = tag[s]
      /\ \A s \in Slot : buffer[s] \in Memory
      /\ TagsDistinct(tag)
  BY <1>4 DEF CacheType, CacheInv, Apart, IsInjective, TagsHold, FlowType
<1>6. /\ free \subseteq Owned /\ Owned \subseteq Slot
      /\ \A e \in misses : victim[e] \in free /\ victim[e] \in Slot /\ e \in Expert
      /\ \A e, f \in misses : victim[e] = victim[f] => e = f
  BY <1>1, <1>5, OwnedSlots DEF IsInjective
<1>7. \A e \in misses, s \in Owned : tag[s] # <<layer, e>>
  BY DEF Resident
<1>8. \A s \in Owned, e \in need : tag[s] = <<layer, e>> => s \notin free
  BY DEF Pinned, Wanted
<1>m. hits \subseteq need /\ misses \subseteq need /\ need = hits \cup misses
  OBVIOUS
<1>h. \A e \in hits : \E s \in Owned : tag[s] = <<layer, e>>
  BY DEF Resident
<1> DEFINE Was(s) == \E e \in misses : victim[e] = s
<1>9. /\ \A e \in misses : t[victim[e]] = <<layer, e>>
      /\ \A s \in Slot : ~Was(s) => t[s] = tag[s]
      /\ \A s \in Slot : Was(s) => \E e \in misses : victim[e] = s
  <2>1. ASSUME NEW e \in misses  PROVE t[victim[e]] = <<layer, e>>
    <3>1. (CHOOSE f \in misses : victim[f] = victim[e]) = e
      <4> DEFINE x == CHOOSE f \in misses : victim[f] = victim[e]
      <4>1. x \in misses /\ victim[x] = victim[e]
        <5>1. \E f \in misses : victim[f] = victim[e]
          OBVIOUS
        <5> HIDE DEF misses
        <5> QED  BY <5>1, Zenon
      <4> HIDE DEF x, misses
      <4>2. x = e
        BY <1>6, <4>1
      <4> QED  BY <4>2 DEF x
    <3>2. victim[e] \in Slot
      BY <1>6
    <3>3. t[victim[e]] = <<layer, CHOOSE f \in misses : victim[f] = victim[e]>>
      <4> HIDE DEF misses
      <4> QED  BY <3>2
    <3> HIDE DEF t
    <3> QED  BY <3>1, <3>3
  <2>2. ASSUME NEW s \in Slot, ~Was(s)  PROVE t[s] = tag[s]
    BY <2>2
  <2> HIDE DEF t, misses
  <2> QED  BY <2>1, <2>2
<1> DEFINE Filled(b) == \E e \in misses : buffer[victim[e]] = b
<1>10. /\ \A e \in misses : c[buffer[victim[e]]] = <<layer, e>>
       /\ \A b \in Memory : ~Filled(b) => c[b] = content[b]
  <2>1. ASSUME NEW e \in misses  PROVE c[buffer[victim[e]]] = <<layer, e>>
    <3>1. (CHOOSE f \in misses : buffer[victim[f]] = buffer[victim[e]]) = e
      <4> DEFINE x == CHOOSE f \in misses : buffer[victim[f]] = buffer[victim[e]]
      <4>1. x \in misses /\ buffer[victim[x]] = buffer[victim[e]]
        <5>1. \E f \in misses : buffer[victim[f]] = buffer[victim[e]]
          OBVIOUS
        <5> HIDE DEF misses
        <5> QED  BY <5>1, Zenon
      <4> HIDE DEF x, misses
      <4>2. victim[x] = victim[e]
        BY <1>5, <1>6, <4>1
      <4>3. x = e
        BY <1>6, <4>1, <4>2
      <4> QED  BY <4>3 DEF x
    <3>2. buffer[victim[e]] \in Memory
      BY <1>5, <1>6
    <3>3. c[buffer[victim[e]]]
          = <<layer, CHOOSE f \in misses : buffer[victim[f]] = buffer[victim[e]]>>
      <4> HIDE DEF misses
      <4> QED  BY <3>2
    <3> HIDE DEF c
    <3> QED  BY <3>1, <3>3
  <2>2. ASSUME NEW b \in Memory, ~Filled(b)  PROVE c[b] = content[b]
    BY <2>2
  <2> HIDE DEF c, misses
  <2> QED  BY <2>1, <2>2
<1>d. /\ DOMAIN t = Slot /\ DOMAIN c = Memory
      /\ t = [s \in Slot |-> t[s]] /\ c = [b \in Memory |-> c[b]]
  OBVIOUS
<1> HIDE DEF t, c, hits, misses, free
<1>11. t \in [Slot -> Key \cup {NoKey}]
  <2>1. ASSUME NEW s \in Slot  PROVE t[s] \in Key \cup {NoKey}
    <3>1. CASE Was(s)
      <4>1. PICK e \in misses : victim[e] = s
        BY <3>1
      <4>2. t[s] = <<layer, e>> /\ e \in Expert
        BY <1>6, <1>9, <4>1
      <4> QED  BY <1>5, <4>2 DEF Key
    <3>2. CASE ~Was(s)
      BY <1>5, <1>9, <3>2
    <3> QED  BY <3>1, <3>2
  <2> QED  BY <1>d, <2>1
<1>12. c \in [Memory -> Key \cup {NoKey}]
  <2>1. ASSUME NEW b \in Memory  PROVE c[b] \in Key \cup {NoKey}
    <3>1. CASE Filled(b)
      <4>1. PICK e \in misses : buffer[victim[e]] = b
        BY <3>1
      <4>2. c[b] = <<layer, e>> /\ e \in Expert
        BY <1>6, <1>10, <4>1
      <4> QED  BY <1>5, <4>2 DEF Key
    <3>2. CASE ~Filled(b)
      BY <1>5, <1>10, <3>2
    <3> QED  BY <3>1, <3>2
  <2> QED  BY <1>d, <2>1
(* Every slot still holds what its tag names. *)
<1>13. \A s \in Slot : t[s] # NoKey => c[buffer[s]] = t[s]
  <2> SUFFICES ASSUME NEW s \in Slot, t[s] # NoKey  PROVE c[buffer[s]] = t[s]
    OBVIOUS
  <2>1. CASE Was(s)
    <3>1. PICK e \in misses : victim[e] = s
      BY <2>1
    <3> QED  BY <1>9, <1>10, <3>1
  <2>2. CASE ~Was(s)
    <3>1. ~Filled(buffer[s])
      BY <1>5, <1>6, <2>2
    <3>2. c[buffer[s]] = content[buffer[s]] /\ t[s] = tag[s]
      BY <1>5, <1>9, <1>10, <2>2, <3>1
    <3> QED  BY <1>5, <3>2
  <2> QED  BY <2>1, <2>2
(* Every expert needed has a slot. *)
<1>14. \A e \in need : \E s \in Owned : t[s] = <<layer, e>>
  <2> SUFFICES ASSUME NEW e \in need  PROVE \E s \in Owned : t[s] = <<layer, e>>
    OBVIOUS
  <2>1. CASE e \in misses
    BY <1>6, <1>9, <2>1
  <2>2. CASE e \in hits
    <3>1. PICK s \in Owned : tag[s] = <<layer, e>>
      BY <1>h, <2>2
    <3>2. s \notin free /\ s \in Slot
      BY <1>6, <1>8, <3>1
    <3>3. ~Was(s)
      BY <1>6, <3>2
    <3> QED  BY <1>9, <3>1, <3>2, <3>3
  <2> QED  BY <1>m, <2>1, <2>2
<1>15. TagsDistinct(t)
  <2> SUFFICES ASSUME NEW l \in Layer, NEW e \in Expert, NEW s \in RangeOf(l, Topk),
                      NEW u \in RangeOf(l, Topk), t[s] = <<l, e>>, t[u] = <<l, e>>, s # u
               PROVE  FALSE
    BY DEF TagsDistinct
  <2>1. s \in Slot /\ u \in Slot
    BY OwnedSlots
  <2>2. ASSUME NEW x \in RangeOf(l, Topk), NEW y \in RangeOf(l, Topk), x # y,
               t[x] = <<l, e>>, t[y] = <<l, e>>, Was(x)
        PROVE  FALSE
    <3>1. PICK f \in misses : victim[f] = x
      BY <2>2
    <3>2. f = e /\ l = layer
      BY <1>9, <2>2, <3>1
    <3>3. x \in Slot /\ y \in Slot /\ y \in Owned
      BY <3>2, OwnedSlots DEF Owned
    <3>4. CASE Was(y)
      <4>1. PICK g \in misses : victim[g] = y
        BY <3>4
      <4>2. g = e
        BY <1>9, <2>2, <4>1
      <4> QED  BY <2>2, <3>1, <3>2, <4>1, <4>2
    <3>5. CASE ~Was(y)
      <4>1. tag[y] = <<layer, f>>
        BY <1>9, <2>2, <3>2, <3>3, <3>5
      <4> QED  BY <1>7, <3>3, <4>1
    <3> QED  BY <3>4, <3>5
  <2>3. CASE ~Was(s) /\ ~Was(u)
    <3>1. tag[s] = <<l, e>> /\ tag[u] = <<l, e>>
      BY <1>9, <2>1, <2>3
    <3> QED  BY <1>5, <3>1 DEF TagsDistinct
  <2> QED  BY <2>2, <2>3
<1>16. Ranked(policy')
  <2>1. reused \subseteq need
    BY <1>2
  <2>2. /\ SlotsOf(t, misses) \in Seq(Slot) /\ SlotsOf(t, hits) \in Seq(Slot)
        /\ SlotsOf(t, reused) \in Seq(Slot)
    BY <1>5, <1>14, <1>m, <2>1, SlotsOfIs
  <2> DEFINE p == PublishAll(policy, SlotsOf(t, misses))
             q == TouchAll(p, SlotsOf(t, hits))
  <2>3. Ranked(p)
    BY <1>5, <2>2, PublishAllRanked
  <2> HIDE DEF p
  <2>4. Ranked(q)
    BY <1>5, <2>2, <2>3, TouchAllRanked
  <2> HIDE DEF q
  <2>5. Ranked(TouchAll(q, SlotsOf(t, reused)))
    BY <1>5, <2>2, <2>4, TouchAllRanked
  <2>6. policy' = TouchAll(q, SlotsOf(t, reused))
    BY <1>2 DEF p, q
  <2> QED  BY <2>5, <2>6
<1>17. ASSUME NEW e \in need  PROVE result'[e] = <<layer, e>>
  <2> DEFINE s == CHOOSE s \in Owned : t[s] = <<layer, e>>
  <2>1. s \in Owned /\ t[s] = <<layer, e>>
    <3>1. \E x \in Owned : t[x] = <<layer, e>>
      BY <1>14
    <3> QED  BY <3>1, Zenon
  <2>2. result'[e] = c[buffer[s]]
    BY <1>2, <1>5
  <2> HIDE DEF s
  <2>3. s \in Slot /\ t[s] # NoKey
    BY <1>5, <1>6, <2>1, Sizes DEF Key
  <2> QED  BY <1>13, <2>1, <2>2, <2>3
<1>18. result' \in [Expert -> Key \cup {NoKey}]
  <2>1. \A e \in Expert : e \notin need => result'[e] = NoKey
    BY <1>2
  <2>2. DOMAIN result' = Expert /\ result' = [e \in Expert |-> result'[e]]
    BY <1>2
  <2>3. \A e \in Expert : <<layer, e>> \in Key
    BY <1>5 DEF Key
  <2>4. \A e \in Expert : result'[e] \in Key \cup {NoKey}
    <3> SUFFICES ASSUME NEW e \in Expert  PROVE result'[e] \in Key \cup {NoKey}
      OBVIOUS
    <3>1. CASE e \in need
      BY <1>17, <2>3, <3>1
    <3>2. CASE e \notin need
      BY <2>1, <3>2
    <3> QED  BY <3>1, <3>2
  <2> QED  BY <2>2, <2>4
<1>19. OwnWeights'
  BY <1>3, <1>17 DEF OwnWeights
<1>20. CacheType'
  BY <1>2, <1>3, <1>4, <1>11, <1>12, <1>16 DEF CacheType, Ranked
<1>21. CacheInv'
  <2>1. TagsHold(t, buffer, c) /\ Apart(buffer, temp)
    BY <1>4, <1>13 DEF TagsHold, CacheInv
  <2>2. tag' = t /\ content' = c /\ buffer' = buffer /\ temp' = temp
    BY <1>2, <1>3
  <2> QED  BY <1>15, <2>1, <2>2 DEF CacheInv, Apart, TagsHold, TagsDistinct
<1>22. FlowType'
  BY <1>3, <1>4, <1>18 DEF FlowType, PC, layerVars
<1>23. FetchInv' /\ ReadInv'
  BY <1>3, <1>4 DEF FetchInv, ReadInv
<1>24. ChunksInv' /\ WeightsInv' /\ LoaderInv'
  BY <1>3 DEF IInv, ChunksInv, WeightsInv, LoaderInv, layerVars
<1> QED  BY <1>19, <1>20, <1>21, <1>22, <1>23, <1>24 DEF IInv

(* Every step keeps the invariant. *)
LEMMA NextKeeps == IInv /\ [Next]_vars => IInv'
<1> SUFFICES ASSUME IInv, [Next]_vars  PROVE IInv'
  OBVIOUS
<1>1. CASE Quiet
  BY <1>1, QuietStep
<1>2. CASE PredictNothing \/ Predict
  BY <1>2, PredictNothingStep, PredictStep
<1>3. CASE FinishFetch
  BY <1>3, FinishStep
<1>4. CASE Evaluate
  BY <1>4, EvaluateStep
<1>5. CASE \E i \in Temp : ReadEnds(i)
  BY <1>5, ReadStep
<1>6. CASE UNCHANGED vars
  <2>1. CacheType' /\ CacheInv' /\ ReadInv'
    BY <1>6, CacheStays, ReadsStay DEF IInv, vars, cacheVars
  <2> QED  BY <1>6, <2>1 DEF IInv, FlowType, ChunksInv, WeightsInv, LoaderInv, FetchInv, OwnWeights,
                vars, layerVars
<1>7. CASE Over
  BY <1>6, <1>7 DEF Over
<1> QED  BY <1>1, <1>2, <1>3, <1>4, <1>5, <1>6, <1>7 DEF Next, Walk, Quiet

-------------------------------------------------------------------------------
(* A layer's slots hold the experts it is about to need. *)

(* A share of a divided range is as large as the division allows. *)
LEMMA ShareSize ==
    ASSUME NEW first \in Nat, NEW n \in Nat, NEW k \in Nat \ {0}, NEW i \in 0..(k - 1),
           first + n <= NSlots, NEW q \in Nat, q * k <= n
    PROVE  Share(first, n, k, i) \in SUBSET Slot /\ Cardinality(Share(first, n, k, i)) >= q
<1> DEFINE part == Share(first, n, k, i)
<1>1. NSlots \in Nat
  BY SizesAssumption
<1>2. PICK h \in Nat : h >= q /\ \E a \in Nat : a..((a + h) - 1) \in SUBSET part
  BY <1>1, PartSize DEF Share, Slot
<1>3. part \in SUBSET Slot
  BY DEF Share
<1> HIDE DEF part
<1>4. IsFiniteSet(part)
  BY <1>3, SubsetsFinite
<1>5. Cardinality(part) \in Nat /\ Cardinality(part) >= h
  BY <1>2, <1>4, HoldsInterval
<1> QED  BY <1>2, <1>3, <1>5 DEF part

CacheHoldsToken == NSlots >= Topk

(* Every layer owns slots for the experts of one token. *)
LEMMA RangeHoldsToken ==
    ASSUME CacheHoldsToken, NEW l \in Layer
    PROVE  Cardinality(RangeOf(l, Topk)) >= Topk
<1> DEFINE R == RangeOf(l, Topk)
           hashed == NHash * Topk
           later == NLayers - NHash
<1>1. /\ NLayers \in Nat \ {0} /\ NHash \in 0..NLayers /\ Topk \in Nat
      /\ NSlots \in Nat /\ l \in 0..(NLayers - 1) /\ NSlots >= Topk
  BY SizesAssumption DEF Layer, CacheHoldsToken
<1>2. CASE ~PerLayer
  BY <1>1, <1>2, SubsetsFinite DEF RangeOf
<1>3. PerLayer => NLayers * Topk <= NSlots
  BY DEF PerLayer
<1>4. CASE PerLayer /\ ~HashMin
  <2>1. Topk * NLayers <= NSlots /\ 0 + NSlots <= NSlots /\ 0 \in Nat
    BY <1>1, <1>3, <1>4, SMT
  <2>2. R = Share(0, NSlots, NLayers, l)
    BY <1>4 DEF RangeOf
  <2> QED  BY <1>1, <2>1, <2>2, ShareSize
<1>5. /\ hashed \in Nat /\ later \in Nat /\ Topk * later \in Nat
      /\ hashed + Topk * later = NLayers * Topk
  BY <1>1, SMT
<1>6. CASE PerLayer /\ HashMin /\ l < NHash
  <2> DEFINE a == l * Topk
             e == (l + 1) * Topk
  <2>1. R = {s \in Slot : a <= s /\ s < e}
    BY <1>6 DEF RangeOf
  <2>2. a \in Nat /\ e = a + Topk /\ e <= hashed
    BY <1>1, <1>6, SMT
  <2> HIDE DEF a, e, R, hashed, later
  <2>3. a..((a + Topk) - 1) \in SUBSET R /\ R \in SUBSET Slot
    BY <1>1, <1>3, <1>5, <1>6, <2>1, <2>2 DEF Slot
  <2> QED  BY <1>1, <2>2, <2>3, SubsetsFinite, HoldsInterval DEF R
<1>7. CASE PerLayer /\ HashMin /\ ~(l < NHash)
  <2> DEFINE i == l - NHash
             n == NSlots - hashed
  <2>1. R = Share(hashed, n, later, i)
    BY <1>7 DEF RangeOf
  <2>2. later \in Nat \ {0} /\ i \in 0..(later - 1)
    BY <1>1, <1>7
  <2> HIDE DEF i, R, hashed, later
  <2>3. n \in Nat /\ hashed + n <= NSlots /\ Topk * later <= n
    BY <1>1, <1>3, <1>5, <1>7
  <2> HIDE DEF n
  <2>4. Cardinality(R) >= Topk
    BY <1>1, <1>5, <2>1, <2>2, <2>3, ShareSize
  <2> QED  BY <2>4 DEF R
<1> QED  BY <1>2, <1>4, <1>6, <1>7

(* So those it evaluates together have room. *)
LEMMA NeededFit ==
    ASSUME IInv, CacheHoldsToken, NEW S, Needs(S)
    PROVE  Room(S)
<1>1. layer \in Layer
  BY DEF IInv, FlowType
<1>2. S \in SUBSET Expert /\ IsFiniteSet(S) /\ IsFiniteSet(Owned)
      /\ Cardinality(S) \in Nat /\ Cardinality(Owned) \in Nat
  BY <1>1, RoutesAssumption, SubsetsFinite, OwnedSlots DEF Needs
<1>3. CASE kind = "token"
  BY <1>1, <1>2, <1>3, Sizes, RangeHoldsToken DEF Needs, Owned, Room
<1>4. CASE kind # "token"
  <2>1. Cardinality(S) \in Topk..Min({MaxTopk, Cardinality(Owned)})
    BY <1>4 DEF Needs
  <2>2. Min({MaxTopk, Cardinality(Owned)}) <= Cardinality(Owned)
        /\ Min({MaxTopk, Cardinality(Owned)}) \in Int
    BY <1>2, Sizes, MinOfTwo
  <2>3. Cardinality(S) <= Cardinality(Owned)
    BY <1>2, <2>1, <2>2, Sizes
  <2> QED  BY <1>2, <2>3 DEF Room
<1> QED  BY <1>3, <1>4

-------------------------------------------------------------------------------
(* Theorems *)

(* Every reachable state of the walk satisfies the inductive invariant.     *)
THEOREM ForwardInvariant == Spec => []IInv
<1>1. Init => IInv
  BY InitIInv
<1>2. IInv /\ [Next]_vars => IInv'
  BY NextKeeps
<1> QED  BY <1>1, <1>2, PTL DEF Spec

(* Slots and temporary slots never share a buffer, and a tagged slot holds  *)
(* the weights its tag names: through every adoption (4795-4853), whose     *)
(* exchange hands a buffer that was being read to a slot, and through every *)
(* eviction of the evaluation.                                              *)
THEOREM ForwardSlotsTrue == Spec => []SlotsTrue
<1>1. IInv => SlotsTrue
  <2> SUFFICES ASSUME IInv  PROVE SlotsTrue
    OBVIOUS
  <2>1. FlowType /\ CacheType /\ CacheInv
    BY DEF IInv
  <2>2. TypeOK
    BY <2>1 DEF FlowType, CacheType, TypeOK
  <2> QED  BY <2>1, <2>2 DEF SlotsTrue, CacheInv, Apart, TagsHold
<1> QED  BY <1>1, ForwardInvariant, PTL

(* Every expert of a layer is evaluated with its own weights, whatever was  *)
(* predicted and whatever the cache held.                                   *)
THEOREM ForwardOwnWeights == Spec => []OwnWeights
<1>1. IInv => OwnWeights
  BY DEF IInv
<1> QED  BY <1>1, ForwardInvariant, PTL

(* No prefetch reads on when its layer is evaluated: expert_temp_batch_finish *)
(* waits for every read it began, needed or not.                            *)
THEOREM ForwardReadsEnd == Spec => []ReadsEndInTheirLayer
<1>1. IInv => ReadsEndInTheirLayer
  BY DEF IInv, FetchInv, ReadsEndInTheirLayer
<1> QED  BY <1>1, ForwardInvariant, PTL

(* A layer is evaluated with its own weights; the thread loads the next one *)
(* only, and only if its wo_a is decoded already.                           *)
THEOREM ForwardLayerWeights == Spec => []LayerWeights
<1>1. IInv => LayerWeights
  BY DEF IInv, WeightsInv, LoaderInv, LayerWeights
<1> QED  BY <1>1, ForwardInvariant, PTL

(* What the adoption leaves in the layer's slots. *)
LEMMA FinishKeeps ==
    ASSUME IInv, CacheHoldsToken, FinishFetch,
           NEW e \in need', Resident(e) \/ e \in Range(fetch.experts)
    PROVE  Resident(e)'
<1>1. PICK S \in SUBSET Routes[layer] :
          Needs(S) /\ Waited(S) /\ need' = S /\ tag' = AdoptNeeded(S).tag
  BY DEF FinishFetch
<1>2. pc = "attend" /\ fetch.active /\ layer' = layer /\ e \in S
  BY <1>1 DEF FinishFetch
<1> DEFINE st == AdoptNeeded(S)
           n == Len(fetch.experts)
<1>3. AdoptionKept(st, n, S) /\ AdoptionPlaces(st, n, S)
  BY <1>1, <1>2, AdoptionOf, NeededFit
<1>4. tag' = st.tag /\ Owned' = Owned
  BY <1>1, <1>2 DEF Owned
<1> HIDE DEF st
<1>5. CASE Resident(e)
  <2>1. PICK s \in Owned : tag[s] = <<layer, e>>
    BY <1>5 DEF Resident
  <2>2. s \in Pinned(S) /\ s \in Slot
    BY <1>2, <2>1, OwnedSlots DEF Pinned, Wanted
  <2>3. st.tag[s] = tag[s]
    BY <1>3, <2>2 DEF AdoptionKept
  <2> QED  BY <1>2, <1>4, <2>1, <2>3 DEF Resident
<1>6. CASE e \in Range(fetch.experts)
  <2>1. fetch.experts \in Seq(Expert)
    BY DEF IInv, FlowType
  <2>2. PICK i \in Fetched : fetch.experts[i] = e
    BY <1>6, <2>1 DEF Range, Fetched
  <2>3. \E s \in Owned : st.tag[s] = <<layer, e>>
    BY <1>2, <1>3, <2>2 DEF AdoptionPlaces, Fetched
  <2> QED  BY <1>2, <1>4, <2>3 DEF Resident
<1> QED  BY <1>5, <1>6

(* An adoption evicts no expert the layer is about to evaluate and adopts   *)
(* every prefetched one it needs.  With fewer slots than a token has        *)
(* experts there is no room to adopt them all.                              *)
THEOREM ForwardNeededKept == CacheHoldsToken => (Spec => NeededKept)
<1> SUFFICES ASSUME CacheHoldsToken  PROVE Spec => NeededKept
  OBVIOUS
<1>1. IInv /\ [Next]_vars =>
         [FinishFetch => \A e \in need' :
              Resident(e) \/ e \in Range(fetch.experts) => Resident(e)']_vars
  BY FinishKeeps
<1> QED  BY <1>1, ForwardInvariant, PTL DEF Spec, NeededKept
===============================================================================
