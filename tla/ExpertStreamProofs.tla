-------------------------- MODULE ExpertStreamProofs ---------------------------
(***************************************************************************)
(* Proofs about the streaming of expert weights: for any number of layers, *)
(* experts and slots, whatever is read, evicted, resized and evaluated in  *)
(* whichever order, an expert is evaluated with its own weights, and the   *)
(* replacement policy counts its protected slots truly.                    *)
(***************************************************************************)
EXTENDS ExpertStream, CommonLemmas

(* What is assumed of the run: the cache holds the experts of a token, and, *)
(* where reads may come short, groups are halved and tokens have at least   *)
(* two experts. With a smaller cache OwnWeights is violated (the run        *)
(* stream_undersized); without the halving a batch may go through           *)
(* expert_get_many, which does not look at what its reads returned.         *)
CacheHoldsToken == NSlots >= Topk
ShortReadsSeen == ReadFaults => HalfGroups /\ Topk >= 2

-------------------------------------------------------------------------------
(* Finite sets. *)

LEMMA SubsetsFinite ==
    /\ IsFiniteSet(Slot) /\ Cardinality(Slot) = NSlots
    /\ IsFiniteSet(Expert)
    /\ \A S \in SUBSET Slot : IsFiniteSet(S) /\ Cardinality(S) \in Nat
    /\ \A S \in SUBSET Expert : IsFiniteSet(S) /\ Cardinality(S) \in Nat
<1>1. IsFiniteSet(Slot) /\ Cardinality(Slot) = NSlots
  <2> DEFINE b == NSlots - 1
  <2>1. b \in Int /\ 0 \in Int /\ ~(0 > b) /\ b - 0 + 1 = NSlots
    BY SizesAssumption
  <2> HIDE DEF b
  <2>2. IsFiniteSet(0..b) /\ Cardinality(0..b) = IF 0 > b THEN 0 ELSE b - 0 + 1
    BY <2>1, FS_Interval, Zenon
  <2> QED  BY <2>1, <2>2 DEF Slot, b
<1>2. IsFiniteSet(Expert)
  <2>1. NExperts \in Nat /\ NExperts \in Int /\ NExperts <= NExperts
    BY SizesAssumption
  <2>2. IsFiniteSet(0..(NExperts - 1))
    BY <2>1, UpToSize
  <2> QED  BY <2>2 DEF Expert
<1> QED  BY <1>1, <1>2, FS_Subset, FS_CardinalityType

(* At most n elements of a finite set of numbers have fewer than n smaller  *)
(* ones, and all of them when the set is no larger.                         *)
LEMMA FirstOfSize ==
    ASSUME NEW S \in SUBSET Expert, NEW n \in Nat
    PROVE  /\ FirstOf(S, n) \in SUBSET S /\ Cardinality(FirstOf(S, n)) <= n
           /\ Cardinality(S) <= n => FirstOf(S, n) = S
<1> DEFINE below(e) == {f \in S : f < e}
           T == FirstOf(S, n)
           rank == [e \in T |-> Cardinality(below(e))]
<1>1. \A e \in S : IsFiniteSet(below(e)) /\ Cardinality(below(e)) \in Nat
  BY SubsetsFinite
<1>2. T = {e \in S : Cardinality(below(e)) < n} /\ T \in SUBSET S
  BY DEF FirstOf
<1>3. \A e \in S, f \in S : e < f => Cardinality(below(e)) < Cardinality(below(f))
  <2> SUFFICES ASSUME NEW e \in S, NEW f \in S, e < f
               PROVE  Cardinality(below(e)) < Cardinality(below(f))
    OBVIOUS
  <2>1. e \in Nat /\ f \in Nat /\ \A x \in S : x \in Nat
    BY DEF Expert
  <2>2. below(e) \in SUBSET below(f) /\ e \in below(f) /\ e \notin below(e)
    <3>1. \A x \in S : x < e => x < f
      BY <2>1
    <3>2. ~(e < e)
      BY <2>1
    <3> QED  BY <3>1, <3>2
  <2>3. below(e) # below(f)
    BY <2>2
  <2> HIDE DEF below
  <2>4. Cardinality(below(e)) <= Cardinality(below(f))
        /\ Cardinality(below(e)) # Cardinality(below(f))
    BY <1>1, <2>2, <2>3, FS_Subset
  <2> QED  BY <1>1, <2>4
<1>4. Cardinality(T) <= n
  <2>1. rank \in [T -> 0..(n - 1)]
    <3> HIDE DEF below
    <3> QED  BY <1>1, <1>2
  <2>2. \A e \in T, f \in T : rank[e] = rank[f] => e = f
    <3> SUFFICES ASSUME NEW e \in T, NEW f \in T, rank[e] = rank[f], e # f  PROVE FALSE
      OBVIOUS
    <3> HIDE DEF below, T
    <3>1. e \in Nat /\ f \in Nat /\ e \in S /\ f \in S
      BY <1>2 DEF Expert
    <3>2. Cardinality(below(e)) = Cardinality(below(f))
      BY Zenon
    <3>3. Cardinality(below(e)) \in Nat
      BY <1>1, <3>1
    <3>4. e < f \/ f < e
      BY <3>1
    <3> QED  BY <1>3, <3>1, <3>2, <3>3, <3>4
  <2>3. rank \in Injection(T, 0..(n - 1))
    <3>1. DOMAIN rank = T
      OBVIOUS
    <3> HIDE DEF rank, T
    <3> QED  BY <2>1, <2>2, <3>1 DEF Injection, IsInjective
  <2>4. IsFiniteSet(0..(n - 1)) /\ Cardinality(0..(n - 1)) <= n
    BY UpToSize
  <2>5. Cardinality(0..(n - 1)) \in Nat
    BY <2>4, FS_CardinalityType
  <2>6. Cardinality(T) <= Cardinality(0..(n - 1)) /\ IsFiniteSet(T)
    <3> HIDE DEF rank, T
    <3> QED  BY <2>3, <2>4, FS_Injection
  <2>7. Cardinality(T) \in Nat
    BY <2>6, FS_CardinalityType
  <2> HIDE DEF T
  <2> QED  BY <2>4, <2>5, <2>6, <2>7
<1>5. ASSUME Cardinality(S) <= n  PROVE T = S
  <2>1. ASSUME NEW e \in S  PROVE Cardinality(below(e)) < n
    <3>1. below(e) \in SUBSET S /\ e \notin below(e) /\ below(e) # S
      BY DEF Expert
    <3>2. Cardinality(S) \in Nat /\ IsFiniteSet(S)
      BY SubsetsFinite
    <3> HIDE DEF below
    <3>3. Cardinality(below(e)) <= Cardinality(S) /\ Cardinality(below(e)) # Cardinality(S)
      BY <3>1, <3>2, FS_Subset
    <3> QED  BY <1>1, <1>5, <3>2, <3>3
  <2> QED  BY <1>2, <2>1
<1> QED  BY <1>2, <1>4, <1>5

-------------------------------------------------------------------------------
(* The slots of a layer are enough for a token. *)

LEMMA ShareSize ==
    ASSUME NEW first \in Nat, NEW n \in Nat, NEW k \in Nat \ {0}, NEW i \in 0..(k - 1),
           first + n <= NSlots, NEW q \in Nat, q * k <= n
    PROVE  Share(first, n, k, i) \in SUBSET Slot /\ Cardinality(Share(first, n, k, i)) >= q
<1> DEFINE part == Share(first, n, k, i)
<1>1. NSlots \in Nat
  BY SizesAssumption
<1>2. PICK h \in Nat : h >= q /\ \E a \in Nat : a..((a + h) - 1) \in SUBSET part
  BY <1>1, PartSize DEF Share, Slot
<1>3. part \in SUBSET Slot
  BY DEF Share
<1> HIDE DEF part
<1>4. IsFiniteSet(part)
  BY <1>3, SubsetsFinite
<1>5. Cardinality(part) \in Nat /\ Cardinality(part) >= h
  BY <1>2, <1>4, HoldsInterval
<1> QED  BY <1>2, <1>3, <1>5 DEF part

(* What cache_hash_slots may be, from opening the model on. *)
HashInv ==
    /\ hashSlots \in Nat /\ hashSlots >= Topk
    /\ HashMin => hashSlots <= MaxHashSlots

LEMMA LargestPartition ==
    HashMin => /\ MaxHashSlots \in Nat /\ MaxHashSlots >= Topk
               /\ \A h \in Nat : h <= MaxHashSlots =>
                     NHash * h \in Nat /\ NHash * h + (NLayers - NHash) * Topk <= NSlots
<1> SUFFICES ASSUME HashMin
             PROVE  /\ MaxHashSlots \in Nat /\ MaxHashSlots >= Topk
                    /\ \A h \in Nat : h <= MaxHashSlots =>
                          NHash * h \in Nat /\ NHash * h + (NLayers - NHash) * Topk <= NSlots
  OBVIOUS
<1> DEFINE left == NSlots - (NLayers - NHash) * Topk
<1>1. /\ NLayers \in Nat /\ NHash \in Nat \ {0} /\ NHash < NLayers
      /\ Topk \in Nat /\ NSlots \in Nat /\ NSlots >= NLayers * Topk
  BY SizesAssumption DEF HashMin, PerLayer
<1>2. (NLayers - NHash) * Topk \in Nat /\ left \in Nat /\ Topk * NHash <= left
  BY <1>1, SMT
<1>3. left + (NLayers - NHash) * Topk = NSlots
  BY <1>1, <1>2
<1>4. MaxHashSlots = left \div NHash
  BY DEF MaxHashSlots
<1> HIDE DEF left
<1>5. left \div NHash \in Nat /\ (left \div NHash) * NHash <= left
  BY <1>1, <1>2, Division
<1>6. Topk <= left \div NHash
  BY <1>1, <1>2, DivisionAtLeast
<1>7. ASSUME NEW h \in Nat, h <= MaxHashSlots
      PROVE  NHash * h \in Nat /\ NHash * h + (NLayers - NHash) * Topk <= NSlots
  <2>1. NHash * h \in Nat /\ NHash * h <= (left \div NHash) * NHash
    <3> DEFINE m == left \div NHash
    <3>1. m \in Nat /\ h <= m
      BY <1>4, <1>5, <1>7
    <3> HIDE DEF m
    <3>2. NHash * h \in Nat /\ NHash * h <= m * NHash
      BY <1>1, <3>1, SMT
    <3> QED  BY <3>2 DEF m
  <2> QED  BY <1>1, <1>2, <1>3, <1>5, <2>1
<1> QED  BY <1>1, <1>4, <1>5, <1>6, <1>7

LEMMA RangeHoldsToken ==
    ASSUME CacheHoldsToken, NEW l \in Layer, HashInv
    PROVE  /\ RangeOf(l, hashSlots) \in SUBSET Slot
           /\ Cardinality(RangeOf(l, hashSlots)) >= Topk
<1> DEFINE h == hashSlots
           R == RangeOf(l, h)
<1>1. /\ NLayers \in Nat \ {0} /\ NHash \in 0..NLayers /\ Topk \in Nat
      /\ NSlots \in Nat /\ l \in 0..(NLayers - 1) /\ h \in Nat /\ h >= Topk
      /\ NSlots >= Topk
  BY SizesAssumption DEF Layer, HashInv, CacheHoldsToken
<1>2. CASE ~PerLayer
  BY <1>1, <1>2, SubsetsFinite DEF RangeOf
<1>3. CASE PerLayer /\ ~HashMin
  <2>1. Topk * NLayers <= NSlots /\ 0 + NSlots <= NSlots /\ 0 \in Nat
    BY <1>1, <1>3, SMT DEF PerLayer
  <2>2. R = Share(0, NSlots, NLayers, l)
    BY <1>3 DEF RangeOf
  <2> QED  BY <1>1, <2>1, <2>2, ShareSize
<1>4. CASE PerLayer /\ HashMin /\ l < NHash
  <2>1. R = {s \in Slot : l * h <= s /\ s < (l + 1) * h}
    BY <1>4 DEF RangeOf
  <2>2. NHash * h <= NSlots /\ NHash * h \in Nat
    <3>1. h <= MaxHashSlots
      BY <1>4 DEF HashInv
    <3>2. NHash * h \in Nat /\ NHash * h + (NLayers - NHash) * Topk <= NSlots
      BY <1>1, <1>4, <3>1, LargestPartition
    <3>3. (NLayers - NHash) * Topk \in Nat
      BY <1>1, SMT
    <3> QED  BY <1>1, <3>2, <3>3
  <2> DEFINE a == l * h
             e == (l + 1) * h
  <2>3. a \in Nat /\ e = a + h /\ e <= NHash * h
    BY <1>1, <1>4, SMT
  <2> HIDE DEF a, e
  <2>4. a..(e - 1) \in SUBSET R /\ R \in SUBSET Slot
    BY <1>1, <2>1, <2>2, <2>3 DEF Slot, a, e
  <2>5. Cardinality(a..(e - 1)) = h
    <3> DEFINE b == e - 1
    <3>1. a \in Int /\ b \in Int /\ (a > b => h = 0) /\ b - a + 1 = h
      BY <1>1, <2>3
    <3> HIDE DEF b
    <3>2. Cardinality(a..b) = IF a > b THEN 0 ELSE b - a + 1
      BY <3>1, FS_Interval, Zenon
    <3> QED  BY <3>1, <3>2 DEF b
  <2>6. Cardinality(a..(e - 1)) <= Cardinality(R) /\ Cardinality(R) \in Nat
    <3> HIDE DEF R
    <3> QED  BY <2>4, SubsetsFinite, FS_Subset
  <2> QED  BY <1>1, <2>4, <2>5, <2>6
<1>5. CASE PerLayer /\ HashMin /\ ~(l < NHash)
  <2> DEFINE first == NHash * h
             k == NLayers - NHash
             i == l - NHash
  <2>1. R = Share(first, NSlots - first, k, i)
    BY <1>5 DEF RangeOf
  <2>2. first \in Nat /\ first + k * Topk <= NSlots
    BY <1>1, <1>5, LargestPartition DEF HashInv
  <2>3. k \in Nat \ {0} /\ i \in 0..(k - 1)
    BY <1>1, <1>5
  <2> HIDE DEF first, k, i
  <2>4. k * Topk \in Nat /\ k * Topk = Topk * k
    BY <1>1, <2>3, SMT
  <2>5. NSlots - first \in Nat /\ first + (NSlots - first) <= NSlots
        /\ Topk * k <= NSlots - first
    BY <1>1, <2>2, <2>4
  <2> DEFINE n == NSlots - first
  <2>6. R = Share(first, n, k, i) /\ n \in Nat /\ first + n <= NSlots /\ Topk * k <= n
    BY <2>1, <2>5
  <2> HIDE DEF n, R
  <2>7. R \in SUBSET Slot /\ Cardinality(R) >= Topk
    BY <1>1, <2>2, <2>3, <2>6, ShareSize
  <2> QED  BY <2>7 DEF R
<1> QED  BY <1>2, <1>3, <1>4, <1>5

-------------------------------------------------------------------------------
(* Slots found and slots left. *)

LEMMA FindIs ==
    ASSUME NEW e, Holds(e) # {}
    PROVE  Find(e) \in Holds(e) /\ Find(e) \in Slot /\ Find(e) \in Owned
           /\ tag[Find(e)] = <<layer, e>>
<1>1. Holds(e) \in SUBSET Slot /\ Holds(e) \in SUBSET Nat
  BY SizesAssumption DEF Holds, Owned, RangeOf, Share, Slot
<1>2. \E s \in Holds(e) : \A t \in Holds(e) : s <= t
  BY <1>1, LeastExists
<1>3. Find(e) \in Holds(e)
  BY <1>2 DEF Find
<1> QED  BY <1>1, <1>3 DEF Holds

LEMMA OwnedSlots == Owned \in SUBSET Slot
  BY DEF Owned, RangeOf, Share

(* A group no larger than what its layer owns beside the pinned slots finds *)
(* a slot for each of its misses.                                           *)
LEMMA EnoughFree ==
    ASSUME NEW S \in SUBSET Expert, NEW pins \in SUBSET Slot,
           Cardinality(S) + Cardinality(pins) <= Capacity
    PROVE  Cardinality(S \ Hits(S, pins)) <= Cardinality(Free(S, pins))
<1> DEFINE hits == Hits(S, pins)
           found == {Find(e) : e \in hits}
           f == [e \in hits |-> Find(e)]
<1>1. hits \in SUBSET S /\ \A e \in hits : Holds(e) # {}
  BY DEF Hits
<1>2. found \in SUBSET Slot
  BY <1>1, FindIs
<1>3. /\ IsFiniteSet(hits) /\ Cardinality(hits) \in Nat
      /\ IsFiniteSet(found) /\ Cardinality(found) \in Nat
      /\ IsFiniteSet(pins) /\ Cardinality(pins) \in Nat
      /\ IsFiniteSet(S) /\ Cardinality(S) \in Nat
      /\ IsFiniteSet(Owned) /\ Cardinality(Owned) \in Nat
  BY <1>1, <1>2, SubsetsFinite, OwnedSlots
<1>4. Cardinality(found) <= Cardinality(hits)
  <2>1. f \in Surjection(hits, found)
    <3>1. DOMAIN f = hits /\ f = [e \in hits |-> f[e]] /\ found = {f[e] : e \in hits}
      BY Zenon
    <3> HIDE DEF f, hits, found
    <3> QED  BY <3>1 DEF Surjection
  <2> HIDE DEF f, hits, found
  <2> QED  BY <1>3, <2>1, FS_Surjection
<1> HIDE DEF found
<1>5. Cardinality(S \ hits) = Cardinality(S) - Cardinality(hits)
  <2>1. S \cap hits = hits
    BY <1>1
  <2> HIDE DEF hits
  <2>2. Cardinality(S \ hits) = Cardinality(S) - Cardinality(S \cap hits)
    BY <1>3, FS_Difference
  <2> QED  BY <2>1, <2>2
<1> DEFINE taken == pins \cup found
<1>6. Cardinality(Owned \cap taken) <= Cardinality(pins) + Cardinality(found)
      /\ Cardinality(Owned \cap taken) \in Nat
  <2>1. /\ IsFiniteSet(taken)
        /\ Cardinality(taken) =
              Cardinality(pins) + Cardinality(found) - Cardinality(pins \cap found)
    BY <1>3, FS_Union
  <2>2. Cardinality(pins \cap found) \in Nat /\ Cardinality(taken) \in Nat
    <3>1. IsFiniteSet(pins \cap found)
      BY <1>3, FS_Intersection
    <3> HIDE DEF taken
    <3> QED  BY <2>1, <3>1, FS_CardinalityType
  <2> HIDE DEF taken
  <2>3. IsFiniteSet(Owned \cap taken) /\ Cardinality(Owned \cap taken) <= Cardinality(taken)
    BY <2>1, FS_Intersection
  <2>4. Cardinality(Owned \cap taken) \in Nat
    BY <2>3, FS_CardinalityType
  <2> QED  BY <1>3, <2>1, <2>2, <2>3, <2>4
<1>7. Cardinality(Owned \ taken) = Cardinality(Owned) - Cardinality(Owned \cap taken)
  <2> HIDE DEF taken
  <2> QED  BY <1>3, FS_Difference
<1>8. Free(S, pins) = Owned \ taken
  BY DEF Free, found
<1> HIDE DEF taken, hits
<1>9. Cardinality(S \ hits) <= Cardinality(Owned \ taken)
  BY <1>3, <1>4, <1>5, <1>6, <1>7 DEF Capacity
<1> QED  BY <1>8, <1>9 DEF hits

(* The sizes of the groups of a call. *)
LEMMA GroupSizes ==
    ASSUME Capacity \in Nat, want \in SUBSET Expert, kind \in {"token", "batch"}
    PROVE  /\ GroupCap \in Nat /\ GroupCap <= Capacity /\ GroupSize \in Nat
           /\ kind = "batch" => GroupSize = GroupCap
           /\ kind = "batch" /\ Pipelined =>
                 Cardinality(want) <= GroupSize \/ Capacity >= 2 * GroupSize
           /\ kind = "token" => Pipelined /\ GroupSize = Topk
           /\ HalfGroups /\ Capacity >= 2 => Pipelined
           /\ Capacity >= 1 /\ MaxTopk >= 1 => GroupCap >= 1
<1>1. /\ MaxTopk \in Nat /\ Topk \in Nat /\ Cardinality(want) \in Nat
      /\ FullGroup = (IF Capacity <= MaxTopk THEN Capacity ELSE MaxTopk)
  <2>1. MaxTopk \in Nat /\ Topk \in Nat
    BY StreamAssumption, SizesAssumption
  <2>2. Cardinality(want) \in Nat
    BY SubsetsFinite
  <2>3. Min({Capacity, MaxTopk}) = IF Capacity <= MaxTopk THEN Capacity ELSE MaxTopk
    BY <2>1, MinOfTwo
  <2> QED  BY <2>1, <2>2, <2>3 DEF FullGroup
<1> DEFINE half == Capacity \div 2
<1>2. half \in Nat /\ 2 * half <= Capacity
  BY SMT
<1> HIDE DEF half
<1>3. Min({half, MaxTopk}) = IF half <= MaxTopk THEN half ELSE MaxTopk
  BY <1>1, <1>2, MinOfTwo
<1>4. GroupCap = IF HalfGroups /\ Cardinality(want) > FullGroup /\ Capacity >= 2
                 THEN Min({half, MaxTopk}) ELSE FullGroup
  BY DEF GroupCap, half
<1>5. GroupCap \in Nat /\ GroupCap <= Capacity
  BY <1>1, <1>2, <1>3, <1>4
<1>6. HalfGroups /\ Capacity >= 2 =>
        Cardinality(want) <= GroupCap \/ Capacity >= 2 * GroupCap
  BY <1>1, <1>2, <1>3, <1>4
<1>7. Capacity >= 1 /\ MaxTopk >= 1 => GroupCap >= 1
  <2>1. Capacity >= 2 => half >= 1
    BY SMT DEF half
  <2> QED  BY <1>1, <1>2, <1>3, <1>4, <2>1
<1> QED  BY <1>1, <1>5, <1>6, <1>7 DEF GroupSize, Pipelined

(* A group of a set that is not empty is not empty. *)
LEMMA FirstOfSome ==
    ASSUME NEW S \in SUBSET Expert, S # {}, NEW n \in Nat \ {0}
    PROVE  FirstOf(S, n) # {}
<1>1. S \in SUBSET Nat
  BY DEF Expert
<1>2. PICK e \in S : \A f \in S : e <= f
  BY <1>1, LeastExists
<1>3. {f \in S : f < e} = {}
  <2> SUFFICES ASSUME NEW f \in S, f < e  PROVE FALSE
    OBVIOUS
  <2>1. e \in Nat /\ f \in Nat /\ e <= f
    BY <1>1, <1>2
  <2> QED  BY <2>1
<1>4. Cardinality({f \in S : f < e}) < n
  BY <1>3, FS_EmptySet
<1> QED  BY <1>2, <1>4 DEF FirstOf

-------------------------------------------------------------------------------
(* The inductive invariant. *)

(* Types, but for the policy. *)
StateType ==
    /\ tag \in [Slot -> Key \cup {NoKey}]
    /\ buffer \in [Slot -> Mem]
    /\ content \in [Mem -> Key \cup {NoKey}]
    /\ pc \in PC
    /\ layer \in Layer
    /\ kind \in {"token", "batch"}
    /\ want \in SUBSET Expert /\ rest \in SUBSET want
    /\ cur \in Group
    /\ group \in [Group -> SUBSET Expert]
    /\ place \in [Group -> [Expert -> Slot \cup {NoSlot}]]
    /\ miss \in [Group -> SUBSET Expert]
    /\ async \in [Group -> BOOLEAN]
    /\ read \in [Group -> [Expert -> {"none", "queued", "reading", "done", "short"}]]
    /\ result \in [Expert -> Key \cup {NoKey, NotComputed}]

(* Which experts of the call are in which group, and when. *)
GroupInv ==
    /\ pc = "idle" => want = {}
    /\ pc # "idle" /\ kind = "token" => Cardinality(want) = Topk
    /\ pc \in {"idle", "first", "reduce"} => \A g \in Group : group[g] = {}
    /\ pc = "reduce" => rest = {}
    /\ pc = "first" => rest # {}
    /\ pc = "next" => group[Other(cur)] = {}
    /\ pc # "serial"
    /\ group[0] \cap group[1] = {}
    /\ \A g \in Group : group[g] \subseteq want \ rest
    /\ \A g \in Group : group[g] = {} \/ Cardinality(group[g]) <= GroupSize
    /\ ~Pipelined => group[Other(cur)] = {}
    /\ Cardinality(want) <= GroupSize => rest = {} \/ (rest = want /\ pc = "first")
    /\ \A g \in Group : miss[g] \subseteq group[g] /\ (~async[g] => miss[g] = {})
    /\ pc = "misses" => async[cur]

(* No two experts of the two groups are in one slot, be it to read from or  *)
(* to write to. A group has no slots only while expert_get_many looks.      *)
Unplaced(g) == pc = "getMany" /\ g = Filling
SeatsOwned ==
    \A g \in Group, e \in Expert :
        place[g][e] # NoSlot => e \in group[g] /\ place[g][e] \in Owned
SeatsTaken ==
    \A g \in Group : IF Unplaced(g) THEN place[g] = NoPlace /\ ~async[g]
                     ELSE \A e \in group[g] : place[g][e] # NoSlot
SeatsDistinct ==
    \A g, h \in Group, e, f \in Expert :
        place[g][e] = place[h][f] /\ place[g][e] # NoSlot => g = h /\ e = f
PlaceInv == SeatsOwned /\ SeatsTaken /\ SeatsDistinct

(* An expert is in one slot of its layer at most; a hit is in its slot, and *)
(* a miss in none, but for one the other group is about to overwrite.       *)
TagsOwned == \A s \in Slot : tag[s] # NoKey => s \in RangeOf(tag[s][1], hashSlots)
TagsDistinct == \A s, t \in Slot : tag[s] = tag[t] /\ tag[s] # NoKey => s = t
HitsTagged ==
    \A g \in Group, e \in Expert :
        place[g][e] # NoSlot /\ e \notin miss[g] => tag[place[g][e]] = <<layer, e>>
MissesUntagged ==
    \A g \in Group, e \in Expert, s \in Slot :
        e \in miss[g] /\ tag[s] = <<layer, e>> => g # cur /\ s \in Reserved(cur)
GetManyFinds ==
    pc = "getMany" =>
        /\ Pipelined => \A e \in group[Filling] : Holds(e) # {}
        /\ Filling # cur => \A e \in group[Filling] : \A f \in group[cur] :
                                Find(e) # place[cur][f]
TagInv == TagsOwned /\ TagsDistinct /\ HitsTagged /\ MissesUntagged /\ GetManyFinds

ReadInv ==
    \A g \in Group, e \in Expert :
        /\ read[g][e] # "none" => async[g] /\ e \in miss[g]
        /\ read[g][e] = "done" => content[buffer[place[g][e]]] = <<layer, e>>

ContentInv ==
    ShortReadsSeen => \A s \in Slot :
        tag[s] = NoKey \/ s \in Reserved(0) \cup Reserved(1) \/ content[buffer[s]] = tag[s]

(* What was evaluated is true, was read to its end, and is not left over.   *)
ResultInv ==
    /\ ShortReadsSeen => OwnWeights
    /\ \A e \in Expert : result[e] # NotComputed =>
          /\ e \in want /\ e \notin rest
          /\ \A g \in Group : e \in group[g] =>
                g = cur /\ pc \in {"misses", "failed"}
                /\ (e \in miss[cur] => read[cur][e] = "done")
    /\ \A e \in want : result[e] = NotComputed => e \in rest \cup group[0] \cup group[1]
    /\ pc = "misses" => \A e \in group[cur] : result[e] = NotComputed => e \in miss[cur]

ResidentInv ==
    kind = "token" =>
        /\ pc \in {"next", "getMany", "hits", "misses"} => group[cur] = want
        /\ pc = "reduce" => \A e \in want : Holds(e) # {}

IInv ==
    /\ StateType /\ HashInv /\ GroupInv /\ PlaceInv /\ TagInv
    /\ ReadInv /\ ContentInv /\ ResultInv /\ ResidentInv /\ BuffersDistinct

-------------------------------------------------------------------------------
(* Constants and the first state. *)

LEMMA Constants ==
    /\ NoSlot \notin Slot /\ Slot \subseteq Nat
    /\ \A l \in Layer, e \in Expert :
          <<l, e>> \in Key /\ <<l, e>> # NoKey /\ <<l, e>> # NotComputed
    /\ NotComputed # NoKey
    /\ \A g \in Group : /\ Other(g) \in Group /\ Other(g) # g /\ Other(Other(g)) = g
                        /\ \A h \in Group : h = g \/ h = Other(g)
    /\ 0 \in Group /\ 1 \in Group /\ Other(0) = 1 /\ Other(1) = 0
<1>1. NoSlot \notin Slot /\ Slot \subseteq Nat
  BY SizesAssumption DEF NoSlot, Slot
<1>2. \A l \in Layer, e \in Expert :
          <<l, e>> \in Key /\ <<l, e>> # NoKey /\ <<l, e>> # NotComputed
  BY StreamAssumption DEF Key
<1>3. NotComputed # NoKey
  BY StreamAssumption
<1> QED  BY <1>1, <1>2, <1>3 DEF Group, Other

LEMMA InitIInv == Init => IInv
<1> SUFFICES ASSUME Init  PROVE IInv
  OBVIOUS
<1>1. /\ tag = [s \in Slot |-> NoKey] /\ buffer = [s \in Slot |-> s]
      /\ content = [b \in Mem |-> NoKey] /\ hashSlots = Topk /\ pc = "idle"
      /\ layer = 0 /\ kind = "token" /\ want = {} /\ rest = {} /\ cur = 0
      /\ group = [g \in Group |-> {}] /\ place = [g \in Group |-> NoPlace]
      /\ miss = [g \in Group |-> {}] /\ async = [g \in Group |-> FALSE]
      /\ read = [g \in Group |-> NoRead] /\ result = NoResult
  BY DEF Init
<1>2. 0 \in Layer /\ Topk \in Nat \ {0}
  BY SizesAssumption DEF Layer
<1>3. StateType
  BY <1>1, <1>2 DEF StateType, Mem, PC, Group, NoPlace, NoRead, NoResult
<1>4. HashInv
  BY <1>1, <1>2, LargestPartition DEF HashInv
<1>5. GroupInv
  <2>1. \A g \in Group : group[g] = {} /\ miss[g] = {} /\ Cardinality(group[g]) = 0
    BY <1>1, FS_EmptySet
  <2>2. GroupSize = Topk
    BY <1>1 DEF GroupSize
  <2>3. 0 \in Group /\ 1 \in Group /\ Other(cur) \in Group
    BY <1>1, Constants
  <2> QED  BY <1>1, <1>2, <2>1, <2>2, <2>3 DEF GroupInv
<1>6. PlaceInv
  BY <1>1 DEF PlaceInv, SeatsOwned, SeatsTaken, SeatsDistinct, Unplaced, NoPlace
<1>7. TagInv
  BY <1>1 DEF TagInv, TagsOwned, TagsDistinct, HitsTagged, MissesUntagged, GetManyFinds, NoPlace
<1>8. ReadInv
  BY <1>1 DEF ReadInv, NoRead
<1>9. ContentInv
  BY <1>1 DEF ContentInv
<1>10. ResultInv
  BY <1>1 DEF ResultInv, OwnWeights, NoResult
<1>11. ResidentInv
  BY <1>1 DEF ResidentInv
<1>12. BuffersDistinct
  BY <1>1 DEF BuffersDistinct
<1> QED  BY <1>3, <1>4, <1>5, <1>6, <1>7, <1>8, <1>9, <1>10, <1>11, <1>12 DEF IInv

-------------------------------------------------------------------------------
(* What several steps have in common. *)

LEMMA CallFixed ==
    ASSUME UNCHANGED <<hashSlots, layer, kind, want>>
    PROVE  /\ Owned' = Owned /\ Capacity' = Capacity /\ GroupSize' = GroupSize
           /\ Pipelined' = Pipelined /\ (HashInv => HashInv')
<1>1. Owned' = Owned
  BY DEF Owned
<1>2. Capacity' = Capacity
  BY <1>1 DEF Capacity
<1>3. GroupCap' = GroupCap
  BY <1>2 DEF GroupCap, FullGroup
<1> QED  BY <1>1, <1>2, <1>3 DEF GroupSize, Pipelined, HashInv

LEMMA TagsFixed ==
    ASSUME UNCHANGED <<tag, hashSlots, layer>>
    PROVE  /\ \A e : Holds(e)' = Holds(e) /\ Find(e)' = Find(e)
           /\ TagsOwned => TagsOwned'
           /\ TagsDistinct => TagsDistinct'
<1>1. Owned' = Owned
  BY DEF Owned
<1>2. \A e : Holds(e)' = Holds(e)
  BY <1>1 DEF Holds
<1>3. \A e : Find(e)' = Find(e)
  BY <1>2 DEF Find
<1> QED  BY <1>2, <1>3 DEF TagsOwned, TagsDistinct

(* The sizes a call counts on. *)
LEMMA Sizes ==
    ASSUME CacheHoldsToken, StateType, HashInv
    PROVE  /\ Owned \in SUBSET Slot /\ Capacity \in Nat /\ Capacity >= Topk /\ Topk >= 1
           /\ GroupSize \in Nat \ {0} /\ GroupSize <= Capacity
           /\ GroupInv /\ pc # "idle" /\ Pipelined =>
                 Cardinality(want) <= GroupSize \/ Capacity >= 2 * GroupSize
           /\ ReadFaults /\ ShortReadsSeen => Pipelined
<1>1. Owned \in SUBSET Slot /\ Capacity \in Nat /\ Capacity >= Topk
  <2>1. layer \in Layer
    BY DEF StateType
  <2>2. Owned \in SUBSET Slot /\ Cardinality(Owned) >= Topk
    BY <2>1, RangeHoldsToken DEF Owned
  <2>3. Cardinality(Owned) \in Nat
    BY <2>2, SubsetsFinite
  <2> QED  BY <2>2, <2>3 DEF Capacity
<1>2. Topk \in Nat /\ Topk >= 1 /\ MaxTopk \in Nat /\ MaxTopk >= Topk
  BY SizesAssumption, StreamAssumption
<1>3. want \in SUBSET Expert /\ kind \in {"token", "batch"} /\ Cardinality(want) \in Nat
  <2>1. want \in SUBSET Expert /\ kind \in {"token", "batch"}
    BY DEF StateType
  <2> QED  BY <2>1, SubsetsFinite
<1>4. /\ GroupCap \in Nat /\ GroupCap <= Capacity /\ GroupSize \in Nat
      /\ kind = "batch" => GroupSize = GroupCap
      /\ kind = "batch" /\ Pipelined =>
            Cardinality(want) <= GroupSize \/ Capacity >= 2 * GroupSize
      /\ kind = "token" => Pipelined /\ GroupSize = Topk
      /\ HalfGroups /\ Capacity >= 2 => Pipelined
      /\ GroupCap >= 1
  BY <1>1, <1>2, <1>3, GroupSizes
<1>5. GroupInv /\ pc # "idle" /\ kind = "token" => Cardinality(want) <= GroupSize
  BY <1>2, <1>4 DEF GroupInv
<1>6. GroupSize \in Nat \ {0} /\ GroupSize <= Capacity
  BY <1>1, <1>2, <1>3, <1>4
<1> QED  BY <1>1, <1>2, <1>3, <1>4, <1>5, <1>6 DEF ShortReadsSeen

-------------------------------------------------------------------------------
(* The slots a group receives. *)

SeatsIn(at, S, pins) ==
    /\ at \in [Expert -> Slot \cup {NoSlot}]
    /\ \A e \in Expert : at[e] # NoSlot => e \in S
    /\ \A e \in S : at[e] \in Owned /\ at[e] \in Slot /\ at[e] # NoSlot /\ at[e] \notin pins
    /\ \A e, f \in S : at[e] = at[f] => e = f

(* The victims chosen for the misses of a group, and the slots it then has. *)
VictimsFor(v, S, pins) == v \in Injection(S \ Hits(S, pins), Free(S, pins))
SeatsFor(v, S, pins) == Filled(v, S \ Hits(S, pins), HitPlace(Hits(S, pins)))

HitsFirst(v, S, pins) ==
    /\ \A e \in Hits(S, pins) : /\ SeatsFor(v, S, pins)[e] = Find(e)
                                /\ tag[SeatsFor(v, S, pins)[e]] = <<layer, e>>
    /\ \A e \in S \ Hits(S, pins) : /\ SeatsFor(v, S, pins)[e] = v[e]
                                    /\ \A f \in Hits(S, pins) : v[e] # Find(f)

LEMMA SeatsFound ==
    ASSUME StateType, NEW S \in SUBSET Expert, NEW pins, NEW v, VictimsFor(v, S, pins)
    PROVE  SeatsIn(SeatsFor(v, S, pins), S, pins) /\ HitsFirst(v, S, pins)
<1> DEFINE hits == Hits(S, pins)
           M == S \ hits
           at == SeatsFor(v, S, pins)
<1>1. hits \in SUBSET S /\ M \in SUBSET S /\ S \ M = hits
  BY DEF Hits
<1>2. \A e \in Expert : at[e] = IF e \in M THEN v[e]
                                ELSE IF e \in hits THEN Find(e) ELSE NoSlot
  BY DEF SeatsFor, Filled, HitPlace
<1>3. \A e \in hits : /\ Find(e) \in Owned /\ Find(e) \in Slot
                      /\ Find(e) \notin pins /\ tag[Find(e)] = <<layer, e>>
  BY FindIs DEF Hits
<1>4. /\ v \in [M -> Free(S, pins)]
      /\ \A e, f \in M : v[e] = v[f] => e = f
  BY DEF VictimsFor, Injection, IsInjective
<1>5. Free(S, pins) = Owned \ (pins \cup {Find(e) : e \in hits})
  BY DEF Free
<1>6. \A e \in M : /\ v[e] \in Owned /\ v[e] \in Slot /\ v[e] \notin pins
                   /\ \A f \in hits : v[e] # Find(f)
  BY <1>4, <1>5, OwnedSlots
<1>7. at \in [Expert -> Slot \cup {NoSlot}]
  <2>1. at = [e \in Expert |-> at[e]]
    BY DEF SeatsFor, Filled, HitPlace
  <2> HIDE DEF hits, M, at
  <2>2. \A e \in Expert : at[e] \in Slot \cup {NoSlot}
    BY <1>2, <1>3, <1>6
  <2> QED  BY <2>1, <2>2
<1> HIDE DEF hits, M, at
<1>8. \A e, f \in S : at[e] = at[f] => e = f
  <2> SUFFICES ASSUME NEW e \in S, NEW f \in S, at[e] = at[f]  PROVE e = f
    OBVIOUS
  <2>1. CASE e \in M /\ f \in M
    BY <1>2, <1>4, <2>1
  <2>2. CASE e \in M /\ f \notin M
    BY <1>1, <1>2, <1>6, <2>2
  <2>3. CASE e \notin M /\ f \in M
    BY <1>1, <1>2, <1>6, <2>3
  <2>4. CASE e \notin M /\ f \notin M
    <3>1. e \in hits /\ f \in hits /\ Find(e) = Find(f)
      BY <1>1, <1>2, <2>4
    <3>2. <<layer, e>> = <<layer, f>>
      BY <1>3, <3>1
    <3> QED  BY <3>2
  <2> QED  BY <2>1, <2>2, <2>3, <2>4
<1>9. \A e \in Expert : at[e] # NoSlot => e \in S
  BY <1>1, <1>2
<1>10. \A e \in S : at[e] \in Owned /\ at[e] \in Slot /\ at[e] # NoSlot /\ at[e] \notin pins
  <2> SUFFICES ASSUME NEW e \in S
               PROVE  at[e] \in Owned /\ at[e] \in Slot /\ at[e] \notin pins
    BY Constants
  <2>1. CASE e \in M
    BY <1>2, <1>6, <2>1
  <2>2. CASE e \notin M
    <3>1. e \in hits /\ at[e] = Find(e)
      BY <1>1, <1>2, <2>2
    <3> QED  BY <1>3, <3>1
  <2> QED  BY <2>1, <2>2
<1>11. SeatsIn(at, S, pins)
  BY <1>7, <1>8, <1>9, <1>10 DEF SeatsIn
<1>12. \A e \in hits : at[e] = Find(e) /\ tag[at[e]] = <<layer, e>>
  BY <1>1, <1>2, <1>3
<1>13. \A e \in M : at[e] = v[e] /\ \A f \in hits : v[e] # Find(f)
  BY <1>1, <1>2, <1>6
<1> QED  BY <1>11, <1>12, <1>13 DEF hits, M, at, HitsFirst

(* The slots of a whole group of hits. *)
LEMMA HitsFound ==
    ASSUME StateType, NEW S \in SUBSET Expert, \A e \in S : Holds(e) # {}, NEW pins,
           \A e \in S : Find(e) \notin pins
    PROVE  /\ SeatsIn(HitPlace(S), S, pins)
           /\ \A e \in S : tag[HitPlace(S)[e]] = <<layer, e>>
<1>1. \A e \in Expert : HitPlace(S)[e] = IF e \in S THEN Find(e) ELSE NoSlot
  BY DEF HitPlace
<1>2. \A e \in S : /\ Find(e) \in Owned /\ Find(e) \in Slot
                   /\ Find(e) \notin pins /\ tag[Find(e)] = <<layer, e>>
  BY FindIs
<1>3. HitPlace(S) \in [Expert -> Slot \cup {NoSlot}]
  BY <1>2 DEF HitPlace
<1>4. \A e, f \in S : Find(e) = Find(f) => e = f
  <2> SUFFICES ASSUME NEW e \in S, NEW f \in S, Find(e) = Find(f)  PROVE e = f
    OBVIOUS
  <2>1. <<layer, e>> = <<layer, f>>
    BY <1>2
  <2> QED  BY <2>1
<1>5. \A e \in S : HitPlace(S)[e] = Find(e) /\ Find(e) # NoSlot
  BY <1>1, <1>2, Constants
<1>6. SeatsIn(HitPlace(S), S, pins)
  <2>1. \A e \in Expert : HitPlace(S)[e] # NoSlot => e \in S
    BY <1>1
  <2> QED  BY <1>2, <1>3, <1>4, <1>5, <2>1 DEF SeatsIn
<1> QED  BY <1>2, <1>5, <1>6

(* A group is seated beside the other one. *)
LEMMA SeatsKept ==
    ASSUME StateType, PlaceInv, NEW g \in Group, ~Unplaced(Other(g)),
           NEW S \in SUBSET Expert, NEW at,
           SeatsIn(at, S, {place[Other(g)][e] : e \in group[Other(g)]}),
           group'[g] = S, group'[Other(g)] = group[Other(g)],
           place' = [place EXCEPT ![g] = at], pc' # "getMany",
           UNCHANGED <<layer, hashSlots>>
    PROVE  /\ PlaceInv' /\ place' \in [Group -> [Expert -> Slot \cup {NoSlot}]]
           /\ place'[g] = at /\ place'[Other(g)] = place[Other(g)]
<1>1. /\ Other(g) \in Group /\ Other(g) # g /\ \A h \in Group : h = g \/ h = Other(g)
  BY Constants
<1>2. place \in [Group -> [Expert -> Slot \cup {NoSlot}]]
  BY DEF StateType
<1>3. place'[g] = at /\ place'[Other(g)] = place[Other(g)]
      /\ at \in [Expert -> Slot \cup {NoSlot}]
  BY <1>1, <1>2 DEF SeatsIn
<1>4. place' \in [Group -> [Expert -> Slot \cup {NoSlot}]]
  BY <1>2, <1>3
<1>5. Owned' = Owned
  BY DEF Owned
<1>6. /\ \A e \in Expert : at[e] # NoSlot => e \in S /\ at[e] \in Owned
      /\ \A e \in S : at[e] # NoSlot
      /\ \A e, f \in Expert : at[e] = at[f] /\ at[e] # NoSlot => e = f
  BY DEF SeatsIn
<1>7. /\ \A e \in Expert : place[Other(g)][e] # NoSlot =>
            e \in group[Other(g)] /\ place[Other(g)][e] \in Owned
      /\ \A e \in group[Other(g)] : place[Other(g)][e] # NoSlot
      /\ \A e, f \in Expert : place[Other(g)][e] = place[Other(g)][f]
            /\ place[Other(g)][e] # NoSlot => e = f
  <2>1. SeatsOwned /\ SeatsTaken /\ SeatsDistinct
    BY DEF PlaceInv
  <2>2. \A e \in group[Other(g)] : place[Other(g)][e] # NoSlot
    BY <1>1, <2>1 DEF SeatsTaken
  <2> QED  BY <1>1, <2>1, <2>2 DEF SeatsOwned, SeatsDistinct
<1>8. \A e, f \in Expert : at[e] # NoSlot /\ place[Other(g)][f] # NoSlot =>
                               at[e] # place[Other(g)][f]
  <2>1. \A e \in S : \A f \in group[Other(g)] : at[e] # place[Other(g)][f]
    BY DEF SeatsIn
  <2> QED  BY <1>6, <1>7, <2>1
<1>9. SeatsOwned'
  <2> SUFFICES ASSUME NEW h \in Group, NEW e \in Expert, place'[h][e] # NoSlot
               PROVE  e \in group'[h] /\ place'[h][e] \in Owned
    BY <1>5 DEF SeatsOwned
  <2> QED  BY <1>1, <1>3, <1>6, <1>7
<1>10. SeatsTaken'
  <2> SUFFICES ASSUME NEW h \in Group, NEW e \in group'[h]  PROVE place'[h][e] # NoSlot
    BY DEF SeatsTaken, Unplaced
  <2> QED  BY <1>1, <1>3, <1>6, <1>7
<1>11. SeatsDistinct'
  <2> SUFFICES ASSUME NEW h \in Group, NEW i \in Group, NEW e \in Expert, NEW f \in Expert,
                      place'[h][e] = place'[i][f], place'[h][e] # NoSlot
               PROVE  h = i /\ e = f
    BY DEF SeatsDistinct
  <2>1. CASE h = g /\ i = g
    BY <1>3, <1>6, <2>1
  <2>2. CASE h = g /\ i = Other(g)
    BY <1>3, <1>8, <2>2
  <2>3. CASE h = Other(g) /\ i = g
    BY <1>3, <1>8, <2>3
  <2>4. CASE h = Other(g) /\ i = Other(g)
    BY <1>3, <1>7, <2>4
  <2> QED  BY <1>1, <2>1, <2>2, <2>3, <2>4
<1> QED  BY <1>3, <1>4, <1>9, <1>10, <1>11 DEF PlaceInv

-------------------------------------------------------------------------------
(* The turn of a group. *)

LEMMA TurnFacts ==
    ASSUME CacheHoldsToken, IInv, NEW g \in Group, Turn(g)
    PROVE  /\ NewGroup \in SUBSET rest /\ NewGroup \in SUBSET Expert /\ NewGroup # {}
           /\ Cardinality(NewGroup) <= GroupSize
           /\ group[g] = {} /\ miss[g] = {} /\ \A e \in Expert : place[g][e] = NoSlot
           /\ PinnedFor(g) = {place[Other(g)][e] : e \in group[Other(g)]}
           /\ PinnedFor(g) \in SUBSET Slot
           /\ Cardinality(NewGroup) + Cardinality(PinnedFor(g)) <= Capacity
           /\ pc \in {"first", "next"} /\ ~Unplaced(Other(g))
           /\ g = cur => group[Other(g)] = {} /\ pc = "first"
           /\ g # cur => g = Other(cur) /\ cur = Other(g) /\ Pipelined /\ pc = "next"
           /\ kind = "token" => NewGroup = want /\ g = cur
           /\ Cardinality(want) <= GroupSize => rest = want /\ NewGroup = want
<1>1. /\ GroupInv /\ StateType /\ PlaceInv /\ HashInv
      /\ rest \in SUBSET Expert /\ want \in SUBSET Expert /\ cur \in Group
      /\ group \in [Group -> SUBSET Expert] /\ kind \in {"token", "batch"}
      /\ place \in [Group -> [Expert -> Slot \cup {NoSlot}]]
  BY DEF IInv, StateType
<1>2. /\ GroupSize \in Nat \ {0} /\ GroupSize <= Capacity /\ Capacity \in Nat
      /\ pc # "idle" /\ Pipelined =>
            Cardinality(want) <= GroupSize \/ Capacity >= 2 * GroupSize
      /\ Topk \in Nat
  BY <1>1, Sizes, SizesAssumption
<1>3. /\ Other(g) \in Group /\ Other(g) # g /\ Other(Other(g)) = g
      /\ g = cur \/ (g = Other(cur) /\ cur = Other(g))
  BY <1>1, Constants
<1>4. /\ \/ g = cur /\ pc = "first"
         \/ g # cur /\ pc = "next" /\ Pipelined
      /\ rest # {} /\ group[g] = {} /\ pc \in {"first", "next"}
      /\ g = cur => group[Other(g)] = {}
  BY <1>1, <1>3 DEF Turn, GroupInv
<1>5. NewGroup \in SUBSET rest /\ NewGroup # {} /\ Cardinality(NewGroup) <= GroupSize
      /\ (Cardinality(rest) <= GroupSize => NewGroup = rest)
  BY <1>1, <1>2, <1>4, FirstOfSize, FirstOfSome DEF NewGroup
<1>6. miss[g] = {} /\ \A e \in Expert : place[g][e] = NoSlot
  BY <1>1, <1>4 DEF GroupInv, PlaceInv, SeatsOwned
<1>7. PinnedFor(g) = {place[Other(g)][e] : e \in group[Other(g)]}
  <2>1. CASE g = cur
    BY <1>4, <2>1 DEF PinnedFor
  <2>2. CASE g # cur
    BY <1>3, <2>2 DEF PinnedFor
  <2> QED  BY <2>1, <2>2
<1>8. ~Unplaced(Other(g))
  BY <1>4 DEF Unplaced
<1> DEFINE h == Other(g)
           G == group[h]
           pins == {place[h][e] : e \in G}
<1>9. G \in SUBSET Expert /\ \A e \in G : place[h][e] \in Slot
  BY <1>1, <1>3, <1>8 DEF PlaceInv, SeatsTaken
<1>10. Cardinality(pins) <= Cardinality(G) /\ pins \in SUBSET Slot
       /\ Cardinality(pins) \in Nat /\ Cardinality(G) \in Nat
  <2> DEFINE f == [e \in G |-> place[h][e]]
  <2>1. f \in Surjection(G, pins)
    <3>1. DOMAIN f = G /\ f = [e \in G |-> f[e]] /\ pins = {f[e] : e \in G}
      BY Zenon
    <3> HIDE DEF f, G, pins, h
    <3> QED  BY <3>1 DEF Surjection
  <2>2. pins \in SUBSET Slot
    BY <1>9
  <2> HIDE DEF pins, G, f, h
  <2>3. IsFiniteSet(G) /\ Cardinality(G) \in Nat /\ Cardinality(pins) \in Nat
    BY <1>9, <2>2, SubsetsFinite
  <2> QED  BY <2>1, <2>2, <2>3, FS_Surjection
<1>11. g # cur => Cardinality(want) > GroupSize /\ Cardinality(G) <= GroupSize
  <2> SUFFICES ASSUME g # cur
               PROVE  Cardinality(want) > GroupSize /\ Cardinality(G) <= GroupSize
    OBVIOUS
  <2>1. Cardinality(want) \in Nat
    BY <1>1, SubsetsFinite
  <2>2. ~(Cardinality(want) <= GroupSize)
    BY <1>1, <1>4 DEF GroupInv
  <2>3. G = {} \/ Cardinality(G) <= GroupSize
    BY <1>1, <1>3 DEF GroupInv
  <2> HIDE DEF G
  <2>4. G = {} => Cardinality(G) = 0
    BY FS_EmptySet
  <2> QED  BY <1>2, <2>1, <2>2, <2>3, <2>4
<1>12. Cardinality(NewGroup) + Cardinality(pins) <= Capacity
  <2>1. Cardinality(NewGroup) \in Nat /\ Cardinality(want) \in Nat
    BY <1>1, <1>5, SubsetsFinite
  <2>2. CASE g = cur
    <3>1. pins = {}
      BY <1>4, <2>2
    <3>2. Cardinality(pins) = 0
      BY <3>1, FS_EmptySet
    <3> QED  BY <1>2, <1>5, <2>1, <3>2
  <2>3. CASE g # cur
    <3>1. Capacity >= 2 * GroupSize
      BY <1>2, <1>4, <1>11, <2>1, <2>3
    <3> HIDE DEF pins, G
    <3> QED  BY <1>2, <1>5, <1>10, <1>11, <2>1, <2>3, <3>1
  <2> QED  BY <2>2, <2>3
<1>13. Cardinality(want) <= GroupSize => rest = want /\ NewGroup = want /\ g = cur
  <2> SUFFICES ASSUME Cardinality(want) <= GroupSize
               PROVE  rest = want /\ NewGroup = want /\ g = cur
    OBVIOUS
  <2>1. rest = want /\ pc = "first"
    BY <1>1, <1>4 DEF GroupInv
  <2> QED  BY <1>4, <1>5, <2>1
<1>14. kind = "token" => Cardinality(want) <= GroupSize
  BY <1>1, <1>2, <1>4 DEF GroupInv, GroupSize
<1> QED
  BY <1>1, <1>3, <1>4, <1>5, <1>6, <1>7, <1>8, <1>10, <1>12, <1>13, <1>14

(* The groups after it. *)
LEMMA TurnGroups ==
    ASSUME CacheHoldsToken, IInv, NEW g \in Group, Turn(g),
           NEW M \in SUBSET NewGroup, NEW asynchronous \in BOOLEAN,
           asynchronous \/ M = {},
           group' = [group EXCEPT ![g] = NewGroup],
           miss' = [miss EXCEPT ![g] = M],
           async' = [async EXCEPT ![g] = asynchronous],
           rest' = rest \ NewGroup, pc' \in {AfterBegin(g), "getMany"},
           UNCHANGED <<hashSlots, callVars, cur>>
    PROVE  GroupInv'
<1> DEFINE S == NewGroup
<1>1. /\ GroupInv /\ StateType
      /\ rest \in SUBSET want /\ want \in SUBSET Expert /\ cur \in Group
      /\ group \in [Group -> SUBSET Expert]
      /\ miss \in [Group -> SUBSET Expert] /\ async \in [Group -> BOOLEAN]
  BY DEF IInv, StateType
<1>2. /\ S \in SUBSET rest /\ S \in SUBSET Expert /\ Cardinality(S) <= GroupSize
      /\ group[g] = {} /\ miss[g] = {}
      /\ g = cur => group[Other(g)] = {} /\ pc = "first"
      /\ g # cur => g = Other(cur) /\ cur = Other(g) /\ Pipelined /\ pc = "next"
      /\ Cardinality(want) <= GroupSize => rest = want /\ S = want
      /\ pc \in {"first", "next"}
  BY TurnFacts
<1> HIDE DEF S
<1>3. /\ Other(g) \in Group /\ Other(g) # g /\ \A h \in Group : h = g \/ h = Other(g)
      /\ g \in Group /\ (g = 0 \/ g = 1) /\ 0 \in Group /\ 1 \in Group
      /\ Other(cur) \in Group /\ Other(cur) # cur
      /\ cur \in Group
  BY <1>1, Constants DEF Group
<1>4. /\ group'[g] = S /\ group'[Other(g)] = group[Other(g)]
      /\ miss'[g] = M /\ miss'[Other(g)] = miss[Other(g)]
      /\ async'[g] = asynchronous /\ async'[Other(g)] = async[Other(g)]
  BY <1>1, <1>3 DEF S
<1>5. /\ UNCHANGED <<want, kind, cur>> /\ GroupSize' = GroupSize /\ Pipelined' = Pipelined
  BY CallFixed DEF callVars
<1>6. pc' \in {"next", "hits", "getMany"} /\ (pc' = "next" => g = cur)
  BY <1>2 DEF AfterBegin
<1>7. rest' = rest \ S /\ M \in SUBSET S
  BY DEF S
<1>8. (pc # "idle" /\ kind = "token" => Cardinality(want) = Topk)'
  BY <1>1, <1>2, <1>5 DEF GroupInv
<1>9. pc' = "next" => group'[Other(cur')] = {}
  BY <1>2, <1>4, <1>5, <1>6
<1>10. group'[0] \cap group'[1] = {} /\ \A h \in Group : group'[h] \subseteq want' \ rest'
  <2>1. group[Other(g)] \subseteq want \ rest
    BY <1>1, <1>3 DEF GroupInv
  <2>2. group'[g] \subseteq want' \ rest' /\ group'[Other(g)] \subseteq want' \ rest'
    BY <1>1, <1>2, <1>4, <1>5, <1>7, <2>1
  <2>3. group'[g] \cap group'[Other(g)] = {}
    BY <1>2, <1>4, <2>1
  <2>4. (g = 0 /\ Other(g) = 1) \/ (g = 1 /\ Other(g) = 0)
    BY <1>3 DEF Group
  <2> QED  BY <1>3, <2>2, <2>3, <2>4
<1>11. \A h \in Group : group'[h] = {} \/ Cardinality(group'[h]) <= GroupSize'
  BY <1>1, <1>2, <1>3, <1>4, <1>5 DEF GroupInv
<1>12. ~Pipelined' => group'[Other(cur')] = {}
  BY <1>2, <1>4, <1>5
<1>13. Cardinality(want') <= GroupSize' => rest' = {}
  BY <1>2, <1>5, <1>7
<1>14. \A h \in Group : miss'[h] \subseteq group'[h] /\ (~async'[h] => miss'[h] = {})
  BY <1>1, <1>3, <1>4, <1>7 DEF GroupInv
<1> QED  BY <1>6, <1>8, <1>9, <1>10, <1>11, <1>12, <1>13, <1>14 DEF GroupInv

LEMMA TurnResults ==
    ASSUME CacheHoldsToken, IInv, NEW g \in Group, Turn(g),
           group' = [group EXCEPT ![g] = NewGroup],
           rest' = rest \ NewGroup, pc' \in {AfterBegin(g), "getMany"},
           UNCHANGED <<hashSlots, callVars, cur, result>>
    PROVE  ResultInv' /\ ResidentInv'
<1> DEFINE S == NewGroup
<1>1. /\ ResultInv /\ rest \in SUBSET want /\ want \in SUBSET Expert /\ cur \in Group
      /\ group \in [Group -> SUBSET Expert]
  BY DEF IInv, StateType
<1>2. /\ S \in SUBSET rest /\ pc \in {"first", "next"}
      /\ kind = "token" => S = want /\ g = cur
      /\ group[g] = {}
  BY TurnFacts
<1>3. /\ Other(g) \in Group /\ Other(g) # g /\ \A h \in Group : h = g \/ h = Other(g)
      /\ 0 \in Group /\ 1 \in Group
  BY Constants
<1>4. group'[g] = S /\ group'[Other(g)] = group[Other(g)]
      /\ UNCHANGED <<layer, kind, want, cur, result>>
  BY <1>1, <1>3 DEF callVars
<1>5. rest' = rest \ S /\ pc' \in {"next", "hits", "getMany"}
  BY DEF AfterBegin
<1> HIDE DEF S
<1>6. ShortReadsSeen => OwnWeights'
  BY <1>1, <1>4 DEF ResultInv, OwnWeights
<1>7. ASSUME NEW e \in Expert, result[e] # NotComputed
      PROVE  e \in want /\ e \notin rest' /\ \A h \in Group : e \notin group'[h]
  <2>1. e \in want /\ e \notin rest /\ \A h \in Group : e \notin group[h]
    BY <1>1, <1>2, <1>7 DEF ResultInv
  <2> QED  BY <1>2, <1>3, <1>4, <1>5, <2>1
<1>8. ASSUME NEW e \in want, result[e] = NotComputed
      PROVE  e \in rest' \cup group'[0] \cup group'[1]
  <2>1. e \in rest \/ e \in group[0] \/ e \in group[1]
    BY <1>1, <1>8 DEF ResultInv
  <2>2. e \in rest' \/ e \in group'[g] \/ e \in group'[Other(g)]
    BY <1>2, <1>3, <1>4, <1>5, <2>1
  <2>3. \A h \in Group : h = 0 \/ h = 1
    BY DEF Group
  <2> QED  BY <1>3, <2>2, <2>3
<1>9. ResultInv'
  BY <1>4, <1>5, <1>6, <1>7, <1>8 DEF ResultInv
<1>10. ResidentInv'
  BY <1>2, <1>4, <1>5 DEF ResidentInv
<1> QED  BY <1>9, <1>10

(* Reads are started for the misses of a group. *)
LEMMA BeginReadsStep ==
    ASSUME CacheHoldsToken, IInv, NEW g \in Group, BeginReads(g)
    PROVE  IInv'
<1> DEFINE S == NewGroup
           pins == PinnedFor(g)
           hits == Hits(S, pins)
           M == S \ hits
<1>1. /\ Turn(g) /\ M # {}
      /\ rest' = rest \ S /\ pc' = AfterBegin(g)
      /\ UNCHANGED <<cacheVars, hashSlots, callVars, cur, result>>
  BY DEF BeginReads
<1>2. PICK v \in Injection(M, Free(S, pins)) :
          SetGroup(g, S, Filled(v, M, HitPlace(hits)), M, TRUE)
  BY DEF BeginReads
<1> DEFINE at == Filled(v, M, HitPlace(hits))
<1>3. /\ group' = [group EXCEPT ![g] = S] /\ place' = [place EXCEPT ![g] = at]
      /\ miss' = [miss EXCEPT ![g] = M] /\ async' = [async EXCEPT ![g] = TRUE]
      /\ read' = [read EXCEPT ![g] = [e \in Expert |-> IF e \in M THEN "queued" ELSE "none"]]
  BY <1>2 DEF SetGroup
<1>4. /\ S \in SUBSET rest /\ S \in SUBSET Expert
      /\ group[g] = {} /\ miss[g] = {} /\ \A e \in Expert : place[g][e] = NoSlot
      /\ pins = {place[Other(g)][e] : e \in group[Other(g)]}
      /\ pc \in {"first", "next"} /\ ~Unplaced(Other(g))
      /\ g = cur => group[Other(g)] = {}
      /\ g # cur => g = Other(cur) /\ cur = Other(g)
  BY <1>1, TurnFacts
<1>5. /\ Other(g) \in Group /\ Other(g) # g /\ \A h \in Group : h = g \/ h = Other(g)
  BY Constants
<1>6. /\ StateType /\ GroupInv /\ PlaceInv /\ TagInv /\ ReadInv /\ ContentInv
      /\ HashInv /\ BuffersDistinct
  BY DEF IInv
<1>7. /\ UNCHANGED <<tag, buffer, content, hashSlots, layer, kind, want, cur, result>>
      /\ pc' \in {"next", "hits"}
  BY <1>1 DEF cacheVars, callVars, AfterBegin
<1>8. /\ SeatsIn(at, S, pins)
      /\ \A e \in S \ M : at[e] = Find(e) /\ tag[at[e]] = <<layer, e>>
  <2>1. VictimsFor(v, S, pins) /\ at = SeatsFor(v, S, pins)
    BY DEF VictimsFor, SeatsFor
  <2>2. hits \in SUBSET S /\ S \ M = hits
    BY DEF Hits
  <2> HIDE DEF S, pins, M, at
  <2>3. StateType /\ S \in SUBSET Expert
    BY <1>4, <1>6
  <2>4. SeatsIn(SeatsFor(v, S, pins), S, pins) /\ HitsFirst(v, S, pins)
    BY <2>1, <2>3, SeatsFound
  <2> QED  BY <2>1, <2>2, <2>4 DEF HitsFirst
<1>9. M \in SUBSET S /\ \A e \in M : Holds(e) = {} \/ Find(e) \in pins
  BY DEF Hits
<1> HIDE DEF S, pins, M, at
<1>10. /\ PlaceInv' /\ place' \in [Group -> [Expert -> Slot \cup {NoSlot}]]
       /\ place'[g] = at /\ place'[Other(g)] = place[Other(g)]
  <2>1. group'[g] = S /\ group'[Other(g)] = group[Other(g)] /\ pc' # "getMany"
    BY <1>3, <1>5, <1>6, <1>7 DEF StateType
  <2> QED  BY <1>3, <1>4, <1>6, <1>7, <1>8, <2>1, SeatsKept
<1>11. /\ group' \in [Group -> SUBSET Expert] /\ miss' \in [Group -> SUBSET Expert]
       /\ async' \in [Group -> BOOLEAN]
       /\ read' \in [Group -> [Expert -> {"none", "queued", "reading", "done", "short"}]]
       /\ miss'[g] = M /\ miss'[Other(g)] = miss[Other(g)]
       /\ async'[g] = TRUE /\ async'[Other(g)] = async[Other(g)]
       /\ read'[Other(g)] = read[Other(g)]
       /\ \A e \in Expert : read'[g][e] = IF e \in M THEN "queued" ELSE "none"
  BY <1>3, <1>4, <1>5, <1>6, <1>9 DEF StateType
<1>12. StateType'
  <2>1. rest' \in SUBSET want'
    BY <1>1, <1>6, <1>7 DEF StateType
  <2>2. pc' \in PC
    BY <1>7 DEF PC
  <2> QED  BY <1>6, <1>7, <1>10, <1>11, <2>1, <2>2 DEF StateType
<1>13. GroupInv'
  BY <1>1, <1>3, <1>7, <1>9, TurnGroups DEF S
<1>14. ResultInv' /\ ResidentInv'
  BY <1>1, <1>3, TurnResults DEF S
<1>15. HashInv' /\ BuffersDistinct'
  BY <1>6, <1>7 DEF HashInv, BuffersDistinct
<1>16. Reserved(Other(g))' = Reserved(Other(g)) /\ Reserved(g) = {}
  BY <1>4, <1>10, <1>11 DEF Reserved
<1>17. TagInv'
  <2>1. TagsOwned' /\ TagsDistinct'
    BY <1>6, <1>7, TagsFixed DEF TagInv
  <2>2. HitsTagged'
    <3> SUFFICES ASSUME NEW h \in Group, NEW e \in Expert,
                        place'[h][e] # NoSlot, e \notin miss'[h]
                 PROVE  tag[place'[h][e]] = <<layer, e>>
      BY <1>7 DEF HitsTagged
    <3>1. CASE h = g
      BY <1>8, <1>10, <1>11, <3>1 DEF SeatsIn
    <3>2. CASE h = Other(g)
      <4>1. place'[h] = place[h] /\ miss'[h] = miss[h]
        BY <1>10, <1>11, <3>2
      <4> QED  BY <1>6, <4>1 DEF TagInv, HitsTagged
    <3> QED  BY <1>5, <3>1, <3>2
  <2>3. MissesUntagged'
    <3> SUFFICES ASSUME NEW h \in Group, NEW e \in Expert, NEW s \in Slot,
                        e \in miss'[h], tag[s] = <<layer, e>>
                 PROVE  h # cur /\ s \in Reserved(cur)'
      BY <1>7 DEF MissesUntagged
    <3>1. CASE h = g
      <4>1. e \in M /\ e \in S
        BY <1>9, <1>11, <3>1
      <4>2. s \in Holds(e)
        <5>1. s \in RangeOf(tag[s][1], hashSlots)
          BY <1>6, Constants DEF TagInv, TagsOwned, StateType
        <5> QED  BY <5>1 DEF Holds, Owned
      <4>3. Find(e) \in pins /\ tag[Find(e)] = <<layer, e>> /\ Find(e) \in Slot
        BY <1>9, <4>1, <4>2, FindIs
      <4>4. Find(e) = s
        <5>1. <<layer, e>> # NoKey
          BY <1>6, Constants DEF StateType
        <5> QED  BY <1>6, <4>3, <5>1 DEF TagInv, TagsDistinct
      <4>5. PICK f \in group[Other(g)] : place[Other(g)][f] = s
        BY <1>4, <4>3, <4>4
      <4>6. g # cur /\ cur = Other(g)
        BY <1>4, <4>5
      <4>7. f \in miss[cur]
        <5>1. f \in Expert /\ s # NoSlot
          BY <1>5, <1>6, Constants DEF StateType
        <5>2. f \notin miss[Other(g)] => tag[s] = <<layer, f>>
          BY <1>5, <1>6, <4>5, <5>1 DEF TagInv, HitsTagged
        <5>3. f # e
          BY <1>4, <1>5, <1>6, <4>1 DEF GroupInv
        <5> QED  BY <4>6, <5>2, <5>3
      <4>8. async[cur]
        BY <1>5, <1>6, <4>6, <4>7 DEF GroupInv
      <4>9. s \in Reserved(cur)
        BY <4>5, <4>6, <4>7, <4>8 DEF Reserved
      <4>10. Reserved(cur)' = Reserved(cur)
        <5>1. /\ cur' = cur /\ place'[cur] = place[cur]
              /\ async'[cur] = async[cur] /\ miss'[cur] = miss[cur]
          BY <1>7, <1>10, <1>11, <4>6
        <5> QED  BY <5>1 DEF Reserved
      <4> QED  BY <3>1, <4>6, <4>9, <4>10
    <3>2. CASE h = Other(g)
      <4>1. e \in miss[h]
        BY <1>11, <3>2
      <4>2. h # cur
        BY <1>5, <1>6, <3>2, <4>1 DEF TagInv, MissesUntagged
      <4>3. g = cur
        BY <1>4, <3>2, <4>2
      <4> QED  BY <1>4, <1>5, <1>6, <3>2, <4>1, <4>3 DEF GroupInv
    <3> QED  BY <1>5, <3>1, <3>2
  <2>4. GetManyFinds'
    BY <1>7 DEF GetManyFinds
  <2> QED  BY <2>1, <2>2, <2>3, <2>4 DEF TagInv
<1>18. ReadInv'
  <2> SUFFICES ASSUME NEW h \in Group, NEW e \in Expert
               PROVE  /\ read'[h][e] # "none" => async'[h] /\ e \in miss'[h]
                      /\ read'[h][e] = "done" => content[buffer[place'[h][e]]] = <<layer, e>>
    BY <1>7 DEF ReadInv
  <2>1. CASE h = g
    BY <1>11, <2>1
  <2>2. CASE h = Other(g)
    <3>1. /\ place'[h] = place[h] /\ miss'[h] = miss[h]
          /\ async'[h] = async[h] /\ read'[h] = read[h]
      BY <1>10, <1>11, <2>2
    <3> QED  BY <1>6, <3>1 DEF ReadInv
  <2> QED  BY <1>5, <2>1, <2>2
<1>19. ContentInv'
  <2>1. \A h \in Group : Reserved(h) \subseteq Reserved(h)'
    BY <1>5, <1>16
  <2>2. Reserved(0) \subseteq Reserved(0)' /\ Reserved(1) \subseteq Reserved(1)'
    BY <2>1, Constants
  <2> QED  BY <1>6, <1>7, <2>2 DEF ContentInv
<1> QED
  BY <1>10, <1>12, <1>13, <1>14, <1>15, <1>17, <1>18, <1>19 DEF IInv

-------------------------------------------------------------------------------
(* A call begins, with no group and no read left over from the last. *)
LEMMA Empty0 ==
    ASSUME StateType, GroupInv, PlaceInv, ReadInv, NEW g \in Group, group[g] = {},
           ~Unplaced(g)
    PROVE  /\ miss[g] = {} /\ \A e \in Expert : place[g][e] = NoSlot /\ read[g][e] = "none"
           /\ Reserved(g) = {}
<1>1. miss[g] = {}
  BY DEF GroupInv
<1>2. \A e \in Expert : place[g][e] = NoSlot
  BY DEF PlaceInv, SeatsOwned
<1>3. \A e \in Expert : read[g][e] = "none"
  BY <1>1 DEF ReadInv
<1> QED  BY <1>1, <1>2, <1>3 DEF Reserved

LEMMA CallStep ==
    ASSUME IInv, NEW l \in Layer, NEW k \in {"token", "batch"}, NEW E \in SUBSET Expert,
           NEW R, E # {}, k = "token" => Cardinality(E) = Topk, Call(l, k, E, R)
    PROVE  IInv'
<1>1. /\ pc = "idle" /\ pc' = "first" /\ layer' = l /\ kind' = k
      /\ want' = E /\ rest' = E /\ cur' = 0 /\ result' = NoResult
      /\ UNCHANGED <<tag, buffer, content, hashSlots, group, place, miss, async, read>>
  BY DEF Call, cacheVars, groupVars
<1>2. /\ StateType /\ GroupInv /\ PlaceInv /\ TagInv /\ ReadInv /\ ContentInv
      /\ HashInv /\ BuffersDistinct
  BY DEF IInv
<1>3. \A g \in Group : group[g] = {} /\ ~Unplaced(g)
  BY <1>1, <1>2 DEF GroupInv, Unplaced
<1>4. \A g \in Group :
         /\ miss[g] = {} /\ \A e \in Expert : place[g][e] = NoSlot /\ read[g][e] = "none"
         /\ Reserved(g) = {}
  BY <1>2, <1>3, Empty0
<1>5. 0 \in Group /\ 1 \in Group /\ Other(0) = 1
  BY Constants
<1>6. StateType'
  BY <1>1, <1>2, <1>5 DEF StateType, NoResult, PC
<1>7. HashInv' /\ BuffersDistinct'
  BY <1>1, <1>2 DEF HashInv, BuffersDistinct
<1>8. GroupInv'
  BY <1>1, <1>3, <1>4, <1>5 DEF GroupInv
<1>9. PlaceInv'
  BY <1>1, <1>3, <1>4 DEF PlaceInv, SeatsOwned, SeatsTaken, SeatsDistinct, Unplaced
<1>10. TagInv'
  <2>1. TagsOwned' /\ TagsDistinct'
    BY <1>1, <1>2 DEF TagInv, TagsOwned, TagsDistinct
  <2> QED
    BY <1>1, <1>4, <2>1 DEF TagInv, HitsTagged, MissesUntagged, GetManyFinds
<1>11. ReadInv'
  BY <1>1, <1>4 DEF ReadInv
<1>12. ContentInv'
  BY <1>1, <1>2, <1>4, <1>5 DEF ContentInv
<1>13. ResultInv'
  <2>1. \A e \in Expert : result'[e] = NotComputed
    BY <1>1 DEF NoResult
  <2> QED  BY <1>1, <2>1 DEF ResultInv, OwnWeights
<1>14. ResidentInv'
  BY <1>1 DEF ResidentInv
<1> QED
  BY <1>6, <1>7, <1>8, <1>9, <1>10, <1>11, <1>12, <1>13, <1>14 DEF IInv

LEMMA CallKeeps ==
    ASSUME IInv, CallToken \/ CallBatch
    PROVE  IInv'
<1>1. Topk \in Nat /\ Topk >= 1 /\ Cardinality({}) = 0
  BY SizesAssumption, FS_EmptySet
<1>2. CASE CallToken
  <2>1. PICK l \in Layer, E \in SUBSET Expert :
           Cardinality(E) = Topk /\ Call(l, "token", E, {})
    BY <1>2 DEF CallToken
  <2>2. E # {}
    BY <1>1, <2>1
  <2> QED  BY <2>1, <2>2, CallStep
<1>3. CASE CallBatch
  <2>1. PICK l \in Layer, E \in SUBSET Expert :
           \E R \in SUBSET E : Cardinality(E) >= Topk /\ Call(l, "batch", E, R)
    BY <1>3 DEF CallBatch
  <2>2. PICK R \in SUBSET E : Call(l, "batch", E, R)
    BY <2>1
  <2>3. E # {}
    BY <1>1, <2>1
  <2> QED  BY <2>2, <2>3, CallStep
<1> QED  BY <1>2, <1>3

-------------------------------------------------------------------------------
(* expert_get_many takes a group over: all of it is resident, or nothing is *)
(* overlapped. There are always slots enough.                               *)
LEMMA BeginGetManyStep ==
    ASSUME CacheHoldsToken, IInv, NEW g \in Group, BeginGetMany(g)
    PROVE  IInv'
<1> DEFINE S == NewGroup
           pins == PinnedFor(g)
           M == S \ Hits(S, pins)
<1>1. /\ Turn(g)
      /\ ~Pipelined \/ M = {} \/ Cardinality(M) > Cardinality(Free(S, pins))
      /\ SetGroup(g, S, NoPlace, {}, FALSE)
      /\ rest' = rest \ S /\ pc' = "getMany"
      /\ UNCHANGED <<cacheVars, hashSlots, callVars, cur, result>>
  BY DEF BeginGetMany
<1>2. /\ group' = [group EXCEPT ![g] = S] /\ place' = [place EXCEPT ![g] = NoPlace]
      /\ miss' = [miss EXCEPT ![g] = {}] /\ async' = [async EXCEPT ![g] = FALSE]
      /\ read' = [read EXCEPT ![g] = NoRead]
  BY <1>1 DEF SetGroup, NoRead
<1>3. /\ S \in SUBSET rest /\ S \in SUBSET Expert /\ S # {}
      /\ group[g] = {} /\ miss[g] = {} /\ \A e \in Expert : place[g][e] = NoSlot
      /\ pins = {place[Other(g)][e] : e \in group[Other(g)]} /\ pins \in SUBSET Slot
      /\ Cardinality(S) + Cardinality(pins) <= Capacity
      /\ pc \in {"first", "next"} /\ ~Unplaced(Other(g))
      /\ g = cur => group[Other(g)] = {}
      /\ g # cur => g = Other(cur) /\ cur = Other(g) /\ Pipelined
  BY <1>1, TurnFacts
<1>4. /\ Other(g) \in Group /\ Other(g) # g /\ \A h \in Group : h = g \/ h = Other(g)
  BY Constants
<1>5. /\ StateType /\ GroupInv /\ PlaceInv /\ TagInv /\ ReadInv /\ ContentInv
      /\ HashInv /\ BuffersDistinct
  BY DEF IInv
<1>6. /\ UNCHANGED <<tag, buffer, content, hashSlots, layer, kind, want, cur, result>>
  BY <1>1 DEF cacheVars, callVars
<1>7. Pipelined => Hits(S, pins) = S
  <2>1. Hits(S, pins) \in SUBSET S
    BY DEF Hits
  <2>2. Cardinality(M) <= Cardinality(Free(S, pins))
        /\ Cardinality(M) \in Nat /\ Cardinality(Free(S, pins)) \in Nat
    <3>1. Free(S, pins) \in SUBSET Slot /\ M \in SUBSET Expert
      BY <1>3, OwnedSlots DEF Free
    <3>2. Cardinality(M) \in Nat /\ Cardinality(Free(S, pins)) \in Nat
      BY <3>1, SubsetsFinite
    <3> HIDE DEF S, pins
    <3>3. Cardinality(S \ Hits(S, pins)) <= Cardinality(Free(S, pins))
      BY <1>3, EnoughFree
    <3> QED  BY <3>2, <3>3
  <2> HIDE DEF S, pins
  <2> QED  BY <1>1, <2>1, <2>2
<1> HIDE DEF S, pins, M
<1>8. /\ group'[g] = S /\ group'[Other(g)] = group[Other(g)]
      /\ place'[g] = NoPlace /\ place'[Other(g)] = place[Other(g)]
      /\ miss'[g] = {} /\ miss'[Other(g)] = miss[Other(g)]
      /\ async'[g] = FALSE /\ async'[Other(g)] = async[Other(g)]
      /\ read'[g] = NoRead /\ read'[Other(g)] = read[Other(g)]
  BY <1>2, <1>4, <1>5 DEF StateType
<1>9. StateType'
  <2>1. /\ group' \in [Group -> SUBSET Expert] /\ miss' \in [Group -> SUBSET Expert]
        /\ async' \in [Group -> BOOLEAN]
        /\ read' \in [Group -> [Expert -> {"none", "queued", "reading", "done", "short"}]]
        /\ place' \in [Group -> [Expert -> Slot \cup {NoSlot}]]
    BY <1>2, <1>3, <1>5 DEF StateType, NoPlace, NoRead
  <2> QED  BY <1>1, <1>5, <1>6, <2>1 DEF StateType, PC
<1>10. GroupInv'
  <2> DEFINE none == {}
  <2>1. none \in SUBSET NewGroup /\ none = {} /\ pc' \in {AfterBegin(g), "getMany"}
    BY <1>1
  <2>2. miss' = [miss EXCEPT ![g] = none]
    BY <1>2
  <2> HIDE DEF none
  <2> QED  BY <1>1, <1>2, <2>1, <2>2, TurnGroups DEF S
<1>11. ResultInv' /\ ResidentInv'
  BY <1>1, <1>2, TurnResults DEF S
<1>12. HashInv' /\ BuffersDistinct'
  BY <1>5, <1>6 DEF HashInv, BuffersDistinct
<1>13. Filling' = g /\ cur' = cur
  <2>1. CASE g = cur
    BY <1>3, <1>6, <1>8, <2>1 DEF Filling
  <2>2. CASE g # cur
    BY <1>3, <1>6, <1>8, <2>2 DEF Filling
  <2> QED  BY <1>6, <2>1, <2>2
<1>14. /\ Reserved(Other(g))' = Reserved(Other(g)) /\ Reserved(g) = {}
       /\ Owned' = Owned
  BY <1>3, <1>6, <1>8 DEF Reserved, Owned
<1>15. PlaceInv'
  <2>1. /\ \A e \in Expert : place'[g][e] = NoSlot
        /\ \A e \in Expert : place'[Other(g)][e] = place[Other(g)][e]
    BY <1>8 DEF NoPlace
  <2>2. SeatsOwned' /\ SeatsDistinct'
    <3>1. SeatsOwned /\ SeatsDistinct
      BY <1>5 DEF PlaceInv
    <3>2. SeatsOwned'
      <4> SUFFICES ASSUME NEW h \in Group, NEW e \in Expert, place'[h][e] # NoSlot
                   PROVE  e \in group'[h] /\ place'[h][e] \in Owned
        BY <1>14 DEF SeatsOwned
      <4>1. h = Other(g) /\ place'[h][e] = place[h][e] /\ group'[h] = group[h]
        BY <1>4, <1>8, <2>1
      <4> QED  BY <3>1, <4>1 DEF SeatsOwned
    <3>3. SeatsDistinct'
      BY <1>4, <2>1, <3>1 DEF SeatsDistinct
    <3> QED  BY <3>2, <3>3
  <2>3. SeatsTaken'
    <3> SUFFICES ASSUME NEW h \in Group
                 PROVE  IF h = g THEN place'[h] = NoPlace /\ ~async'[h]
                        ELSE \A e \in group'[h] : place'[h][e] # NoSlot
      BY <1>1, <1>13 DEF SeatsTaken, Unplaced
    <3>1. CASE h = g
      BY <1>8, <3>1
    <3>2. CASE h = Other(g)
      <4>1. \A e \in group[h] : place[h][e] # NoSlot
        BY <1>3, <1>5, <3>2 DEF PlaceInv, SeatsTaken
      <4> QED  BY <1>4, <1>8, <3>2, <4>1
    <3> QED  BY <1>4, <3>1, <3>2
  <2> QED  BY <2>2, <2>3 DEF PlaceInv
<1>16. TagInv'
  <2>1. /\ TagsOwned' /\ TagsDistinct' /\ TagsOwned /\ TagsDistinct
        /\ \A e : Holds(e)' = Holds(e) /\ Find(e)' = Find(e)
    BY <1>5, <1>6, TagsFixed DEF TagInv
  <2>2. HitsTagged'
    <3> SUFFICES ASSUME NEW h \in Group, NEW e \in Expert,
                        place'[h][e] # NoSlot, e \notin miss'[h]
                 PROVE  tag[place'[h][e]] = <<layer, e>>
      BY <1>6 DEF HitsTagged
    <3>1. h = Other(g) /\ place'[h] = place[h] /\ miss'[h] = miss[h]
      BY <1>4, <1>8 DEF NoPlace
    <3> QED  BY <1>5, <3>1 DEF TagInv, HitsTagged
  <2>3. MissesUntagged'
    <3> SUFFICES ASSUME NEW h \in Group, NEW e \in Expert, NEW s \in Slot,
                        e \in miss'[h], tag[s] = <<layer, e>>
                 PROVE  h # cur /\ s \in Reserved(cur)'
      BY <1>6 DEF MissesUntagged
    <3>1. h = Other(g) /\ e \in miss[h]
      BY <1>4, <1>8
    <3>2. h # cur
      BY <1>4, <1>5, <3>1 DEF TagInv, MissesUntagged
    <3>3. g = cur
      BY <1>3, <3>1, <3>2
    <3> QED  BY <1>3, <1>4, <1>5, <3>1, <3>3 DEF GroupInv
  <2>4. GetManyFinds'
    <3> SUFFICES /\ Pipelined => \A e \in S : Holds(e) # {}
                 /\ g # cur => \A e \in S : \A f \in group'[cur] : Find(e) # place'[cur][f]
      <4>1. Pipelined' = Pipelined
        BY <1>6, CallFixed
      <4> HIDE DEF S
      <4> QED  BY <1>6, <1>8, <1>13, <2>1, <4>1 DEF GetManyFinds
    <3>1. Pipelined => \A e \in S : Holds(e) # {} /\ Find(e) \notin pins
      BY <1>7 DEF Hits
    <3>2. g # cur => Pipelined /\ group'[cur] = group[Other(g)] /\ place'[cur] = place[Other(g)]
      BY <1>3, <1>8
    <3> QED  BY <1>3, <3>1, <3>2
  <2> QED  BY <2>1, <2>2, <2>3, <2>4 DEF TagInv
<1>17. ReadInv'
  <2> SUFFICES ASSUME NEW h \in Group, NEW e \in Expert
               PROVE  /\ read'[h][e] # "none" => async'[h] /\ e \in miss'[h]
                      /\ read'[h][e] = "done" => content[buffer[place'[h][e]]] = <<layer, e>>
    BY <1>6 DEF ReadInv
  <2>1. CASE h = g
    BY <1>8, <2>1 DEF NoRead
  <2>2. CASE h = Other(g)
    <3>1. /\ place'[h] = place[h] /\ miss'[h] = miss[h]
          /\ async'[h] = async[h] /\ read'[h] = read[h]
      BY <1>8, <2>2
    <3> QED  BY <1>5, <3>1 DEF ReadInv
  <2> QED  BY <1>4, <2>1, <2>2
<1>18. ContentInv'
  <2>1. \A h \in Group : Reserved(h) \subseteq Reserved(h)'
    BY <1>4, <1>14
  <2>2. Reserved(0) \subseteq Reserved(0)' /\ Reserved(1) \subseteq Reserved(1)'
    BY <2>1, Constants
  <2> QED  BY <1>5, <1>6, <2>2 DEF ContentInv
<1> QED
  BY <1>9, <1>10, <1>11, <1>12, <1>15, <1>16, <1>17, <1>18 DEF IInv

-------------------------------------------------------------------------------
(* expert_get_many. *)

LEMMA GetManyFacts ==
    ASSUME StateType, GroupInv, PlaceInv, pc = "getMany"
    PROVE  /\ Filling \in Group /\ Other(Filling) \in Group /\ Other(Filling) # Filling
           /\ \A h \in Group : h = Filling \/ h = Other(Filling)
           /\ Unplaced(Filling) /\ ~Unplaced(Other(Filling))
           /\ place[Filling] = NoPlace /\ ~async[Filling] /\ miss[Filling] = {}
           /\ Reserved(Filling) = {} /\ group[Filling] \in SUBSET Expert
           /\ Filling = cur => group[Other(Filling)] = {}
           /\ Filling # cur => Filling = Other(cur) /\ cur = Other(Filling)
<1>1. cur \in Group /\ group \in [Group -> SUBSET Expert]
  BY DEF StateType
<1>2. /\ Other(cur) \in Group /\ Other(cur) # cur /\ Other(Other(cur)) = cur
      /\ \A h \in Group : h = cur \/ h = Other(cur)
  BY <1>1, Constants
<1>3. Filling \in Group /\ (Filling = cur \/ Filling = Other(cur))
      /\ (Filling = cur => group[Other(cur)] = {})
  BY <1>1, <1>2 DEF Filling
<1>4. /\ Other(Filling) \in Group /\ Other(Filling) # Filling
      /\ \A h \in Group : h = Filling \/ h = Other(Filling)
  BY <1>3, Constants
<1>5. Unplaced(Filling) /\ ~Unplaced(Other(Filling))
  BY <1>4 DEF Unplaced
<1>6. place[Filling] = NoPlace /\ ~async[Filling]
  BY <1>3, <1>5 DEF PlaceInv, SeatsTaken
<1>7. miss[Filling] = {}
  BY <1>3, <1>6 DEF GroupInv
<1> QED  BY <1>1, <1>2, <1>3, <1>4, <1>5, <1>6, <1>7 DEF Reserved

LEMMA GetManyResidentStep ==
    ASSUME IInv, GetManyResident
    PROVE  IInv'
<1>0. Filling \in Group
  BY GetManyFacts DEF IInv, GetManyResident
<1> PICK g \in Group : g = Filling
  BY <1>0
<1> DEFINE S == group[g]
           at == HitPlace(S)
           pins == {place[Other(g)][e] : e \in group[Other(g)]}
<1>1. /\ pc = "getMany" /\ Hits(S, {}) = S
      /\ place' = [place EXCEPT ![g] = at] /\ pc' = AfterBegin(g)
      /\ UNCHANGED <<tag, buffer, content, hashSlots, layer, kind, want, rest, cur,
                     group, miss, async, read, result>>
  BY DEF GetManyResident, callVars
<1>2. /\ StateType /\ GroupInv /\ PlaceInv /\ TagInv /\ ReadInv /\ ContentInv
      /\ HashInv /\ BuffersDistinct /\ ResultInv /\ ResidentInv
  BY DEF IInv
<1>3. /\ g \in Group /\ Other(g) \in Group /\ Other(g) # g
      /\ \A h \in Group : h = g \/ h = Other(g)
      /\ ~Unplaced(Other(g))
      /\ place[g] = NoPlace /\ ~async[g] /\ miss[g] = {}
      /\ Reserved(g) = {} /\ S \in SUBSET Expert
      /\ g = cur => group[Other(g)] = {}
      /\ g # cur => g = Other(cur) /\ cur = Other(g)
  BY <1>1, <1>2, GetManyFacts
<1>4. \A e \in S : Holds(e) # {} /\ Find(e) \notin pins
  <2>1. \A e \in S : Holds(e) # {}
    BY <1>1 DEF Hits
  <2>2. g # cur => \A e \in S : \A f \in group[cur] : Find(e) # place[cur][f]
    BY <1>1, <1>2 DEF TagInv, GetManyFinds
  <2> HIDE DEF S
  <2>3. CASE g = cur
    BY <1>3, <2>1, <2>3
  <2>4. CASE g # cur
    BY <1>3, <2>1, <2>2, <2>4
  <2> QED  BY <2>3, <2>4
<1>5. SeatsIn(at, S, pins) /\ \A e \in S : tag[at[e]] = <<layer, e>>
  <2> HIDE DEF S, pins
  <2> QED  BY <1>2, <1>3, <1>4, HitsFound
<1> HIDE DEF at
<1>6. pc' \in {"next", "hits"} /\ (pc' = "next" => g = cur)
  BY <1>1 DEF AfterBegin
<1>7. /\ PlaceInv' /\ place' \in [Group -> [Expert -> Slot \cup {NoSlot}]]
      /\ place'[g] = at /\ place'[Other(g)] = place[Other(g)]
  <2>1. group'[g] = S /\ group'[Other(g)] = group[Other(g)] /\ pc' # "getMany"
    BY <1>1, <1>6
  <2> HIDE DEF S
  <2> QED  BY <1>1, <1>2, <1>3, <1>5, <2>1, SeatsKept
<1>8. StateType'
  BY <1>1, <1>2, <1>6, <1>7 DEF StateType, PC
<1>9. GroupInv'
  <2>1. GroupSize' = GroupSize /\ Pipelined' = Pipelined
    BY <1>1, CallFixed
  <2>2. pc' = "next" => group[Other(cur)] = {}
    BY <1>3, <1>6
  <2>3. Cardinality(want) <= GroupSize => rest = {}
    BY <1>1, <1>2 DEF GroupInv
  <2> QED  BY <1>1, <1>2, <1>6, <2>1, <2>2, <2>3 DEF GroupInv
<1>10. HashInv' /\ BuffersDistinct' /\ ResidentInv'
  BY <1>1, <1>2, <1>6 DEF HashInv, BuffersDistinct, ResidentInv
<1>11. \A i \in Group : Reserved(i)' = Reserved(i)
  <2>1. Reserved(g)' = {}
    BY <1>1, <1>3 DEF Reserved
  <2>2. Reserved(Other(g))' = Reserved(Other(g))
    <3>1. /\ place'[Other(g)] = place[Other(g)]
          /\ async'[Other(g)] = async[Other(g)] /\ miss'[Other(g)] = miss[Other(g)]
      BY <1>1, <1>7
    <3> QED  BY <3>1 DEF Reserved
  <2> QED  BY <1>3, <2>1, <2>2
<1>12. TagInv'
  <2>1. TagsOwned' /\ TagsDistinct'
    BY <1>1, <1>2, TagsFixed DEF TagInv
  <2>2. HitsTagged'
    <3> SUFFICES ASSUME NEW i \in Group, NEW e \in Expert,
                        place'[i][e] # NoSlot, e \notin miss[i]
                 PROVE  tag[place'[i][e]] = <<layer, e>>
      BY <1>1 DEF HitsTagged
    <3>1. CASE i = g
      BY <1>5, <1>7, <3>1 DEF SeatsIn
    <3>2. CASE i = Other(g)
      BY <1>2, <1>7, <3>2 DEF TagInv, HitsTagged
    <3> QED  BY <1>3, <3>1, <3>2
  <2>3. MissesUntagged'
    <3> SUFFICES ASSUME NEW i \in Group, NEW e \in Expert, NEW s \in Slot,
                        e \in miss[i], tag[s] = <<layer, e>>
                 PROVE  i # cur /\ s \in Reserved(cur)'
      BY <1>1 DEF MissesUntagged
    <3>1. PICK c \in Group : c = cur
      BY <1>2 DEF StateType
    <3>2. i # c /\ s \in Reserved(c)
      BY <1>2, <3>1 DEF TagInv, MissesUntagged
    <3> QED  BY <1>1, <1>11, <3>1, <3>2
  <2>4. GetManyFinds'
    BY <1>6 DEF GetManyFinds
  <2> QED  BY <2>1, <2>2, <2>3, <2>4 DEF TagInv
<1>13. ReadInv'
  <2> SUFFICES ASSUME NEW i \in Group, NEW e \in Expert
               PROVE  /\ read[i][e] # "none" => async[i] /\ e \in miss[i]
                      /\ read[i][e] = "done" => content[buffer[place'[i][e]]] = <<layer, e>>
    BY <1>1 DEF ReadInv
  <2>1. CASE i = g
    BY <1>2, <1>3, <2>1 DEF ReadInv
  <2>2. CASE i = Other(g)
    BY <1>2, <1>7, <2>2 DEF ReadInv
  <2> QED  BY <1>3, <2>1, <2>2
<1>14. ContentInv'
  <2>1. Reserved(0)' = Reserved(0) /\ Reserved(1)' = Reserved(1)
    BY <1>11, Constants
  <2> QED  BY <1>1, <1>2, <2>1 DEF ContentInv
<1>15. ResultInv'
  <2>1. \A e \in Expert : result[e] # NotComputed => \A i \in Group : e \notin group[i]
    BY <1>1, <1>2 DEF ResultInv
  <2> QED  BY <1>1, <1>2, <1>6, <2>1 DEF ResultInv, OwnWeights
<1> QED
  BY <1>7, <1>8, <1>9, <1>10, <1>12, <1>13, <1>14, <1>15 DEF IInv

(* It never finds too few slots for its misses. *)
LEMMA NeverSerial ==
    ASSUME CacheHoldsToken, IInv
    PROVE  ~GetManySerial /\ ~GetSerial
<1>1. StateType /\ GroupInv /\ PlaceInv /\ HashInv
  BY DEF IInv
<1>2. ~GetSerial
  BY <1>1 DEF GetSerial, GroupInv
<1>3. ASSUME GetManySerial  PROVE FALSE
  <2> DEFINE S == group[Filling]
             none == {}
  <2>1. pc = "getMany" /\ Cardinality(S \ Hits(S, none)) > Cardinality(Free(S, none))
    BY <1>3 DEF GetManySerial
  <2>2. Filling \in Group /\ S \in SUBSET Expert
    BY <1>1, <2>1, GetManyFacts
  <2>3. S = {} \/ Cardinality(S) <= GroupSize
    BY <1>1, <2>2 DEF GroupInv
  <2>4. GroupSize \in Nat /\ GroupSize <= Capacity /\ Capacity \in Nat
    BY <1>1, Sizes
  <2> HIDE DEF S
  <2>5. Cardinality(S) \in Nat /\ Cardinality({}) = 0
    BY <2>2, SubsetsFinite, FS_EmptySet
  <2>6. none \in SUBSET Slot /\ Cardinality(S) + Cardinality(none) <= Capacity
    BY <2>3, <2>4, <2>5
  <2>7. Free(S, none) \in SUBSET Slot /\ S \ Hits(S, none) \in SUBSET Expert
    BY <2>2, OwnedSlots DEF Free
  <2> HIDE DEF none
  <2>8. Cardinality(S \ Hits(S, none)) <= Cardinality(Free(S, none))
    BY <2>2, <2>6, EnoughFree
  <2>9. Cardinality(S \ Hits(S, none)) \in Nat /\ Cardinality(Free(S, none)) \in Nat
    BY <2>7, SubsetsFinite
  <2> QED  BY <2>1, <2>8, <2>9
<1> QED  BY <1>2, <1>3

-------------------------------------------------------------------------------
(* The misses of a group are published. *)

Publishable(at, M) ==
    /\ M \in SUBSET Expert
    /\ \A e \in M : at[e] \in Owned /\ at[e] \in Slot
    /\ \A e, f \in M : at[e] = at[f] => e = f
    /\ \A e \in M, s \in Slot : tag[s] # <<layer, e>>
Published(at, M) ==
    /\ tag' \in [Slot -> Key \cup {NoKey}]
    /\ \A e \in M : tag'[at[e]] = <<layer, e>>
    /\ \A s \in Slot : (\A e \in M : at[e] # s) => tag'[s] = tag[s]

LEMMA TagStep ==
    ASSUME StateType, TagsOwned, TagsDistinct, NEW M, NEW at, Publishable(at, M),
           tag' = Tagged(at, M), UNCHANGED <<layer, hashSlots>>
    PROVE  Published(at, M) /\ TagsOwned' /\ TagsDistinct'
<1>1. /\ tag \in [Slot -> Key \cup {NoKey}] /\ layer \in Layer
      /\ M \in SUBSET Expert
      /\ \A e \in M : at[e] \in Owned /\ at[e] \in Slot
      /\ \A e, f \in M : at[e] = at[f] => e = f
      /\ \A e \in M, s \in Slot : tag[s] # <<layer, e>>
  BY DEF StateType, Publishable
<1>2. \A s \in Slot : tag'[s] = IF \E e \in M : at[e] = s
                                THEN <<layer, CHOOSE e \in M : at[e] = s>> ELSE tag[s]
  BY DEF Tagged
<1>3. ASSUME NEW e \in M  PROVE tag'[at[e]] = <<layer, e>>
  <2>1. (CHOOSE f \in M : at[f] = at[e]) = e
    BY <1>1
  <2> QED  BY <1>1, <1>2, <2>1
<1>4. \A s \in Slot : (\A e \in M : at[e] # s) => tag'[s] = tag[s]
  BY <1>2
<1>5. tag' \in [Slot -> Key \cup {NoKey}]
  <2>1. tag' = [s \in Slot |-> tag'[s]]
    BY DEF Tagged
  <2>2. ASSUME NEW s \in Slot  PROVE tag'[s] \in Key \cup {NoKey}
    <3>1. CASE \E e \in M : at[e] = s
      <4>1. PICK e \in M : at[e] = s
        BY <3>1
      <4>2. tag'[s] = <<layer, e>>
        BY <1>3, <4>1
      <4>3. layer \in Layer /\ e \in Expert
        BY <1>1
      <4> QED  BY <4>2, <4>3, Constants
    <3>2. CASE ~\E e \in M : at[e] = s
      BY <1>1, <1>4, <3>2
    <3> QED  BY <3>1, <3>2
  <2> QED  BY <2>1, <2>2
<1>6. TagsOwned'
  <2> SUFFICES ASSUME NEW s \in Slot, tag'[s] # NoKey
               PROVE  s \in RangeOf(tag'[s][1], hashSlots)
    BY DEF TagsOwned
  <2>1. CASE \E e \in M : at[e] = s
    <3>1. PICK e \in M : at[e] = s
      BY <2>1
    <3>2. tag'[s][1] = layer
      BY <1>3, <3>1
    <3> QED  BY <1>1, <3>1, <3>2 DEF Owned
  <2>2. CASE ~\E e \in M : at[e] = s
    <3>1. tag'[s] = tag[s]
      BY <1>4, <2>2
    <3> QED  BY <3>1 DEF TagsOwned
  <2> QED  BY <2>1, <2>2
<1>7. TagsDistinct'
  <2> SUFFICES ASSUME NEW s \in Slot, NEW t \in Slot, tag'[s] = tag'[t], tag'[s] # NoKey
               PROVE  s = t
    BY DEF TagsDistinct
  <2>1. CASE (\E e \in M : at[e] = s) /\ (\E e \in M : at[e] = t)
    <3>1. PICK e \in M : at[e] = s
      BY <2>1
    <3>2. PICK f \in M : at[f] = t
      BY <2>1
    <3>3. <<layer, e>> = <<layer, f>>
      BY <1>3, <3>1, <3>2
    <3> QED  BY <3>1, <3>2, <3>3
  <2>2. CASE (\E e \in M : at[e] = s) /\ ~(\E e \in M : at[e] = t)
    <3>1. PICK e \in M : at[e] = s
      BY <2>2
    <3>2. tag'[s] = <<layer, e>> /\ tag'[t] = tag[t]
      BY <1>3, <1>4, <2>2, <3>1
    <3> QED  BY <1>1, <3>2
  <2>3. CASE ~(\E e \in M : at[e] = s) /\ (\E e \in M : at[e] = t)
    <3>1. PICK e \in M : at[e] = t
      BY <2>3
    <3>2. tag'[t] = <<layer, e>> /\ tag'[s] = tag[s]
      BY <1>3, <1>4, <2>3, <3>1
    <3> QED  BY <1>1, <3>2
  <2>4. CASE ~(\E e \in M : at[e] = s) /\ ~(\E e \in M : at[e] = t)
    BY <1>4, <2>4 DEF TagsDistinct
  <2> QED  BY <2>1, <2>2, <2>3, <2>4
<1> QED  BY <1>3, <1>4, <1>5, <1>6, <1>7 DEF Published

(* The blocking reads of expert_get_many are only made where nothing is     *)
(* overlapped: every group that could be pipelined was found resident.      *)
LEMMA GetManyLoadStep ==
    ASSUME CacheHoldsToken, IInv, GetManyLoad
    PROVE  IInv'
<1>0. Filling \in Group
  BY GetManyFacts DEF IInv, GetManyLoad
<1> PICK g \in Group : g = Filling
  BY <1>0
<1> DEFINE S == group[Filling]
           none == {}
           hits == Hits(S, none)
           M == S \ hits
<1>1. PICK v \in Injection(M, Free(S, none)), torn \in (IF ReadFaults THEN SUBSET M ELSE {{}}) :
         /\ content' = [b \in Mem |->
                IF \E e \in M : buffer[v[e]] = b
                THEN LET e == CHOOSE e \in M : buffer[v[e]] = b
                     IN IF e \in torn THEN NoKey ELSE <<layer, e>>
                ELSE content[b]]
         /\ tag' = Tagged(v, M)
         /\ place' = [place EXCEPT ![Filling] = Filled(v, M, HitPlace(hits))]
  BY Zenon DEF GetManyLoad
<1>2. /\ pc = "getMany" /\ M # {} /\ pc' = AfterBegin(g)
      /\ UNCHANGED <<buffer, hashSlots, layer, kind, want, rest, cur,
                     group, miss, async, read, result>>
  BY DEF GetManyLoad, callVars
<1>3. /\ StateType /\ GroupInv /\ PlaceInv /\ TagInv /\ ReadInv /\ ContentInv
      /\ HashInv /\ BuffersDistinct /\ ResultInv /\ ResidentInv
  BY DEF IInv
<1>4. /\ g \in Group /\ Other(g) \in Group /\ Other(g) # g
      /\ \A h \in Group : h = g \/ h = Other(g)
      /\ ~Unplaced(Other(g))
      /\ place[g] = NoPlace /\ ~async[g] /\ miss[g] = {}
      /\ Reserved(g) = {} /\ S \in SUBSET Expert
      /\ g = cur => group[Other(g)] = {}
      /\ g # cur => g = Other(cur) /\ cur = Other(g)
  BY <1>2, <1>3, GetManyFacts
<1>5. ~Pipelined
  <2> SUFFICES ASSUME Pipelined  PROVE FALSE
    OBVIOUS
  <2>1. \A e \in S : Holds(e) # {}
    BY <1>2, <1>3 DEF TagInv, GetManyFinds
  <2> QED  BY <1>2, <2>1 DEF Hits
<1>6. g = cur /\ group[Other(g)] = {} /\ (ShortReadsSeen => torn = {}) /\ kind # "token"
  <2>1. group[Other(cur)] = {}
    BY <1>3, <1>5 DEF GroupInv
  <2>2. g = cur
    BY <2>1 DEF Filling
  <2>3. ShortReadsSeen => ~ReadFaults
    BY <1>3, <1>5, Sizes
  <2> QED  BY <1>5, <2>1, <2>2, <2>3 DEF Pipelined
<1> DEFINE at == Filled(v, M, HitPlace(hits))
           pins == {place[Other(g)][e] : e \in group[Other(g)]}
<1>7. pins = none
  BY <1>6
<1>8. /\ SeatsIn(at, S, none)
      /\ \A e \in hits : tag[at[e]] = <<layer, e>>
      /\ \A e \in M : at[e] = v[e] /\ \A f \in hits : at[e] # at[f]
  <2>1. VictimsFor(v, S, none) /\ at = SeatsFor(v, S, none)
    BY DEF VictimsFor, SeatsFor
  <2> HIDE DEF S, none, M, at
  <2>2. StateType /\ S \in SUBSET Expert
    BY <1>3, <1>4
  <2>3. SeatsIn(SeatsFor(v, S, none), S, none) /\ HitsFirst(v, S, none)
    BY <2>1, <2>2, SeatsFound
  <2>4. /\ \A e \in hits : /\ at[e] = Find(e)
                           /\ tag[at[e]] = <<layer, e>>
        /\ \A e \in M : at[e] = v[e] /\ \A f \in hits : v[e] # Find(f)
    BY <2>1, <2>3 DEF HitsFirst, M
  <2>5. \A e \in M, f \in hits : at[e] # at[f]
    BY <2>4
  <2> QED  BY <2>1, <2>3, <2>4, <2>5
<1>9. M \in SUBSET S /\ S \ M = hits /\ \A e \in M : Holds(e) = {}
  BY DEF Hits
<1> HIDE DEF at
<1>10. Publishable(v, M)
  <2>1. \A e \in M : v[e] \in Owned /\ v[e] \in Slot
    BY <1>8, <1>9 DEF SeatsIn
  <2>2. \A e, f \in M : v[e] = v[f] => e = f
    BY <1>8, <1>9 DEF SeatsIn
  <2>3. ASSUME NEW e \in M, NEW s \in Slot, tag[s] = <<layer, e>>  PROVE FALSE
    <3>1. <<layer, e>> # NoKey
      BY <1>3, <1>4, <1>9, Constants DEF StateType
    <3>2. s \in RangeOf(tag[s][1], hashSlots)
      BY <1>3, <2>3, <3>1 DEF TagInv, TagsOwned
    <3> QED  BY <1>9, <2>3, <3>2 DEF Holds, Owned
  <2> QED  BY <1>4, <1>9, <2>1, <2>2, <2>3 DEF Publishable
<1> HIDE DEF S, none, hits, M
<1>11. Published(v, M) /\ TagsOwned' /\ TagsDistinct'
  BY <1>1, <1>2, <1>3, <1>10, TagStep DEF TagInv
<1>12. /\ tag' \in [Slot -> Key \cup {NoKey}]
       /\ \A e \in M : tag'[v[e]] = <<layer, e>>
       /\ \A s \in Slot : (\A e \in M : v[e] # s) => tag'[s] = tag[s]
  BY <1>11 DEF Published
<1>13. /\ \A e \in M : v[e] \in Slot /\ e \in Expert
       /\ \A e, f \in M : v[e] = v[f] => e = f
  BY <1>10 DEF Publishable
<1>14. /\ content' \in [Mem -> Key \cup {NoKey}]
       /\ ShortReadsSeen => \A e \in M : content'[buffer[v[e]]] = <<layer, e>>
       /\ \A s \in Slot : (\A e \in M : v[e] # s) => content'[buffer[s]] = content[buffer[s]]
  <2>1. /\ content \in [Mem -> Key \cup {NoKey}] /\ buffer \in [Slot -> Mem] /\ layer \in Layer
        /\ \A s, t \in Slot : buffer[s] = buffer[t] => s = t
    BY <1>3 DEF StateType, BuffersDistinct
  <2> DEFINE loaded(b) == CHOOSE e \in M : buffer[v[e]] = b
  <2>2. \A b \in Mem : content'[b] = IF \E e \in M : buffer[v[e]] = b
                                     THEN IF loaded(b) \in torn THEN NoKey ELSE <<layer, loaded(b)>>
                                     ELSE content[b]
    BY <1>1
  <2>3. content' = [b \in Mem |-> content'[b]]
    BY <1>1
  <2>4. ASSUME NEW e \in M
        PROVE  content'[buffer[v[e]]] = IF e \in torn THEN NoKey ELSE <<layer, e>>
    <3>1. loaded(buffer[v[e]]) = e
      BY <1>13, <2>1
    <3> HIDE DEF loaded
    <3> QED  BY <1>13, <2>1, <2>2, <3>1
  <2>5. \A s \in Slot : (\A e \in M : v[e] # s) => content'[buffer[s]] = content[buffer[s]]
    BY <1>13, <2>1, <2>2
  <2>6. ASSUME NEW b \in Mem  PROVE content'[b] \in Key \cup {NoKey}
    <3>1. CASE \E e \in M : buffer[v[e]] = b
      <4>1. PICK e \in M : buffer[v[e]] = b
        BY <3>1
      <4>2. content'[b] = IF e \in torn THEN NoKey ELSE <<layer, e>>
        BY <2>4, <4>1
      <4>3. layer \in Layer /\ e \in Expert
        BY <1>13, <2>1
      <4> QED  BY <4>2, <4>3, Constants
    <3>2. CASE ~\E e \in M : buffer[v[e]] = b
      BY <2>1, <2>2, <3>2
    <3> QED  BY <3>1, <3>2
  <2>7. content' \in [Mem -> Key \cup {NoKey}]
    BY <2>3, <2>6
  <2>8. ShortReadsSeen => \A e \in M : content'[buffer[v[e]]] = <<layer, e>>
    BY <1>6, <2>4
  <2> QED  BY <2>5, <2>7, <2>8
<1>15. pc' = "next"
  BY <1>2, <1>6 DEF AfterBegin
<1>16. /\ PlaceInv' /\ place' \in [Group -> [Expert -> Slot \cup {NoSlot}]]
       /\ place'[g] = at /\ place'[Other(g)] = place[Other(g)]
  <2>1. /\ group'[g] = S /\ group'[Other(g)] = group[Other(g)] /\ pc' # "getMany"
        /\ place' = [place EXCEPT ![g] = at]
    BY <1>1, <1>2, <1>15 DEF S, at, hits
  <2>2. SeatsIn(at, S, {place[Other(g)][e] : e \in group[Other(g)]})
    BY <1>7, <1>8
  <2> QED  BY <1>2, <1>3, <1>4, <2>1, <2>2, SeatsKept
<1>17. StateType'
  BY <1>2, <1>3, <1>12, <1>14, <1>15, <1>16 DEF StateType, PC
<1>18. GroupInv'
  <2>1. GroupSize' = GroupSize /\ Pipelined' = Pipelined
    BY <1>2, CallFixed
  <2>2. Cardinality(want) <= GroupSize => rest = {}
    BY <1>2, <1>3 DEF GroupInv
  <2> QED  BY <1>2, <1>3, <1>6, <1>15, <2>1, <2>2 DEF GroupInv
<1>19. HashInv' /\ BuffersDistinct' /\ ResidentInv'
  BY <1>2, <1>3, <1>6 DEF HashInv, BuffersDistinct, ResidentInv
<1>20. \A h \in Group : miss[h] = {} /\ \A e \in Expert : read[h][e] = "none"
  <2>1. \A h \in Group : miss[h] = {}
    BY <1>3, <1>4, <1>6 DEF GroupInv
  <2> QED  BY <1>3, <2>1 DEF ReadInv
<1>21. TagInv'
  <2>1. HitsTagged'
    <3> SUFFICES ASSUME NEW h \in Group, NEW e \in Expert, place'[h][e] # NoSlot
                 PROVE  tag'[place'[h][e]] = <<layer, e>>
      BY <1>2 DEF HitsTagged
    <3>1. CASE h = g
      <4>1. e \in S
        BY <1>8, <1>16, <3>1 DEF SeatsIn
      <4>2. CASE e \in M
        BY <1>8, <1>12, <1>16, <3>1, <4>2
      <4>3. CASE e \in hits
        <5>1. at[e] \in Slot /\ \A f \in M : v[f] # at[e]
          BY <1>8, <4>1, <4>3 DEF SeatsIn
        <5> QED  BY <1>8, <1>12, <1>16, <3>1, <4>3, <5>1
      <4> QED  BY <1>9, <4>1, <4>2, <4>3
    <3>2. CASE h = Other(g)
      <4>1. place[h][e] # NoSlot
        BY <1>16, <3>2
      <4>2. e \in group[h]
        BY <1>3, <4>1 DEF PlaceInv, SeatsOwned
      <4> QED  BY <1>6, <3>2, <4>2
    <3> QED  BY <1>4, <3>1, <3>2
  <2>2. MissesUntagged' /\ GetManyFinds'
    BY <1>2, <1>15, <1>20 DEF MissesUntagged, GetManyFinds
  <2> QED  BY <1>11, <2>1, <2>2 DEF TagInv
<1>22. ReadInv'
  BY <1>2, <1>20 DEF ReadInv
<1>23. ContentInv'
  <2> SUFFICES ASSUME ShortReadsSeen, NEW s \in Slot
               PROVE  tag'[s] = NoKey \/ content'[buffer[s]] = tag'[s]
    BY <1>2 DEF ContentInv
  <2>1. CASE \E e \in M : v[e] = s
    <3>1. PICK e \in M : v[e] = s
      BY <2>1
    <3>2. content'[buffer[v[e]]] = <<layer, e>>
      BY <1>14
    <3> QED  BY <1>12, <3>1, <3>2
  <2>2. CASE ~\E e \in M : v[e] = s
    <3>1. Reserved(0) = {} /\ Reserved(1) = {}
      BY <1>20, Constants DEF Reserved
    <3>2. tag[s] = NoKey \/ content[buffer[s]] = tag[s]
      BY <1>3, <3>1 DEF ContentInv
    <3> QED  BY <1>12, <1>14, <2>2, <3>2
  <2> QED  BY <2>1, <2>2
<1>24. ResultInv'
  <2>1. \A e \in Expert : result[e] # NotComputed => \A i \in Group : e \notin group[i]
    BY <1>2, <1>3 DEF ResultInv
  <2> QED  BY <1>2, <1>3, <1>15, <2>1 DEF ResultInv, OwnWeights
<1> QED
  BY <1>16, <1>17, <1>18, <1>19, <1>21, <1>22, <1>23, <1>24 DEF IInv

-------------------------------------------------------------------------------
(* The read workers. *)

LEMMA ReadStep ==
    ASSUME IInv, NEW g \in Group, NEW e \in Expert,
           read[g][e] \in {"queued", "reading"},
           NEW r \in {"reading", "done", "short"},
           NEW c \in Key \cup {NoKey}, r = "done" => c = <<layer, e>>,
           read' = [read EXCEPT ![g][e] = r],
           content' = [content EXCEPT ![buffer[place[g][e]]] = c],
           UNCHANGED <<tag, buffer, hashSlots, pc, callVars, rest, cur,
                       group, place, miss, async, result>>
    PROVE  IInv'
<1>1. /\ StateType /\ GroupInv /\ PlaceInv /\ TagInv /\ ReadInv /\ ContentInv
      /\ HashInv /\ BuffersDistinct /\ ResultInv /\ ResidentInv
  BY DEF IInv
<1>2. /\ UNCHANGED <<tag, buffer, hashSlots, pc, layer, kind, want, rest, cur,
                     group, place, miss, async, result>>
  BY DEF callVars
<1>3. /\ read \in [Group -> [Expert -> {"none", "queued", "reading", "done", "short"}]]
      /\ content \in [Mem -> Key \cup {NoKey}] /\ buffer \in [Slot -> Mem]
      /\ place \in [Group -> [Expert -> Slot \cup {NoSlot}]]
  BY <1>1 DEF StateType
<1>4. async[g] /\ e \in miss[g]
  BY <1>1 DEF ReadInv
<1> DEFINE s0 == place[g][e]
<1>5. s0 \in Slot /\ s0 # NoSlot
  <2>1. e \in group[g]
    BY <1>1, <1>4 DEF GroupInv
  <2>2. place[g][e] # NoSlot
    BY <1>1, <1>4, <2>1 DEF PlaceInv, SeatsTaken
  <2> QED  BY <1>3, <2>2
<1>6. \A h \in Group, f \in Expert :
         /\ h # g \/ f # e => read'[h][f] = read[h][f]
         /\ read'[g][e] = r
  BY <1>3
<1>7. read' \in [Group -> [Expert -> {"none", "queued", "reading", "done", "short"}]]
  <2>1. [read[g] EXCEPT ![e] = r] \in [Expert -> {"none", "queued", "reading", "done", "short"}]
    BY <1>3
  <2> QED  BY <1>3, <2>1
<1> HIDE DEF s0
<1>8. /\ content' \in [Mem -> Key \cup {NoKey}]
      /\ content'[buffer[s0]] = c
      /\ \A s \in Slot : s # s0 => content'[buffer[s]] = content[buffer[s]]
  <2>1. content' = [content EXCEPT ![buffer[s0]] = c] /\ buffer[s0] \in Mem
    BY <1>3, <1>5 DEF s0
  <2>2. \A s \in Slot : s # s0 => buffer[s] # buffer[s0] /\ buffer[s] \in Mem
    BY <1>1, <1>3, <1>5 DEF BuffersDistinct
  <2> DEFINE b == buffer[s0]
  <2>3. b \in Mem /\ content' = [content EXCEPT ![b] = c]
    BY <2>1
  <2>4. \A s \in Slot : s # s0 => buffer[s] # b /\ buffer[s] \in Mem
    BY <2>2
  <2> HIDE DEF b
  <2>5. content' \in [Mem -> Key \cup {NoKey}] /\ content'[b] = c
        /\ \A m \in Mem : m # b => content'[m] = content[m]
    BY <1>3, <2>3
  <2> QED  BY <2>4, <2>5 DEF b
<1>9. StateType' /\ HashInv' /\ BuffersDistinct' /\ ResidentInv'
  <2>1. HashInv' /\ BuffersDistinct'
    BY <1>1, <1>2 DEF HashInv, BuffersDistinct
  <2>2. StateType'
    BY <1>1, <1>2, <1>7, <1>8 DEF StateType
  <2>3. \A f : Holds(f)' = Holds(f)
    BY <1>2, TagsFixed
  <2>4. ResidentInv'
    BY <1>1, <1>2, <2>3 DEF ResidentInv
  <2> QED  BY <2>1, <2>2, <2>4
<1>10. GroupInv'
  <2>1. GroupSize' = GroupSize /\ Pipelined' = Pipelined
    BY <1>2, CallFixed
  <2> QED  BY <1>1, <1>2, <2>1 DEF GroupInv
<1>11. /\ Filling' = Filling /\ Owned' = Owned
       /\ \A f : Holds(f)' = Holds(f) /\ Find(f)' = Find(f)
  BY <1>2, TagsFixed DEF Filling, Owned
<1>12. PlaceInv'
  <2>1. \A h \in Group : Unplaced(h)' = Unplaced(h)
    BY <1>2, <1>11 DEF Unplaced
  <2> QED
    BY <1>1, <1>2, <1>11, <2>1 DEF PlaceInv, SeatsOwned, SeatsTaken, SeatsDistinct
<1>13. \A h \in Group : Reserved(h)' = Reserved(h)
  BY <1>2 DEF Reserved
<1>14. TagInv'
  <2>1. TagsOwned' /\ TagsDistinct'
    BY <1>1, <1>2, TagsFixed DEF TagInv
  <2>2. HitsTagged'
    BY <1>1, <1>2 DEF TagInv, HitsTagged
  <2>3. MissesUntagged'
    <3> SUFFICES ASSUME NEW i \in Group, NEW f \in Expert, NEW s \in Slot,
                        f \in miss[i], tag[s] = <<layer, f>>
                 PROVE  i # cur /\ s \in Reserved(cur)'
      BY <1>2 DEF MissesUntagged
    <3>1. PICK d \in Group : d = cur
      BY <1>1 DEF StateType
    <3>2. i # d /\ s \in Reserved(d)
      BY <1>1, <3>1 DEF TagInv, MissesUntagged
    <3> QED  BY <1>2, <1>13, <3>1, <3>2
  <2>4. GetManyFinds'
    <3>1. Pipelined' = Pipelined
      BY <1>2, CallFixed
    <3> QED  BY <1>1, <1>2, <1>11, <3>1 DEF TagInv, GetManyFinds
  <2> QED  BY <2>1, <2>2, <2>3, <2>4 DEF TagInv
<1>15. ReadInv'
  <2> SUFFICES ASSUME NEW h \in Group, NEW f \in Expert
               PROVE  /\ read'[h][f] # "none" => async[h] /\ f \in miss[h]
                      /\ read'[h][f] = "done" => content'[buffer[place[h][f]]] = <<layer, f>>
    BY <1>2 DEF ReadInv
  <2>1. CASE h = g /\ f = e
    BY <1>4, <1>6, <1>8, <2>1 DEF s0
  <2>2. CASE h # g \/ f # e
    <3>1. read'[h][f] = read[h][f]
      BY <1>6, <2>2
    <3>2. ASSUME read[h][f] = "done"
          PROVE  content'[buffer[place[h][f]]] = <<layer, f>>
      <4>1. async[h] /\ f \in miss[h] /\ content[buffer[place[h][f]]] = <<layer, f>>
        BY <1>1, <3>2 DEF ReadInv
      <4>2. f \in group[h] /\ place[h][f] # NoSlot
        BY <1>1, <4>1 DEF GroupInv, PlaceInv, SeatsTaken
      <4>3. place[h][f] # s0 /\ place[h][f] \in Slot
        BY <1>1, <1>3, <2>2, <4>2 DEF PlaceInv, SeatsDistinct, s0
      <4> QED  BY <1>8, <4>1, <4>3
    <3>3. read[h][f] # "none" => async[h] /\ f \in miss[h]
      BY <1>1 DEF ReadInv
    <3> QED  BY <3>1, <3>2, <3>3
  <2> QED  BY <2>1, <2>2
<1>16. ContentInv'
  <2> SUFFICES ASSUME ShortReadsSeen, NEW s \in Slot
               PROVE  tag[s] = NoKey \/ s \in (Reserved(0) \cup Reserved(1))'
                      \/ content'[buffer[s]] = tag[s]
    BY <1>2 DEF ContentInv
  <2>1. Reserved(0)' = Reserved(0) /\ Reserved(1)' = Reserved(1)
    BY <1>13, Constants
  <2>2. tag[s] = NoKey \/ s \in Reserved(0) \cup Reserved(1) \/ content[buffer[s]] = tag[s]
    BY <1>1 DEF ContentInv
  <2>3. s0 \in Reserved(g)
    BY <1>4 DEF Reserved, s0
  <2>4. s0 \in Reserved(0) \cup Reserved(1)
    BY <2>3 DEF Group
  <2> QED  BY <1>8, <2>1, <2>2, <2>4
<1>17. ResultInv'
  <2>1. ASSUME NEW f \in Expert, result[f] # NotComputed, f \in group[cur], f \in miss[cur]
        PROVE  read'[cur][f] = "done"
    <3>1. cur \in Group /\ read[cur][f] = "done"
      BY <1>1, <2>1 DEF ResultInv, StateType
    <3>2. cur # g \/ f # e
      BY <3>1
    <3> QED  BY <1>6, <3>1, <3>2
  <2>2. ShortReadsSeen => OwnWeights'
    BY <1>1, <1>2 DEF ResultInv, OwnWeights
  <2> QED  BY <1>1, <1>2, <2>1, <2>2 DEF ResultInv
<1> QED
  BY <1>9, <1>10, <1>12, <1>14, <1>15, <1>16, <1>17 DEF IInv

LEMMA ReadKeeps ==
    ASSUME IInv, NEW g \in Group, NEW e \in Expert, Reads(g, e)
    PROVE  IInv'
<1>1. /\ UNCHANGED <<tag, buffer, hashSlots, pc, callVars, rest, cur,
                     group, place, miss, async, result>>
  BY DEF Reads, StartRead, EndRead
<1>2. content \in [Mem -> Key \cup {NoKey}] /\ <<layer, e>> \in Key
  BY Constants DEF IInv, StateType
<1>3. CASE StartRead(g, e)
  <2>1. /\ read[g][e] = "queued" /\ read' = [read EXCEPT ![g][e] = "reading"]
        /\ content' = [content EXCEPT ![buffer[place[g][e]]] = NoKey]
    BY <1>3 DEF StartRead
  <2> QED  BY <1>1, <2>1, ReadStep
<1>4. CASE EndRead(g, e) /\ read' = [read EXCEPT ![g][e] = "done"]
           /\ content' = [content EXCEPT ![buffer[place[g][e]]] = <<layer, e>>]
  <2>1. read[g][e] = "reading"
    BY <1>4 DEF EndRead
  <2> QED  BY <1>1, <1>2, <1>4, <2>1, ReadStep
<1>5. CASE EndRead(g, e) /\ read' = [read EXCEPT ![g][e] = "short"] /\ content' = content
  <2>1. read[g][e] = "reading"
    BY <1>5 DEF EndRead
  <2> DEFINE b == buffer[place[g][e]]
             c == IF b \in Mem THEN content[b] ELSE NoKey
  <2>2. c \in Key \cup {NoKey} /\ content' = [content EXCEPT ![b] = c]
    BY <1>2, <1>5
  <2> HIDE DEF c
  <2> QED  BY <1>1, <1>5, <2>1, <2>2, ReadStep
<1> QED  BY <1>3, <1>4, <1>5 DEF Reads, EndRead

-------------------------------------------------------------------------------
(* Evaluation. *)

(* A hit is in a slot that holds its weights. *)
LEMMA HitWeights ==
    ASSUME IInv, pc # "getMany", NEW e \in group[cur], e \notin miss[cur]
    PROVE  Weights(e) \in Key \cup {NoKey} /\ (ShortReadsSeen => Weights(e) = <<layer, e>>)
<1>1. /\ StateType /\ GroupInv /\ PlaceInv /\ TagInv /\ ContentInv
  BY DEF IInv
<1>2. cur \in Group /\ e \in Expert /\ layer \in Layer
      /\ place \in [Group -> [Expert -> Slot \cup {NoSlot}]]
      /\ miss \in [Group -> SUBSET Expert]
      /\ buffer \in [Slot -> Mem] /\ content \in [Mem -> Key \cup {NoKey}]
  BY <1>1 DEF StateType
<1> DEFINE s == place[cur][e]
<1>3. s # NoSlot /\ s \in Slot
  <2>1. s # NoSlot
    BY <1>1, <1>2 DEF PlaceInv, SeatsTaken, Unplaced
  <2> QED  BY <1>2, <2>1
<1>4. tag[s] = <<layer, e>>
  BY <1>1, <1>2, <1>3 DEF TagInv, HitsTagged
<1>5. ASSUME NEW g \in Group  PROVE s \notin Reserved(g)
  <2> SUFFICES ASSUME s \in Reserved(g)  PROVE FALSE
    OBVIOUS
  <2>1. PICK f \in miss[g] : place[g][f] = s
    BY DEF Reserved
  <2>2. f \in Expert
    BY <1>2, <2>1
  <2>3. g = cur /\ f = e
    BY <1>1, <1>2, <1>3, <2>1, <2>2 DEF PlaceInv, SeatsDistinct
  <2> QED  BY <2>1, <2>3
<1>6. s \notin Reserved(0) /\ s \notin Reserved(1)
  BY <1>5, Constants
<1>7. <<layer, e>> # NoKey
  BY <1>2, Constants
<1>8. ShortReadsSeen => content[buffer[s]] = tag[s]
  BY <1>1, <1>3, <1>4, <1>6, <1>7 DEF ContentInv
<1>9. content[buffer[s]] \in Key \cup {NoKey}
  BY <1>2, <1>3
<1> QED  BY <1>4, <1>8, <1>9 DEF Weights

(* The weights of a miss whose read has ended whole. *)
LEMMA MissWeights ==
    ASSUME IInv, NEW e \in Expert, read[cur][e] = "done"
    PROVE  Weights(e) = <<layer, e>>
  BY DEF IInv, StateType, ReadInv, Weights

(* Steps that change nothing but pc and result. *)
LEMMA EvaluationStep ==
    ASSUME IInv, pc \in {"hits", "misses"}, pc' \in {"misses", "failed"}, async[cur],
           result' \in [Expert -> Key \cup {NoKey, NotComputed}], ResultInv',
           UNCHANGED <<cacheVars, hashSlots, callVars, rest, cur, groupVars>>
    PROVE  IInv'
<1>1. /\ StateType /\ GroupInv /\ PlaceInv /\ TagInv /\ ReadInv /\ ContentInv
      /\ HashInv /\ BuffersDistinct /\ ResidentInv
  BY DEF IInv
<1>2. /\ UNCHANGED <<tag, buffer, content, hashSlots, layer, kind, want, rest, cur,
                     group, place, miss, async, read>>
  BY DEF callVars, cacheVars, groupVars
<1>3. pc \notin {"idle", "first", "reduce", "next", "getMany", "serial"}
      /\ pc' \notin {"idle", "first", "reduce", "next", "getMany", "serial"}
  OBVIOUS
<1>4. StateType' /\ HashInv' /\ BuffersDistinct'
  BY <1>1, <1>2 DEF StateType, HashInv, BuffersDistinct, PC
<1>5. GroupInv'
  <2>1. GroupSize' = GroupSize /\ Pipelined' = Pipelined
    BY <1>2, CallFixed
  <2>2. Cardinality(want) <= GroupSize => rest = {}
    BY <1>1, <1>3 DEF GroupInv
  <2> QED  BY <1>1, <1>2, <1>3, <2>1, <2>2 DEF GroupInv
<1>6. PlaceInv'
  <2>1. Owned' = Owned
    BY <1>2 DEF Owned
  <2>2. \A g \in Group : ~Unplaced(g) /\ ~Unplaced(g)'
    BY <1>3 DEF Unplaced
  <2> QED  BY <1>1, <1>2, <2>1, <2>2 DEF PlaceInv, SeatsOwned, SeatsTaken, SeatsDistinct
<1>7. \A g \in Group : Reserved(g)' = Reserved(g)
  BY <1>2 DEF Reserved
<1>8. TagInv'
  <2>1. TagsOwned' /\ TagsDistinct'
    BY <1>1, <1>2, TagsFixed DEF TagInv
  <2>2. HitsTagged' /\ GetManyFinds'
    BY <1>1, <1>2, <1>3 DEF TagInv, HitsTagged, GetManyFinds
  <2>3. MissesUntagged'
    <3> SUFFICES ASSUME NEW i \in Group, NEW f \in Expert, NEW s \in Slot,
                        f \in miss[i], tag[s] = <<layer, f>>
                 PROVE  i # cur /\ s \in Reserved(cur)'
      BY <1>2 DEF MissesUntagged
    <3>1. PICK d \in Group : d = cur
      BY <1>1 DEF StateType
    <3>2. i # d /\ s \in Reserved(d)
      BY <1>1, <3>1 DEF TagInv, MissesUntagged
    <3> QED  BY <1>2, <1>7, <3>1, <3>2
  <2> QED  BY <2>1, <2>2, <2>3 DEF TagInv
<1>9. ReadInv'
  BY <1>1, <1>2 DEF ReadInv
<1>10. ContentInv'
  <2>1. Reserved(0)' = Reserved(0) /\ Reserved(1)' = Reserved(1)
    BY <1>7, Constants
  <2> QED  BY <1>1, <1>2, <2>1 DEF ContentInv
<1>11. ResidentInv'
  BY <1>1, <1>2, <1>3 DEF ResidentInv
<1> QED
  BY <1>4, <1>5, <1>6, <1>8, <1>9, <1>10, <1>11 DEF IInv

LEMMA ComputeHitsStep ==
    ASSUME IInv, ComputeHits
    PROVE  IInv'
<1> DEFINE hits == group[cur] \ miss[cur]
<1>1. /\ pc = "hits" /\ async[cur] /\ pc' = "misses"
      /\ result' = [e \in Expert |-> IF e \in hits THEN Weights(e) ELSE result[e]]
      /\ UNCHANGED <<cacheVars, hashSlots, callVars, rest, cur, groupVars>>
  BY DEF ComputeHits
<1>2. /\ StateType /\ GroupInv /\ ResultInv
  BY DEF IInv
<1>3. /\ UNCHANGED <<layer, want, rest, cur, group, miss, read>>
  BY <1>1 DEF callVars, groupVars
<1>4. /\ layer \in Layer /\ cur \in Group /\ group \in [Group -> SUBSET Expert]
      /\ result \in [Expert -> Key \cup {NoKey, NotComputed}]
  BY <1>2 DEF StateType
<1>5. hits \in SUBSET group[cur] /\ hits \in SUBSET Expert
  BY <1>4
<1>6. /\ \A e \in Expert : e \notin hits => result'[e] = result[e]
      /\ \A e \in hits : /\ result'[e] \in Key \cup {NoKey}
                         /\ ShortReadsSeen => result'[e] = <<layer, e>>
  <2>1. \A e \in hits : /\ Weights(e) \in Key \cup {NoKey}
                        /\ ShortReadsSeen => Weights(e) = <<layer, e>>
    BY <1>1, HitWeights
  <2> QED  BY <1>1, <1>5, <2>1
<1>7. \A w \in Key \cup {NoKey} : w # NotComputed
  BY StreamAssumption
<1>8. result' \in [Expert -> Key \cup {NoKey, NotComputed}]
  <2>1. result' = [e \in Expert |-> result'[e]]
    BY <1>1
  <2>2. \A e \in Expert : result'[e] \in Key \cup {NoKey, NotComputed}
    BY <1>4, <1>6, <1>7
  <2> QED  BY <2>1, <2>2
<1>9. ResultInv'
  <2>1. ShortReadsSeen => OwnWeights'
    BY <1>2, <1>3, <1>6 DEF ResultInv, OwnWeights
  <2>2. ASSUME NEW e \in Expert, result'[e] # NotComputed
        PROVE  /\ e \in want /\ e \notin rest
               /\ \A g \in Group :
                     e \in group[g] => g = cur /\ (e \in miss[cur] => e \notin hits)
               /\ e \notin hits => \A g \in Group : e \notin group[g]
    <3>1. CASE e \in hits
      <4>1. e \in want /\ e \notin rest
        BY <1>2, <1>4, <1>5, <3>1 DEF GroupInv
      <4>2. \A g \in Group : e \in group[g] => g = cur
        <5>1. group[0] \cap group[1] = {} /\ e \in group[cur]
          BY <1>2, <1>5, <3>1 DEF GroupInv
        <5> QED  BY <1>4, <5>1 DEF Group
      <4> QED  BY <3>1, <4>1, <4>2
    <3>2. CASE e \notin hits
      <4>1. result[e] # NotComputed
        BY <1>6, <2>2, <3>2
      <4> QED  BY <1>1, <1>2, <4>1 DEF ResultInv
    <3> QED  BY <3>1, <3>2
  <2>3. ASSUME NEW e \in Expert, result'[e] = NotComputed
        PROVE  result[e] = NotComputed /\ e \notin hits
    BY <1>6, <1>7, <2>3
  <2> HIDE DEF hits
  <2>4. \A e \in want : result'[e] = NotComputed => e \in rest \cup group[0] \cup group[1]
    BY <1>2, <2>3 DEF ResultInv, StateType
  <2>5. \A e \in group[cur] : result'[e] = NotComputed => e \in miss[cur]
    BY <1>4, <2>3 DEF hits
  <2>6. \A e \in Expert : result'[e] # NotComputed =>
          /\ e \in want /\ e \notin rest
          /\ \A g \in Group : e \in group[g] => g = cur /\ e \notin miss[cur]
    BY <2>2 DEF hits
  <2> QED  BY <1>1, <1>3, <2>1, <2>4, <2>5, <2>6 DEF ResultInv
<1> QED  BY <1>1, <1>8, <1>9, EvaluationStep

LEMMA ComputeMissStep ==
    ASSUME IInv, NEW e \in Expert, ComputeMiss(e)
    PROVE  IInv'
<1>1. /\ pc = "misses" /\ e \in miss[cur] /\ result[e] = NotComputed
      /\ UNCHANGED <<cacheVars, hashSlots, callVars, rest, cur, groupVars>>
      /\ \/ read[cur][e] = "done" /\ result' = [result EXCEPT ![e] = Weights(e)] /\ pc' = pc
         \/ pc' = "failed" /\ result' = result
  BY DEF ComputeMiss
<1>2. /\ StateType /\ GroupInv /\ ResultInv
  BY DEF IInv
<1>3. /\ UNCHANGED <<layer, want, rest, cur, group, miss, read>>
  BY <1>1 DEF callVars, groupVars
<1>4. /\ layer \in Layer /\ cur \in Group /\ group \in [Group -> SUBSET Expert]
      /\ result \in [Expert -> Key \cup {NoKey, NotComputed}]
      /\ <<layer, e>> \in Key /\ <<layer, e>> # NotComputed
  BY <1>2, Constants DEF StateType
<1>5. async[cur]
  BY <1>1, <1>2 DEF GroupInv
<1>6. CASE pc' = "failed" /\ result' = result
  <2>1. ResultInv'
    BY <1>1, <1>2, <1>3, <1>6 DEF ResultInv, OwnWeights
  <2> QED  BY <1>1, <1>4, <1>5, <1>6, <2>1, EvaluationStep
<1>7. CASE read[cur][e] = "done" /\ result' = [result EXCEPT ![e] = Weights(e)] /\ pc' = pc
  <2>1. Weights(e) = <<layer, e>>
    BY <1>7, MissWeights
  <2>2. \A f \in Expert : result'[f] = IF f = e THEN <<layer, e>> ELSE result[f]
    BY <1>4, <1>7, <2>1
  <2>3. result' \in [Expert -> Key \cup {NoKey, NotComputed}]
    BY <1>4, <1>7, <2>1
  <2>4. /\ e \in group[cur] /\ e \in want /\ e \notin rest
        /\ \A g \in Group : e \in group[g] => g = cur
    <3>1. group[0] \cap group[1] = {} /\ e \in group[cur]
          /\ group[cur] \subseteq want \ rest
      BY <1>1, <1>2, <1>4 DEF GroupInv
    <3> QED  BY <1>4, <3>1 DEF Group
  <2>5. ShortReadsSeen => OwnWeights'
    BY <1>2, <1>3, <2>2 DEF ResultInv, OwnWeights
  <2>6. ASSUME NEW f \in Expert, result'[f] # NotComputed
        PROVE  /\ f \in want /\ f \notin rest
               /\ \A g \in Group : f \in group[g] =>
                     g = cur /\ (f \in miss[cur] => read[cur][f] = "done")
    <3>1. CASE f = e
      BY <1>7, <2>4, <3>1
    <3>2. CASE f # e
      BY <1>2, <2>2, <2>6, <3>2 DEF ResultInv
    <3> QED  BY <3>1, <3>2
  <2>7. \A f \in Expert : result'[f] = NotComputed => result[f] = NotComputed
    BY <1>1, <2>2
  <2>8. \A f \in want : result'[f] = NotComputed => f \in rest \cup group[0] \cup group[1]
    BY <1>2, <2>7 DEF ResultInv, StateType
  <2>9. \A f \in group[cur] : result'[f] = NotComputed => f \in miss[cur]
    BY <1>1, <1>2, <1>4, <2>7 DEF ResultInv
  <2>10. ResultInv'
    BY <1>1, <1>3, <1>7, <2>5, <2>6, <2>8, <2>9 DEF ResultInv
  <2> QED  BY <1>1, <1>5, <1>7, <2>3, <2>10, EvaluationStep
<1> QED  BY <1>1, <1>6, <1>7

-------------------------------------------------------------------------------
(* The end of a group: its misses are published, its slots are free for the *)
(* next one.                                                                *)
LEMMA AdvanceStep ==
    ASSUME IInv, Advance, pc \in {"hits", "misses"},
           tag' = Tagged(place[cur], miss[cur]),
           \A e \in miss[cur] : read[cur][e] = "done",
           result' \in [Expert -> Key \cup {NoKey, NotComputed}],
           \A e \in group[cur] : /\ result'[e] # NotComputed
                                 /\ ShortReadsSeen => result'[e] = <<layer, e>>,
           \A e \in Expert : e \notin group[cur] => result'[e] = result[e],
           UNCHANGED <<buffer, content, hashSlots, callVars, rest>>
    PROVE  IInv'
<1>1. /\ StateType /\ GroupInv /\ PlaceInv /\ TagInv /\ ReadInv /\ ContentInv
      /\ HashInv /\ BuffersDistinct /\ ResultInv /\ ResidentInv
  BY DEF IInv
<1>2. PICK c \in Group : c = cur
  BY <1>1 DEF StateType
<1> DEFINE o == Other(c)
           S == group[c]
           M == miss[c]
           at == place[c]
<1>3. /\ o \in Group /\ o # c /\ \A h \in Group : h = c \/ h = o
      /\ 0 \in Group /\ 1 \in Group /\ Other(o) = c
  BY <1>2, Constants
<1>4. /\ UNCHANGED <<buffer, content, hashSlots, layer, kind, want, rest>>
  BY DEF callVars
<1>5. /\ layer \in Layer /\ group \in [Group -> SUBSET Expert]
      /\ miss \in [Group -> SUBSET Expert]
      /\ place \in [Group -> [Expert -> Slot \cup {NoSlot}]] /\ async \in [Group -> BOOLEAN]
      /\ read \in [Group -> [Expert -> {"none", "queued", "reading", "done", "short"}]]
      /\ rest \in SUBSET want /\ want \in SUBSET Expert
  BY <1>1 DEF StateType
<1>6. /\ group' = [group EXCEPT ![c] = {}] /\ place' = [place EXCEPT ![c] = NoPlace]
      /\ miss' = [miss EXCEPT ![c] = {}] /\ async' = [async EXCEPT ![c] = FALSE]
      /\ read' = [read EXCEPT ![c] = NoRead]
      /\ group[o] # {} => cur' = o /\ pc' = "next"
      /\ group[o] = {} => cur' = c /\ pc' = IF rest # {} THEN "first" ELSE "reduce"
  BY <1>2 DEF Advance
<1>7. /\ group'[c] = {} /\ place'[c] = NoPlace /\ miss'[c] = {} /\ async'[c] = FALSE
      /\ read'[c] = NoRead
      /\ group'[o] = group[o] /\ place'[o] = place[o] /\ miss'[o] = miss[o]
      /\ async'[o] = async[o] /\ read'[o] = read[o]
  BY <1>3, <1>5, <1>6
<1>8. pc \notin {"idle", "first", "reduce", "next", "getMany", "serial"}
      /\ pc' \notin {"idle", "getMany", "serial", "hits", "misses", "failed"}
  BY <1>6
<1>9. /\ \A e \in S : at[e] # NoSlot /\ at[e] \in Slot /\ at[e] \in Owned
      /\ M \in SUBSET S /\ S \in SUBSET Expert /\ S \in SUBSET (want \ rest)
      /\ group[o] \in SUBSET Expert /\ S \cap group[o] = {}
  <2>1. \A e \in S : at[e] # NoSlot
    BY <1>1, <1>2, <1>8 DEF PlaceInv, SeatsTaken, Unplaced
  <2>2. M \in SUBSET S /\ S \in SUBSET Expert /\ S \in SUBSET (want \ rest)
        /\ group[o] \in SUBSET Expert
    BY <1>1, <1>2, <1>3, <1>5 DEF GroupInv
  <2>3. \A e \in S : at[e] \in Slot /\ at[e] \in Owned
    BY <1>1, <1>2, <1>5, <2>1, <2>2 DEF PlaceInv, SeatsOwned
  <2>4. S \cap group[o] = {}
    <3>1. (c = 0 /\ o = 1) \/ (c = 1 /\ o = 0)
      BY <1>2, <1>3 DEF Group
    <3> QED  BY <1>1, <3>1 DEF GroupInv
  <2> QED  BY <2>1, <2>2, <2>3, <2>4
<1>10. \A e \in S, h \in Group, f \in Expert : place[h][f] = at[e] => h = c /\ f = e
  <2>1. SeatsDistinct
    BY <1>1 DEF PlaceInv
  <2> QED  BY <1>2, <1>9, <2>1 DEF SeatsDistinct
<1>11. Publishable(at, M)
  <2>1. \A e, f \in M : at[e] = at[f] => e = f
    BY <1>2, <1>9, <1>10
  <2>2. \A e \in M, s \in Slot : tag[s] # <<layer, e>>
    BY <1>1, <1>2, <1>9 DEF TagInv, MissesUntagged
  <2> QED  BY <1>9, <2>1, <2>2 DEF Publishable
<1>12. Published(at, M) /\ TagsOwned' /\ TagsDistinct'
  <2>1. tag' = Tagged(at, M)
    BY <1>2
  <2> HIDE DEF at, M
  <2> QED  BY <1>1, <1>4, <1>11, <2>1, TagStep DEF TagInv
<1>13. /\ tag' \in [Slot -> Key \cup {NoKey}]
       /\ \A e \in M : tag'[at[e]] = <<layer, e>>
       /\ \A s \in Slot : (\A e \in M : at[e] # s) => tag'[s] = tag[s]
  BY <1>12 DEF Published
<1>14. StateType'
  <2>1. /\ group' \in [Group -> SUBSET Expert] /\ miss' \in [Group -> SUBSET Expert]
        /\ place' \in [Group -> [Expert -> Slot \cup {NoSlot}]] /\ async' \in [Group -> BOOLEAN]
        /\ read' \in [Group -> [Expert -> {"none", "queued", "reading", "done", "short"}]]
    BY <1>5, <1>6 DEF NoPlace, NoRead
  <2>2. cur' \in Group /\ pc' \in PC
    BY <1>2, <1>3, <1>6 DEF PC
  <2> QED  BY <1>1, <1>4, <1>13, <2>1, <2>2 DEF StateType
<1>15. HashInv' /\ BuffersDistinct'
  BY <1>1, <1>4 DEF HashInv, BuffersDistinct
<1>16. GroupInv'
  <2>1. GroupSize' = GroupSize /\ Pipelined' = Pipelined
    BY <1>4, CallFixed
  <2>2. Cardinality(want) <= GroupSize => rest = {}
    BY <1>1, <1>8 DEF GroupInv
  <2>3. pc' \in {"first", "reduce"} => \A h \in Group : group'[h] = {}
    BY <1>3, <1>6, <1>7
  <2>4. pc' = "next" => group'[Other(cur')] = {}
    BY <1>3, <1>6, <1>7
  <2>5. group'[0] \cap group'[1] = {}
    BY <1>3, <1>7
  <2>6. \A h \in Group : group'[h] \subseteq want \ rest
    BY <1>1, <1>3, <1>7 DEF GroupInv
  <2>7. \A h \in Group : group'[h] = {} \/ Cardinality(group'[h]) <= GroupSize
    BY <1>1, <1>3, <1>7 DEF GroupInv
  <2>8. ~Pipelined => group'[Other(cur')] = {}
    <3>1. ~Pipelined => group[o] = {}
      BY <1>1, <1>2 DEF GroupInv
    <3> QED  BY <1>6, <1>7, <3>1
  <2>9. \A h \in Group : miss'[h] \subseteq group'[h] /\ (~async'[h] => miss'[h] = {})
    BY <1>1, <1>3, <1>7 DEF GroupInv
  <2>10. pc' = "reduce" => rest = {}
    BY <1>6
  <2>11. pc' = "first" => rest # {}
    BY <1>6
  <2>12. kind = "token" => Cardinality(want) = Topk
    BY <1>1, <1>8 DEF GroupInv
  <2> HIDE DEF o
  <2> QED
    BY <1>4, <1>8, <2>1, <2>2, <2>3, <2>4, <2>5, <2>6, <2>7, <2>8, <2>9, <2>10,
       <2>11, <2>12 DEF GroupInv
<1> HIDE DEF S, M, at
<1>17. PlaceInv'
  <2>1. Owned' = Owned
    BY <1>4 DEF Owned
  <2>2. \A e \in Expert : place'[c][e] = NoSlot
    BY <1>7 DEF NoPlace
  <2>3. SeatsOwned'
    <3> SUFFICES ASSUME NEW h \in Group, NEW e \in Expert, place'[h][e] # NoSlot
                 PROVE  e \in group'[h] /\ place'[h][e] \in Owned
      BY <2>1 DEF SeatsOwned
    <3>1. h = o /\ place'[h] = place[h] /\ group'[h] = group[h]
      BY <1>3, <1>7, <2>2
    <3> QED  BY <1>1, <3>1 DEF PlaceInv, SeatsOwned
  <2>4. SeatsTaken'
    <3> SUFFICES ASSUME NEW h \in Group, NEW e \in group'[h]  PROVE place'[h][e] # NoSlot
      BY <1>8 DEF SeatsTaken, Unplaced
    <3>1. h = o /\ place'[h] = place[h] /\ group'[h] = group[h]
      BY <1>3, <1>7
    <3> QED  BY <1>1, <1>8, <3>1 DEF PlaceInv, SeatsTaken, Unplaced
  <2>5. SeatsDistinct'
    <3> SUFFICES ASSUME NEW h \in Group, NEW i \in Group, NEW e \in Expert, NEW f \in Expert,
                        place'[h][e] = place'[i][f], place'[h][e] # NoSlot
                 PROVE  h = i /\ e = f
      BY DEF SeatsDistinct
    <3>1. h = o /\ i = o
      BY <1>3, <2>2
    <3>2. place[o][e] = place[o][f] /\ place[o][e] # NoSlot
      BY <1>7, <3>1
    <3> QED  BY <1>1, <1>3, <3>1, <3>2 DEF PlaceInv, SeatsDistinct
  <2> QED  BY <2>3, <2>4, <2>5 DEF PlaceInv
<1>18. Reserved(c)' = {} /\ Reserved(o)' = Reserved(o)
  BY <1>7 DEF Reserved
<1>19. \A e \in Expert, s \in Slot : s = place[o][e] => tag'[s] = tag[s]
  BY <1>3, <1>9, <1>10, <1>13
<1>20. TagInv'
  <2>1. HitsTagged'
    <3> SUFFICES ASSUME NEW h \in Group, NEW e \in Expert,
                        place'[h][e] # NoSlot, e \notin miss'[h]
                 PROVE  tag'[place'[h][e]] = <<layer, e>>
      BY <1>4 DEF HitsTagged
    <3>1. h = o /\ place'[h] = place[h] /\ miss'[h] = miss[h]
      BY <1>3, <1>7 DEF NoPlace
    <3>2. place[h][e] # NoSlot /\ e \notin miss[h]
      BY <3>1
    <3>3. tag[place[h][e]] = <<layer, e>>
      BY <1>1, <3>2 DEF TagInv, HitsTagged
    <3>4. place[h][e] \in Slot
      BY <1>5, <3>2
    <3> QED  BY <1>19, <3>1, <3>3, <3>4
  <2>2. MissesUntagged'
    <3> SUFFICES ASSUME NEW h \in Group, NEW e \in Expert, NEW s \in Slot,
                        e \in miss'[h], tag'[s] = <<layer, e>>
                 PROVE  FALSE
      BY <1>4 DEF MissesUntagged
    <3>1. h = o /\ e \in miss[o] /\ e \in group[o]
      BY <1>1, <1>3, <1>7 DEF GroupInv
    <3>2. CASE \E f \in M : at[f] = s
      <4>1. PICK f \in M : at[f] = s
        BY <3>2
      <4>2. <<layer, f>> = <<layer, e>>
        BY <1>13, <4>1
      <4>3. e \in S
        BY <1>9, <4>1, <4>2
      <4> QED  BY <1>9, <3>1, <4>3
    <3>3. CASE ~\E f \in M : at[f] = s
      <4>1. tag[s] = <<layer, e>>
        BY <1>13, <3>3
      <4>2. s \in Reserved(cur)
        BY <1>1, <1>3, <3>1, <4>1 DEF TagInv, MissesUntagged
      <4>3. \E f \in M : at[f] = s
        BY <1>2, <4>2 DEF Reserved, M, at
      <4> QED  BY <3>3, <4>3
    <3> QED  BY <3>2, <3>3
  <2>3. GetManyFinds'
    BY <1>8 DEF GetManyFinds
  <2> QED  BY <1>12, <2>1, <2>2, <2>3 DEF TagInv
<1>21. ReadInv'
  <2> SUFFICES ASSUME NEW h \in Group, NEW e \in Expert
               PROVE  /\ read'[h][e] # "none" => async'[h] /\ e \in miss'[h]
                      /\ read'[h][e] = "done" => content[buffer[place'[h][e]]] = <<layer, e>>
    BY <1>4 DEF ReadInv
  <2>1. CASE h = c
    BY <1>7, <2>1 DEF NoRead
  <2>2. CASE h = o
    <3>1. /\ place'[h] = place[h] /\ miss'[h] = miss[h]
          /\ async'[h] = async[h] /\ read'[h] = read[h]
      BY <1>7, <2>2
    <3> QED  BY <1>1, <3>1 DEF ReadInv
  <2> QED  BY <1>3, <2>1, <2>2
<1>22. ContentInv'
  <2> SUFFICES ASSUME ShortReadsSeen, NEW s \in Slot, s \notin Reserved(o), tag'[s] # NoKey
               PROVE  content[buffer[s]] = tag'[s]
    <3>1. Reserved(o) \subseteq (Reserved(0) \cup Reserved(1))'
      <4>1. (o = 0 \/ o = 1)
        BY <1>3 DEF Group
      <4>2. Reserved(o) \subseteq Reserved(0)' \/ Reserved(o) \subseteq Reserved(1)'
        BY <1>18, <4>1
      <4> QED  BY <4>2
    <3> QED  BY <1>4, <3>1 DEF ContentInv
  <2>1. CASE \E e \in M : at[e] = s
    <3>1. PICK e \in M : at[e] = s
      BY <2>1
    <3>2. e \in Expert /\ read[c][e] = "done"
      BY <1>2, <1>5, <3>1 DEF M
    <3>3. content[buffer[place[c][e]]] = <<layer, e>>
      BY <1>1, <3>2 DEF ReadInv
    <3>4. content[buffer[s]] = <<layer, e>>
      BY <3>1, <3>3 DEF at
    <3> QED  BY <1>13, <3>1, <3>4
  <2>2. CASE ~\E e \in M : at[e] = s
    <3>1. tag'[s] = tag[s]
      BY <1>13, <2>2
    <3>2. s \notin Reserved(c)
      BY <2>2 DEF Reserved, M, at
    <3>3. s \notin Reserved(0) /\ s \notin Reserved(1)
      <4>1. \A h \in Group : s \notin Reserved(h)
        BY <1>3, <3>2
      <4> QED  BY <1>3, <4>1
    <3> QED  BY <1>1, <3>1, <3>3 DEF ContentInv
  <2> QED  BY <2>1, <2>2
<1>23. /\ \A e \in S : /\ result'[e] # NotComputed
                        /\ ShortReadsSeen => result'[e] = <<layer, e>>
       /\ \A e \in Expert : e \notin S => result'[e] = result[e]
  BY <1>2 DEF S
<1>24. ResultInv'
  <2>1. ShortReadsSeen => OwnWeights'
    BY <1>1, <1>4, <1>23 DEF ResultInv, OwnWeights
  <2>2. ASSUME NEW e \in Expert, result'[e] # NotComputed
        PROVE  e \in want /\ e \notin rest /\ \A h \in Group : e \notin group'[h]
    <3>1. CASE e \in S
      BY <1>3, <1>7, <1>9, <3>1
    <3>2. CASE e \notin S
      <4>1. e \in want /\ e \notin rest /\ \A h \in Group : e \in group[h] => h = cur
        BY <1>1, <1>23, <2>2, <3>2 DEF ResultInv
      <4> QED  BY <1>2, <1>3, <1>7, <4>1
    <3> QED  BY <3>1, <3>2
  <2>3. ASSUME NEW e \in want, result'[e] = NotComputed
        PROVE  e \in rest \cup group'[0] \cup group'[1]
    <3>1. e \notin S /\ result[e] = NotComputed
      <4>1. e \in Expert
        BY <1>5
      <4>2. \A f \in S : result'[f] # NotComputed
        BY <1>2 DEF S
      <4>3. e \notin S
        BY <2>3, <4>2
      <4> QED  BY <1>23, <2>3, <4>1, <4>3
    <3>2. e \in rest \/ e \in group[0] \/ e \in group[1]
      BY <1>1, <3>1 DEF ResultInv
    <3>3. e \in rest \/ e \in group'[o]
      <4>1. (c = 0 /\ o = 1) \/ (c = 1 /\ o = 0)
        BY <1>2, <1>3 DEF Group
      <4> QED  BY <1>7, <3>1, <3>2, <4>1 DEF S
    <3>4. o = 0 \/ o = 1
      BY <1>3 DEF Group
    <3> QED  BY <3>3, <3>4
  <2> QED  BY <1>4, <1>8, <2>1, <2>2, <2>3 DEF ResultInv
<1>25. ResidentInv'
  <2> SUFFICES ASSUME kind = "token"
               PROVE  pc' # "next" /\ (pc' = "reduce" => \A e \in want : Holds(e)' # {})
    BY <1>4, <1>8 DEF ResidentInv
  <2>1. S = want
    BY <1>1, <1>2 DEF ResidentInv, S
  <2>2. group[o] = {}
    <3>1. group[o] \subseteq want
      BY <1>1, <1>3 DEF GroupInv
    <3> QED  BY <1>9, <2>1, <3>1
  <2>3. ASSUME NEW e \in want  PROVE Holds(e)' # {}
    <3>1. at[e] \in Slot /\ at[e] \in Owned /\ e \in Expert
      BY <1>9, <2>1
    <3>2. tag'[at[e]] = <<layer, e>>
      <4>1. CASE e \in M
        BY <1>13, <4>1
      <4>2. CASE e \notin M
        <5>1. tag[at[e]] = <<layer, e>>
          BY <1>1, <1>2, <1>9, <2>1, <3>1, <4>2 DEF TagInv, HitsTagged, at, M
        <5>2. \A f \in M : at[f] # at[e]
          BY <1>2, <1>9, <1>10, <2>1, <3>1, <4>2 DEF at
        <5> QED  BY <1>13, <3>1, <5>1, <5>2
      <4> QED  BY <4>1, <4>2
    <3>3. Owned' = Owned
      BY <1>4 DEF Owned
    <3>4. at[e] \in Holds(e)'
      BY <1>4, <3>1, <3>2, <3>3 DEF Holds
    <3> QED  BY <3>4
  <2> QED  BY <1>6, <2>2, <2>3
<1> QED
  BY <1>14, <1>15, <1>16, <1>17, <1>20, <1>21, <1>22, <1>24, <1>25 DEF IInv

LEMMA ComputeResidentStep ==
    ASSUME IInv, ComputeResident
    PROVE  IInv'
<1>1. /\ pc = "hits" /\ ~async[cur] /\ Advance
      /\ result' = [e \in Expert |-> IF e \in group[cur] THEN Weights(e) ELSE result[e]]
      /\ UNCHANGED <<tag, buffer, content, hashSlots, callVars, rest>>
  BY DEF ComputeResident
<1>2. /\ StateType /\ GroupInv
  BY DEF IInv
<1>3. /\ layer \in Layer /\ cur \in Group /\ tag \in [Slot -> Key \cup {NoKey}]
      /\ result \in [Expert -> Key \cup {NoKey, NotComputed}]
  BY <1>2 DEF StateType
<1>4. miss[cur] = {}
  BY <1>1, <1>2, <1>3 DEF GroupInv
<1>5. tag' = Tagged(place[cur], miss[cur])
  BY <1>1, <1>3, <1>4 DEF Tagged
<1>6. \A e \in group[cur] : /\ Weights(e) \in Key \cup {NoKey} /\ Weights(e) # NotComputed
                            /\ ShortReadsSeen => Weights(e) = <<layer, e>>
  BY <1>1, <1>4, HitWeights, StreamAssumption
<1>7. /\ \A e \in group[cur] : /\ result'[e] \in Key \cup {NoKey} /\ result'[e] # NotComputed
                               /\ ShortReadsSeen => result'[e] = <<layer, e>>
      /\ \A e \in Expert : e \notin group[cur] => result'[e] = result[e]
  <2>1. group[cur] \in SUBSET Expert
    BY <1>2, <1>3 DEF StateType
  <2> QED  BY <1>1, <1>6, <2>1
<1>8. result' \in [Expert -> Key \cup {NoKey, NotComputed}]
  <2>1. result' = [e \in Expert |-> result'[e]]
    BY <1>1
  <2>2. \A e \in Expert : result'[e] \in Key \cup {NoKey, NotComputed}
    BY <1>3, <1>7
  <2> QED  BY <2>1, <2>2
<1> QED  BY <1>1, <1>4, <1>5, <1>7, <1>8, AdvanceStep

LEMMA FinishGroupStep ==
    ASSUME IInv, FinishGroup
    PROVE  IInv'
<1>1. /\ pc = "misses" /\ Advance
      /\ \A e \in miss[cur] : result[e] # NotComputed
      /\ tag' = Tagged(place[cur], miss[cur])
      /\ UNCHANGED <<buffer, content, hashSlots, callVars, rest, result>>
  BY DEF FinishGroup
<1>2. /\ StateType /\ GroupInv /\ ResultInv
  BY DEF IInv
<1>3. /\ cur \in Group /\ group[cur] \in SUBSET Expert /\ miss[cur] \in SUBSET group[cur]
      /\ result \in [Expert -> Key \cup {NoKey, NotComputed}]
  BY <1>2 DEF StateType, GroupInv
<1>4. \A e \in group[cur] : result[e] # NotComputed
  BY <1>1, <1>2 DEF ResultInv
<1>5. \A e \in miss[cur] : read[cur][e] = "done"
  BY <1>2, <1>3, <1>4 DEF ResultInv
<1>6. ShortReadsSeen => \A e \in group[cur] : result[e] = <<layer, e>>
  BY <1>2, <1>3, <1>4 DEF ResultInv, OwnWeights
<1> QED  BY <1>1, <1>3, <1>4, <1>5, <1>6, AdvanceStep

LEMMA NoNextStep ==
    ASSUME IInv, NoNext
    PROVE  IInv'
<1>1. /\ pc = "next" /\ pc' = "hits"
      /\ UNCHANGED <<tag, buffer, content, hashSlots, layer, kind, want, rest, cur,
                     group, place, miss, async, read, result>>
  BY DEF NoNext, cacheVars, callVars, groupVars
<1>2. /\ StateType /\ GroupInv /\ PlaceInv /\ TagInv /\ ReadInv /\ ContentInv
      /\ HashInv /\ BuffersDistinct /\ ResultInv /\ ResidentInv
  BY DEF IInv
<1>3. StateType' /\ HashInv' /\ BuffersDistinct' /\ ReadInv' /\ ResidentInv'
  BY <1>1, <1>2 DEF StateType, HashInv, BuffersDistinct, PC, ReadInv, ResidentInv
<1>4. GroupInv'
  <2>1. GroupSize' = GroupSize /\ Pipelined' = Pipelined
    BY <1>1, CallFixed
  <2>2. Cardinality(want) <= GroupSize => rest = {}
    BY <1>1, <1>2 DEF GroupInv
  <2> QED  BY <1>1, <1>2, <2>1, <2>2 DEF GroupInv
<1>5. PlaceInv'
  <2>1. Owned' = Owned
    BY <1>1 DEF Owned
  <2>2. \A g \in Group : ~Unplaced(g) /\ ~Unplaced(g)'
    BY <1>1 DEF Unplaced
  <2> QED  BY <1>1, <1>2, <2>1, <2>2 DEF PlaceInv, SeatsOwned, SeatsTaken, SeatsDistinct
<1>6. \A g \in Group : Reserved(g)' = Reserved(g)
  BY <1>1 DEF Reserved
<1>7. TagInv'
  <2>1. TagsOwned' /\ TagsDistinct'
    BY <1>1, <1>2, TagsFixed DEF TagInv
  <2>2. HitsTagged' /\ GetManyFinds'
    BY <1>1, <1>2 DEF TagInv, HitsTagged, GetManyFinds
  <2>3. MissesUntagged'
    <3> SUFFICES ASSUME NEW i \in Group, NEW f \in Expert, NEW s \in Slot,
                        f \in miss[i], tag[s] = <<layer, f>>
                 PROVE  i # cur /\ s \in Reserved(cur)'
      BY <1>1 DEF MissesUntagged
    <3>1. PICK d \in Group : d = cur
      BY <1>2 DEF StateType
    <3>2. i # d /\ s \in Reserved(d)
      BY <1>2, <3>1 DEF TagInv, MissesUntagged
    <3> QED  BY <1>1, <1>6, <3>1, <3>2
  <2> QED  BY <2>1, <2>2, <2>3 DEF TagInv
<1>8. ContentInv'
  <2>1. Reserved(0)' = Reserved(0) /\ Reserved(1)' = Reserved(1)
    BY <1>6, Constants
  <2> QED  BY <1>1, <1>2, <2>1 DEF ContentInv
<1>9. ResultInv'
  <2>1. \A e \in Expert : result[e] # NotComputed => \A i \in Group : e \notin group[i]
    BY <1>1, <1>2 DEF ResultInv
  <2> QED  BY <1>1, <1>2, <2>1 DEF ResultInv, OwnWeights
<1> QED
  BY <1>2, <1>3, <1>4, <1>5, <1>7, <1>8, <1>9 DEF IInv

(* A call returns. *)
LEMMA ReturnStep ==
    ASSUME IInv, Return
    PROVE  IInv'
<1>1. /\ pc = "reduce" /\ pc' = "idle" /\ want' = {} /\ rest' = {} /\ result' = NoResult
      /\ UNCHANGED <<tag, buffer, content, hashSlots, layer, kind, cur,
                     group, place, miss, async, read>>
  BY DEF Return, cacheVars, groupVars
<1>2. /\ StateType /\ GroupInv /\ PlaceInv /\ TagInv /\ ReadInv /\ ContentInv
      /\ HashInv /\ BuffersDistinct
  BY DEF IInv
<1>3. \A g \in Group : group[g] = {} /\ ~Unplaced(g)
  BY <1>1, <1>2 DEF GroupInv, Unplaced
<1>4. \A g \in Group :
         /\ miss[g] = {} /\ \A e \in Expert : place[g][e] = NoSlot /\ read[g][e] = "none"
         /\ Reserved(g) = {}
  BY <1>2, <1>3, Empty0
<1>5. 0 \in Group /\ 1 \in Group /\ Other(cur) \in Group
  BY <1>2, Constants DEF StateType
<1>6. StateType'
  BY <1>1, <1>2 DEF StateType, NoResult, PC
<1>7. HashInv' /\ BuffersDistinct'
  BY <1>1, <1>2 DEF HashInv, BuffersDistinct
<1>8. GroupInv'
  BY <1>1, <1>3, <1>4, <1>5 DEF GroupInv
<1>9. PlaceInv'
  BY <1>1, <1>3, <1>4 DEF PlaceInv, SeatsOwned, SeatsTaken, SeatsDistinct, Unplaced
<1>10. TagInv'
  <2>1. TagsOwned' /\ TagsDistinct'
    BY <1>1, <1>2 DEF TagInv, TagsOwned, TagsDistinct
  <2> QED
    BY <1>1, <1>4, <2>1 DEF TagInv, HitsTagged, MissesUntagged, GetManyFinds
<1>11. ReadInv'
  BY <1>1, <1>4 DEF ReadInv
<1>12. ContentInv'
  BY <1>1, <1>2, <1>4, <1>5 DEF ContentInv
<1>13. ResultInv'
  <2>1. \A e \in Expert : result'[e] = NotComputed
    BY <1>1 DEF NoResult
  <2> QED  BY <1>1, <2>1 DEF ResultInv, OwnWeights
<1>14. ResidentInv'
  BY <1>1 DEF ResidentInv
<1> QED
  BY <1>6, <1>7, <1>8, <1>9, <1>10, <1>11, <1>12, <1>13, <1>14 DEF IInv

-------------------------------------------------------------------------------
(* A resize moves every buffer to one slot and keeps a tag only where its   *)
(* buffer comes along.                                                      *)
LEMMA ResizeStep ==
    ASSUME IInv, Resize
    PROVE  IInv'
<1>1. /\ pc = "idle" /\ HashMin
      /\ UNCHANGED <<content, pc, layer, kind, want, rest, cur,
                     group, place, miss, async, read, result>>
  BY DEF Resize, callVars, groupVars
<1>2. /\ StateType /\ GroupInv /\ PlaceInv /\ TagInv /\ ReadInv /\ ContentInv
      /\ HashInv /\ BuffersDistinct /\ ResultInv /\ ResidentInv
  BY DEF IInv
<1>3. PICK asked \in Topk..NExperts : \E from \in Bijection(Slot, Slot) :
         LET h == Min({asked, MaxHashSlots}) IN
         /\ hashSlots' = h /\ Reorder(h, from)
         /\ tag' = MovedTags(h, from) /\ buffer' = MovedBuffers(h, from)
  BY DEF Resize
<1> DEFINE h == Min({asked, MaxHashSlots})
<1>4. PICK from \in Bijection(Slot, Slot) :
         /\ hashSlots' = h /\ Reorder(h, from)
         /\ tag' = MovedTags(h, from) /\ buffer' = MovedBuffers(h, from)
  BY <1>3
<1>5. h \in Nat /\ h >= Topk /\ h <= MaxHashSlots
  <2>1. /\ asked \in Nat /\ asked >= Topk /\ MaxHashSlots \in Nat /\ MaxHashSlots >= Topk
        /\ Topk \in Nat
    BY <1>1, SizesAssumption, LargestPartition
  <2>2. h = IF asked <= MaxHashSlots THEN asked ELSE MaxHashSlots
    BY <2>1, MinOfTwo
  <2> QED  BY <2>1, <2>2
<1> HIDE DEF h
<1>6. /\ from \in [Slot -> Slot]
      /\ \A c, d \in Slot : from[c] = from[d] => c = d
  BY DEF Bijection, Injection, IsInjective
<1>7. /\ tag \in [Slot -> Key \cup {NoKey}] /\ buffer \in [Slot -> Mem]
      /\ \A s, t \in Slot : buffer[s] = buffer[t] => s = t
  BY <1>2 DEF StateType, BuffersDistinct
<1>8. /\ \A d \in Slot : tag'[d] = IF Kept(h, d) THEN tag[from[d]] ELSE NoKey
      /\ \A d \in Slot : buffer'[d] = buffer[from[d]]
  BY <1>4 DEF MovedTags, MovedBuffers
<1>9. \A d \in Slot : tag'[d] # NoKey => tag'[d] = tag[from[d]] /\ Kept(h, d)
  BY <1>8
<1>10. \A g \in Group : group[g] = {} /\ ~Unplaced(g)
  BY <1>1, <1>2 DEF GroupInv, Unplaced
<1>11. \A g \in Group :
         /\ miss[g] = {} /\ \A e \in Expert : place[g][e] = NoSlot /\ read[g][e] = "none"
         /\ Reserved(g) = {}
  BY <1>2, <1>10, Empty0
<1>12. StateType'
  <2>1. tag' \in [Slot -> Key \cup {NoKey}]
    <3>1. tag' = [d \in Slot |-> tag'[d]]
      BY <1>4 DEF MovedTags
    <3>2. \A d \in Slot : tag'[d] \in Key \cup {NoKey}
      BY <1>6, <1>7, <1>8
    <3> QED  BY <3>1, <3>2
  <2>2. buffer' \in [Slot -> Mem]
    <3>1. buffer' = [d \in Slot |-> buffer'[d]]
      BY <1>4 DEF MovedBuffers
    <3>2. \A d \in Slot : buffer'[d] \in Mem
      BY <1>6, <1>7, <1>8
    <3> QED  BY <3>1, <3>2
  <2> QED  BY <1>1, <1>2, <2>1, <2>2 DEF StateType
<1>13. HashInv'
  BY <1>4, <1>5 DEF HashInv
<1>14. GroupInv'
  <2>1. want' = {} /\ rest' = {}
    BY <1>1, <1>2 DEF GroupInv, StateType
  <2>2. 0 \in Group /\ 1 \in Group /\ Other(cur) \in Group
    BY <1>2, Constants DEF StateType
  <2> QED  BY <1>1, <1>10, <1>11, <2>1, <2>2 DEF GroupInv
<1>15. PlaceInv'
  BY <1>1, <1>10, <1>11 DEF PlaceInv, SeatsOwned, SeatsTaken, SeatsDistinct, Unplaced
<1>16. TagsOwned'
  <2> SUFFICES ASSUME NEW d \in Slot, tag'[d] # NoKey
               PROVE  d \in RangeOf(tag'[d][1], h)
    BY <1>4 DEF TagsOwned
  <2>1. PICK l \in Layer, s \in Slot : Keeps(h, l, d, s)
    BY <1>9 DEF Kept
  <2>2. from[d] = s
    BY <1>4, <2>1 DEF Reorder
  <2>3. d \in RangeOf(l, h) /\ tag[s][1] = l
    BY <2>1 DEF Keeps, TaggedBy
  <2> QED  BY <1>9, <2>2, <2>3
<1>17. TagsDistinct'
  <2> SUFFICES ASSUME NEW c \in Slot, NEW d \in Slot, tag'[c] = tag'[d], tag'[c] # NoKey
               PROVE  c = d
    BY DEF TagsDistinct
  <2>1. from[c] = from[d]
    BY <1>2, <1>6, <1>9 DEF TagInv, TagsDistinct
  <2> QED  BY <1>6, <2>1
<1>18. TagInv'
  BY <1>1, <1>11, <1>16, <1>17 DEF TagInv, HitsTagged, MissesUntagged, GetManyFinds
<1>19. ReadInv'
  BY <1>1, <1>11 DEF ReadInv
<1>20. ContentInv'
  <2> SUFFICES ASSUME ShortReadsSeen, NEW d \in Slot, tag'[d] # NoKey
               PROVE  content[buffer'[d]] = tag'[d]
    BY <1>1 DEF ContentInv
  <2>1. tag'[d] = tag[from[d]] /\ from[d] \in Slot /\ buffer'[d] = buffer[from[d]]
    BY <1>6, <1>8, <1>9
  <2>2. Reserved(0) = {} /\ Reserved(1) = {}
    BY <1>11, Constants
  <2> QED  BY <1>2, <2>1, <2>2 DEF ContentInv
<1>21. ResultInv'
  <2>1. ShortReadsSeen => OwnWeights'
    BY <1>1, <1>2 DEF ResultInv, OwnWeights
  <2> QED  BY <1>1, <1>2, <2>1 DEF ResultInv
<1>22. ResidentInv'
  BY <1>1 DEF ResidentInv
<1>23. BuffersDistinct'
  <2> SUFFICES ASSUME NEW c \in Slot, NEW d \in Slot, buffer'[c] = buffer'[d]  PROVE c = d
    BY DEF BuffersDistinct
  <2>1. from[c] = from[d]
    BY <1>6, <1>7, <1>8
  <2> QED  BY <1>6, <2>1
<1> QED
  BY <1>12, <1>13, <1>14, <1>15, <1>18, <1>19, <1>20, <1>21, <1>22, <1>23 DEF IInv

-------------------------------------------------------------------------------
(* Every step. *)

LEMMA StutterStep ==
    ASSUME IInv, UNCHANGED vars
    PROVE  IInv'
<1>1. UNCHANGED <<tag, buffer, content, hashSlots, pc, layer, kind, want, rest, cur,
                  group, place, miss, async, read, result>>
  BY DEF vars, cacheVars, callVars, groupVars
<1>2. /\ StateType' = StateType /\ HashInv' = HashInv
      /\ PlaceInv' = PlaceInv /\ ReadInv' = ReadInv
      /\ ResultInv' = ResultInv /\ ResidentInv' = ResidentInv
      /\ BuffersDistinct' = BuffersDistinct
      /\ TagInv' = TagInv /\ ContentInv' = ContentInv /\ GroupInv' = GroupInv
  <2>1. Owned' = Owned
    BY <1>1 DEF Owned
  <2>2. \A e : Holds(e)' = Holds(e) /\ Find(e)' = Find(e)
    BY <1>1, TagsFixed
  <2>3. Filling' = Filling
    BY <1>1 DEF Filling
  <2>4. \A g : Reserved(g)' = Reserved(g) /\ Unplaced(g)' = Unplaced(g)
    BY <1>1, <2>3 DEF Reserved, Unplaced
  <2>5. Reserved(cur)' = Reserved(cur)
    BY <1>1 DEF Reserved
  <2>6. GroupSize' = GroupSize /\ Pipelined' = Pipelined
    BY <1>1, CallFixed
  <2>7. StateType' = StateType /\ HashInv' = HashInv
    BY <1>1 DEF StateType, HashInv
  <2>8. PlaceInv' = PlaceInv
    BY <1>1, <2>1, <2>4 DEF PlaceInv, SeatsOwned, SeatsTaken, SeatsDistinct
  <2>9. ReadInv' = ReadInv /\ BuffersDistinct' = BuffersDistinct
    BY <1>1 DEF ReadInv, BuffersDistinct
  <2>10. ResultInv' = ResultInv
    BY <1>1 DEF ResultInv, OwnWeights
  <2>11. ResidentInv' = ResidentInv
    BY <1>1, <2>2 DEF ResidentInv
  <2>12. TagInv' = TagInv
    BY <1>1, <2>2, <2>3, <2>5, <2>6 DEF TagInv, TagsOwned, TagsDistinct, HitsTagged,
                                       MissesUntagged, GetManyFinds
  <2>13. ContentInv' = ContentInv
    BY <1>1, <2>4 DEF ContentInv
  <2>14. GroupInv' = GroupInv
    BY <1>1, <2>6 DEF GroupInv
  <2> QED  BY <2>7, <2>8, <2>9, <2>10, <2>11, <2>12, <2>13, <2>14
<1> QED  BY <1>2 DEF IInv

LEMMA NextKeeps ==
    ASSUME CacheHoldsToken, IInv, [Next]_vars
    PROVE  IInv'
<1>1. CASE CallToken \/ CallBatch
  BY <1>1, CallKeeps
<1>2. CASE BeginGroup
  BY <1>2, BeginReadsStep, BeginGetManyStep DEF BeginGroup
<1>3. CASE GetMany
  BY <1>3, GetManyResidentStep, GetManyLoadStep, NeverSerial DEF GetMany
<1>4. CASE NoNext
  BY <1>4, NoNextStep
<1>5. CASE Evaluate
  BY <1>5, ComputeResidentStep, ComputeHitsStep, ComputeMissStep DEF Evaluate
<1>6. CASE FinishGroup
  BY <1>6, FinishGroupStep
<1>7. CASE Return
  BY <1>7, ReturnStep
<1>8. CASE Resize
  BY <1>8, ResizeStep
<1>9. CASE \E g \in Group, e \in Expert : Reads(g, e)
  BY <1>9, ReadKeeps
<1>10. CASE Failed \/ UNCHANGED vars
  BY <1>10, StutterStep DEF Failed
<1> QED
  BY <1>1, <1>2, <1>3, <1>4, <1>5, <1>6, <1>7, <1>8, <1>9, <1>10 DEF Next, Inference

(* The invariant behind what follows: which slot every expert of the two    *)
(* groups is in, what the tags and the buffers say, and what was evaluated. *)
THEOREM StreamInvariant == CacheHoldsToken => (SafetySpec => []IInv)
<1> SUFFICES ASSUME CacheHoldsToken  PROVE SafetySpec => []IInv
  OBVIOUS
<1>1. IInv /\ [Next]_vars => IInv'
  BY NextKeeps
<1> QED  BY InitIInv, <1>1, PTL DEF SafetySpec

-------------------------------------------------------------------------------
(* What follows from it. *)

(* An expert is evaluated with its own weights, read to their end: no slot  *)
(* is overwritten while a group still reads it, no tag outlives its buffer, *)
(* and no expert is evaluated before its read is whole.                     *)
THEOREM StreamOwnWeights ==
    CacheHoldsToken /\ ShortReadsSeen => (SafetySpec => []OwnWeights)
<1> SUFFICES ASSUME CacheHoldsToken, ShortReadsSeen  PROVE SafetySpec => []OwnWeights
  OBVIOUS
<1>1. IInv => OwnWeights
  BY DEF IInv, ResultInv
<1>2. SafetySpec => []IInv
  BY StreamInvariant
<1> QED  BY <1>1, <1>2, PTL

(* A slot no read is reserved to overwrite holds what its tag says.         *)
THEOREM StreamTagsTrue ==
    CacheHoldsToken /\ ShortReadsSeen => (SafetySpec => []TagsTrue)
<1> SUFFICES ASSUME CacheHoldsToken, ShortReadsSeen  PROVE SafetySpec => []TagsTrue
  OBVIOUS
<1>1. IInv => TagsTrue
  BY DEF IInv, ContentInv, TagsTrue
<1>2. SafetySpec => []IInv
  BY StreamInvariant
<1> QED  BY <1>1, <1>2, PTL

(* The double buffer: no group reads or writes a slot the other one writes, *)
(* and the reads of a group write different slots.                          *)
THEOREM StreamGroupsDisjoint == CacheHoldsToken => (SafetySpec => []GroupsDisjoint)
<1> SUFFICES ASSUME CacheHoldsToken  PROVE SafetySpec => []GroupsDisjoint
  OBVIOUS
<1>1. ASSUME IInv  PROVE GroupsDisjoint
  <2>1. /\ SeatsTaken /\ SeatsDistinct
        /\ \A g \in Group : miss[g] \in SUBSET Expert /\ group[g] \in SUBSET Expert
    BY <1>1 DEF IInv, PlaceInv, StateType
  <2>2. ASSUME NEW g \in Group, NEW h \in Group, g # h
        PROVE  Reserved(g) \cap InUse(h) = {}
    <3> SUFFICES ASSUME NEW s \in Reserved(g), s \in InUse(h)  PROVE FALSE
      OBVIOUS
    <3>1. PICK e \in miss[g] : place[g][e] = s
      BY DEF Reserved
    <3>2. PICK f \in group[h] : place[h][f] = s
      BY DEF InUse
    <3>3. s # NoSlot
      BY DEF InUse
    <3>4. e \in Expert /\ f \in Expert
      BY <2>1, <3>1, <3>2
    <3> QED  BY <2>1, <2>2, <3>1, <3>2, <3>3, <3>4 DEF SeatsDistinct
  <2>3. ASSUME NEW g \in Group, async[g], NEW e \in group[g], NEW f \in group[g], e # f
        PROVE  place[g][e] # place[g][f]
    <3>1. place[g][e] # NoSlot /\ e \in Expert /\ f \in Expert
      BY <2>1, <2>3 DEF SeatsTaken
    <3> QED  BY <2>1, <2>3, <3>1 DEF SeatsDistinct
  <2>4. 0 \in Group /\ 1 \in Group /\ 0 # 1
    BY Constants
  <2>5. Reserved(0) \cap InUse(1) = {} /\ Reserved(1) \cap InUse(0) = {}
    BY <2>2, <2>4
  <2> QED  BY <2>3, <2>5 DEF GroupsDisjoint
<1>2. SafetySpec => []IInv
  BY StreamInvariant
<1> QED  BY <1>1, <1>2, PTL

(* An expert is in one slot of its layer's range at most, so that a read is *)
(* never repeated for what is there and no stale copy survives a resize.    *)
THEOREM StreamNoDuplicate == CacheHoldsToken => (SafetySpec => []NoDuplicate)
<1> SUFFICES ASSUME CacheHoldsToken  PROVE SafetySpec => []NoDuplicate
  OBVIOUS
<1>1. IInv => NoDuplicate
  BY DEF IInv, TagInv, TagsDistinct, NoDuplicate
<1>2. SafetySpec => []IInv
  BY StreamInvariant
<1> QED  BY <1>1, <1>2, PTL

(* When a call for one token returns, its experts are all resident, unless  *)
(* the cache is smaller than a token.                                       *)
THEOREM StreamTokenResident == SafetySpec => []TokenResident
<1>1. CASE CacheHoldsToken
  <2>1. IInv => TokenResident
    BY DEF IInv, ResidentInv, TokenResident
  <2>2. SafetySpec => []IInv
    BY <1>1, StreamInvariant
  <2> QED  BY <2>1, <2>2, PTL
<1>2. CASE ~CacheHoldsToken
  <2>1. TokenResident
    BY <1>2 DEF CacheHoldsToken, TokenResident
  <2> QED  BY <2>1, PTL
<1> QED  BY <1>1, <1>2

(* The buffers stay a permutation, whatever else happens. *)
BuffersInv == buffer \in [Slot -> Mem] /\ BuffersDistinct

(* However often the hash-routed layers' share is resized, no two slots     *)
(* come to share a buffer.                                                  *)
THEOREM StreamBuffersDistinct == SafetySpec => []BuffersDistinct
<1>1. Init => BuffersInv
  <2> SUFFICES ASSUME Init  PROVE BuffersInv
    OBVIOUS
  <2>1. buffer = [s \in Slot |-> s]
    BY DEF Init
  <2> QED  BY <2>1 DEF BuffersInv, BuffersDistinct, Mem
<1>2. BuffersInv /\ [Next]_vars => BuffersInv'
  <2> SUFFICES ASSUME BuffersInv, [Next]_vars  PROVE BuffersInv'
    OBVIOUS
  <2>1. CASE UNCHANGED buffer
    BY <2>1 DEF BuffersInv, BuffersDistinct
  <2>2. CASE Resize
    <3>1. PICK asked \in Topk..NExperts : \E from \in Bijection(Slot, Slot) :
             buffer' = MovedBuffers(Min({asked, MaxHashSlots}), from)
      BY <2>2 DEF Resize
    <3>2. PICK from \in Bijection(Slot, Slot) : buffer' = [d \in Slot |-> buffer[from[d]]]
      BY <3>1 DEF MovedBuffers
    <3>3. /\ from \in [Slot -> Slot]
          /\ \A c, d \in Slot : from[c] = from[d] => c = d
      BY DEF Bijection, Injection, IsInjective
    <3>4. buffer' \in [Slot -> Mem]
      BY <3>2, <3>3 DEF BuffersInv
    <3>5. ASSUME NEW c \in Slot, NEW d \in Slot, buffer'[c] = buffer'[d]  PROVE c = d
      <4>1. from[c] = from[d]
        BY <3>2, <3>3, <3>5 DEF BuffersInv, BuffersDistinct
      <4> QED  BY <3>3, <4>1
    <3> QED  BY <3>4, <3>5 DEF BuffersInv, BuffersDistinct
  <2>3. CASE Next /\ ~Resize
    <3>1. UNCHANGED buffer
      <4>1. CASE CallToken \/ CallBatch
        BY <4>1 DEF CallToken, CallBatch, Call, cacheVars
      <4>2. CASE BeginGroup
        BY <4>2 DEF BeginGroup, BeginReads, BeginGetMany, cacheVars
      <4>3. CASE GetMany
        BY <4>3 DEF GetMany, GetManyResident, GetManyLoad, GetManySerial, GetSerial, cacheVars
      <4>4. CASE NoNext \/ Return
        BY <4>4 DEF NoNext, Return, cacheVars
      <4>5. CASE Evaluate
        BY <4>5 DEF Evaluate, ComputeResident, ComputeHits, ComputeMiss, cacheVars
      <4>6. CASE FinishGroup
        BY <4>6 DEF FinishGroup
      <4>7. CASE \E g \in Group, e \in Expert : Reads(g, e)
        BY <4>7 DEF Reads, StartRead, EndRead
      <4>8. CASE Failed
        BY <4>8 DEF Failed, vars, cacheVars
      <4> QED
        BY <2>3, <4>1, <4>2, <4>3, <4>4, <4>5, <4>6, <4>7, <4>8 DEF Next, Inference
    <3> QED  BY <2>1, <3>1
  <2>4. CASE UNCHANGED vars
    BY <2>1, <2>4 DEF vars, cacheVars
  <2> QED  BY <2>2, <2>3, <2>4
<1>3. BuffersInv => BuffersDistinct
  BY DEF BuffersInv
<1> QED  BY <1>1, <1>2, <1>3, PTL DEF SafetySpec

(* The invariant of batches alone, which holds in any cache. *)
BatchInv ==
    /\ group \in [Group -> SUBSET Expert] /\ cur \in Group
    /\ want \in SUBSET Expert /\ rest \in SUBSET Expert /\ kind \in {"token", "batch"}
    /\ pc \in {"idle", "first", "reduce"} => \A g \in Group : group[g] = {}
    /\ kind = "batch" => /\ \A g \in Group : group[g] = {} \/ Cardinality(group[g]) <= GroupCap
                         /\ pc # "serial"

LEMMA BatchCap ==
    ASSUME want \in SUBSET Expert, kind \in {"token", "batch"}
    PROVE  /\ Capacity \in Nat /\ GroupCap \in Nat /\ GroupCap <= Capacity
           /\ GroupSize \in Nat /\ (kind = "batch" => GroupSize = GroupCap)
<1>1. Capacity \in Nat
  BY OwnedSlots, SubsetsFinite DEF Capacity
<1> QED  BY <1>1, GroupSizes

LEMMA BatchBegins ==
    ASSUME BatchInv, NEW g \in Group, group' = [group EXCEPT ![g] = NewGroup],
           rest' = rest \ NewGroup, pc' \in {AfterBegin(g), "getMany"},
           UNCHANGED <<hashSlots, layer, kind, want, cur>>
    PROVE  BatchInv'
<1>1. /\ group \in [Group -> SUBSET Expert] /\ cur \in Group
      /\ want \in SUBSET Expert /\ rest \in SUBSET Expert /\ kind \in {"token", "batch"}
      /\ kind = "batch" => \A h \in Group : group[h] = {} \/ Cardinality(group[h]) <= GroupCap
  BY DEF BatchInv
<1>2. NewGroup \in SUBSET rest /\ (kind = "batch" => Cardinality(NewGroup) <= GroupCap)
  <2>1. GroupSize \in Nat /\ (kind = "batch" => GroupSize = GroupCap)
    BY <1>1, BatchCap
  <2> QED  BY <1>1, <2>1, FirstOfSize DEF NewGroup
<1> DEFINE S == NewGroup
<1>3. S \in SUBSET Expert /\ group' = [group EXCEPT ![g] = S]
  BY <1>1, <1>2
<1> HIDE DEF S
<1>4. group' \in [Group -> SUBSET Expert]
      /\ \A h \in Group : group'[h] = IF h = g THEN S ELSE group[h]
  BY <1>1, <1>3
<1>5. GroupCap' = GroupCap
  BY CallFixed DEF GroupCap, FullGroup
<1>6. pc' \in {"next", "hits", "getMany"}
  BY DEF AfterBegin
<1>7. kind = "batch" => Cardinality(S) <= GroupCap
  BY <1>2 DEF S
<1>8. rest' \in SUBSET Expert
  BY <1>1
<1> QED  BY <1>1, <1>4, <1>5, <1>6, <1>7, <1>8 DEF BatchInv

LEMMA BatchNotSerial ==
    ASSUME BatchInv, kind = "batch"
    PROVE  ~GetManySerial
<1> SUFFICES ASSUME GetManySerial  PROVE FALSE
  OBVIOUS
<1> DEFINE S == group[Filling]
           none == {}
<1>1. Cardinality(S \ Hits(S, none)) > Cardinality(Free(S, none))
  BY DEF GetManySerial
<1>2. Filling \in Group
  BY Constants DEF BatchInv, Filling
<1>3. S \in SUBSET Expert /\ (S = {} \/ Cardinality(S) <= GroupCap)
  BY <1>2 DEF BatchInv
<1>4. GroupCap \in Nat /\ GroupCap <= Capacity /\ Capacity \in Nat
  BY BatchCap DEF BatchInv
<1> HIDE DEF S
<1>5. Cardinality(S) \in Nat /\ Cardinality({}) = 0
  BY <1>3, SubsetsFinite, FS_EmptySet
<1>6. none \in SUBSET Slot /\ Cardinality(S) + Cardinality(none) <= Capacity
  BY <1>3, <1>4, <1>5
<1>7. Free(S, none) \in SUBSET Slot /\ S \ Hits(S, none) \in SUBSET Expert
  BY <1>3, OwnedSlots DEF Free
<1> HIDE DEF none
<1>8. Cardinality(S \ Hits(S, none)) <= Cardinality(Free(S, none))
  BY <1>3, <1>6, EnoughFree
<1>9. Cardinality(S \ Hits(S, none)) \in Nat /\ Cardinality(Free(S, none)) \in Nat
  BY <1>7, SubsetsFinite
<1> QED  BY <1>1, <1>8, <1>9

LEMMA BatchStays ==
    ASSUME BatchInv, UNCHANGED <<hashSlots, layer, kind, want, rest, cur, group>>,
           pc' \in {"idle", "first", "reduce"} => pc \in {"idle", "first", "reduce"},
           kind = "batch" => pc' # "serial"
    PROVE  BatchInv'
<1>1. GroupCap' = GroupCap
  BY CallFixed DEF GroupCap, FullGroup
<1> QED  BY <1>1 DEF BatchInv

LEMMA BatchEmpty ==
    ASSUME BatchInv, \A g \in Group : group[g] = {}, UNCHANGED <<group>>, cur' \in Group,
           want' \in SUBSET Expert, rest' \in SUBSET Expert, kind' \in {"token", "batch"},
           pc' # "serial"
    PROVE  BatchInv'
  BY DEF BatchInv

LEMMA BatchAdvances ==
    ASSUME BatchInv, Advance, UNCHANGED <<hashSlots, callVars, rest>>
    PROVE  BatchInv'
<1>1. /\ group \in [Group -> SUBSET Expert] /\ cur \in Group
      /\ kind = "batch" => \A h \in Group : group[h] = {} \/ Cardinality(group[h]) <= GroupCap
  BY DEF BatchInv
<1>2. Other(cur) \in Group /\ \A h \in Group : h = cur \/ h = Other(cur)
  BY <1>1, Constants
<1>3. /\ group' = [group EXCEPT ![cur] = {}]
      /\ group[Other(cur)] # {} => cur' = Other(cur) /\ pc' = "next"
      /\ group[Other(cur)] = {} => cur' = cur /\ pc' \in {"first", "reduce"}
  BY DEF Advance
<1>4. group' \in [Group -> SUBSET Expert]
      /\ \A h \in Group : group'[h] = IF h = cur THEN {} ELSE group[h]
  BY <1>1, <1>3
<1>5. pc' \in {"idle", "first", "reduce"} => \A g \in Group : group'[g] = {}
  BY <1>2, <1>3, <1>4
<1>6. GroupCap' = GroupCap
  BY CallFixed DEF GroupCap, FullGroup, callVars
<1>7. cur' \in Group /\ pc' # "serial"
  BY <1>1, <1>2, <1>3
<1> QED  BY <1>1, <1>4, <1>5, <1>6, <1>7 DEF BatchInv, callVars

(* The groups of a batch are never larger than what its layer owns, however *)
(* small the cache, so that its experts never go through expert_get one by  *)
(* one.                                                                     *)
THEOREM StreamBatchNeverSerial == SafetySpec => []BatchNeverSerial
<1>1. Init => BatchInv
  <2> SUFFICES ASSUME Init  PROVE BatchInv
    OBVIOUS
  <2>1. /\ group = [g \in Group |-> {}] /\ cur = 0 /\ want = {} /\ rest = {}
        /\ kind = "token" /\ pc = "idle"
    BY DEF Init
  <2> QED  BY <2>1, Constants DEF BatchInv
<1>2. BatchInv /\ [Next]_vars => BatchInv'
  <2> SUFFICES ASSUME BatchInv, [Next]_vars  PROVE BatchInv'
    OBVIOUS
  <2>0. /\ group \in [Group -> SUBSET Expert] /\ cur \in Group
        /\ want \in SUBSET Expert /\ rest \in SUBSET Expert /\ kind \in {"token", "batch"}
        /\ pc \in {"idle", "first", "reduce"} => \A g \in Group : group[g] = {}
        /\ kind = "batch" => pc # "serial"
    BY DEF BatchInv
  <2>1. CASE CallToken \/ CallBatch
    <3>1. PICK l \in Layer, k \in {"token", "batch"}, E \in SUBSET Expert, R \in SUBSET Expert :
              Call(l, k, E, R)
      BY <2>1 DEF CallToken, CallBatch
    <3>2. /\ pc = "idle" /\ pc' = "first" /\ kind' = k /\ want' = E /\ rest' = E /\ cur' = 0
          /\ UNCHANGED group
      BY <3>1 DEF Call, groupVars
    <3>3. cur' \in Group
      BY <3>2, Constants
    <3> QED  BY <2>0, <3>2, <3>3, BatchEmpty
  <2>2. CASE BeginGroup
    <3>1. PICK g \in Group : BeginReads(g) \/ BeginGetMany(g)
      BY <2>2 DEF BeginGroup
    <3>2. /\ group' = [group EXCEPT ![g] = NewGroup] /\ rest' = rest \ NewGroup
          /\ pc' \in {AfterBegin(g), "getMany"}
          /\ UNCHANGED <<hashSlots, layer, kind, want, cur>>
      BY <3>1 DEF BeginReads, BeginGetMany, SetGroup, callVars
    <3> QED  BY <3>2, BatchBegins
  <2>3. CASE GetMany
    <3>1. UNCHANGED <<hashSlots, layer, kind, want, rest, cur, group>>
      BY <2>3 DEF GetMany, GetManyResident, GetManyLoad, GetManySerial, GetSerial,
                  cacheVars, callVars
    <3>2. pc' \in {"next", "hits", "serial", "failed"}
      BY <2>3 DEF GetMany, GetManyResident, GetManyLoad, GetManySerial, GetSerial, AfterBegin
    <3>3. kind = "batch" => pc' # "serial"
      <4>1. kind = "batch" => GetManyResident \/ GetManyLoad
        BY <2>0, <2>3, BatchNotSerial DEF GetMany, GetSerial
      <4> QED  BY <4>1 DEF GetManyResident, GetManyLoad, AfterBegin
    <3> QED  BY <3>1, <3>2, <3>3, BatchStays
  <2>4. CASE NoNext \/ ComputeHits \/ \E e \in Expert : ComputeMiss(e)
    <3>1. /\ UNCHANGED <<hashSlots, layer, kind, want, rest, cur, group>>
          /\ pc' \in {"hits", "misses", "failed"}
      BY <2>4 DEF NoNext, ComputeHits, ComputeMiss, callVars, groupVars
    <3> QED  BY <3>1, BatchStays
  <2>5. CASE ComputeResident \/ FinishGroup
    <3>1. Advance /\ UNCHANGED <<hashSlots, callVars, rest>>
      BY <2>5 DEF ComputeResident, FinishGroup
    <3> QED  BY <3>1, BatchAdvances
  <2>6. CASE Return
    <3>1. /\ pc = "reduce" /\ pc' = "idle" /\ want' = {} /\ rest' = {}
          /\ UNCHANGED <<kind, cur, group>>
      BY <2>6 DEF Return, groupVars
    <3> QED  BY <2>0, <3>1, BatchEmpty
  <2>7. CASE Resize
    <3>1. /\ pc = "idle" /\ UNCHANGED <<pc, kind, want, rest, cur, group>>
      BY <2>7 DEF Resize, callVars, groupVars
    <3> QED  BY <2>0, <3>1, BatchEmpty
  <2>8. CASE \E g \in Group, e \in Expert : Reads(g, e)
    <3>1. UNCHANGED <<hashSlots, layer, kind, want, rest, cur, group, pc>>
      BY <2>8 DEF Reads, StartRead, EndRead, callVars
    <3> QED  BY <2>0, <3>1, BatchStays
  <2>9. CASE Failed \/ UNCHANGED vars
    <3>1. UNCHANGED <<hashSlots, layer, kind, want, rest, cur, group, pc>>
      BY <2>9 DEF Failed, vars, callVars, groupVars
    <3> QED  BY <2>0, <3>1, BatchStays
  <2> QED
    BY <2>1, <2>2, <2>3, <2>4, <2>5, <2>6, <2>7, <2>8, <2>9 DEF Next, Inference, Evaluate
<1>3. BatchInv => BatchNeverSerial
  BY DEF BatchInv, BatchNeverSerial
<1> QED  BY <1>1, <1>2, <1>3, PTL DEF SafetySpec

-------------------------------------------------------------------------------
(* The refinement of the evaluation of a layer. *)

LayerVars == <<LayerMode, layer, want, result>>

(* A call asks for one expert at least, and finds no answer left over. *)
LEMMA CallsLayer ==
    ASSUME IInv, CallToken \/ CallBatch
    PROVE  Layers!Call
<1>1. StateType /\ GroupInv /\ ResultInv
  BY DEF IInv
<1>2. PICK l \in Layer, E \in SUBSET Expert, R \in SUBSET Expert, k \in {"token", "batch"} :
          Cardinality(E) >= Topk /\ Call(l, k, E, R)
  <2>1. CASE CallToken
    <3>1. PICK l \in Layer, E \in SUBSET Expert :
              Cardinality(E) = Topk /\ Call(l, "token", E, {})
      BY <2>1 DEF CallToken
    <3>2. {} \in SUBSET Expert /\ Cardinality(E) >= Topk
      BY <3>1, SizesAssumption
    <3> QED  BY <3>1, <3>2
  <2>2. CASE CallBatch
    <3>1. PICK l \in Layer, E \in SUBSET Expert : \E R \in SUBSET E :
              Cardinality(E) >= Topk /\ Call(l, "batch", E, R)
      BY <2>2 DEF CallBatch
    <3>2. PICK R \in SUBSET E : Cardinality(E) >= Topk /\ Call(l, "batch", E, R)
      BY <3>1
    <3>3. R \in SUBSET Expert
      BY <3>1, <3>2
    <3> QED  BY <3>1, <3>2, <3>3
  <2> QED  BY <2>1, <2>2
<1>3. /\ pc = "idle" /\ pc' = "first" /\ layer' = l /\ want' = E /\ result' = NoResult
  BY <1>2 DEF Call
<1>4. E # {}
  <2>1. Cardinality({}) = 0 /\ Topk \in Nat /\ Topk > 0
    BY FS_EmptySet, SizesAssumption
  <2> QED  BY <1>2, <2>1
<1>5. result = NoResult
  <2>1. \A e \in Expert : result[e] = NotComputed
    BY <1>1, <1>3 DEF GroupInv, ResultInv
  <2> QED  BY <1>1, <2>1 DEF StateType, NoResult
<1> QED  BY <1>2, <1>3, <1>4, <1>5 DEF Layers!Call, LayerMode

(* A step that gives each expert of S its own weights evaluates S. *)
LEMMA EvaluatesLayer ==
    ASSUME NEW S \in SUBSET Expert, pc \notin {"idle", "failed"}, pc' \notin {"idle", "failed"},
           \A e \in S : e \in want /\ result[e] = NotComputed,
           result \in [Expert -> Key \cup {NoKey, NotComputed}],
           result' = [e \in Expert |-> IF e \in S THEN <<layer, e>> ELSE result[e]],
           UNCHANGED <<layer, want>>
    PROVE  Layers!Next \/ UNCHANGED LayerVars
<1>1. LayerMode = "busy" /\ LayerMode' = "busy"
  BY DEF LayerMode
<1>2. CASE S = {}
  <2>1. result' = result
    BY <1>2
  <2> QED  BY <1>1, <2>1 DEF LayerVars
<1>3. CASE S # {}
  <2>1. S \in (SUBSET Layers!Waiting) \ {{}}
    BY <1>3 DEF Layers!Waiting
  <2> QED  BY <1>1, <2>1 DEF Layers!Next, Layers!Evaluate
<1> QED  BY <1>2, <1>3

(* The experts of the group being evaluated wait for it. *)
LEMMA GroupWaits ==
    ASSUME IInv, pc = "hits", NEW e \in group[cur]
    PROVE  e \in Expert /\ e \in want /\ result[e] = NotComputed
<1>1. StateType /\ GroupInv /\ ResultInv
  BY DEF IInv
<1>2. cur \in Group /\ group[cur] \in SUBSET Expert
  BY <1>1 DEF StateType
<1>3. e \in want
  BY <1>1, <1>2 DEF GroupInv
<1>4. result[e] = NotComputed
  BY <1>1, <1>2 DEF ResultInv
<1> QED  BY <1>2, <1>3, <1>4

LEMMA EvaluateServes ==
    ASSUME ShortReadsSeen, IInv, Evaluate
    PROVE  Layers!Next \/ UNCHANGED LayerVars
<1>1. StateType /\ GroupInv /\ ResultInv
  BY DEF IInv
<1>2. /\ cur \in Group /\ group[cur] \in SUBSET Expert /\ miss[cur] \in SUBSET group[cur]
      /\ result \in [Expert -> Key \cup {NoKey, NotComputed}]
  BY <1>1 DEF StateType, GroupInv
<1>3. CASE ComputeResident
  <2> DEFINE S == group[cur]
  <2>1. /\ pc = "hits" /\ ~async[cur] /\ UNCHANGED <<layer, want>>
        /\ result' = [e \in Expert |-> IF e \in S THEN Weights(e) ELSE result[e]]
    BY <1>3 DEF ComputeResident, callVars
  <2>2. pc' \notin {"idle", "failed"}
    BY <1>3 DEF ComputeResident, Advance
  <2>3. \A e \in S : Weights(e) = <<layer, e>>
    <3>1. \A e \in S : e \notin miss[cur]
      BY <1>1, <1>2, <2>1 DEF GroupInv
    <3> QED  BY <2>1, <3>1, HitWeights
  <2>4. result' = [e \in Expert |-> IF e \in S THEN <<layer, e>> ELSE result[e]]
    BY <2>1, <2>3
  <2>5. \A e \in S : e \in want /\ result[e] = NotComputed
    BY <2>1, GroupWaits
  <2> QED  BY <1>2, <2>1, <2>2, <2>4, <2>5, EvaluatesLayer
<1>4. CASE ComputeHits
  <2> DEFINE S == group[cur] \ miss[cur]
  <2>1. /\ pc = "hits" /\ pc' = "misses" /\ UNCHANGED <<layer, want>>
        /\ result' = [e \in Expert |-> IF e \in S THEN Weights(e) ELSE result[e]]
    BY <1>4 DEF ComputeHits, callVars
  <2>2. \A e \in S : Weights(e) = <<layer, e>>
    BY <2>1, HitWeights
  <2>3. result' = [e \in Expert |-> IF e \in S THEN <<layer, e>> ELSE result[e]]
    BY <2>1, <2>2
  <2>4. \A e \in S : e \in want /\ result[e] = NotComputed
    BY <2>1, GroupWaits
  <2>5. S \in SUBSET Expert
    BY <1>2
  <2> HIDE DEF S
  <2> QED  BY <1>2, <2>1, <2>3, <2>4, <2>5, EvaluatesLayer
<1>5. ASSUME NEW e \in Expert, ComputeMiss(e)
      PROVE  Layers!Next \/ UNCHANGED LayerVars
  <2>1. /\ pc = "misses" /\ e \in miss[cur] /\ result[e] = NotComputed
        /\ UNCHANGED <<layer, want>>
        /\ \/ read[cur][e] = "done" /\ result' = [result EXCEPT ![e] = Weights(e)] /\ pc' = pc
           \/ pc' = "failed" /\ result' = result
    BY <1>5 DEF ComputeMiss, callVars
  <2>2. CASE /\ read[cur][e] = "done" /\ pc' = pc
             /\ result' = [result EXCEPT ![e] = Weights(e)]
    <3>1. Weights(e) = <<layer, e>>
      BY <2>2, MissWeights
    <3>2. result' = [f \in Expert |-> IF f \in {e} THEN <<layer, f>> ELSE result[f]]
      BY <1>2, <2>2, <3>1
    <3>3. e \in want
      BY <1>1, <1>2, <2>1 DEF GroupInv
    <3>4. \A f \in {e} : f \in want /\ result[f] = NotComputed
      BY <2>1, <3>3
    <3>5. {e} \in SUBSET Expert /\ pc \notin {"idle", "failed"} /\ pc' \notin {"idle", "failed"}
      BY <2>1, <2>2
    <3> QED  BY <1>2, <2>1, <3>2, <3>4, <3>5, EvaluatesLayer
  <2>3. CASE pc' = "failed" /\ result' = result
    BY <2>1, <2>3 DEF Layers!Next, Layers!Fail, LayerMode
  <2> QED  BY <2>1, <2>2, <2>3
<1> QED  BY <1>3, <1>4, <1>5 DEF Evaluate

(* A call returns once every expert it asked for has its weights. *)
LEMMA ReturnServes ==
    ASSUME IInv, Return
    PROVE  Layers!Return
<1>1. StateType /\ GroupInv /\ ResultInv
  BY DEF IInv
<1>2. pc = "reduce" /\ pc' = "idle" /\ want' = {} /\ result' = NoResult /\ layer' = layer
  BY DEF Return
<1>3. group[0] = {} /\ group[1] = {} /\ rest = {}
  BY <1>1, <1>2 DEF GroupInv, Group
<1>4. Layers!Waiting = {}
  BY <1>1, <1>3 DEF ResultInv, Layers!Waiting
<1> QED  BY <1>2, <1>4 DEF Layers!Return, LayerMode, NoResult

(* Seen from the layer, caches, groups and reads are one evaluation: every  *)
(* expert of the call gets its own weights once, the call returns when all  *)
(* have them, and otherwise ends only with the process.                     *)
THEOREM StreamImplementsLayer ==
    CacheHoldsToken /\ ShortReadsSeen => (SafetySpec => ImplementsLayerSafety)
<1> SUFFICES ASSUME CacheHoldsToken, ShortReadsSeen
             PROVE  SafetySpec => ImplementsLayerSafety
  OBVIOUS
<1>1. Init => Layers!Init
  <2>1. 0 \in Layer
    BY SizesAssumption DEF Layer
  <2> QED  BY <2>1 DEF Init, NoResult, LayerMode, Layers!Init
<1>2. IInv /\ [Next]_vars => [Layers!Next]_(Layers!vars)
  <2> SUFFICES ASSUME IInv, [Next]_vars
               PROVE  Layers!Next \/ UNCHANGED LayerVars
    BY DEF LayerVars, Layers!vars
  <2>1. CASE CallToken \/ CallBatch
    BY <2>1, CallsLayer DEF Layers!Next
  <2>2. CASE BeginGroup
    <3>1. PICK g \in Group : BeginReads(g) \/ BeginGetMany(g)
      BY <2>2 DEF BeginGroup
    <3>2. UNCHANGED <<layer, want, result>>
          /\ pc \in {"first", "next"} /\ pc' \in {"next", "hits", "getMany"}
      BY <3>1 DEF BeginReads, BeginGetMany, Turn, AfterBegin, callVars
    <3> QED  BY <3>2 DEF LayerVars, LayerMode
  <2>3. CASE GetMany
    <3>1. GetManyResident \/ GetManyLoad
      BY <2>3, NeverSerial DEF GetMany
    <3>2. UNCHANGED <<layer, want, result>>
          /\ pc = "getMany" /\ pc' \in {"next", "hits"}
      BY <3>1 DEF GetManyResident, GetManyLoad, AfterBegin, callVars
    <3> QED  BY <3>2 DEF LayerVars, LayerMode
  <2>4. CASE NoNext \/ FinishGroup
    <3>1. UNCHANGED <<layer, want, result>>
          /\ pc \in {"next", "misses"} /\ pc' \in {"hits", "next", "first", "reduce"}
      BY <2>4 DEF NoNext, FinishGroup, Advance, callVars
    <3> QED  BY <3>1 DEF LayerVars, LayerMode
  <2>5. CASE Evaluate
    BY <2>5, EvaluateServes
  <2>6. CASE Return
    BY <2>6, ReturnServes DEF Layers!Next
  <2>7. CASE Resize \/ \E g \in Group, e \in Expert : Reads(g, e)
    <3>1. UNCHANGED <<pc, layer, want, result>>
      BY <2>7 DEF Resize, Reads, StartRead, EndRead, callVars
    <3> QED  BY <3>1 DEF LayerVars, LayerMode
  <2>8. CASE Failed \/ UNCHANGED vars
    BY <2>8 DEF Failed, vars, callVars, LayerVars, LayerMode
  <2> QED
    BY <2>1, <2>2, <2>3, <2>4, <2>5, <2>6, <2>7, <2>8 DEF Next, Inference
<1>3. SafetySpec => []IInv
  BY StreamInvariant
<1> QED
  BY <1>1, <1>2, <1>3, PTL DEF SafetySpec, ImplementsLayerSafety, Layers!SafetySpec

-------------------------------------------------------------------------------
(* The counters of protected slots. What a hit and a publication make of a  *)
(* policy record, and what they keep.                                       *)

PolicyType ==
    [seg : [Slot -> 0..2], age : [Slot -> 0..(NSlots - 1)], prot : [Layer -> Int]]

(* The protected slots of layer l when slot s is the layer of[s]'s. *)
ProtectedOf(seg, of, l) == {s \in Slot : seg[s] = 2 /\ of[s] = l}

Counted(of) ==
    {p \in PolicyType :
        /\ \A l \in Layer : p.prot[l] = Cardinality(ProtectedOf(p.seg, of, l))
        /\ ~Slru => \A s \in Slot : p.seg[s] # 2}

(* And the protected slots are all in K, and those of layer l in R. *)
CountedIn(of, l, R, K) ==
    {p \in Counted(of) : \A s \in Slot :
        p.seg[s] = 2 => s \in K /\ (of[s] = l <=> s \in R)}

(* Slot s is put into segment v. *)
InSegment(x, s, v) == [x EXCEPT ![s] = v]

LEMMA RefreshType ==
    ASSUME NEW age \in [Slot -> 0..(NSlots - 1)], NEW s \in Slot
    PROVE  Refresh(age, s) \in [Slot -> 0..(NSlots - 1)]
<1>1. NSlots \in Nat \ {0}
  BY SizesAssumption
<1>2. \A t \in Slot : age[t] \in 0..(NSlots - 1)
  OBVIOUS
<1> QED  BY <1>1, <1>2 DEF Refresh

(* What the updates of a policy record make of its fields. *)
LEMMA PolicyFields ==
    ASSUME NEW x, NEW y, NEW z, NEW p, p = [seg |-> x, age |-> y, prot |-> z]
    PROVE  /\ \A a : [p EXCEPT !.age = a] = [seg |-> x, age |-> a, prot |-> z]
           /\ \A s, v : [p EXCEPT !.seg[s] = v]
                         = [seg |-> [x EXCEPT ![s] = v], age |-> y, prot |-> z]
           /\ \A l : [p EXCEPT !.prot[l] = @ + 1]
                      = [seg |-> x, age |-> y, prot |-> [z EXCEPT ![l] = z[l] + 1]]
           /\ \A l : [p EXCEPT !.prot[l] = @ - 1]
                      = [seg |-> x, age |-> y, prot |-> [z EXCEPT ![l] = z[l] - 1]]
<1>1. p.seg = x /\ p.age = y /\ p.prot = z
  OBVIOUS
<1>2. ASSUME NEW a PROVE [p EXCEPT !.age = a] = [seg |-> x, age |-> a, prot |-> z]
  OBVIOUS
<1>3. ASSUME NEW s, NEW v
      PROVE  [p EXCEPT !.seg[s] = v] = [seg |-> [x EXCEPT ![s] = v], age |-> y, prot |-> z]
  <2> DEFINE h == [x EXCEPT ![s] = v]
  <2>1. [p EXCEPT !.seg[s] = v] = [p EXCEPT !.seg = h]
    BY <1>1
  <2> HIDE DEF h
  <2>2. [p EXCEPT !.seg = h] = [seg |-> h, age |-> y, prot |-> z]
    OBVIOUS
  <2> QED BY <2>1, <2>2 DEF h
<1>4. ASSUME NEW l, NEW w
      PROVE  [p EXCEPT !.prot[l] = w] = [seg |-> x, age |-> y, prot |-> [z EXCEPT ![l] = w]]
  <2> DEFINE h == [z EXCEPT ![l] = w]
  <2>1. [p EXCEPT !.prot[l] = w] = [p EXCEPT !.prot = h]
    BY <1>1
  <2> HIDE DEF h
  <2>2. [p EXCEPT !.prot = h] = [seg |-> x, age |-> y, prot |-> h]
    OBVIOUS
  <2> QED BY <2>1, <2>2 DEF h
<1>5. \A l : /\ [p EXCEPT !.prot[l] = @ + 1]
                = [seg |-> x, age |-> y, prot |-> [z EXCEPT ![l] = z[l] + 1]]
             /\ [p EXCEPT !.prot[l] = @ - 1]
                = [seg |-> x, age |-> y, prot |-> [z EXCEPT ![l] = z[l] - 1]]
  BY <1>1, <1>4, Zenon
<1> QED BY <1>2, <1>3, <1>5

LEMMA PublishIs ==
    ASSUME NEW p \in PolicyType, NEW l, NEW s
    PROVE  Publish(p, l, s) =
              [seg |-> InSegment(p.seg, s, 1), age |-> Refresh(p.age, s),
               prot |-> IF Slru /\ p.seg[s] = 2 THEN [p.prot EXCEPT ![l] = p.prot[l] - 1]
                        ELSE p.prot]
<1> DEFINE r == Refresh(p.age, s)
           g == [p.seg EXCEPT ![s] = 1]
           fresh == [p EXCEPT !.age = r]
           aged == [p EXCEPT !.age = r, !.seg[s] = 1]
<1>1. p = [seg |-> p.seg, age |-> p.age, prot |-> p.prot]
  BY DEF PolicyType
<1>2. aged = [seg |-> g, age |-> r, prot |-> p.prot]
  <2>1. fresh = [seg |-> p.seg, age |-> r, prot |-> p.prot]
    BY <1>1, PolicyFields
  <2>2. aged = [fresh EXCEPT !.seg[s] = 1]
    OBVIOUS
  <2> HIDE DEF fresh, aged, r
  <2> QED  BY <2>1, <2>2, PolicyFields
<1>3. [aged EXCEPT !.prot[l] = @ - 1]
         = [seg |-> g, age |-> r, prot |-> [p.prot EXCEPT ![l] = p.prot[l] - 1]]
  <2> HIDE DEF aged, r, g
  <2> QED  BY <1>2, PolicyFields
<1>4. Publish(p, l, s) = IF Slru /\ p.seg[s] = 2 THEN [aged EXCEPT !.prot[l] = @ - 1] ELSE aged
  BY DEF Publish
<1> HIDE DEF aged
<1> QED  BY <1>2, <1>3, <1>4 DEF InSegment

(* A hit: nothing moves between the segments, or the slot is promoted and   *)
(* counted, or promoted in the place of another one of the range, if there  *)
(* is one.                                                                  *)
LEMMA TouchIs ==
    ASSUME NEW p \in PolicyType, NEW l, NEW R \in SUBSET Slot, NEW s \in Slot
    PROVE  LET r == Refresh(p.age, s)
               others == {t \in R \ {s} : p.seg[t] = 2}
           IN \/ Touch(p, l, R, s) = [seg |-> p.seg, age |-> r, prot |-> p.prot]
              \/ /\ Slru /\ p.seg[s] = 1
                 /\ Touch(p, l, R, s) = [seg |-> InSegment(p.seg, s, 2), age |-> r,
                                         prot |-> [p.prot EXCEPT ![l] = p.prot[l] + 1]]
              \/ /\ Slru /\ p.seg[s] = 1
                 /\ ~(ProtectedCap(R) <= 0) /\ ~MayProtect(p, l, R) /\ others = {}
              \/ /\ Slru /\ p.seg[s] = 1
                 /\ \E o \in others :
                       Touch(p, l, R, s) = [seg |-> InSegment(InSegment(p.seg, s, 2), o, 1),
                                            age |-> r, prot |-> p.prot]
<1> DEFINE r == Refresh(p.age, s)
           g == [p.seg EXCEPT ![s] = 2]
           others == {t \in R \ {s} : p.seg[t] = 2}
           fresh == [p EXCEPT !.age = Refresh(@, s)]
           promoted == [fresh EXCEPT !.seg[s] = 2]
           o == Oldest(fresh, others)
           a == [promoted EXCEPT !.prot[l] = @ + 1]
           b == [promoted EXCEPT !.seg[o] = 1]
<1>1. /\ p = [seg |-> p.seg, age |-> p.age, prot |-> p.prot]
      /\ p.seg \in [Slot -> 0..2] /\ p.age \in [Slot -> 0..(NSlots - 1)]
      /\ p.prot \in [Layer -> Int]
  BY DEF PolicyType
<1>2. fresh = [seg |-> p.seg, age |-> r, prot |-> p.prot]
  BY <1>1, PolicyFields
<1>3. promoted = [seg |-> g, age |-> r, prot |-> p.prot]
  <2> HIDE DEF fresh, r
  <2> QED  BY <1>2, PolicyFields
<1>4. a = [seg |-> g, age |-> r, prot |-> [p.prot EXCEPT ![l] = p.prot[l] + 1]]
  <2> HIDE DEF fresh, promoted, r, g
  <2> QED  BY <1>3, PolicyFields
<1>5. b = [seg |-> [g EXCEPT ![o] = 1], age |-> r, prot |-> p.prot]
  <2> HIDE DEF fresh, promoted, r, g, o
  <2> QED  BY <1>3, PolicyFields
<1>6. others # {} => o \in others
  <2> SUFFICES ASSUME others # {}  PROVE o \in others
    OBVIOUS
  <2>1. fresh.age = r /\ r \in [Slot -> 0..(NSlots - 1)]
    BY <1>1, <1>2, RefreshType
  <2> DEFINE A == {r[t] : t \in others}
  <2>2. A \in SUBSET Nat /\ A # {} /\ \A y \in A : y <= NSlots
    <3>1. \A t \in others : r[t] \in 0..(NSlots - 1)
      BY <2>1
    <3>2. NSlots \in Nat
      BY SizesAssumption
    <3> HIDE DEF r, others
    <3> QED  BY <3>1, <3>2
  <2>3. PICK x \in A : \A y \in A : y <= x
    <3> HIDE DEF A
    <3>1. NSlots \in Nat
      BY SizesAssumption
    <3> QED  BY <2>2, <3>1, GreatestExists
  <2>4. PICK u \in others : r[u] = x
    BY <2>3
  <2>5. \A t \in others : r[t] <= r[u]
    BY <2>3, <2>4
  <2> HIDE DEF r, others, fresh
  <2>6. \E v \in others : \A t \in others : fresh.age[t] <= fresh.age[v]
    BY <2>1, <2>5
  <2>7. Oldest(fresh, others) \in others
    BY <2>6, Zenon DEF Oldest
  <2> QED  BY <2>7
<1>7. \/ Touch(p, l, R, s) = fresh
      \/ Slru /\ p.seg[s] = 1 /\ Touch(p, l, R, s) = a
      \/ /\ Slru /\ p.seg[s] = 1 /\ ~(ProtectedCap(R) <= 0)
         /\ ~MayProtect(p, l, R) /\ others = {}
      \/ Slru /\ p.seg[s] = 1 /\ others # {} /\ Touch(p, l, R, s) = b
  BY Zenon DEF Touch
<1> HIDE DEF r, g, others, fresh, promoted, o, a, b
<1>8. \/ Touch(p, l, R, s) = fresh
      \/ Slru /\ p.seg[s] = 1 /\ Touch(p, l, R, s) = a
      \/ /\ Slru /\ p.seg[s] = 1 /\ ~(ProtectedCap(R) <= 0)
         /\ ~MayProtect(p, l, R) /\ others = {}
      \/ /\ Slru /\ p.seg[s] = 1
         /\ \E v \in others : Touch(p, l, R, s) = [seg |-> [g EXCEPT ![v] = 1], age |-> r,
                                                   prot |-> p.prot]
  BY <1>5, <1>6, <1>7
<1> QED  BY <1>2, <1>4, <1>8, Zenon DEF r, g, others, InSegment

LEMMA CapType ==
    ASSUME NEW R \in SUBSET Slot
    PROVE  ProtectedCap(R) \in Int
<1> DEFINE n == Cardinality(R)
           seven == (n * 7) \div 10
<1>1. n \in Nat
  BY SubsetsFinite
<1> HIDE DEF n
<1>2. seven \in Int
  BY <1>1
<1> HIDE DEF seven
<1>3. Min({1, n - 1}) \in Int /\ Min({seven, n - 1}) \in Int
  BY <1>1, <1>2, MinOfTwo
<1> QED  BY <1>3 DEF ProtectedCap, n, seven

LEMMA SegmentSet ==
    ASSUME NEW x \in [Slot -> 0..2], NEW u, NEW v \in 0..2
    PROVE  /\ InSegment(x, u, v) \in [Slot -> 0..2]
           /\ \A t \in Slot : InSegment(x, u, v)[t] = IF t = u THEN v ELSE x[t]
<1>1. InSegment(x, u, v) = [t \in Slot |-> IF t = u THEN v ELSE x[t]]
  BY DEF InSegment
<1>2. \A t \in Slot : (IF t = u THEN v ELSE x[t]) \in 0..2
  OBVIOUS
<1> QED  BY <1>1, <1>2

(* A slot more or less in a segment. *)
LEMMA ProtectedSize ==
    ASSUME NEW x, NEW of, NEW m
    PROVE  /\ ProtectedOf(x, of, m) \in SUBSET Slot
           /\ IsFiniteSet(ProtectedOf(x, of, m))
           /\ Cardinality(ProtectedOf(x, of, m)) \in Nat
<1>1. ProtectedOf(x, of, m) \in SUBSET Slot
  BY DEF ProtectedOf
<1> QED  BY <1>1, SubsetsFinite

LEMMA PromotedSize ==
    ASSUME NEW x \in [Slot -> 0..2], NEW of, NEW s \in Slot, x[s] # 2, NEW m
    PROVE  Cardinality(ProtectedOf(InSegment(x, s, 2), of, m)) =
              Cardinality(ProtectedOf(x, of, m)) + (IF of[s] = m THEN 1 ELSE 0)
<1> DEFINE P == ProtectedOf(x, of, m)
           y == InSegment(x, s, 2)
           Q == ProtectedOf(y, of, m)
<1>1. \A t \in Slot : y[t] = IF t = s THEN 2 ELSE x[t]
  <2>1. 2 \in 0..2
    OBVIOUS
  <2> QED  BY <2>1, SegmentSet
<1> HIDE DEF y
<1>2. Q = (IF of[s] = m THEN P \cup {s} ELSE P) /\ s \notin P
  BY <1>1 DEF ProtectedOf
<1>3. IsFiniteSet(P) /\ Cardinality(P) \in Nat
  BY ProtectedSize
<1> HIDE DEF P, Q
<1>4. Cardinality(P \cup {s}) = Cardinality(P) + 1
  BY <1>2, <1>3, FS_AddElement
<1>5. Cardinality(Q) = Cardinality(P) + (IF of[s] = m THEN 1 ELSE 0)
  BY <1>2, <1>3, <1>4
<1> QED  BY <1>5 DEF P, Q, y

LEMMA DemotedSize ==
    ASSUME NEW x \in [Slot -> 0..2], NEW of, NEW s \in Slot, NEW m
    PROVE  Cardinality(ProtectedOf(InSegment(x, s, 1), of, m)) =
              Cardinality(ProtectedOf(x, of, m))
                 - (IF x[s] = 2 /\ of[s] = m THEN 1 ELSE 0)
<1> DEFINE P == ProtectedOf(x, of, m)
           y == InSegment(x, s, 1)
           Q == ProtectedOf(y, of, m)
<1>1. \A t \in Slot : y[t] = IF t = s THEN 1 ELSE x[t]
  <2>1. 1 \in 0..2
    OBVIOUS
  <2> QED  BY <2>1, SegmentSet
<1> HIDE DEF y
<1>2. /\ Q = (IF x[s] = 2 /\ of[s] = m THEN P \ {s} ELSE P)
      /\ x[s] = 2 /\ of[s] = m => s \in P
  BY <1>1 DEF ProtectedOf
<1>3. IsFiniteSet(P) /\ Cardinality(P) \in Nat
  BY ProtectedSize
<1> HIDE DEF P, Q
<1>4. s \in P => Cardinality(P \ {s}) = Cardinality(P) - 1
  BY <1>3, FS_RemoveElement
<1>5. Cardinality(Q) = Cardinality(P) - (IF x[s] = 2 /\ of[s] = m THEN 1 ELSE 0)
  BY <1>2, <1>3, <1>4
<1> QED  BY <1>5 DEF P, Q, y

(* A publication: the evicted slot is no longer protected, and no longer    *)
(* counted for the layer it was taken from.                                 *)
LEMMA PublishCounted ==
    ASSUME NEW of, NEW p \in Counted(of), NEW l \in Layer, NEW s \in Slot, of[s] = l
    PROVE  /\ Publish(p, l, s) \in Counted(of)
           /\ \A t \in Slot : Publish(p, l, s).seg[t] = IF t = s THEN 1 ELSE p.seg[t]
<1> DEFINE r == Refresh(p.age, s)
           g == InSegment(p.seg, s, 1)
           z == IF Slru /\ p.seg[s] = 2 THEN [p.prot EXCEPT ![l] = p.prot[l] - 1] ELSE p.prot
           q == Publish(p, l, s)
<1>1. /\ p \in PolicyType
      /\ p.seg \in [Slot -> 0..2] /\ p.age \in [Slot -> 0..(NSlots - 1)]
      /\ p.prot \in [Layer -> Int]
      /\ \A m \in Layer : p.prot[m] = Cardinality(ProtectedOf(p.seg, of, m))
      /\ ~Slru => \A t \in Slot : p.seg[t] # 2
  BY DEF Counted, PolicyType
<1>2. q = [seg |-> g, age |-> r, prot |-> z]
  BY <1>1, PublishIs
<1>3. g \in [Slot -> 0..2] /\ \A t \in Slot : g[t] = IF t = s THEN 1 ELSE p.seg[t]
  <2>1. p.seg \in [Slot -> 0..2] /\ 1 \in 0..2
    BY <1>1
  <2> QED  BY <2>1, SegmentSet
<1>4. r \in [Slot -> 0..(NSlots - 1)]
  BY <1>1, RefreshType
<1>5. \A m : Cardinality(ProtectedOf(g, of, m)) =
                Cardinality(ProtectedOf(p.seg, of, m))
                   - (IF p.seg[s] = 2 /\ of[s] = m THEN 1 ELSE 0)
  <2>1. p.seg \in [Slot -> 0..2]
    BY <1>1
  <2> QED  BY <2>1, DemotedSize
<1> HIDE DEF g
<1>6. z \in [Layer -> Int] /\ \A m \in Layer : z[m] = Cardinality(ProtectedOf(g, of, m))
  <2>1. CASE p.seg[s] = 2
    <3>1. z = [p.prot EXCEPT ![l] = p.prot[l] - 1]
      BY <1>1, <2>1
    <3> HIDE DEF z
    <3> QED  BY <1>1, <1>5, <2>1, <3>1
  <2>2. CASE p.seg[s] # 2
    <3>1. z = p.prot
      BY <2>2
    <3> HIDE DEF z
    <3>2. \A m \in Layer : Cardinality(ProtectedOf(p.seg, of, m)) \in Nat
      BY ProtectedSize
    <3> QED  BY <1>1, <1>5, <2>2, <3>1, <3>2
  <2> QED  BY <2>1, <2>2
<1> HIDE DEF r, z, q
<1>7. q \in PolicyType /\ q.seg = g /\ q.prot = z
  BY <1>2, <1>3, <1>4, <1>6 DEF PolicyType
<1>8. q \in Counted(of)
  BY <1>1, <1>3, <1>6, <1>7 DEF Counted
<1> QED  BY <1>3, <1>7, <1>8 DEF q

(* A hit. That one of the range is demoted when the layer has all it may    *)
(* protect is because the counter is true: there is one.                    *)
LEMMA TouchCounted ==
    ASSUME NEW of, NEW l \in Layer, NEW R \in SUBSET Slot, NEW K,
           NEW p \in CountedIn(of, l, R, K), NEW s \in R, of[s] = l, s \in K
    PROVE  Touch(p, l, R, s) \in CountedIn(of, l, R, K)
<1> DEFINE r == Refresh(p.age, s)
           others == {t \in R \ {s} : p.seg[t] = 2}
           q == Touch(p, l, R, s)
           g == InSegment(p.seg, s, 2)
<1>1. /\ p \in PolicyType
      /\ p.seg \in [Slot -> 0..2] /\ p.age \in [Slot -> 0..(NSlots - 1)]
      /\ p.prot \in [Layer -> Int]
      /\ \A m \in Layer : p.prot[m] = Cardinality(ProtectedOf(p.seg, of, m))
      /\ ~Slru => \A t \in Slot : p.seg[t] # 2
      /\ \A t \in Slot : p.seg[t] = 2 => t \in K /\ (of[t] = l <=> t \in R)
      /\ s \in Slot
  BY DEF CountedIn, Counted, PolicyType
<1>2. r \in [Slot -> 0..(NSlots - 1)]
  BY <1>1, RefreshType
<1>t. p \in PolicyType /\ R \in SUBSET Slot /\ s \in Slot
  BY <1>1
<1>3. \/ q = [seg |-> p.seg, age |-> r, prot |-> p.prot]
      \/ /\ Slru /\ p.seg[s] = 1
         /\ q = [seg |-> g, age |-> r, prot |-> [p.prot EXCEPT ![l] = p.prot[l] + 1]]
      \/ /\ Slru /\ p.seg[s] = 1
         /\ ~(ProtectedCap(R) <= 0) /\ ~MayProtect(p, l, R) /\ others = {}
      \/ /\ Slru /\ p.seg[s] = 1
         /\ \E o \in others : q = [seg |-> InSegment(g, o, 1), age |-> r, prot |-> p.prot]
  BY <1>t, TouchIs
<1>a. \A t \in others : t \in R /\ t \in Slot /\ t # s /\ p.seg[t] = 2
  OBVIOUS
<1>b. \A t \in R : p.seg[t] = 2 /\ t # s => t \in others
  OBVIOUS
<1>c. g \in [Slot -> 0..2] /\ \A t \in Slot : g[t] = IF t = s THEN 2 ELSE p.seg[t]
  <2>1. p.seg \in [Slot -> 0..2] /\ 2 \in 0..2
    BY <1>1
  <2> QED  BY <2>1, SegmentSet
<1>d. ASSUME p.seg[s] # 2
      PROVE  \A m : Cardinality(ProtectedOf(g, of, m)) =
                Cardinality(ProtectedOf(p.seg, of, m)) + (IF of[s] = m THEN 1 ELSE 0)
  <2>1. p.seg \in [Slot -> 0..2] /\ s \in Slot /\ p.seg[s] # 2
    BY <1>1, <1>d
  <2> QED  BY <2>1, PromotedSize
<1> HIDE DEF r, others, q, g
<1> DEFINE Good(x, z) == /\ x \in [Slot -> 0..2] /\ z \in [Layer -> Int]
                         /\ \A m \in Layer : z[m] = Cardinality(ProtectedOf(x, of, m))
                         /\ ~Slru => \A t \in Slot : x[t] # 2
                         /\ \A t \in Slot : x[t] = 2 => t \in K /\ (of[t] = l <=> t \in R)
<1>4. ASSUME NEW x, NEW z, Good(x, z), q = [seg |-> x, age |-> r, prot |-> z]
      PROVE  q \in CountedIn(of, l, R, K)
  <2>1. q \in PolicyType /\ q.seg = x /\ q.prot = z
    BY <1>2, <1>4 DEF PolicyType
  <2> QED  BY <1>4, <2>1 DEF CountedIn, Counted
<1>5. CASE q = [seg |-> p.seg, age |-> r, prot |-> p.prot]
  <2>1. Good(p.seg, p.prot)
    BY <1>1
  <2> HIDE DEF Good
  <2> QED  BY <1>4, <1>5, <2>1 DEF q
<1>6. CASE /\ Slru /\ p.seg[s] = 1
           /\ q = [seg |-> g, age |-> r, prot |-> [p.prot EXCEPT ![l] = p.prot[l] + 1]]
  <2> DEFINE z == [p.prot EXCEPT ![l] = p.prot[l] + 1]
  <2>1. \A m \in Layer : Cardinality(ProtectedOf(g, of, m)) =
           Cardinality(ProtectedOf(p.seg, of, m)) + (IF of[s] = m THEN 1 ELSE 0)
    BY <1>d, <1>6
  <2>2. \A t \in Slot : g[t] = 2 => t = s \/ p.seg[t] = 2
    BY <1>c
  <2>3. z \in [Layer -> Int] /\ \A m \in Layer : z[m] = p.prot[m] + (IF l = m THEN 1 ELSE 0)
    BY <1>1
  <2> HIDE DEF z
  <2>4. Good(g, z)
    BY <1>1, <1>6, <1>c, <2>1, <2>2, <2>3
  <2> HIDE DEF Good
  <2> QED  BY <1>4, <1>6, <2>4 DEF z, q
<1>7. CASE /\ Slru /\ p.seg[s] = 1
           /\ ~(ProtectedCap(R) <= 0) /\ ~MayProtect(p, l, R) /\ others = {}
  <2>1. ProtectedOf(p.seg, of, l) = {}
    BY <1>1, <1>7, <1>b DEF ProtectedOf
  <2>2. p.prot[l] = 0
    BY <1>1, <2>1, FS_EmptySet
  <2>3. ProtectedCap(R) \in Int
    BY CapType
  <2> QED  BY <1>7, <2>2, <2>3 DEF MayProtect
<1>8. CASE /\ Slru /\ p.seg[s] = 1
           /\ \E o \in others : q = [seg |-> InSegment(g, o, 1), age |-> r, prot |-> p.prot]
  <2>1. PICK o \in others : q = [seg |-> InSegment(g, o, 1), age |-> r, prot |-> p.prot]
    BY <1>8
  <2> DEFINE h == InSegment(g, o, 1)
  <2>2. o \in R /\ o \in Slot /\ o # s /\ p.seg[o] = 2 /\ of[o] = l
    BY <1>1, <1>a
  <2>3. \A m \in Layer : Cardinality(ProtectedOf(g, of, m)) =
           Cardinality(ProtectedOf(p.seg, of, m)) + (IF of[s] = m THEN 1 ELSE 0)
    BY <1>d, <1>8
  <2>4. g[o] = 2
    BY <1>c, <2>2
  <2>5. \A m : Cardinality(ProtectedOf(h, of, m)) =
           Cardinality(ProtectedOf(g, of, m)) - (IF g[o] = 2 /\ of[o] = m THEN 1 ELSE 0)
    <3>1. g \in [Slot -> 0..2] /\ o \in Slot
      BY <1>c, <2>2
    <3> QED  BY <3>1, DemotedSize
  <2>6. h \in [Slot -> 0..2] /\ \A t \in Slot : h[t] = IF t = o THEN 1 ELSE g[t]
    <3>1. g \in [Slot -> 0..2] /\ 1 \in 0..2
      BY <1>c
    <3> QED  BY <3>1, SegmentSet
  <2> HIDE DEF h
  <2>7. \A t \in Slot : h[t] = 2 => t = s \/ p.seg[t] = 2
    BY <1>c, <2>6
  <2>8. \A m \in Layer : p.prot[m] = Cardinality(ProtectedOf(h, of, m))
    <3>1. \A m \in Layer : Cardinality(ProtectedOf(p.seg, of, m)) \in Nat
      BY ProtectedSize
    <3> QED  BY <1>1, <2>2, <2>3, <2>4, <2>5, <3>1
  <2>9. Good(h, p.prot)
    BY <1>1, <1>8, <2>6, <2>7, <2>8
  <2> HIDE DEF Good
  <2> QED  BY <1>4, <2>1, <2>9 DEF h, q
<1> QED  BY <1>3, <1>5, <1>6, <1>7, <1>8 DEF q

-------------------------------------------------------------------------------
(* The folds over the hits and the publications of a group. *)

(* What every hit keeps, all the hits of a group keep: the visits of the    *)
(* fold (CommonLemmas: FoldRuns).                                           *)
LEMMA TouchAllKeeps ==
    ASSUME NEW P, NEW p \in P, NEW slots \in Seq(Slot),
           \A x \in P, k \in 1..Len(slots) : Touch(x, layer, Owned, slots[k]) \in P
    PROVE  TouchAll(p, slots) \in P
<1> DEFINE n == Len(slots)
           Op(x, k) == Touch(x, layer, Owned, slots[k])
           Eq(g) == g = [s \in SUBSET (1..n) |->
                           IF s = {} THEN p ELSE Op(g[s \ {Max(s)}], Max(s))]
           f == CHOOSE g : Eq(g)
<1>1. /\ \A x \in P, k \in 1..n : Op(x, k) \in P
      /\ n \in Nat
  OBVIOUS
<1>2. TouchAll(p, slots) = f[1..n]
  <2>1. DOMAIN slots = 1..n
    OBVIOUS
  <2> QED  BY <2>1 DEF TouchAll, FoldLeft, MapThenFoldSet
<1> DEFINE F == [y \in P \X (1..n) |-> Op(y[1], y[2])]
<1>3. \A x \in P, k \in 1..n : F[<<x, k>>] = Op(x, k)
  <2> HIDE DEF Op, n
  <2>1. \A y \in P \X (1..n) : F[y] = Op(y[1], y[2])
    OBVIOUS
  <2> HIDE DEF F
  <2> QED  BY <2>1
<1>4. \A x \in P, k \in 1..n : F[<<x, k>>] \in P
  <2> HIDE DEF F, Op, n
  <2> QED  BY <1>1, <1>3
<1>n. n \in Nat /\ p \in P
  BY <1>1
<1> HIDE DEF F, n
<1>5. PICK h : Folding(h, n, p, F)
  BY <1>n, FoldExists
<1>6. /\ h \in [SUBSET (1..n) -> P]
      /\ \E a : Accumulates(a, n, p, F, P, h[1..n])
  <2> HIDE DEF Op, Eq, f
  <2> QED  BY <1>n, <1>4, <1>5, FoldRuns
<1> HIDE DEF Op
<1>7. Eq(h)
  <2>1. h = [s \in SUBSET (1..n) |-> IF s = {} THEN p ELSE F[<<h[s \ {Max(s)}], Max(s)>>]]
    BY <1>5 DEF Folding
  <2>2. ASSUME NEW s \in SUBSET (1..n), s # {}
        PROVE  F[<<h[s \ {Max(s)}], Max(s)>>] = Op(h[s \ {Max(s)}], Max(s))
    <3>1. Max(s) \in 1..n /\ s \ {Max(s)} \in SUBSET (1..n)
      BY <1>n, <2>2, MaxOfPositions
    <3>2. h[s \ {Max(s)}] \in P
      BY <1>6, <3>1
    <3> QED  BY <1>3, <3>1, <3>2
  <2> QED  BY <2>1, <2>2, Zenon
<1>8. Eq(f)
  <2> HIDE DEF Eq
  <2> QED  BY <1>7
<1> HIDE DEF f
<1> DEFINE G == P \cup {f[s] : s \in SUBSET (1..n)}
           H == [y \in G \X (1..n) |-> Op(y[1], y[2])]
<1>9. \A x \in G, k \in 1..n : H[<<x, k>>] = Op(x, k)
  <2>1. \A y \in G \X (1..n) : H[y] = Op(y[1], y[2])
    OBVIOUS
  <2> HIDE DEF H, G
  <2> QED  BY <2>1
<1>10. P \subseteq G /\ \A s \in SUBSET (1..n) : f[s] \in G
  OBVIOUS
<1> HIDE DEF G, H
<1>11. Folding(f, n, p, H)
  <2>1. f = [s \in SUBSET (1..n) |-> IF s = {} THEN p ELSE Op(f[s \ {Max(s)}], Max(s))]
    BY <1>8
  <2>2. ASSUME NEW s \in SUBSET (1..n), s # {}
        PROVE  H[<<f[s \ {Max(s)}], Max(s)>>] = Op(f[s \ {Max(s)}], Max(s))
    <3>1. Max(s) \in 1..n /\ s \ {Max(s)} \in SUBSET (1..n)
      BY <1>n, <2>2, MaxOfPositions
    <3>2. f[s \ {Max(s)}] \in G
      BY <1>10, <3>1
    <3> QED  BY <1>9, <3>1, <3>2
  <2> HIDE DEF Eq
  <2> QED  BY <2>1, <2>2, Zenon DEF Folding
<1>12. \A x \in P, k \in 1..n : H[<<x, k>>] \in P /\ H[<<x, k>>] = Op(x, k)
  BY <1>1, <1>9, <1>10
<1>13. /\ f \in [SUBSET (1..n) -> P]
       /\ \E a : Accumulates(a, n, p, H, P, f[1..n])
  <2>1. \A x \in P, k \in 1..n : H[<<x, k>>] \in P
    BY <1>12
  <2> HIDE DEF Eq
  <2> QED  BY <1>n, <1>11, <2>1, FoldRuns
<1>14. f[1..n] \in P
  BY <1>13
<1> QED  BY <1>2, <1>14

(* The publications keep the counters true, and leave no published slot     *)
(* protected.                                                               *)
LEMMA PublishAllCounted ==
    ASSUME NEW of, NEW p \in Counted(of), NEW slots \in Seq(Slot),
           \A k \in 1..Len(slots) : /\ OldLayer(slots[k]) \in Layer
                                    /\ of[slots[k]] = OldLayer(slots[k])
    PROVE  /\ PublishAll(p, slots) \in Counted(of)
           /\ \A t \in Slot : PublishAll(p, slots).seg[t] = 2 =>
                 p.seg[t] = 2 /\ \A k \in 1..Len(slots) : slots[k] # t
<1> DEFINE n == Len(slots)
           P == Counted(of)
           Op(x, k) == Publish(x, OldLayer(slots[k]), slots[k])
           Eq(g) == g = [s \in SUBSET (1..n) |->
                           IF s = {} THEN p ELSE Op(g[s \ {Max(s)}], Max(s))]
           f == CHOOSE g : Eq(g)
<1>1. /\ \A x \in P, k \in 1..n :
            /\ Op(x, k) \in P
            /\ \A t \in Slot : Op(x, k).seg[t] = IF t = slots[k] THEN 1 ELSE x.seg[t]
      /\ n \in Nat /\ \A k \in 1..n : slots[k] \in Slot
  <2>1. n \in Nat /\ \A k \in 1..n : slots[k] \in Slot
    OBVIOUS
  <2>2. ASSUME NEW x \in P, NEW k \in 1..n
        PROVE  /\ Op(x, k) \in P
               /\ \A t \in Slot : Op(x, k).seg[t] = IF t = slots[k] THEN 1 ELSE x.seg[t]
    <3>1. /\ x \in Counted(of) /\ slots[k] \in Slot
          /\ OldLayer(slots[k]) \in Layer /\ of[slots[k]] = OldLayer(slots[k])
      BY <2>1
    <3> QED  BY <3>1, PublishCounted
  <2> QED  BY <2>1, <2>2
<1>c. \A x \in P, k \in 1..n : Op(x, k) \in P
  BY <1>1
<1>2. PublishAll(p, slots) = f[1..n]
  <2>1. DOMAIN slots = 1..n
    OBVIOUS
  <2> QED  BY <2>1 DEF PublishAll, FoldLeft, MapThenFoldSet
<1> DEFINE F == [y \in P \X (1..n) |-> Op(y[1], y[2])]
<1>3. \A x \in P, k \in 1..n : F[<<x, k>>] = Op(x, k)
  <2> HIDE DEF Op, n, P
  <2>1. \A y \in P \X (1..n) : F[y] = Op(y[1], y[2])
    OBVIOUS
  <2> HIDE DEF F
  <2> QED  BY <2>1
<1>4. \A x \in P, k \in 1..n : F[<<x, k>>] \in P
  <2> HIDE DEF F, Op, n, P
  <2> QED  BY <1>3, <1>c
<1>n. n \in Nat /\ p \in P
  OBVIOUS
<1> HIDE DEF F, n, P
<1>5. PICK h : Folding(h, n, p, F)
  BY <1>n, FoldExists
<1>6. /\ h \in [SUBSET (1..n) -> P]
      /\ \E a : Accumulates(a, n, p, F, P, h[1..n])
  <2> HIDE DEF Op, Eq, f
  <2> QED  BY <1>n, <1>4, <1>5, FoldRuns
<1> HIDE DEF Op
<1>7. Eq(h)
  <2>1. h = [s \in SUBSET (1..n) |-> IF s = {} THEN p ELSE F[<<h[s \ {Max(s)}], Max(s)>>]]
    BY <1>5 DEF Folding
  <2>2. ASSUME NEW s \in SUBSET (1..n), s # {}
        PROVE  F[<<h[s \ {Max(s)}], Max(s)>>] = Op(h[s \ {Max(s)}], Max(s))
    <3>1. Max(s) \in 1..n /\ s \ {Max(s)} \in SUBSET (1..n)
      BY <1>n, <2>2, MaxOfPositions
    <3>2. h[s \ {Max(s)}] \in P
      BY <1>6, <3>1
    <3> QED  BY <1>3, <3>1, <3>2
  <2> QED  BY <2>1, <2>2, Zenon
<1>8. Eq(f)
  <2> HIDE DEF Eq
  <2> QED  BY <1>7
<1> HIDE DEF f
<1> DEFINE G == P \cup {f[s] : s \in SUBSET (1..n)}
           H == [y \in G \X (1..n) |-> Op(y[1], y[2])]
<1>9. \A x \in G, k \in 1..n : H[<<x, k>>] = Op(x, k)
  <2>1. \A y \in G \X (1..n) : H[y] = Op(y[1], y[2])
    OBVIOUS
  <2> HIDE DEF H, G
  <2> QED  BY <2>1
<1>10. P \subseteq G /\ \A s \in SUBSET (1..n) : f[s] \in G
  OBVIOUS
<1> HIDE DEF G, H
<1>11. Folding(f, n, p, H)
  <2>1. f = [s \in SUBSET (1..n) |-> IF s = {} THEN p ELSE Op(f[s \ {Max(s)}], Max(s))]
    BY <1>8
  <2>2. ASSUME NEW s \in SUBSET (1..n), s # {}
        PROVE  H[<<f[s \ {Max(s)}], Max(s)>>] = Op(f[s \ {Max(s)}], Max(s))
    <3>1. Max(s) \in 1..n /\ s \ {Max(s)} \in SUBSET (1..n)
      BY <1>n, <2>2, MaxOfPositions
    <3>2. f[s \ {Max(s)}] \in G
      BY <1>10, <3>1
    <3> QED  BY <1>9, <3>1, <3>2
  <2> HIDE DEF Eq
  <2> QED  BY <2>1, <2>2, Zenon DEF Folding
<1>12. \A x \in P, k \in 1..n : H[<<x, k>>] \in P /\ H[<<x, k>>] = Op(x, k)
  BY <1>9, <1>10, <1>c
<1>13. PICK a : Accumulates(a, n, p, H, P, f[1..n])
  <2>1. \A x \in P, k \in 1..n : H[<<x, k>>] \in P
    BY <1>12
  <2> HIDE DEF Eq
  <2> QED  BY <1>n, <1>11, <2>1, FoldRuns
<1>14. /\ a \in [0..n -> P] /\ a[0] = p /\ a[n] = f[1..n]
       /\ \A k \in 1..n : a[k] = H[<<a[k - 1], k>>]
  BY <1>13 DEF Accumulates
<1>15. \A k \in 1..n, t \in Slot :
          a[k].seg[t] = IF t = slots[k] THEN 1 ELSE a[k - 1].seg[t]
  <2> SUFFICES ASSUME NEW k \in 1..n, NEW t \in Slot
               PROVE  a[k].seg[t] = IF t = slots[k] THEN 1 ELSE a[k - 1].seg[t]
    OBVIOUS
  <2>1. a[k - 1] \in P
    BY <1>n, <1>14
  <2>2. a[k] = Op(a[k - 1], k)
    BY <1>12, <1>14, <2>1
  <2> QED  BY <1>1, <2>1, <2>2
<1> DEFINE T == {k \in Nat : k <= n => \A t \in Slot : a[k].seg[t] = 2 =>
                                p.seg[t] = 2 /\ \A j \in 1..k : slots[j] # t}
<1>16. 0 \in T
  BY <1>14
<1>17. ASSUME NEW k \in Nat, k \in T  PROVE k + 1 \in T
  <2> SUFFICES ASSUME k + 1 <= n, NEW t \in Slot, a[k + 1].seg[t] = 2
               PROVE  p.seg[t] = 2 /\ \A j \in 1..(k + 1) : slots[j] # t
    OBVIOUS
  <2>1. k + 1 \in 1..n /\ (k + 1) - 1 = k /\ k <= n
    BY <1>n
  <2>2. a[k + 1].seg[t] = IF t = slots[k + 1] THEN 1 ELSE a[k].seg[t]
    BY <1>15, <2>1
  <2>3. t # slots[k + 1] /\ a[k].seg[t] = 2
    BY <2>2
  <2>4. p.seg[t] = 2 /\ \A j \in 1..k : slots[j] # t
    BY <1>17, <2>1, <2>3
  <2>5. \A j \in 1..(k + 1) : j \in 1..k \/ j = k + 1
    OBVIOUS
  <2> QED  BY <2>3, <2>4, <2>5
<1>18. n \in T
  <2> HIDE DEF T
  <2>1. \A k \in Nat : k \in T
    BY <1>16, <1>17, Induct
  <2> QED  BY <1>n, <2>1
<1>19. a[n] \in P /\ \A t \in Slot : a[n].seg[t] = 2 =>
                        p.seg[t] = 2 /\ \A j \in 1..n : slots[j] # t
  BY <1>n, <1>14, <1>18
<1> QED  BY <1>2, <1>14, <1>19 DEF P, n

-------------------------------------------------------------------------------
(* The ranges of the layers, and the slots of a group in the order they are *)
(* visited.                                                                 *)

(* The parts of a division into shares are apart, and begin where it does.  *)
LEMMA SharesApart ==
    ASSUME NEW first \in Nat, NEW n \in Nat, NEW k \in Nat \ {0},
           NEW i \in 0..(k - 1), NEW j \in 0..(k - 1)
    PROVE  /\ \A s \in Share(first, n, k, i) : s >= first
           /\ i < j => Share(first, n, k, i) \cap Share(first, n, k, j) = {}
<1> DEFINE base == n \div k
           extra == n % k
           begin(x) == first + x * base + Min({x, extra})
           size(x) == base + (IF x < extra THEN 1 ELSE 0)
<1>1. base \in Nat /\ extra \in Nat
  BY Division
<1>2. \A x : Share(first, n, k, x) =
                {s \in Slot : begin(x) <= s /\ s < begin(x) + base + (IF x < extra THEN 1 ELSE 0)}
  BY Zenon DEF Share
<1> HIDE DEF base, extra
<1>3. \A x \in Nat : Min({x, extra}) = IF x <= extra THEN x ELSE extra
  BY <1>1, MinOfTwo
<1>4. i \in Nat /\ j \in Nat
  OBVIOUS
<1>5. i * base \in Nat /\ j * base \in Nat
  BY <1>1, <1>4
<1>6. ASSUME i < j  PROVE i * base + base <= j * base
  <2>1. i + 1 <= j
    BY <1>4, <1>6
  <2> DEFINE d == j - (i + 1)
  <2>2. d \in Nat /\ j = (i + 1) + d
    BY <1>4, <2>1
  <2> HIDE DEF d
  <2>3. j * base = (i * base + base) + d * base
    BY <1>1, <1>4, <2>2
  <2>4. d * base \in Nat
    BY <1>1, <2>2
  <2> QED  BY <1>5, <1>1, <2>3, <2>4
<1> DEFINE u == i * base
           v == j * base
<1>7. /\ u \in Nat /\ v \in Nat /\ (i < j => u + base <= v)
      /\ begin(i) = first + u + (IF i <= extra THEN i ELSE extra)
      /\ begin(j) = first + v + (IF j <= extra THEN j ELSE extra)
  BY <1>3, <1>4, <1>5, <1>6
<1> HIDE DEF begin, u, v
<1>8. ASSUME NEW s \in Share(first, n, k, i)  PROVE s >= first
  <2>1. s \in Nat /\ begin(i) <= s
    BY <1>2, Constants
  <2> QED  BY <1>1, <1>4, <1>7, <2>1
<1>9. ASSUME i < j, NEW s \in Share(first, n, k, i), s \in Share(first, n, k, j)  PROVE FALSE
  <2>1. /\ s \in Nat /\ begin(j) <= s
        /\ s < begin(i) + base + (IF i < extra THEN 1 ELSE 0)
    BY <1>2, <1>9, Constants
  <2> QED  BY <1>1, <1>4, <1>7, <1>9, <2>1
<1> QED  BY <1>8, <1>9

(* No slot is in the ranges of two layers. *)
LEMMA RangesApart ==
    ASSUME PerLayer, HashInv, NEW l \in Layer, NEW m \in Layer, NEW s,
           s \in RangeOf(l, hashSlots), s \in RangeOf(m, hashSlots)
    PROVE  l = m
<1>1. /\ NLayers \in Nat \ {0} /\ NHash \in 0..NLayers /\ NSlots \in Nat \ {0} /\ Topk \in Nat
      /\ l \in 0..(NLayers - 1) /\ m \in 0..(NLayers - 1)
  BY SizesAssumption DEF Layer
<1>2. CASE ~HashMin
  <2>1. \A x : RangeOf(x, hashSlots) = Share(0, NSlots, NLayers, x)
    BY <1>2 DEF RangeOf
  <2>2. l < m => RangeOf(l, hashSlots) \cap RangeOf(m, hashSlots) = {}
    BY <1>1, <2>1, SharesApart
  <2>3. m < l => RangeOf(m, hashSlots) \cap RangeOf(l, hashSlots) = {}
    BY <1>1, <2>1, SharesApart
  <2>4. l \in Nat /\ m \in Nat
    BY <1>1
  <2> QED  BY <2>2, <2>3, <2>4
<1>3. CASE HashMin
  <2> DEFINE h == hashSlots
             first == NHash * h
             n == NSlots - NHash * h
             k == NLayers - NHash
  <2>1. h \in Nat /\ h <= MaxHashSlots
    BY <1>3 DEF HashInv
  <2>2. first \in Nat /\ first + k * Topk <= NSlots
    BY <1>3, <2>1, LargestPartition
  <2>3. k \in Nat \ {0} /\ NHash \in Nat /\ NHash < NLayers
    BY <1>1, <1>3 DEF HashMin
  <2>4. k * Topk \in Nat
    BY <1>1, <2>3
  <2> HIDE DEF first, k
  <2>5. n \in Nat
    BY <1>1, <2>2, <2>4 DEF first
  <2> HIDE DEF n
  <2>6. \A x : RangeOf(x, h) =
                 IF x < NHash THEN {t \in Slot : x * h <= t /\ t < (x + 1) * h}
                 ELSE Share(first, n, k, x - NHash)
    BY <1>3, Zenon DEF RangeOf, first, n, k
  <2>7. \A x \in Layer : x >= NHash => x - NHash \in 0..(k - 1)
    BY <1>1, <2>3 DEF k, Layer
  <2>8. ASSUME NEW a \in Layer, NEW b \in Layer, a < b,
               NEW t, t \in RangeOf(a, h), t \in RangeOf(b, h)
        PROVE  FALSE
    <3>0. a \in Nat /\ b \in Nat /\ a < b
      BY <1>1, <2>8 DEF Layer
    <3>1. CASE b < NHash
      <4>a. a < NHash
        BY <2>3, <3>0, <3>1
      <4>b. RangeOf(a, h) = {x \in Slot : a * h <= x /\ x < (a + 1) * h}
        BY <2>6, <4>a
      <4>c. RangeOf(b, h) = {x \in Slot : b * h <= x /\ x < (b + 1) * h}
        BY <2>6, <3>1
      <4>1. /\ t \in Nat /\ t < (a + 1) * h /\ b * h <= t
        BY <2>8, <4>b, <4>c, Constants
      <4> DEFINE d == b - (a + 1)
      <4>2. d \in Nat /\ b = (a + 1) + d
        BY <3>0
      <4> HIDE DEF d
      <4>3. b * h = (a + 1) * h + d * h /\ d * h \in Nat /\ (a + 1) * h \in Nat
        BY <2>1, <3>0, <4>2
      <4> QED  BY <4>1, <4>3
    <3>2. CASE a < NHash /\ b >= NHash
      <4>b. RangeOf(a, h) = {x \in Slot : a * h <= x /\ x < (a + 1) * h}
        BY <2>6, <3>2
      <4>c. RangeOf(b, h) = Share(first, n, k, b - NHash)
        BY <2>3, <2>6, <3>0, <3>2
      <4>1. t \in Nat /\ t < (a + 1) * h /\ t \in Share(first, n, k, b - NHash)
        BY <2>8, <4>b, <4>c, Constants
      <4>2. t >= first
        <5>1. b - NHash \in 0..(k - 1)
          BY <2>7, <3>2
        <5> QED  BY <2>2, <2>3, <2>5, <4>1, <5>1, SharesApart
      <4> DEFINE d == NHash - (a + 1)
      <4>3. d \in Nat /\ NHash = (a + 1) + d
        BY <2>3, <3>0, <3>2
      <4> HIDE DEF d
      <4>4. NHash * h = (a + 1) * h + d * h /\ d * h \in Nat /\ (a + 1) * h \in Nat
        BY <2>1, <3>0, <4>3
      <4> QED  BY <4>1, <4>2, <4>4 DEF first
    <3>3. CASE a >= NHash
      <4>1. /\ t \in Share(first, n, k, a - NHash) /\ t \in Share(first, n, k, b - NHash)
        BY <2>3, <2>6, <2>8, <3>0, <3>3
      <4>2. /\ a - NHash \in 0..(k - 1) /\ b - NHash \in 0..(k - 1)
            /\ a - NHash < b - NHash
        BY <2>3, <2>7, <3>0, <3>3
      <4>3. Share(first, n, k, a - NHash) \cap Share(first, n, k, b - NHash) = {}
        BY <2>2, <2>3, <2>5, <4>2, SharesApart
      <4> QED  BY <4>1, <4>3
    <3> QED  BY <2>3, <3>0, <3>1, <3>2, <3>3
  <2>9. l < m \/ m < l \/ l = m
    BY <1>1
  <2> QED  BY <2>8, <2>9
<1> QED  BY <1>2, <1>3

(* The experts of a set can be listed by increasing id. *)
LEMMA InOrderIs ==
    ASSUME NEW S \in SUBSET Expert
    PROVE  /\ InOrder(S) \in [1..Cardinality(S) -> S]
           /\ \A e \in S : \E i \in 1..Cardinality(S) : InOrder(S)[i] = e
<1> DEFINE n == Cardinality(S)
           o == InOrder(S)
<1>1. IsFiniteSet(S) /\ S \in SUBSET Nat /\ n \in Nat
  BY SubsetsFinite DEF Expert
<1>2. PICK q : Listed(q, S)
  BY <1>1, ListedExists
<1>3. /\ q \in [1..n -> S] /\ DOMAIN q = 1..n
      /\ \A i, k \in 1..n : i < k => q[i] < q[k]
      /\ \A i, k \in 1..n : i # k => q[i] # q[k]
  BY <1>2 DEF Listed
<1>4. q \in SetToSeqs(S)
  BY <1>3 DEF SetToSeqs
<1>5. o \in SetToSeqs(S)
  <2>1. \E r \in SetToSeqs(S) : \A i, k \in DOMAIN r : i < k => r[i] < r[k]
    BY <1>3, <1>4
  <2> QED  BY <2>1, Zenon DEF InOrder
<1>6. o \in [1..n -> S] /\ \A i, k \in 1..n : i # k => o[i] # o[k]
  BY <1>5 DEF SetToSeqs
<1> HIDE DEF o
<1>7. o \in Injection(1..n, S)
  BY <1>6 DEF Injection, IsInjective
<1>8. IsFiniteSet(1..n) /\ Cardinality(1..n) = n
  BY <1>1, UpTo
<1>9. o \in Surjection(1..n, S)
  <2> DEFINE N == 1..n
  <2>1. o \in Injection(N, S) /\ IsFiniteSet(S) /\ Cardinality(N) = Cardinality(S)
    BY <1>1, <1>7, <1>8
  <2> HIDE DEF N, n
  <2>2. o \in Surjection(N, S)
    BY <2>1, FS_Injection
  <2> QED  BY <2>2 DEF N
<1>10. \A e \in S : \E i \in 1..n : o[i] = e
  BY <1>9 DEF Surjection
<1> QED  BY <1>6, <1>10 DEF o

(* The slots of the experts of S, one after the other. *)
LEMMA SlotsAre ==
    ASSUME NEW S \in SUBSET Expert, NEW at, \A e \in S : at[e] \in Slot
    PROVE  /\ Slots(at, S) \in Seq(Slot)
           /\ \A k \in 1..Len(Slots(at, S)) : \E e \in S : Slots(at, S)[k] = at[e]
           /\ \A e \in S : \E k \in 1..Len(Slots(at, S)) : Slots(at, S)[k] = at[e]
<1> DEFINE n == Cardinality(S)
           o == InOrder(S)
           q == Slots(at, S)
<1>1. n \in Nat
  BY SubsetsFinite
<1>2. o \in [1..n -> S] /\ \A e \in S : \E i \in 1..n : o[i] = e
  BY InOrderIs
<1>3. q = [i \in 1..n |-> at[o[i]]]
  BY DEF Slots
<1> HIDE DEF n, o, q
<1>4. q \in [1..n -> Slot] /\ \A i \in 1..n : q[i] = at[o[i]] /\ o[i] \in S
  BY <1>2, <1>3
<1>5. q \in Seq(Slot) /\ Len(q) = n
  BY <1>1, <1>4
<1> QED  BY <1>2, <1>4, <1>5 DEF q

-------------------------------------------------------------------------------
(* The policy beside the tags. TLC checks PolicyInv as an invariant of the   *)
(* runs; that a hit demotes another slot when the layer may protect no more *)
(* needs the counter to be true of the very range the layer owns.           *)

(* The layer every slot is counted for, and the slots that hold an expert,  *)
(* when the tags are t.                                                     *)
HolderIn(t) == [s \in Slot |-> IF t[s] = NoKey THEN layer ELSE t[s][1]]
HeldIn(t) == {s \in Slot : t[s] # NoKey}

(* Only slots that hold an expert are protected, and they are all counted.  *)
PolicyInv ==
    /\ policy \in Counted(HolderIn(tag))
    /\ \A s \in Slot : policy.seg[s] = 2 => s \in HeldIn(tag)
    /\ reused \in SUBSET want

(* Counting needs only the protected slots. *)
LEMMA CountedSame ==
    ASSUME NEW of, NEW p \in Counted(of), NEW by,
           \A s \in Slot : p.seg[s] = 2 => of[s] = by[s]
    PROVE  p \in Counted(by)
<1>1. \A l : ProtectedOf(p.seg, by, l) = ProtectedOf(p.seg, of, l)
  BY DEF ProtectedOf
<1> QED  BY <1>1 DEF Counted

(* A layer owns the slots that hold its experts, and no other that holds    *)
(* any.                                                                     *)
OwnedIn(t) == \A s \in Slot : t[s] # NoKey => s \in RangeOf(t[s][1], hashSlots)

LEMMA HoldersOwn ==
    ASSUME Slru, HashInv, layer \in Layer, NEW t \in [Slot -> Key \cup {NoKey}], OwnedIn(t),
           NEW s \in HeldIn(t)
    PROVE  HolderIn(t)[s] = layer <=> s \in Owned
<1>1. /\ s \in Slot /\ t[s] \in Key /\ t[s] # NoKey
      /\ s \in RangeOf(t[s][1], hashSlots)
  BY DEF HeldIn, OwnedIn
<1>2. HolderIn(t)[s] = t[s][1] /\ t[s][1] \in Layer
  BY <1>1 DEF HolderIn, Key
<1>3. ASSUME s \in RangeOf(layer, hashSlots)  PROVE t[s][1] = layer
  <2> DEFINE m == t[s][1]
  <2>1. PerLayer /\ m \in Layer /\ s \in RangeOf(m, hashSlots)
    BY <1>1, <1>2 DEF Slru
  <2> HIDE DEF m
  <2>2. m = layer
    BY <1>3, <2>1, RangesApart
  <2> QED  BY <2>2 DEF m
<1> QED  BY <1>1, <1>2, <1>3 DEF Owned

LEMMA CountedOwn ==
    ASSUME HashInv, layer \in Layer, NEW t \in [Slot -> Key \cup {NoKey}], OwnedIn(t),
           NEW p \in Counted(HolderIn(t)), \A s \in Slot : p.seg[s] = 2 => s \in HeldIn(t)
    PROVE  p \in CountedIn(HolderIn(t), layer, Owned, HeldIn(t))
<1>1. ASSUME NEW s \in Slot, p.seg[s] = 2
      PROVE  s \in HeldIn(t) /\ (HolderIn(t)[s] = layer <=> s \in Owned)
  <2>1. Slru /\ s \in HeldIn(t)
    BY <1>1 DEF Counted
  <2> QED  BY <2>1, HoldersOwn
<1> QED  BY <1>1 DEF CountedIn

(* The publications of the misses M in the slots at, as the tags become u.  *)
LEMMA PublicationsCounted ==
    ASSUME StateType, HashInv, PolicyInv, NEW M \in SUBSET Expert, NEW at,
           \A e \in M : at[e] \in Slot,
           NEW u \in [Slot -> Key \cup {NoKey}], OwnedIn(u),
           \A s \in Slot : (\A e \in M : at[e] # s) => u[s] = tag[s]
    PROVE  PublishAll(policy, Slots(at, M)) \in CountedIn(HolderIn(u), layer, Owned, HeldIn(u))
<1> DEFINE of == HolderIn(tag)
           slots == Slots(at, M)
           q == PublishAll(policy, slots)
<1>1. /\ slots \in Seq(Slot)
      /\ \A k \in 1..Len(slots) : \E e \in M : slots[k] = at[e]
      /\ \A e \in M : \E k \in 1..Len(slots) : slots[k] = at[e]
  BY SlotsAre
<1> HIDE DEF slots
<1>2. \A k \in 1..Len(slots) : slots[k] \in Slot
  BY <1>1
<1>3. \A s \in Slot : OldLayer(s) \in Layer /\ of[s] = OldLayer(s)
  BY DEF StateType, HolderIn, OldLayer, Key
<1>4. policy \in Counted(of)
  BY DEF PolicyInv
<1> HIDE DEF of
<1>5. \A k \in 1..Len(slots) : OldLayer(slots[k]) \in Layer /\ of[slots[k]] = OldLayer(slots[k])
  BY <1>2, <1>3
<1>6. /\ q \in Counted(of)
      /\ \A t \in Slot : q.seg[t] = 2 =>
            policy.seg[t] = 2 /\ \A k \in 1..Len(slots) : slots[k] # t
  BY <1>1, <1>4, <1>5, PublishAllCounted
<1> HIDE DEF q
<1>7. ASSUME NEW s \in Slot, q.seg[s] = 2
      PROVE  s \in HeldIn(u) /\ of[s] = HolderIn(u)[s]
  <2>1. policy.seg[s] = 2 /\ \A e \in M : at[e] # s
    BY <1>1, <1>6, <1>7
  <2>2. u[s] = tag[s] /\ tag[s] # NoKey
    BY <2>1 DEF PolicyInv, HeldIn
  <2> QED  BY <2>2 DEF HeldIn, HolderIn, of
<1>8. q \in Counted(HolderIn(u)) /\ \A s \in Slot : q.seg[s] = 2 => s \in HeldIn(u)
  <2> DEFINE by == HolderIn(u)
  <2>1. \A s \in Slot : q.seg[s] = 2 => of[s] = by[s]
    BY <1>7
  <2> HIDE DEF by
  <2>2. q \in Counted(by)
    BY <1>6, <2>1, CountedSame
  <2> QED  BY <1>7, <2>2 DEF by
<1>9. layer \in Layer
  BY DEF StateType
<1>10. q \in CountedIn(HolderIn(u), layer, Owned, HeldIn(u))
  BY <1>8, <1>9, CountedOwn
<1> QED  BY <1>10 DEF q, slots

(* The hits on the slots of the experts S. *)
LEMMA TouchesCounted ==
    ASSUME layer \in Layer, NEW u, NEW S \in SUBSET Expert, NEW at,
           NEW p \in CountedIn(HolderIn(u), layer, Owned, HeldIn(u)),
           \A e \in S : at[e] \in Owned /\ u[at[e]] # NoKey /\ u[at[e]][1] = layer
    PROVE  TouchAll(p, Slots(at, S)) \in CountedIn(HolderIn(u), layer, Owned, HeldIn(u))
<1> DEFINE P == CountedIn(HolderIn(u), layer, Owned, HeldIn(u))
           slots == Slots(at, S)
<1>1. Owned \in SUBSET Slot /\ \A e \in S : at[e] \in Slot
  BY OwnedSlots
<1>2. /\ slots \in Seq(Slot)
      /\ \A k \in 1..Len(slots) : \E e \in S : slots[k] = at[e]
  BY <1>1, SlotsAre
<1> HIDE DEF slots
<1>3. \A k \in 1..Len(slots) : /\ slots[k] \in Owned /\ slots[k] \in HeldIn(u)
                               /\ HolderIn(u)[slots[k]] = layer
  BY <1>1, <1>2 DEF HeldIn, HolderIn
<1>4. ASSUME NEW x \in P, NEW k \in 1..Len(slots)  PROVE Touch(x, layer, Owned, slots[k]) \in P
  <2> DEFINE s == slots[k]
             of == HolderIn(u)
             K == HeldIn(u)
  <2>1. s \in Owned /\ s \in K /\ of[s] = layer /\ x \in CountedIn(of, layer, Owned, K)
    BY <1>3
  <2> HIDE DEF s, of, K
  <2>2. Touch(x, layer, Owned, s) \in CountedIn(of, layer, Owned, K)
    BY <1>1, <2>1, TouchCounted
  <2> QED  BY <2>2 DEF s, of, K
<1>5. p \in P
  OBVIOUS
<1> HIDE DEF P
<1>6. TouchAll(p, slots) \in P
  BY <1>2, <1>4, <1>5, TouchAllKeeps
<1> QED  BY <1>6 DEF P, slots

LEMMA PolicyKept ==
    ASSUME policy' \in CountedIn(HolderIn(tag'), layer, Owned, HeldIn(tag')),
           layer' = layer, reused' \in SUBSET want'
    PROVE  PolicyInv'
  BY DEF CountedIn, PolicyInv, HolderIn, HeldIn

(* The tags once the misses M are published in the slots at. *)
LEMMA TaggedIs ==
    ASSUME StateType, NEW at, NEW M \in SUBSET Expert
    PROVE  /\ Tagged(at, M) \in [Slot -> Key \cup {NoKey}]
           /\ \A s \in Slot : (\A e \in M : at[e] # s) => Tagged(at, M)[s] = tag[s]
           /\ \A s \in Slot : (\E e \in M : at[e] = s) =>
                 Tagged(at, M)[s] # NoKey /\ Tagged(at, M)[s][1] = layer
<1>1. ASSUME NEW s \in Slot
      PROVE  LET t == IF \E e \in M : at[e] = s
                      THEN <<layer, CHOOSE e \in M : at[e] = s>> ELSE tag[s]
             IN /\ t \in Key \cup {NoKey}
                /\ (\A e \in M : at[e] # s) => t = tag[s]
                /\ (\E e \in M : at[e] = s) => t # NoKey /\ t[1] = layer
  <2>1. CASE \E e \in M : at[e] = s
    <3> DEFINE e == CHOOSE e \in M : at[e] = s
    <3>1. e \in M
      BY <2>1
    <3> HIDE DEF e
    <3>2. <<layer, e>> \in Key /\ <<layer, e>> # NoKey /\ <<layer, e>>[1] = layer
      BY <3>1, Constants DEF StateType
    <3> QED  BY <2>1, <3>2 DEF e
  <2>2. CASE ~\E e \in M : at[e] = s
    BY <2>2 DEF StateType
  <2> QED  BY <2>1, <2>2
<1> QED  BY <1>1 DEF Tagged

LEMMA InitPolicy == Init => PolicyInv
<1> SUFFICES ASSUME Init  PROVE PolicyInv
  OBVIOUS
<1>1. NSlots \in Nat \ {0}
  BY SizesAssumption
<1> DEFINE g == [s \in Slot |-> 0]
           r == [s \in Slot |-> s]
           z == [l \in Layer |-> 0]
<1>2. policy = [seg |-> g, age |-> r, prot |-> z]
  BY DEF Init, Policy0
<1>3. g \in [Slot -> 0..2] /\ r \in [Slot -> 0..(NSlots - 1)] /\ z \in [Layer -> Int]
  BY DEF Slot
<1>4. \A s \in Slot : g[s] = 0
  OBVIOUS
<1>5. \A l \in Layer : z[l] = 0
  OBVIOUS
<1> HIDE DEF g, r, z
<1>6. policy \in PolicyType /\ policy.seg = g /\ policy.prot = z
  BY <1>2, <1>3 DEF PolicyType
<1>7. \A of, l : ProtectedOf(policy.seg, of, l) = {}
  BY <1>4, <1>6 DEF ProtectedOf
<1>8. policy \in Counted(HolderIn(tag))
  BY <1>4, <1>5, <1>6, <1>7, FS_EmptySet DEF Counted
<1> QED  BY <1>4, <1>6, <1>8 DEF PolicyInv, Init

LEMMA PolicyNow ==
    ASSUME IInv, PolicyInv
    PROVE  policy \in CountedIn(HolderIn(tag), layer, Owned, HeldIn(tag))
<1>1. HashInv /\ layer \in Layer /\ tag \in [Slot -> Key \cup {NoKey}] /\ OwnedIn(tag)
  BY DEF IInv, StateType, TagInv, TagsOwned, OwnedIn
<1> QED  BY <1>1, CountedOwn DEF PolicyInv

LEMMA CallPolicy ==
    ASSUME PolicyInv, CallToken \/ CallBatch
    PROVE  PolicyInv'
<1>1. tag' = tag /\ policy' = policy /\ reused' \in SUBSET want'
  BY DEF CallToken, CallBatch, Call, cacheVars
<1>2. policy \in Counted(HolderIn(tag)')
  <2> DEFINE of == HolderIn(tag)
             by == HolderIn(tag)'
  <2>1. \A s \in Slot : policy.seg[s] = 2 => of[s] = by[s]
    BY <1>1 DEF PolicyInv, HolderIn, HeldIn
  <2>2. policy \in Counted(of)
    BY DEF PolicyInv
  <2> HIDE DEF of, by
  <2>3. policy \in Counted(by)
    BY <2>1, <2>2, CountedSame
  <2> QED  BY <2>3 DEF by
<1>3. \A s \in Slot : policy.seg[s] = 2 => s \in HeldIn(tag)
  BY DEF PolicyInv
<1> QED  BY <1>1, <1>2, <1>3 DEF PolicyInv, Counted, HeldIn

LEMMA PolicyFixed ==
    ASSUME PolicyInv, UNCHANGED <<tag, policy, layer>>, reused' \in SUBSET want'
    PROVE  PolicyInv'
  BY DEF PolicyInv, HolderIn, HeldIn, Counted

LEMMA GetManyResidentPolicy ==
    ASSUME IInv, PolicyInv, GetManyResident
    PROVE  PolicyInv'
<1> DEFINE S == group[Filling]
<1>1. /\ Hits(S, {}) = S /\ policy' = TouchAll(policy, Slots(HitPlace(S), S))
      /\ layer' = layer /\ tag' = tag /\ reused' = reused /\ want' = want
      /\ S \in SUBSET Expert /\ layer \in Layer
  BY GetManyFacts DEF GetManyResident, callVars, IInv, StateType
<1> HIDE DEF S
<1>2. \A e \in S : /\ HitPlace(S)[e] \in Owned /\ tag[HitPlace(S)[e]] # NoKey
                   /\ tag[HitPlace(S)[e]][1] = layer
  <2> SUFFICES ASSUME NEW e \in S
               PROVE  /\ HitPlace(S)[e] \in Owned /\ tag[HitPlace(S)[e]] # NoKey
                      /\ tag[HitPlace(S)[e]][1] = layer
    OBVIOUS
  <2>1. Holds(e) # {} /\ e \in Expert
    BY <1>1 DEF Hits
  <2>2. Find(e) \in Owned /\ tag[Find(e)] = <<layer, e>>
    BY <2>1, FindIs
  <2>3. HitPlace(S)[e] = Find(e)
    BY <2>1 DEF HitPlace
  <2>4. <<layer, e>> # NoKey /\ <<layer, e>>[1] = layer
    BY <1>1, <2>1, Constants
  <2> QED  BY <2>2, <2>3, <2>4
<1>3. policy' \in CountedIn(HolderIn(tag), layer, Owned, HeldIn(tag))
  <2>1. policy \in CountedIn(HolderIn(tag), layer, Owned, HeldIn(tag))
    BY PolicyNow
  <2> DEFINE at == HitPlace(S)
  <2>2. \A e \in S : at[e] \in Owned /\ tag[at[e]] # NoKey /\ tag[at[e]][1] = layer
    BY <1>2
  <2> HIDE DEF at
  <2>3. TouchAll(policy, Slots(at, S)) \in CountedIn(HolderIn(tag), layer, Owned, HeldIn(tag))
    BY <1>1, <2>1, <2>2, TouchesCounted
  <2> QED  BY <1>1, <2>3 DEF at
<1>4. policy' \in CountedIn(HolderIn(tag'), layer, Owned, HeldIn(tag'))
  BY <1>1, <1>3
<1>5. reused' \in SUBSET want'
  BY <1>1 DEF PolicyInv
<1> QED  BY <1>1, <1>4, <1>5, PolicyKept

(* The misses M are published in the slots at, and the tags follow. *)
LEMMA LoadedPolicy ==
    ASSUME IInv, IInv', PolicyInv, NEW M \in SUBSET Expert, NEW at,
           \A e \in M : at[e] \in Slot, tag' = Tagged(at, M),
           UNCHANGED <<layer, hashSlots>>
    PROVE  PublishAll(policy, Slots(at, M))
              \in CountedIn(HolderIn(tag'), layer, Owned, HeldIn(tag'))
<1> DEFINE u == Tagged(at, M)
<1>1. /\ u \in [Slot -> Key \cup {NoKey}]
      /\ \A s \in Slot : (\A e \in M : at[e] # s) => u[s] = tag[s]
  BY TaggedIs DEF IInv
<1> HIDE DEF u
<1>2. OwnedIn(u)
  <2>1. TagsOwned'
    BY DEF IInv, TagInv
  <2> QED  BY <2>1 DEF TagsOwned, OwnedIn, u, RangeOf, HashMin
<1>3. StateType /\ HashInv
  BY DEF IInv
<1>4. PublishAll(policy, Slots(at, M)) \in CountedIn(HolderIn(u), layer, Owned, HeldIn(u))
  BY <1>1, <1>2, <1>3, PublicationsCounted
<1>5. HolderIn(tag') = HolderIn(u) /\ HeldIn(tag') = HeldIn(u)
  BY DEF u
<1> QED  BY <1>4, <1>5

LEMMA GetManyLoadPolicy ==
    ASSUME IInv, IInv', PolicyInv, GetManyLoad
    PROVE  PolicyInv'
<1> DEFINE S == group[Filling]
           hits == Hits(S, {})
           M == S \ hits
           at == HitPlace(hits)
<1>1. PICK v \in Injection(M, Free(S, {})) :
         /\ tag' = Tagged(v, M)
         /\ policy' = TouchAll(PublishAll(policy, Slots(v, M)), Slots(at, hits))
  BY DEF GetManyLoad
<1>2. /\ layer' = layer /\ hashSlots' = hashSlots /\ reused' = reused /\ want' = want
      /\ S \in SUBSET Expert /\ layer \in Layer
  BY GetManyFacts DEF GetManyLoad, callVars, IInv, StateType
<1> HIDE DEF S
<1>3. \A e \in M : v[e] \in Owned /\ v[e] \in Slot /\ \A f \in hits : v[e] # Find(f)
  BY OwnedSlots DEF Free, Injection
<1>4. \A e \in hits : /\ at[e] = Find(e) /\ Find(e) \in Owned /\ Find(e) \in Slot
                      /\ tag[Find(e)] = <<layer, e>> /\ e \in Expert
  BY <1>2, FindIs DEF Hits, HitPlace
<1>5. M \in SUBSET Expert /\ hits \in SUBSET Expert
  BY <1>2 DEF Hits
<1> HIDE DEF M, hits, at
<1> DEFINE p == PublishAll(policy, Slots(v, M))
<1>6. p \in CountedIn(HolderIn(tag'), layer, Owned, HeldIn(tag'))
  BY <1>1, <1>2, <1>3, <1>5, LoadedPolicy
<1> HIDE DEF p
<1>7. \A e \in hits : at[e] \in Owned /\ tag'[at[e]] # NoKey /\ tag'[at[e]][1] = layer
  <2> SUFFICES ASSUME NEW e \in hits
               PROVE  at[e] \in Owned /\ tag'[at[e]] # NoKey /\ tag'[at[e]][1] = layer
    OBVIOUS
  <2>1. tag'[at[e]] = <<layer, e>>
    <3>1. at[e] \in Slot /\ \A f \in M : v[f] # at[e]
      BY <1>3, <1>4
    <3>2. Tagged(v, M)[at[e]] = tag[at[e]]
      BY <1>5, <3>1, TaggedIs DEF IInv
    <3> QED  BY <1>1, <1>4, <3>2
  <2>2. <<layer, e>> # NoKey /\ <<layer, e>>[1] = layer
    BY <1>2, <1>4, Constants
  <2> QED  BY <1>4, <2>1, <2>2
<1>8. policy' \in CountedIn(HolderIn(tag'), layer, Owned, HeldIn(tag'))
  <2> DEFINE u == tag'
  <2>1. /\ p \in CountedIn(HolderIn(u), layer, Owned, HeldIn(u))
        /\ \A e \in hits : at[e] \in Owned /\ u[at[e]] # NoKey /\ u[at[e]][1] = layer
    BY <1>6, <1>7
  <2> HIDE DEF u
  <2>2. TouchAll(p, Slots(at, hits)) \in CountedIn(HolderIn(u), layer, Owned, HeldIn(u))
    BY <1>2, <1>5, <2>1, TouchesCounted
  <2> QED  BY <1>1, <2>2 DEF u, p
<1>9. reused' \in SUBSET want'
  BY <1>2 DEF PolicyInv
<1> QED  BY <1>2, <1>8, <1>9, PolicyKept

-------------------------------------------------------------------------------
(* The steps that touch the policy. *)

(* Touches alone, as a group that is resident is reused. *)
LEMMA TouchedPolicy ==
    ASSUME IInv, PolicyInv, NEW S \in SUBSET Expert, NEW at,
           \A e \in S : at[e] \in Owned /\ tag[at[e]] # NoKey /\ tag[at[e]][1] = layer,
           policy' = TouchAll(policy, Slots(at, S)), UNCHANGED <<tag, layer, want, reused>>
    PROVE  PolicyInv'
<1>1. policy \in CountedIn(HolderIn(tag), layer, Owned, HeldIn(tag)) /\ layer \in Layer
  BY PolicyNow DEF IInv, StateType
<1>2. TouchAll(policy, Slots(at, S)) \in CountedIn(HolderIn(tag), layer, Owned, HeldIn(tag))
  BY <1>1, TouchesCounted
<1>3. policy' \in CountedIn(HolderIn(tag'), layer, Owned, HeldIn(tag'))
  BY <1>2
<1>4. reused' \in SUBSET want'
  BY DEF PolicyInv
<1> QED  BY <1>3, <1>4, PolicyKept

LEMMA ComputeResidentPolicy ==
    ASSUME IInv, PolicyInv, ComputeResident
    PROVE  PolicyInv'
<1> DEFINE again == {e \in reused \cap group[cur] : tag[place[cur][e]] = <<layer, e>>}
           at == place[cur]
<1>1. /\ policy' = TouchAll(policy, Slots(at, again))
      /\ layer' = layer /\ tag' = tag /\ reused' = reused /\ want' = want
      /\ pc = "hits" /\ cur \in Group /\ layer \in Layer
      /\ group[cur] \in SUBSET Expert
  BY DEF ComputeResident, callVars, IInv, StateType
<1>2. \A e \in group[cur] : at[e] # NoSlot /\ at[e] \in Owned
  BY <1>1 DEF IInv, PlaceInv, SeatsOwned, SeatsTaken, Unplaced
<1>3. \A e \in again : e \in Expert /\ e \in group[cur] /\ tag[at[e]] = <<layer, e>>
  BY <1>1
<1>4. again \in SUBSET Expert
  BY <1>1
<1> HIDE DEF again, at
<1>5. \A e \in again : at[e] \in Owned /\ tag[at[e]] # NoKey /\ tag[at[e]][1] = layer
  <2> SUFFICES ASSUME NEW e \in again
               PROVE  at[e] \in Owned /\ tag[at[e]] # NoKey /\ tag[at[e]][1] = layer
    OBVIOUS
  <2>1. <<layer, e>> # NoKey /\ <<layer, e>>[1] = layer
    BY <1>1, <1>3, Constants
  <2> QED  BY <1>2, <1>3, <2>1
<1> QED  BY <1>1, <1>4, <1>5, TouchedPolicy

LEMMA FinishGroupPolicy ==
    ASSUME IInv, IInv', PolicyInv, FinishGroup
    PROVE  PolicyInv'
<1> DEFINE S == group[cur]
           M == miss[cur]
           at == place[cur]
           hits == S \ M
           again == reused \cap S
           p == PublishAll(policy, Slots(at, M))
           q == TouchAll(p, Slots(at, hits))
           u == tag'
<1>1. /\ policy' = TouchAll(q, Slots(at, again))
      /\ tag' = Tagged(at, M) /\ pc = "misses"
      /\ layer' = layer /\ hashSlots' = hashSlots /\ reused' = reused /\ want' = want
      /\ cur \in Group /\ layer \in Layer
      /\ S \in SUBSET Expert /\ M \in SUBSET Expert /\ M \subseteq S
  BY DEF FinishGroup, callVars, IInv, StateType, GroupInv
<1>2. \A e \in S : at[e] # NoSlot /\ at[e] \in Owned /\ at[e] \in Slot
  BY <1>1, OwnedSlots DEF IInv, PlaceInv, SeatsOwned, SeatsTaken, Unplaced
<1>3. \A e \in S, f \in S : at[e] = at[f] => e = f
  <2>1. \A e, f \in Expert : at[e] = at[f] /\ at[e] # NoSlot => e = f
    BY <1>1 DEF IInv, PlaceInv, SeatsDistinct
  <2> QED  BY <1>1, <1>2, <2>1
<1>4. \A e \in hits : tag[at[e]] = <<layer, e>>
  BY <1>1, <1>2 DEF IInv, TagInv, HitsTagged
<1>5. hits \in SUBSET Expert /\ again \in SUBSET Expert /\ hits \subseteq S /\ again \subseteq S
      /\ \A e \in S : e \in M \/ e \in hits
  BY <1>1
<1>6. \A e \in hits : e \in S /\ e \notin M
  OBVIOUS
<1> HIDE DEF S, M, at, hits, again
<1>7. p \in CountedIn(HolderIn(u), layer, Owned, HeldIn(u))
  BY <1>1, <1>2, LoadedPolicy
<1> HIDE DEF p
<1>8. \A e \in S : at[e] \in Owned /\ u[at[e]] # NoKey /\ u[at[e]][1] = layer
  <2> SUFFICES ASSUME NEW e \in S
               PROVE  at[e] \in Owned /\ u[at[e]] # NoKey /\ u[at[e]][1] = layer
    OBVIOUS
  <2>1. CASE e \in M
    <3>1. at[e] \in Slot /\ \E f \in M : at[f] = at[e]
      BY <1>2, <2>1
    <3>2. Tagged(at, M)[at[e]] # NoKey /\ Tagged(at, M)[at[e]][1] = layer
      BY <1>1, <3>1, TaggedIs DEF IInv
    <3> QED  BY <1>1, <1>2, <3>2
  <2>2. CASE e \in hits
    <3>1. at[e] \in Slot /\ \A f \in M : at[f] # at[e]
      BY <1>1, <1>2, <1>3, <1>6, <2>2
    <3>2. Tagged(at, M)[at[e]] = tag[at[e]]
      BY <1>1, <3>1, TaggedIs DEF IInv
    <3>3. <<layer, e>> # NoKey /\ <<layer, e>>[1] = layer
      BY <1>1, <1>5, <2>2, Constants
    <3> QED  BY <1>1, <1>2, <1>4, <2>2, <3>2, <3>3
  <2> QED  BY <1>5, <2>1, <2>2
<1> HIDE DEF u
<1>9. q \in CountedIn(HolderIn(u), layer, Owned, HeldIn(u))
  <2>1. \A e \in hits : at[e] \in Owned /\ u[at[e]] # NoKey /\ u[at[e]][1] = layer
    BY <1>5, <1>8
  <2> QED  BY <1>1, <1>5, <1>7, <2>1, TouchesCounted
<1> HIDE DEF q
<1>10. policy' \in CountedIn(HolderIn(u), layer, Owned, HeldIn(u))
  <2>1. \A e \in again : at[e] \in Owned /\ u[at[e]] # NoKey /\ u[at[e]][1] = layer
    BY <1>5, <1>8
  <2>2. TouchAll(q, Slots(at, again)) \in CountedIn(HolderIn(u), layer, Owned, HeldIn(u))
    BY <1>1, <1>5, <1>9, <2>1, TouchesCounted
  <2> QED  BY <1>1, <2>2
<1>11. reused' \in SUBSET want'
  BY <1>1 DEF PolicyInv
<1>12. policy' \in CountedIn(HolderIn(tag'), layer, Owned, HeldIn(tag'))
  BY <1>10 DEF u
<1> QED  BY <1>1, <1>11, <1>12, PolicyKept

(* A resize counts the protected slots that moved again. *)
LEMMA ResizePolicy ==
    ASSUME IInv, PolicyInv, Resize
    PROVE  PolicyInv'
<1>1. PICK asked \in Topk..NExperts, from \in Bijection(Slot, Slot) :
         LET h == Min({asked, MaxHashSlots}) IN
         /\ Reorder(h, from) /\ tag' = MovedTags(h, from)
         /\ policy' = [seg |-> MovedSegments(h, from),
                       age |-> [d \in Slot |-> policy.age[from[d]]],
                       prot |-> Recounted(MovedSegments(h, from), MovedTags(h, from))]
  BY DEF Resize
<1> DEFINE h == Min({asked, MaxHashSlots})
           segs == MovedSegments(h, from)
           ages == [d \in Slot |-> policy.age[from[d]]]
           counts == Recounted(segs, tag')
<1>2. /\ Reorder(h, from) /\ tag' = MovedTags(h, from)
      /\ policy' = [seg |-> segs, age |-> ages, prot |-> counts]
  BY <1>1
<1>3. /\ layer' = layer /\ reused' = reused /\ want' = want /\ Slru
      /\ from \in [Slot -> Slot]
  BY DEF Resize, callVars, Bijection, Injection
<1>4. /\ policy.seg \in [Slot -> 0..2] /\ policy.age \in [Slot -> 0..(NSlots - 1)]
  BY DEF PolicyInv, Counted, PolicyType
<1> HIDE DEF h
<1>5. ASSUME NEW d \in Slot
      PROVE  /\ segs[d] \in 0..2 /\ ages[d] \in 0..(NSlots - 1)
             /\ segs[d] = 2 => tag'[d] # NoKey
  <2>1. from[d] \in Slot
    BY <1>3
  <2>2. segs[d] = IF Kept(h, d) THEN policy.seg[from[d]] ELSE 0
    BY DEF MovedSegments
  <2>3. Kept(h, d) => tag'[d] # NoKey
    <3> SUFFICES ASSUME Kept(h, d)  PROVE tag'[d] # NoKey
      OBVIOUS
    <3>1. PICK l \in Layer, s \in Slot : Keeps(h, l, d, s)
      BY DEF Kept
    <3>2. from[d] = s /\ tag[s] # NoKey
      BY <1>2, <3>1 DEF Reorder, Keeps, TaggedBy
    <3>3. tag'[d] = tag[from[d]]
      BY <1>2 DEF MovedTags
    <3> QED  BY <3>2, <3>3
  <2>4. policy.seg[from[d]] \in 0..2 /\ policy.age[from[d]] \in 0..(NSlots - 1)
    BY <1>4, <2>1
  <2> QED  BY <2>2, <2>3, <2>4
<1>6. /\ segs \in [Slot -> 0..2] /\ ages \in [Slot -> 0..(NSlots - 1)]
  <2>1. segs = [d \in Slot |-> segs[d]]
    BY DEF MovedSegments
  <2> HIDE DEF segs
  <2> QED  BY <1>5, <2>1
<1> DEFINE of == HolderIn(tag)'
<1>7. \A l \in Layer : counts[l] = Cardinality(ProtectedOf(segs, of, l))
  <2> SUFFICES ASSUME NEW l \in Layer  PROVE counts[l] = Cardinality(ProtectedOf(segs, of, l))
    OBVIOUS
  <2>1. counts[l] = Cardinality({d \in Slot : segs[d] = 2 /\ tag'[d][1] = l})
    BY DEF Recounted
  <2>2. {d \in Slot : segs[d] = 2 /\ tag'[d][1] = l} = ProtectedOf(segs, of, l)
    <3> HIDE DEF segs
    <3> QED  BY <1>5 DEF ProtectedOf, HolderIn
  <2> QED  BY <2>1, <2>2
<1>8. counts \in [Layer -> Int]
  <2>1. counts = [l \in Layer |-> counts[l]]
    BY DEF Recounted
  <2>2. \A l \in Layer : counts[l] \in Int
    BY <1>7, ProtectedSize
  <2> HIDE DEF counts
  <2> QED  BY <2>1, <2>2
<1> HIDE DEF segs, ages, counts, of
<1>9. policy' \in PolicyType /\ policy'.seg = segs /\ policy'.prot = counts
  BY <1>2, <1>6, <1>8 DEF PolicyType
<1>10. policy' \in Counted(of)
  BY <1>3, <1>7, <1>9 DEF Counted
<1>11. \A s \in Slot : policy'.seg[s] = 2 => s \in HeldIn(tag)'
  BY <1>5, <1>9 DEF HeldIn
<1>12. reused' \in SUBSET want'
  BY <1>3 DEF PolicyInv
<1>13. Counted(of) = Counted(HolderIn(tag))'
  BY DEF of, Counted
<1> QED  BY <1>10, <1>11, <1>12, <1>13 DEF PolicyInv

LEMMA NextPolicy ==
    ASSUME CacheHoldsToken, IInv, IInv', PolicyInv, [Next]_vars
    PROVE  PolicyInv'
<1>0. ~GetManySerial /\ ~GetSerial
  BY NeverSerial
<1>1. CASE CallToken \/ CallBatch
  BY <1>1, CallPolicy
<1>2. ASSUME NEW g \in Group, BeginReads(g) \/ BeginGetMany(g)  PROVE PolicyInv'
  BY <1>2, PolicyFixed DEF BeginReads, BeginGetMany, cacheVars, callVars, PolicyInv
<1>3. CASE GetManyResident
  BY <1>3, GetManyResidentPolicy
<1>4. CASE GetManyLoad
  BY <1>4, GetManyLoadPolicy
<1>5. CASE NoNext
  BY <1>5, PolicyFixed DEF NoNext, cacheVars, callVars, PolicyInv
<1>6. CASE ComputeResident
  BY <1>6, ComputeResidentPolicy
<1>7. CASE ComputeHits
  BY <1>7, PolicyFixed DEF ComputeHits, cacheVars, callVars, PolicyInv
<1>8. ASSUME NEW e \in Expert, ComputeMiss(e)  PROVE PolicyInv'
  BY <1>8, PolicyFixed DEF ComputeMiss, cacheVars, callVars, PolicyInv
<1>9. CASE FinishGroup
  BY <1>9, FinishGroupPolicy
<1>10. CASE Return
  BY <1>10, PolicyFixed DEF Return, cacheVars
<1>11. CASE Resize
  BY <1>11, ResizePolicy
<1>12. ASSUME NEW g \in Group, NEW e \in Expert, Reads(g, e)  PROVE PolicyInv'
  BY <1>12, PolicyFixed DEF Reads, StartRead, EndRead, callVars, PolicyInv
<1>13. CASE UNCHANGED vars
  BY <1>13, PolicyFixed DEF vars, cacheVars, callVars, PolicyInv
<1> QED  BY <1>0, <1>1, <1>2, <1>3, <1>4, <1>5, <1>6, <1>7, <1>8, <1>9, <1>10, <1>11, <1>12,
            <1>13 DEF Next, Inference, BeginGroup, GetMany, Evaluate, Failed

LEMMA PolicyCounts ==
    ASSUME IInv, PolicyInv
    PROVE  ProtectedCounted
<1> DEFINE of == HolderIn(tag)
<1>1. /\ policy \in PolicyType
      /\ \A l \in Layer : policy.prot[l] = Cardinality(ProtectedOf(policy.seg, of, l))
      /\ \A s \in Slot : policy.seg[s] = 2 => tag[s] # NoKey
      /\ reused \in SUBSET want
  BY DEF PolicyInv, Counted, HeldIn
<1>2. \A l : ProtectedOf(policy.seg, of, l) = Protected(l)
  BY <1>1 DEF ProtectedOf, Protected, HolderIn
<1>3. \A l : /\ ProtectedOf(policy.seg, of, l) \in SUBSET Slot
             /\ Cardinality(ProtectedOf(policy.seg, of, l)) \in Nat
  BY ProtectedSize
<1> HIDE DEF of
<1>4. \A l \in Layer : policy.prot[l] \in 0..NSlots
  <2> SUFFICES ASSUME NEW l \in Layer  PROVE policy.prot[l] \in 0..NSlots
    OBVIOUS
  <2> DEFINE P == ProtectedOf(policy.seg, of, l)
  <2>1. P \in SUBSET Slot /\ Cardinality(P) \in Nat /\ policy.prot[l] = Cardinality(P)
    BY <1>1, <1>3
  <2> HIDE DEF P
  <2>2. IsFiniteSet(Slot) /\ Cardinality(Slot) = NSlots /\ NSlots \in Nat
    BY SubsetsFinite, SizesAssumption
  <2>3. Cardinality(P) <= NSlots
    BY <2>1, <2>2, FS_Subset
  <2> QED  BY <2>1, <2>2, <2>3
<1>5. /\ DOMAIN policy = {"seg", "age", "prot"}
      /\ policy.seg \in [Slot -> 0..2] /\ policy.age \in [Slot -> 0..(NSlots - 1)]
      /\ policy.prot \in [Layer -> 0..NSlots]
  BY <1>1, <1>4 DEF PolicyType
<1>6. TypeOK
  BY <1>1, <1>5 DEF IInv, StateType, HashInv, TypeOK
<1> QED  BY <1>1, <1>2, <1>6 DEF ProtectedCounted

(* Through hits, evictions and resizes the counter of a layer stays the     *)
(* number of slots it protects, and every variable stays in its type.       *)
THEOREM StreamProtectedCounted == CacheHoldsToken => (SafetySpec => []ProtectedCounted)
<1> SUFFICES ASSUME CacheHoldsToken  PROVE SafetySpec => []ProtectedCounted
  OBVIOUS
<1>1. Init => IInv /\ PolicyInv
  BY InitIInv, InitPolicy
<1>2. IInv /\ PolicyInv /\ [Next]_vars => IInv' /\ PolicyInv'
  BY NextKeeps, NextPolicy
<1>3. IInv /\ PolicyInv => ProtectedCounted
  BY PolicyCounts
<1> QED  BY <1>1, <1>2, <1>3, PTL DEF SafetySpec

===============================================================================
