---------------------------- MODULE StartupProofs ----------------------------
(***************************************************************************)
(* Proofs about Startup, for every configuration, command line,            *)
(* environment and memory: what is opened is what was planned, and what    *)
(* was planned keeps the promises of the planner.                          *)
(***************************************************************************)
EXTENDS Startup, FiniteSetTheorems, TLAPS

-------------------------------------------------------------------------------
(* Arithmetic. *)

LEMMA Division ==
    ASSUME NEW a \in Int, NEW b \in Nat \ {0}
    PROVE  /\ a \div b \in Int /\ a % b \in 0..(b - 1)
           /\ a = (a \div b) * b + (a % b)
    BY SMT

LEMMA DivisionBounds ==
    ASSUME NEW a \in Int, NEW b \in Nat \ {0}
    PROVE  /\ (a \div b) * b <= a
           /\ a < (a \div b) * b + b
           /\ a >= 0 => a \div b >= 0
    BY SMT

LEMMA DivisionAtLeast ==
    ASSUME NEW a \in Int, NEW b \in Nat \ {0}, NEW k \in Int, k * b <= a
    PROVE  k <= a \div b
    BY SMT

LEMMA TimesMonotone ==
    ASSUME NEW a \in Int, NEW b \in Int, NEW c \in Nat, a <= b
    PROVE  a * c <= b * c
    BY SMT

LEMMA CeilDivMonotone ==
    ASSUME NEW a \in Nat, NEW b \in Nat, a <= b, NEW k \in Nat \ {0}
    PROVE  /\ CeilDiv(a, k) \in Nat /\ CeilDiv(b, k) \in Nat
           /\ CeilDiv(a, k) <= CeilDiv(b, k)
<1>1. a \div k \in Nat /\ a % k \in 0..(k - 1) /\ a = (a \div k) * k + (a % k)
  BY SMT
<1>0. b \div k \in Nat /\ b % k \in 0..(k - 1) /\ b = (b \div k) * k + (b % k)
  BY SMT
<1>2. a \div k <= b \div k
  <2>1. (a \div k) * k <= b
    BY <1>1
  <2> QED  BY <1>1, <2>1, DivisionAtLeast
<1>3. a \div k = b \div k /\ a % k # 0 => b % k # 0
  BY <1>0, <1>1
<1> QED  BY <1>0, <1>1, <1>2, <1>3 DEF CeilDiv

-------------------------------------------------------------------------------
(* The plan. *)

LEMMA LayersCounted ==
    ASSUME NEW c, ConfigType(c), NEW ratio
    PROVE  LayersOf(c, ratio) \in Nat
<1>1. IsFiniteSet(1..c.layers)
  <2>1. c.layers \in Int
    BY DEF ConfigType
  <2> QED  BY <2>1, FS_Interval
<1> QED  BY <1>1, FS_Subset, FS_CardinalityType DEF LayersOf

LEMMA SizesTyped ==
    ASSUME NEW c, ConfigType(c), NEW e, NEW length \in Int
    PROVE  /\ ContextBytes(c, length) \in Int
           /\ WoaLayer(c, e) \in Nat
           /\ DSparkBytes(c, e) \in Int
           /\ Fixed(c, e, length) \in Int
<1>1. LayersOf(c, NearRatio) \in Nat /\ LayersOf(c, FarRatio) \in Nat
  BY LayersCounted
<1>2. CeilDiv(length, NearRatio) \in Int /\ CeilDiv(length, FarRatio) \in Int
  BY Division, PlanAssumption DEF CeilDiv
<1>3. c.layers \in Int /\ c.window \in Int /\ c.stages \in Nat
      /\ c.woa \in Nat /\ c.packed \in Nat
  BY DEF ConfigType
<1>4. ContextBytes(c, length) \in Int
  <2>1. c.layers * c.window * RowBytes \in Int
    BY <1>3, PlanAssumption
  <2>2. LayersOf(c, NearRatio) * CeilDiv(length, NearRatio) * (RowBytes + IndexBytes) \in Int
    BY <1>1, <1>2, PlanAssumption
  <2>3. LayersOf(c, FarRatio) * CeilDiv(length, FarRatio) * RowBytes \in Int
    BY <1>1, <1>2, PlanAssumption
  <2> QED  BY <2>1, <2>2, <2>3 DEF ContextBytes
<1>5. WoaLayer(c, e) \in Nat
  BY <1>3 DEF WoaLayer
<1>6. DSparkBytes(c, e) \in Int
  <2>1. c.stages * WoaLayer(c, e) \in Int /\ c.stages * c.window * RowBytes \in Int
    BY <1>3, <1>5, PlanAssumption
  <2> QED  BY <2>1 DEF DSparkBytes
<1> QED  BY <1>4, <1>5, <1>6, PlanAssumption DEF Fixed

(* What memory_plan_impl makes of what is left of the budget. *)
LEMMA WoaWithin ==
    ASSUME NEW left \in Int, NEW layer \in Nat, NEW n \in Nat
    PROVE  /\ WoaLayers(left, layer, n) \in 0..n
           /\ left >= 0 => WoaLayers(left, layer, n) * layer <= left
           /\ left >= MinExpertCache =>
                 left - WoaLayers(left, layer, n) * layer >= MinExpertCache
<1>1. CASE layer > 0 /\ left > MinExpertCache
  <2> DEFINE d == (left - MinExpertCache) \div layer
  <2>1. d \in Nat /\ d * layer <= left - MinExpertCache
    BY <1>1, DivisionBounds, Division, PlanAssumption
  <2>2. WoaLayers(left, layer, n) = AtMost(d, n)
    BY <1>1 DEF WoaLayers
  <2>3. AtMost(d, n) \in 0..n /\ AtMost(d, n) <= d
    BY <2>1 DEF AtMost
  <2> HIDE DEF d
  <2>4. AtMost(d, n) * layer <= d * layer
    BY <2>1, <2>3, TimesMonotone
  <2> QED  BY <2>1, <2>2, <2>3, <2>4, PlanAssumption
<1>2. CASE ~(layer > 0 /\ left > MinExpertCache)
  <2>1. WoaLayers(left, layer, n) = 0
    BY <1>2 DEF WoaLayers
  <2> QED  BY <2>1
<1> QED  BY <1>1, <1>2

LEMMA SlotsWithin ==
    ASSUME NEW left \in Int, NEW bytes \in Int
    PROVE  /\ Slots(left, bytes) \in Int
           /\ Slots(left, bytes) <= MostSlots
           /\ Slots(left, bytes) * ExpertSlot <= left - bytes \/ left < bytes
           /\ Slots(left, bytes) = MostSlots
                 \/ left - bytes < Slots(left, bytes) * ExpertSlot + ExpertSlot
<1> DEFINE d == (left - bytes) \div ExpertSlot
<1>1. d \in Int /\ d * ExpertSlot <= left - bytes /\ left - bytes < d * ExpertSlot + ExpertSlot
  BY Division, DivisionBounds, PlanAssumption
<1>2. Slots(left, bytes) = AtMost(d, MostSlots)
  BY DEF Slots
<1> HIDE DEF d
<1>3. AtMost(d, MostSlots) \in {d, MostSlots} /\ AtMost(d, MostSlots) <= d
      /\ AtMost(d, MostSlots) <= MostSlots
  BY <1>1, PlanAssumption DEF AtMost
<1>4. AtMost(d, MostSlots) * ExpertSlot <= d * ExpertSlot
  BY <1>1, <1>3, TimesMonotone, PlanAssumption
<1> QED  BY <1>1, <1>2, <1>3, <1>4, PlanAssumption

LEMMA PlanTyped ==
    ASSUME NEW c, ConfigType(c), c.layers \in Nat, NEW e,
           NEW length \in Int, NEW amount \in Int
    PROVE  /\ Left(c, e, length, amount) \in Int
           /\ PlanWoa(c, e, length, amount) \in 0..c.layers
           /\ PlanSlots(c, e, length, amount) \in Int
           /\ PlanSlots(c, e, length, amount) <= MostSlots
<1>1. Left(c, e, length, amount) \in Int /\ WoaLayer(c, e) \in Nat
  BY SizesTyped DEF Left
<1>2. PlanWoa(c, e, length, amount) \in 0..c.layers
  BY <1>1, WoaWithin DEF PlanWoa
<1>3. PlanWoa(c, e, length, amount) * WoaLayer(c, e) \in Int
  BY <1>1, <1>2
<1> QED  BY <1>1, <1>2, <1>3, SlotsWithin DEF PlanSlots

(* A plan that is not refused stays within the budget it was made for and   *)
(* leaves less than a slot of it unused, short of the ceiling of slots.     *)
THEOREM PlanWithinBudget ==
    ASSUME NEW c, ConfigType(c), c.layers \in Nat, NEW e,
           NEW length \in Int, NEW amount \in Int, Fits(c, e, length, amount)
    PROVE  /\ PlanWoa(c, e, length, amount) \in 0..c.layers
           /\ PlanSlots(c, e, length, amount) \in 1..MostSlots
           /\ Planned(c, e, length, amount) <= amount
           /\ PlanSlots(c, e, length, amount) = MostSlots
                 \/ amount - Planned(c, e, length, amount) < ExpertSlot
<1> DEFINE left == Left(c, e, length, amount)
           woa == PlanWoa(c, e, length, amount)
           layer == WoaLayer(c, e)
           slots == PlanSlots(c, e, length, amount)
<1>1. left \in Int /\ layer \in Nat /\ Fixed(c, e, length) \in Int
      /\ woa \in 0..c.layers /\ slots \in 1..MostSlots
  BY PlanTyped, SizesTyped, PlanAssumption DEF Fits
<1>2. left = amount - Fixed(c, e, length) /\ left > 0
  BY <1>1 DEF Left, Fits
<1>3. woa = WoaLayers(left, layer, c.layers)
  BY DEF PlanWoa
<1>5. slots = Slots(left, woa * layer)
  BY DEF PlanSlots
<1>6. Planned(c, e, length, amount)
      = Fixed(c, e, length) + woa * layer + slots * ExpertSlot
  BY DEF Planned
<1> HIDE DEF left, woa, layer, slots
<1>4. woa * layer \in Int /\ woa * layer <= left
  <2>1. left >= 0 => WoaLayers(left, layer, c.layers) * layer <= left
    BY <1>1, WoaWithin
  <2> QED  BY <1>1, <1>2, <1>3, <2>1
<1>7. /\ slots * ExpertSlot <= left - woa * layer
      /\ slots = MostSlots \/ left - woa * layer < slots * ExpertSlot + ExpertSlot
  BY <1>1, <1>4, <1>5, SlotsWithin
<1>8. slots * ExpertSlot \in Int
  BY <1>1, PlanAssumption
<1>9. Planned(c, e, length, amount) <= amount
      /\ (slots = MostSlots \/ amount - Planned(c, e, length, amount) < ExpertSlot)
  BY <1>1, <1>2, <1>4, <1>6, <1>7, <1>8, PlanAssumption
<1> QED  BY <1>1, <1>9 DEF woa, slots

(* Decoded wo_a layers are paid for by what is left above the least cache:  *)
(* they never take a slot of it.                                            *)
THEOREM PlanKeepsFloor ==
    ASSUME NEW c, ConfigType(c), c.layers \in Nat, NEW e,
           NEW length \in Int, NEW amount \in Int,
           Left(c, e, length, amount) >= MinExpertCache
    PROVE  PlanSlots(c, e, length, amount)
              >= AtMost(MinExpertCache \div ExpertSlot, MostSlots)
<1> DEFINE left == Left(c, e, length, amount)
           layer == WoaLayer(c, e)
           woa == WoaLayers(left, layer, c.layers)
           floor == MinExpertCache \div ExpertSlot
           d == (left - woa * layer) \div ExpertSlot
<1>1. left \in Int /\ layer \in Nat /\ left >= MinExpertCache
  BY PlanTyped, SizesTyped
<1>2. PlanSlots(c, e, length, amount) = AtMost(d, MostSlots)
  BY DEF PlanSlots, Slots, PlanWoa
<1>3. floor \in Int /\ floor * ExpertSlot <= MinExpertCache
  BY Division, DivisionBounds, PlanAssumption
<1> HIDE DEF left, layer, floor
<1>4. /\ woa \in 0..c.layers
      /\ left >= MinExpertCache => left - woa * layer >= MinExpertCache
  BY <1>1, WoaWithin
<1> HIDE DEF woa
<1>5. left - woa * layer \in Int /\ floor * ExpertSlot <= left - woa * layer
  BY <1>1, <1>3, <1>4, PlanAssumption
<1>6. floor <= d /\ d \in Int
  BY <1>3, <1>5, DivisionAtLeast, Division, PlanAssumption
<1> HIDE DEF d
<1>7. AtMost(d, MostSlots) >= AtMost(floor, MostSlots)
  BY <1>3, <1>6, PlanAssumption DEF AtMost
<1> QED  BY <1>2, <1>7 DEF floor

LEMMA SlotsAtLeastOne ==
    ASSUME NEW left \in Int, NEW bytes \in Int
    PROVE  Slots(left, bytes) >= 1 <=> left - bytes >= ExpertSlot
<1> DEFINE d == (left - bytes) \div ExpertSlot
<1>1. d \in Int /\ d * ExpertSlot <= left - bytes /\ left - bytes < d * ExpertSlot + ExpertSlot
  BY Division, DivisionBounds, PlanAssumption
<1>2. Slots(left, bytes) >= 1 <=> d >= 1
  BY <1>1, PlanAssumption DEF Slots, AtMost
<1> HIDE DEF d
<1>3. d >= 1 => d * ExpertSlot >= ExpertSlot
  BY <1>1, PlanAssumption
<1>4. d < 1 => d * ExpertSlot + ExpertSlot <= ExpertSlot
  BY <1>1, PlanAssumption
<1>5. d * ExpertSlot \in Int
  BY <1>1, PlanAssumption
<1> QED  BY <1>1, <1>2, <1>3, <1>4, <1>5, PlanAssumption

LEMMA ContextBytesNatural ==
    ASSUME NEW c, ConfigType(c), c.layers \in Nat, c.window \in Nat, NEW length \in Nat
    PROVE  ContextBytes(c, length) \in Nat
<1>1. LayersOf(c, NearRatio) \in Nat /\ LayersOf(c, FarRatio) \in Nat
  BY LayersCounted
<1>2. CeilDiv(length, NearRatio) \in Nat /\ CeilDiv(length, FarRatio) \in Nat
  BY CeilDivMonotone, PlanAssumption
<1>3. c.layers * c.window * RowBytes \in Nat
  BY PlanAssumption
<1>4. LayersOf(c, NearRatio) * CeilDiv(length, NearRatio) * (RowBytes + IndexBytes) \in Nat
  BY <1>1, <1>2, PlanAssumption
<1>5. LayersOf(c, FarRatio) * CeilDiv(length, FarRatio) * RowBytes \in Nat
  BY <1>1, <1>2, PlanAssumption
<1> QED  BY <1>3, <1>4, <1>5 DEF ContextBytes

LEMMA ContextBytesMonotone ==
    ASSUME NEW c, ConfigType(c), NEW short \in Nat, NEW long \in Nat, short <= long
    PROVE  ContextBytes(c, short) <= ContextBytes(c, long)
<1> DEFINE near == LayersOf(c, NearRatio)
           far == LayersOf(c, FarRatio)
           a == CeilDiv(short, NearRatio)
           b == CeilDiv(long, NearRatio)
           p == CeilDiv(short, FarRatio)
           q == CeilDiv(long, FarRatio)
           ring == c.layers * c.window * RowBytes
<1>1. near \in Nat /\ far \in Nat
  BY LayersCounted
<1>2. a \in Nat /\ b \in Nat /\ a <= b /\ p \in Nat /\ q \in Nat /\ p <= q
  BY CeilDivMonotone, PlanAssumption
<1>3. ring \in Int
  BY PlanAssumption DEF ConfigType
<1>4. ContextBytes(c, short) = ring + near * a * (RowBytes + IndexBytes) + far * p * RowBytes
      /\ ContextBytes(c, long) = ring + near * b * (RowBytes + IndexBytes) + far * q * RowBytes
  BY DEF ContextBytes
<1> HIDE DEF near, far, a, b, p, q, ring
<1>5. near * a \in Nat /\ near * b \in Nat /\ near * a <= near * b
      /\ far * p \in Nat /\ far * q \in Nat /\ far * p <= far * q
  BY <1>1, <1>2
<1>6. near * a * (RowBytes + IndexBytes) <= near * b * (RowBytes + IndexBytes)
      /\ far * p * RowBytes <= far * q * RowBytes
  BY <1>5, TimesMonotone, PlanAssumption
<1>7. near * a * (RowBytes + IndexBytes) \in Int /\ near * b * (RowBytes + IndexBytes) \in Int
      /\ far * p * RowBytes \in Int /\ far * q * RowBytes \in Int
  BY <1>5, PlanAssumption
<1> QED  BY <1>3, <1>4, <1>6, <1>7

(* A budget that holds a context holds a shorter one, since the least cache *)
(* has room for a slot: when dsv4_auto_context gives up at one token, no    *)
(* context would have fitted.                                               *)
THEOREM ShorterContextsFit ==
    ASSUME NEW c, ConfigType(c), c.layers \in Nat, NEW e, NEW amount \in Int,
           NEW short \in Nat, NEW long \in Nat, short <= long,
           Fits(c, e, long, amount)
    PROVE  Fits(c, e, short, amount)
<1> DEFINE layer == WoaLayer(c, e)
           left(n) == Left(c, e, n, amount)
           bytes(n) == WoaLayers(left(n), layer, c.layers) * layer
<1>1. layer \in Nat /\ left(short) \in Int /\ left(long) \in Int
  BY SizesTyped, PlanTyped
<1>2. /\ Fixed(c, e, short) \in Int /\ Fixed(c, e, long) \in Int
      /\ Fixed(c, e, short) <= Fixed(c, e, long)
  <2>1. ContextBytes(c, short) <= ContextBytes(c, long)
    BY ContextBytesMonotone
  <2>2. /\ ContextBytes(c, short) \in Int /\ ContextBytes(c, long) \in Int
        /\ DSparkBytes(c, e) \in Int
    BY SizesTyped
  <2> QED  BY <2>1, <2>2, PlanAssumption DEF Fixed
<1>3. left(long) <= left(short)
  BY <1>2 DEF Left
<1>4. /\ PlanSlots(c, e, short, amount) = Slots(left(short), bytes(short))
      /\ PlanSlots(c, e, long, amount) = Slots(left(long), bytes(long))
  BY DEF PlanSlots, PlanWoa
<1>5. /\ left(short) >= MinExpertCache => left(short) - bytes(short) >= MinExpertCache
      /\ WoaLayers(left(short), layer, c.layers) \in 0..c.layers
      /\ WoaLayers(left(long), layer, c.layers) \in 0..c.layers
  BY <1>1, WoaWithin
<1>6. left(short) < MinExpertCache => bytes(short) = 0
  BY <1>1, PlanAssumption DEF WoaLayers
<1>7. bytes(short) \in Int /\ bytes(long) \in Nat
  BY <1>1, <1>5
<1>8. PlanSlots(c, e, long, amount) >= 1 /\ amount > Fixed(c, e, long)
      /\ amount > 0 /\ amount <= MostBudget
  BY DEF Fits
<1> HIDE DEF left, bytes, layer
<1>9. left(long) - bytes(long) >= ExpertSlot
  BY <1>1, <1>4, <1>7, <1>8, SlotsAtLeastOne
<1>10. left(short) - bytes(short) >= ExpertSlot
  <2>1. CASE left(short) >= MinExpertCache
    BY <1>1, <1>5, <1>7, <2>1, PlanAssumption
  <2>2. CASE left(short) < MinExpertCache
    BY <1>1, <1>3, <1>6, <1>7, <1>9, <2>2, PlanAssumption
  <2> QED  BY <1>1, <2>1, <2>2, PlanAssumption
<1>11. PlanSlots(c, e, short, amount) >= 1
  BY <1>1, <1>4, <1>7, <1>10, SlotsAtLeastOne
<1> QED  BY <1>2, <1>8, <1>11 DEF Fits

(* A budget made up of all the rest and a cache of at least the least one   *)
(* keeps every decoded wo_a layer and buys just the slots of that cache.    *)
THEOREM CacheBudgetBuysTheCache ==
    ASSUME NEW c, ConfigType(c), c.layers \in Nat \ {0}, NEW e, WoaLayer(c, e) > 0,
           NEW length \in Int, NEW cache \in Nat, cache >= MinExpertCache,
           NEW amount \in Int,
           amount = RuntimeReserve + ContextBytes(c, length)
                    + c.layers * WoaLayer(c, e) + DSparkBytes(c, e) + cache
    PROVE  /\ PlanWoa(c, e, length, amount) = c.layers
           /\ PlanSlots(c, e, length, amount) = AtMost(cache \div ExpertSlot, MostSlots)
<1> DEFINE layer == WoaLayer(c, e)
           left == Left(c, e, length, amount)
<1>1. layer \in Nat \ {0} /\ c.layers * layer \in Nat
  <2>1. layer \in Nat
    BY SizesTyped
  <2> QED  BY <2>1
<1>2. left = c.layers * layer + cache
  <2>1. ContextBytes(c, length) \in Int /\ DSparkBytes(c, e) \in Int
    BY SizesTyped
  <2>2. c.layers * layer \in Int
    BY <1>1
  <2> QED  BY <2>1, <2>2, PlanAssumption DEF Left, Fixed
<1>3. PlanWoa(c, e, length, amount) = WoaLayers(left, layer, c.layers)
  BY DEF PlanWoa
<1>4. PlanSlots(c, e, length, amount)
      = AtMost((left - PlanWoa(c, e, length, amount) * layer) \div ExpertSlot, MostSlots)
  BY DEF PlanSlots, Slots
<1> HIDE DEF layer, left
<1>5. left \in Int /\ left > MinExpertCache /\ c.layers * layer <= left - MinExpertCache
  <2>1. c.layers * layer > 0
    BY <1>1
  <2> QED  BY <1>1, <1>2, <2>1, PlanAssumption
<1>6. WoaLayers(left, layer, c.layers) = c.layers
  <2> DEFINE d == (left - MinExpertCache) \div layer
  <2>1. left - MinExpertCache \in Int
    BY <1>5, PlanAssumption
  <2>2. d \in Int
    BY <1>1, <2>1, Division
  <2>4. c.layers <= d
    BY <1>1, <1>5, <2>1, c.layers \in Int, DivisionAtLeast, Zenon
  <2>3. WoaLayers(left, layer, c.layers) = AtMost(d, c.layers)
    BY <1>1, <1>5 DEF WoaLayers
  <2> QED  BY <2>2, <2>3, <2>4 DEF AtMost
<1>7. left - PlanWoa(c, e, length, amount) * layer = cache
  BY <1>1, <1>2, <1>3, <1>6
<1> QED  BY <1>3, <1>4, <1>6, <1>7

-------------------------------------------------------------------------------
(* The division of the cache. *)

LEMMA ShareTyped ==
    ASSUME NEW first \in Int, NEW n \in Nat, NEW k \in Nat \ {0}, NEW i \in Nat
    PROVE  /\ n \div k \in Nat /\ n % k \in 0..(k - 1) /\ n = (n \div k) * k + (n % k)
           /\ ShareBegin(first, n, k, i) \in Int
<1>1. n \div k \in Nat /\ n % k \in 0..(k - 1) /\ n = (n \div k) * k + (n % k)
  BY SMT
<1>2. AtMost(i, n % k) \in Int /\ i * (n \div k) \in Int
  BY <1>1 DEF AtMost
<1> QED  BY <1>1, <1>2 DEF ShareBegin

(* The shares follow each other from the first slot to the last, *)
LEMMA ShareEnds ==
    ASSUME NEW first \in Int, NEW n \in Nat, NEW k \in Nat \ {0}
    PROVE  /\ ShareBegin(first, n, k, 0) = first
           /\ ShareBegin(first, n, k, k) = first + n
<1>1. n \div k \in Nat /\ n % k \in 0..(k - 1) /\ n = (n \div k) * k + (n % k)
  BY ShareTyped
<1>2. AtMost(0, n % k) = 0 /\ AtMost(k, n % k) = n % k
  BY <1>1 DEF AtMost
<1>3. 0 * (n \div k) = 0 /\ k * (n \div k) = (n \div k) * k
  BY <1>1
<1>4. /\ ShareBegin(first, n, k, 0) = first + 0 * (n \div k) + AtMost(0, n % k)
      /\ ShareBegin(first, n, k, k) = first + k * (n \div k) + AtMost(k, n % k)
  BY DEF ShareBegin
<1> QED  BY <1>1, <1>2, <1>3, <1>4

LEMMA ShareOrdered ==
    ASSUME NEW first \in Int, NEW n \in Nat, NEW k \in Nat \ {0},
           NEW i \in Nat, NEW j \in Nat, i <= j
    PROVE  ShareBegin(first, n, k, i) <= ShareBegin(first, n, k, j)
<1>1. n \div k \in Nat /\ n % k \in 0..(k - 1)
  BY ShareTyped
<1>2. AtMost(i, n % k) <= AtMost(j, n % k)
      /\ AtMost(i, n % k) \in Int /\ AtMost(j, n % k) \in Int
  BY <1>1 DEF AtMost
<1>3. i * (n \div k) <= j * (n \div k)
  BY <1>1, TimesMonotone
<1>4. i * (n \div k) \in Int /\ j * (n \div k) \in Int
  BY <1>1
<1> QED  BY <1>2, <1>3, <1>4 DEF ShareBegin

(* none is smaller than what the whole is enough for, *)
LEMMA ShareAtLeast ==
    ASSUME NEW first \in Int, NEW n \in Nat, NEW k \in Nat \ {0},
           NEW i \in Nat, NEW q \in Int, q * k <= n
    PROVE  ShareBegin(first, n, k, i + 1) - ShareBegin(first, n, k, i) >= q
<1>1. n \div k \in Nat /\ n % k \in 0..(k - 1)
  BY ShareTyped
<1>2. q <= n \div k
  BY DivisionAtLeast
<1>3. AtMost(i, n % k) <= AtMost(i + 1, n % k)
      /\ AtMost(i, n % k) \in Int /\ AtMost(i + 1, n % k) \in Int
  BY <1>1 DEF AtMost
<1>4. (i + 1) * (n \div k) = i * (n \div k) + (n \div k) /\ i * (n \div k) \in Int
  BY <1>1
<1> QED  BY <1>1, <1>2, <1>3, <1>4 DEF ShareBegin

(* and every slot is in one. *)
LEMMA ShareFound ==
    ASSUME NEW first \in Int, NEW n \in Nat, NEW k \in Nat \ {0},
           NEW x \in first..(first + n - 1)
    PROVE  \E i \in 0..(k - 1) : /\ ShareBegin(first, n, k, i) <= x
                                 /\ x < ShareBegin(first, n, k, i + 1)
<1> DEFINE q == n \div k
           r == n % k
           y == x - first
<1>1. q \in Nat /\ r \in 0..(k - 1) /\ n = q * k + r /\ y \in 0..(n - 1)
  <2>1. q \in Nat /\ r \in 0..(k - 1) /\ n = q * k + r
    BY SMT
  <2> QED  BY <2>1
<1>2. \A i : ShareBegin(first, n, k, i) = first + i * q + AtMost(i, r)
  BY DEF ShareBegin
<1>3. x = first + y
  OBVIOUS
<1> HIDE DEF q, r, y
<1>4. CASE y < r * (q + 1)
  <2> DEFINE i == y \div (q + 1)
  <2>1. i \in Nat /\ i * (q + 1) <= y /\ y < i * (q + 1) + (q + 1)
    BY <1>1, SMT
  <2> HIDE DEF i
  <2>2. i < r
    BY <1>1, <1>4, <2>1, SMT
  <2>3. AtMost(i, r) = i /\ AtMost(i + 1, r) = i + 1
    BY <1>1, <2>1, <2>2 DEF AtMost
  <2>4. i * (q + 1) = i * q + i /\ (i + 1) * q = i * q + q /\ i * q \in Int
    BY <1>1, <2>1
  <2>5. i \in 0..(k - 1)
    BY <1>1, <2>1, <2>2
  <2> QED  BY <1>1, <1>2, <1>3, <2>1, <2>3, <2>4, <2>5
<1>5. CASE ~(y < r * (q + 1))
  <2>1. q > 0
    <3>1. q = 0 => r * (q + 1) = r /\ n = r
      BY <1>1
    <3> QED  BY <1>1, <1>5, <3>1
  <2> DEFINE z == y - r * (q + 1)
             j == z \div q
  <2>2. z \in Nat
    BY <1>1, <1>5
  <2>3. j \in Nat /\ j * q <= z /\ z < j * q + q
    BY <1>1, <2>1, <2>2, SMT
  <2>4. z < (k - r) * q
    <3>1. r * (q + 1) = r * q + r /\ (k - r) * q = q * k - r * q
      BY <1>1
    <3> QED  BY <1>1, <3>1
  <2>5. y = z + r * q + r
    BY <1>1
  <2> HIDE DEF z, j
  <2>6. j < k - r
    BY <1>1, <2>1, <2>2, <2>3, <2>4, SMT
  <2>7. AtMost(r + j, r) = r /\ AtMost(r + j + 1, r) = r
    BY <1>1, <2>3 DEF AtMost
  <2>8. (r + j) * q = r * q + j * q /\ (r + j + 1) * q = r * q + j * q + q
        /\ r * q \in Int /\ j * q \in Int
    BY <1>1, <2>3
  <2>9. r + j \in 0..(k - 1)
    BY <1>1, <2>3, <2>6
  <2> QED  BY <1>1, <1>2, <1>3, <2>2, <2>3, <2>5, <2>7, <2>8, <2>9
<1> QED  BY <1>4, <1>5

(* The draft slots: none, or enough for a token in every stage. *)
LEMMA DraftSlotsWithin ==
    ASSUME NEW c, c.stages \in Nat, c.topk \in Nat, NEW e,
           NEW slots \in Nat, NEW several \in Int
    PROVE  /\ DraftSlots(c, e, slots, several) \in 0..slots
           /\ DraftSlots(c, e, slots, several) > 0 =>
                 c.stages > 0 /\ c.topk * c.stages <= DraftSlots(c, e, slots, several)
<1> DEFINE ideal == AtMost(c.stages * several * c.topk, slots \div 4)
           even == (ideal \div c.stages) * c.stages
<1>1. DraftSlots(c, e, slots, several)
      = IF e.dspark /\ c.stages > 0 /\ even >= c.stages * c.topk THEN even ELSE 0
  BY DEF DraftSlots
<1>2. CASE e.dspark /\ c.stages > 0 /\ even >= c.stages * c.topk
  <2>1. ideal \in Int /\ ideal <= slots
    <3>1. c.stages * several * c.topk \in Int /\ slots \div 4 \in Nat /\ slots \div 4 <= slots
      BY SMT
    <3> QED  BY <3>1 DEF AtMost
  <2> HIDE DEF ideal
  <2>2. even \in Int /\ even <= ideal
    <3>1. ideal \in Int /\ c.stages \in Nat \ {0}
      BY <1>2, <2>1
    <3>2. (ideal \div c.stages) * c.stages <= ideal /\ ideal \div c.stages \in Int
      BY <3>1, Division, DivisionBounds, Zenon
    <3> QED  BY <3>1, <3>2
  <2>3. c.topk * c.stages \in Nat /\ c.stages * c.topk = c.topk * c.stages
    BY SMT
  <2> QED  BY <1>1, <1>2, <2>1, <2>2, <2>3
<1>3. CASE ~(e.dspark /\ c.stages > 0 /\ even >= c.stages * c.topk)
  <2>1. DraftSlots(c, e, slots, several) = 0
    BY <1>1, <1>3
  <2> QED  BY <2>1
<1> QED  BY <1>2, <1>3

(* Layers that share evenly own pieces of [0, main). *)
LEMMA EvenBounds ==
    ASSUME NEW c, c.layers \in Nat, NEW m, m.perLayer, ~m.hashMin,
           NEW l \in 0..(c.layers - 1)
    PROVE  Bounds(c, m, l) = <<ShareBegin(0, m.main, c.layers, l),
                               ShareBegin(0, m.main, c.layers, l + 1)>>
<1>1. l < c.layers /\ ~(l >= c.layers)
  OBVIOUS
<1> QED  BY <1>1 DEF Bounds

LEMMA HashBounds ==
    ASSUME NEW c, c.layers \in Nat, c.hash \in Int, NEW m, m.perLayer, m.hashMin,
           NEW l \in 0..(c.layers - 1)
    PROVE  /\ l < c.hash => Bounds(c, m, l) = <<l * m.hashSlots, (l + 1) * m.hashSlots>>
           /\ l >= c.hash => Bounds(c, m, l) =
                 <<ShareBegin(c.hash * m.hashSlots, m.main - c.hash * m.hashSlots,
                              c.layers - c.hash, l - c.hash),
                   ShareBegin(c.hash * m.hashSlots, m.main - c.hash * m.hashSlots,
                              c.layers - c.hash, l - c.hash + 1)>>
<1>1. l < c.layers /\ ~(l >= c.layers) /\ (l < c.hash <=> ~(l >= c.hash))
  OBVIOUS
<1> QED  BY <1>1 DEF Bounds

LEMMA StageBounds ==
    ASSUME NEW c, c.layers \in Nat, c.stages \in Nat, NEW m, m.draft # 0,
           NEW i \in 0..(c.stages - 1)
    PROVE  Bounds(c, m, c.layers + i) = <<ShareBegin(m.main, m.draft, c.stages, i),
                                          ShareBegin(m.main, m.draft, c.stages, i + 1)>>
<1>1. c.layers + i >= c.layers /\ c.layers + i - c.layers = i /\ ~(c.layers + i < c.layers)
      /\ i < c.stages /\ ~(i >= c.stages)
  OBVIOUS
<1> QED  BY <1>1 DEF Bounds

(* The slots of a hash-routed layer: enough for a token, and so few that    *)
(* the other layers have enough as well.                                    *)
LEMMA HashSlotsWithin ==
    ASSUME NEW c, c.layers \in Nat, c.topk \in Nat, c.hash \in Int,
           NEW main \in Nat, HashMin(c, main),
           NEW asked \in Int, asked >= c.topk
    PROVE  /\ HashSlots(c, main, asked) \in Nat
           /\ HashSlots(c, main, asked) >= c.topk
           /\ HashSlots(c, main, asked) * c.hash <= main
           /\ c.topk * (c.layers - c.hash) <= main - c.hash * HashSlots(c, main, asked)
<1> DEFINE rest == (c.layers - c.hash) * c.topk
           most == (main - rest) \div c.hash
<1>1. c.hash \in Nat \ {0} /\ c.layers - c.hash \in Nat \ {0} /\ main >= c.layers * c.topk
  BY DEF HashMin, PerLayer
<1>2. rest \in Nat /\ main - rest \in Int /\ c.topk * c.hash <= main - rest
  BY <1>1
<1>3. rest = c.topk * (c.layers - c.hash)
  BY <1>1
<1> HIDE DEF rest
<1>4. most \in Int /\ most * c.hash <= main - rest /\ c.topk <= most
  <2>1. most \in Int /\ most * c.hash <= main - rest
    BY <1>1, <1>2, Division, DivisionBounds
  <2> QED  BY <1>1, <1>2, <2>1, c.topk \in Int, DivisionAtLeast, Zenon
<1>5. HashSlots(c, main, asked) =
         IF AtMost(asked, most) < c.topk THEN c.topk ELSE AtMost(asked, most)
  BY DEF HashSlots, rest
<1> HIDE DEF most
<1> DEFINE h == HashSlots(c, main, asked)
<1>6. h \in Int /\ c.topk <= h /\ h <= most
  BY <1>4, <1>5 DEF AtMost
<1> HIDE DEF h
<1>7. h * c.hash <= most * c.hash /\ h * c.hash \in Int /\ c.hash * h = h * c.hash
  BY <1>1, <1>4, <1>6, TimesMonotone
<1>8. h * c.hash <= main - rest
  BY <1>1, <1>2, <1>4, <1>6, <1>7
<1> QED  BY <1>2, <1>3, <1>6, <1>7, <1>8 DEF h

(* A cache that is divided among the layers is cut into pieces that follow  *)
(* each other, use every slot, and can each pin the experts of a token.     *)
THEOREM LayersDivideTheCache ==
    ASSUME NEW c, c.layers \in Nat \ {0}, c.topk \in Nat, c.hash \in Int,
           NEW m, m.main \in Nat, m.perLayer, PerLayer(c, m.main),
           m.hashMin => /\ HashMin(c, m.main)
                        /\ \E asked \in Int : /\ asked >= c.topk
                                              /\ m.hashSlots = HashSlots(c, m.main, asked)
    PROVE  /\ \A l \in 0..(c.layers - 1) :
                 /\ Bounds(c, m, l)[1] \in Nat /\ Bounds(c, m, l)[2] \in 0..m.main
                 /\ Bounds(c, m, l)[2] - Bounds(c, m, l)[1] >= c.topk
           /\ \A k, l \in 0..(c.layers - 1) :
                 k < l => Bounds(c, m, k)[2] <= Bounds(c, m, l)[1]
           /\ \A x \in 0..(m.main - 1) : \E l \in 0..(c.layers - 1) :
                 Bounds(c, m, l)[1] <= x /\ x < Bounds(c, m, l)[2]
<1>1. CASE ~m.hashMin
  <2> DEFINE B(i) == ShareBegin(0, m.main, c.layers, i)
  <2>1. \A i \in Nat : B(i) \in Int
    BY ShareTyped
  <2>2. B(0) = 0 /\ B(c.layers) = m.main
    <3>1. B(0) = 0 /\ B(c.layers) = 0 + m.main
      BY 0 \in Int, ShareEnds, Zenon
    <3> QED  BY <3>1
  <2>3. \A i, j \in Nat : i <= j => B(i) <= B(j)
    BY 0 \in Int, ShareOrdered, Zenon
  <2>4. \A i \in Nat : B(i + 1) - B(i) >= c.topk
    <3>1. c.topk * c.layers <= m.main /\ c.topk \in Int
      BY DEF PerLayer
    <3> QED  BY <3>1, 0 \in Int, ShareAtLeast, Zenon
  <2>5. \A x \in 0..(m.main - 1) : \E i \in 0..(c.layers - 1) : B(i) <= x /\ x < B(i + 1)
    <3>1. \A x \in 0..(0 + m.main - 1) :
             \E i \in 0..(c.layers - 1) : B(i) <= x /\ x < B(i + 1)
      BY 0 \in Int, ShareFound, Zenon
    <3> QED  BY <3>1
  <2>6. \A l \in 0..(c.layers - 1) : Bounds(c, m, l)[1] = B(l) /\ Bounds(c, m, l)[2] = B(l + 1)
    BY <1>1, EvenBounds
  <2> HIDE DEF B
  <2>7. \A l \in 0..(c.layers - 1) : l \in Nat /\ l + 1 \in Nat /\ 0 <= l /\ l + 1 <= c.layers
    OBVIOUS
  <2>8. \A l \in 0..(c.layers - 1) : 0 <= B(l) /\ B(l + 1) <= m.main /\ B(l) <= B(l + 1)
    BY <2>2, <2>3, <2>7
  <2>9. \A l \in 0..(c.layers - 1) : B(l) \in Nat /\ B(l + 1) \in 0..m.main
    BY <2>1, <2>7, <2>8
  <2>10. \A k, l \in 0..(c.layers - 1) : k < l => B(k + 1) <= B(l)
    BY <2>3
  <2> QED  BY <2>4, <2>5, <2>6, <2>7, <2>9, <2>10
<1>2. CASE m.hashMin
  <2>1. PICK asked \in Int : asked >= c.topk /\ m.hashSlots = HashSlots(c, m.main, asked)
    BY <1>2
  <2> DEFINE h == m.hashSlots
             total == c.hash * h
             learned == c.layers - c.hash
             B(i) == ShareBegin(total, m.main - total, learned, i)
             L == 0..(c.layers - 1)
  <2>2. h \in Nat /\ h >= c.topk /\ h * c.hash <= m.main /\ c.topk * learned <= m.main - total
    BY <1>2, <2>1, HashSlotsWithin
  <2>3. c.hash \in Nat \ {0} /\ learned \in Nat \ {0} /\ total \in Nat /\ m.main - total \in Nat
    BY <1>2, <2>2 DEF HashMin
  <2>4. \A l \in L : l < c.hash => /\ Bounds(c, m, l)[1] = l * h
                                   /\ Bounds(c, m, l)[2] = (l + 1) * h
    BY <1>2, HashBounds
  <2>5. \A l \in L : l >= c.hash => /\ Bounds(c, m, l)[1] = B(l - c.hash)
                                    /\ Bounds(c, m, l)[2] = B(l - c.hash + 1)
    BY <1>2, HashBounds
  <2> HIDE DEF h, total, learned
  <2>6. /\ \A i \in Nat : B(i) \in Int
        /\ B(0) = total /\ B(learned) = m.main
        /\ \A i, j \in Nat : i <= j => B(i) <= B(j)
        /\ \A i \in Nat : B(i + 1) - B(i) >= c.topk
    <3>1. \A i \in Nat : B(i) \in Int
      BY <2>2, <2>3, total \in Int, ShareTyped, Zenon
    <3>2. B(0) = total /\ B(learned) = total + (m.main - total)
      BY <2>2, <2>3, total \in Int, ShareEnds, Zenon
    <3>3. \A i, j \in Nat : i <= j => B(i) <= B(j)
      BY <2>2, <2>3, total \in Int, ShareOrdered, Zenon
    <3>4. \A i \in Nat : B(i + 1) - B(i) >= c.topk
      BY <2>2, <2>3, total \in Int, c.topk \in Int, ShareAtLeast, Zenon
    <3> QED  BY <2>3, <3>1, <3>2, <3>3, <3>4
  <2>7. \A x \in total..(m.main - 1) : \E i \in 0..(learned - 1) : B(i) <= x /\ x < B(i + 1)
    <3>1. \A x \in total..(total + (m.main - total) - 1) :
             \E i \in 0..(learned - 1) : B(i) <= x /\ x < B(i + 1)
      BY <2>3, total \in Int, ShareFound, Zenon
    <3>2. total + (m.main - total) - 1 = m.main - 1
      BY <2>3
    <3> QED  BY <3>1, <3>2
  <2> HIDE DEF B
  <2>8. \A l \in L : l < c.hash =>
          /\ l * h \in Nat /\ (l + 1) * h \in 0..total /\ (l + 1) * h - l * h = h
    <3> SUFFICES ASSUME NEW l \in L, l < c.hash
                 PROVE  /\ l * h \in Nat /\ (l + 1) * h \in 0..total
                        /\ (l + 1) * h - l * h = h
      OBVIOUS
    <3>1. (l + 1) * h <= c.hash * h
      BY <2>2, <2>3, TimesMonotone
    <3>2. l * h \in Nat /\ (l + 1) * h = l * h + h
      BY <2>2
    <3> QED  BY <2>2, <3>1, <3>2 DEF total
  <2>9. \A l \in L : l >= c.hash =>
          /\ l - c.hash \in Nat /\ l - c.hash + 1 <= learned
          /\ total <= B(l - c.hash) /\ B(l - c.hash) \in Nat
          /\ B(l - c.hash + 1) \in 0..m.main
    <3> SUFFICES ASSUME NEW l \in L, l >= c.hash
                 PROVE  /\ l - c.hash \in Nat /\ l - c.hash + 1 <= learned
                        /\ total <= B(l - c.hash) /\ B(l - c.hash) \in Nat
                        /\ B(l - c.hash + 1) \in 0..m.main
      OBVIOUS
    <3>1. PICK i \in Nat : i = l - c.hash /\ i + 1 \in Nat /\ i + 1 <= learned
      BY <2>3 DEF learned
    <3>2. 0 \in Nat /\ learned \in Nat /\ 0 <= i /\ i <= i + 1
      BY <2>3
    <3>4. /\ B(i) \in Int /\ B(i + 1) \in Int /\ B(0) <= B(i)
          /\ B(i) <= B(i + 1) /\ B(i + 1) <= B(learned)
      BY <2>6, <3>1, <3>2, Zenon
    <3>3. total <= B(i) /\ B(i) \in Nat /\ B(i + 1) \in 0..m.main
      <4>1. B(0) = total /\ B(learned) = m.main
        BY <2>6, Zenon
      <4> QED  BY <2>3, <3>4, <4>1, m.main \in Nat
    <3> QED  BY <3>1, <3>3
  <2>10. ASSUME NEW l \in L
         PROVE  /\ Bounds(c, m, l)[1] \in Nat /\ Bounds(c, m, l)[2] \in 0..m.main
                /\ Bounds(c, m, l)[2] - Bounds(c, m, l)[1] >= c.topk
    <3>1. CASE l < c.hash
      BY <2>2, <2>3, <2>4, <2>8, <3>1
    <3>2. CASE l >= c.hash
      BY <2>5, <2>6, <2>9, <3>2
    <3> QED  BY <2>3, <3>1, <3>2
  <2>11. ASSUME NEW k \in L, NEW l \in L, k < l
         PROVE  Bounds(c, m, k)[2] <= Bounds(c, m, l)[1]
    <3>1. CASE l < c.hash
      <4>1. (k + 1) * h <= l * h
        BY <2>2, <2>11, TimesMonotone
      <4> QED  BY <2>3, <2>4, <2>11, <3>1, <4>1
    <3>2. CASE k < c.hash /\ l >= c.hash
      BY <2>3, <2>4, <2>5, <2>8, <2>9, <3>2
    <3>3. CASE k >= c.hash
      <4>1. k - c.hash + 1 \in Nat /\ l - c.hash \in Nat /\ k - c.hash + 1 <= l - c.hash
            /\ l >= c.hash
        BY <2>3, <2>11, <3>3
      <4> QED  BY <2>5, <2>6, <3>3, <4>1
    <3> QED  BY <2>3, <2>11, <3>1, <3>2, <3>3
  <2>12. ASSUME NEW x \in 0..(m.main - 1)
         PROVE  \E l \in L : Bounds(c, m, l)[1] <= x /\ x < Bounds(c, m, l)[2]
    <3>1. CASE x < total
      <4> DEFINE l == x \div h
      <4>1. h > 0
        <5>1. h = 0 => total = 0
          BY <2>3 DEF total
        <5> QED  BY <2>2, <3>1, <5>1
      <4>2. l \in Nat /\ l * h <= x /\ x < l * h + h
        BY <2>2, <4>1, SMT
      <4> HIDE DEF l
      <4>3. l < c.hash /\ (l + 1) * h = l * h + h
        BY <2>2, <2>3, <3>1, <4>2, SMT DEF total
      <4>4. l \in L
        BY <2>3, <4>2, <4>3 DEF learned
      <4> QED  BY <2>4, <4>2, <4>3, <4>4
    <3>2. CASE x >= total
      <4>1. x \in total..(m.main - 1)
        BY <2>3, <3>2
      <4>2. PICK i \in 0..(learned - 1) : B(i) <= x /\ x < B(i + 1)
        BY <2>7, <4>1
      <4>3. i + c.hash \in L /\ i + c.hash >= c.hash /\ i + c.hash - c.hash = i
        BY <2>3 DEF learned
      <4> QED  BY <2>5, <4>2, <4>3
    <3> QED  BY <2>3, <3>1, <3>2
  <2> QED  BY <2>10, <2>11, <2>12
<1> QED  BY <1>1, <1>2

(* So is what is set aside behind them for the draft stages. *)
THEOREM StagesDivideTheDraftSlots ==
    ASSUME NEW c, c.layers \in Nat, c.stages \in Nat \ {0}, c.topk \in Nat,
           NEW m, m.main \in Nat, m.draft \in Nat \ {0}, c.topk * c.stages <= m.draft
    PROVE  LET B(i) == Bounds(c, m, c.layers + i) IN
           /\ \A i \in 0..(c.stages - 1) :
                 /\ B(i)[1] \in Int /\ m.main <= B(i)[1]
                 /\ B(i)[2] \in Int /\ B(i)[2] <= m.main + m.draft
                 /\ B(i)[2] - B(i)[1] >= c.topk
           /\ \A i, j \in 0..(c.stages - 1) : i < j => B(i)[2] <= B(j)[1]
           /\ \A x \in m.main..(m.main + m.draft - 1) : \E i \in 0..(c.stages - 1) :
                 B(i)[1] <= x /\ x < B(i)[2]
<1> DEFINE S(i) == ShareBegin(m.main, m.draft, c.stages, i)
<1>0. m.main \in Int /\ m.draft \in Nat /\ c.stages \in Nat \ {0} /\ c.topk \in Int
      /\ c.topk * c.stages <= m.draft
  OBVIOUS
<1>1. \A i \in 0..(c.stages - 1) : /\ Bounds(c, m, c.layers + i)[1] = S(i)
                                   /\ Bounds(c, m, c.layers + i)[2] = S(i + 1)
  BY StageBounds
<1>2. \A i \in Nat : S(i) \in Int
  BY <1>0, ShareTyped, Zenon
<1>3. S(0) = m.main /\ S(c.stages) = m.main + m.draft
  BY <1>0, ShareEnds, Zenon
<1>4. \A i, j \in Nat : i <= j => S(i) <= S(j)
  BY <1>0, ShareOrdered, Zenon
<1>5. \A i \in Nat : S(i + 1) - S(i) >= c.topk
  BY <1>0, ShareAtLeast, Zenon
<1>6. \A x \in m.main..(m.main + m.draft - 1) :
         \E i \in 0..(c.stages - 1) : S(i) <= x /\ x < S(i + 1)
  BY <1>0, ShareFound, Zenon
<1> HIDE DEF S
<1>7. \A i \in 0..(c.stages - 1) : i \in Nat /\ i + 1 \in Nat /\ 0 <= i /\ i + 1 <= c.stages
  OBVIOUS
<1>8. \A i \in 0..(c.stages - 1) : m.main <= S(i) /\ S(i + 1) <= m.main + m.draft
  BY <1>3, <1>4, <1>7
<1>9. \A i, j \in 0..(c.stages - 1) : i < j => S(i + 1) <= S(j)
  BY <1>4
<1> QED  BY <1>1, <1>2, <1>5, <1>6, <1>7, <1>8, <1>9

-------------------------------------------------------------------------------
(* The program that plans: what is known at each of its stages. *)


Planning == {"context", "halve", "grow", "limits", "plan", "prompt"}
Choosing == {"drafter", "workspace"}

(* From the moment the configuration is read it is a valid one; only a      *)
(* library opens the model without having looked.                           *)
ConfigInv ==
    /\ pc \in {"memory", "config"} \cup Planning \cup Choosing => cmd.mode # "library"
    /\ pc \in Planning \cup Choosing \cup {"running"} => ValidConfig
    /\ pc = "open" /\ cmd.mode # "library" => ValidConfig

(* The search for a context. *)
KeptPace(c) ==
    /\ c \in base..Ceiling
    /\ PlanWoa(cfg, env, c, memory) = PlanWoa(cfg, env, base, memory)
    /\ 10 * PlanSlots(cfg, env, c, memory) >= 9 * PlanSlots(cfg, env, base, memory)

SearchInv ==
    /\ pc \in {"halve", "grow"} => base \in 1..Ceiling
    /\ pc = "grow" => KeptPace(best)
    /\ pc = "limits" /\ Searches => KeptPace(context)

(* What the budget is, and that it fits. *)
BudgetInv ==
    /\ pc \in {"plan", "prompt", "open", "drafter", "workspace", "running"}
          /\ cmd.mode = "cache" => budget = CacheBudget
    /\ pc \in {"prompt", "open", "drafter", "workspace", "running"}
          /\ cmd.mode # "library" => Fits(cfg, env, context, budget)

(* The model that was opened. *)
ModelInv ==
    pc \in Choosing \cup {"running"} =>
        /\ model.main + model.draft = GivenSlots
        /\ model.perLayer => PerLayer(cfg, model.main)
        /\ model.hashMin =>
              /\ HashMin(cfg, model.main)
              /\ \E asked \in Int : /\ asked >= cfg.topk
                                    /\ model.hashSlots = HashSlots(cfg, model.main, asked)
        /\ model.draft > 0 => cfg.stages > 0 /\ cfg.topk * cfg.stages <= model.draft

DrafterInv ==
    /\ pc \notin {"workspace", "running", "exit"} => drafter = "none"
    /\ pc = "workspace" /\ drafter = "dspark" => cfg.block \in Nat /\ block \in 1..cfg.block
    /\ pc = "running" /\ drafter # "none" => block + 1 <= positions /\ positions <= context

IInv == TypeOK /\ ConfigInv /\ SearchInv /\ BudgetInv /\ ModelInv /\ DrafterInv

-------------------------------------------------------------------------------
(* What was given does not change, and neither does what is said of it. *)
LEMMA GivenStays ==
    ASSUME [Next]_vars
    PROVE  cmd' = cmd /\ env' = env /\ cfg' = cfg
<1>1. CASE Arguments
  BY <1>1 DEF Arguments, RefuseArguments, Restart, RestartFails, AcceptArguments,
              Exits, Stage, given
<1>2. CASE Resources
  BY <1>2 DEF Resources, ChooseMemory, ImplausibleMemory, LoadConfig, RefuseConfig,
              Exits, Stage, given
<1>3. CASE Contexts
  BY <1>3 DEF Contexts, GivenContext, BeginSearch, NoCeiling, Halve, BaseFits,
              NothingFits, Grow, EndSearch, CheckLimits, PastLimits, Exits, Stage, given
<1>4. CASE Opening
  BY <1>4 DEF Opening, PlanMemory, RefusePlan, ReadPrompt, RefusePrompt, OpenModel,
              OpenFails, ChooseDrafter, MakeWorkspace, NoWorkspace, Exits, Stage, given
<1>5. CASE Started \/ UNCHANGED vars
  BY <1>5 DEF Started, vars, given
<1> QED  BY <1>1, <1>2, <1>3, <1>4, <1>5 DEF Next

LEMMA GivenTyped ==
    ASSUME TypeOK
    PROVE  /\ ConfigType(cfg) /\ cfg.original \in Int /\ cfg.longest \in Int
           /\ WoaLayer(cfg, env) \in Nat \ {0}
           /\ Native \in Int /\ Ceiling \in Int /\ Ceiling <= cfg.longest
           /\ cmd.amount \in Nat /\ cmd.context \in Int
<1>1. /\ ConfigType(cfg) /\ cfg.original \in Int /\ cfg.longest \in Int
      /\ cfg.woa > 0 /\ cfg.packed > 0
      /\ cmd.amount \in Nat /\ cmd.context \in Int
  BY StartupAssumption DEF TypeOK
<1>2. WoaLayer(cfg, env) \in Nat \ {0}
  BY <1>1 DEF ConfigType, WoaLayer
<1> QED  BY <1>1, <1>2 DEF Native, Ceiling, AtMost

LEMMA ValidTyped ==
    ASSUME TypeOK, ValidConfig
    PROVE  /\ cfg.layers \in Nat \ {0} /\ cfg.topk \in Nat \ {0} /\ cfg.window \in Nat
           /\ cfg.stages \in Nat /\ cfg.hash \in Int /\ cfg.block \in Int
           /\ cfg.stages > 0 => cfg.block >= 2
<1>1. ConfigType(cfg)
  BY GivenTyped
<1>2. cfg.layers \in Int /\ cfg.topk \in Int /\ cfg.window \in Int
      /\ cfg.stages \in Nat /\ cfg.hash \in Int /\ cfg.block \in Int
  BY <1>1 DEF ConfigType
<1> QED  BY <1>2 DEF ValidConfig

LEMMA GivenSame ==
    ASSUME cfg' = cfg, env' = env, cmd' = cmd
    PROVE  ValidConfig' = ValidConfig /\ Ceiling' = Ceiling /\ VerifyDrafts' = VerifyDrafts
  BY DEF ValidConfig, Ceiling, Native, VerifyDrafts

-------------------------------------------------------------------------------
(* The model that is opened. *)

LEMMA SlotsGiven ==
    ASSUME TypeOK, ValidConfig, cmd.mode # "library" => Fits(cfg, env, context, budget)
    PROVE  /\ GivenSlots \in Nat \ {0}
           /\ GivenWoa \in Nat
           /\ VerifyDrafts \in Int
<1>1. ConfigType(cfg) /\ cfg.layers \in Nat /\ cfg.block \in Int
  BY GivenTyped, ValidTyped
<1>2. context \in Int /\ budget \in Int /\ env.drafts \in Int
  BY StartupAssumption DEF TypeOK
<1>3. CASE cmd.mode # "library"
  <2>1. /\ PlanWoa(cfg, env, context, budget) \in 0..cfg.layers
        /\ PlanSlots(cfg, env, context, budget) \in 1..MostSlots
    BY <1>1, <1>2, <1>3, PlanWithinBudget
  <2> QED  BY <1>1, <1>2, <1>3, <2>1, PlanAssumption
           DEF GivenSlots, GivenWoa, Plan, AtMost, VerifyDrafts
<1>4. CASE cmd.mode = "library"
  <2> DEFINE room == LeastGib * Gib - Fixed(cfg, env, context)
  <2>1. room \in Int
    <3>1. Fixed(cfg, env, context) \in Int
      BY <1>1, <1>2, SizesTyped
    <3>2. LeastGib * Gib \in Int
      BY StartupAssumption
    <3> QED  BY <3>1, <3>2
  <2>2. GivenSlots = IF room >= ExpertSlot THEN room \div ExpertSlot ELSE 1
    BY <1>4 DEF GivenSlots
  <2> HIDE DEF room
  <2>3. room >= ExpertSlot => room \div ExpertSlot >= 1
    <3>1. 1 * ExpertSlot = ExpertSlot
      BY PlanAssumption
    <3> QED  BY <2>1, <3>1, PlanAssumption, DivisionAtLeast
  <2>4. room \div ExpertSlot \in Int
    BY <2>1, Division, PlanAssumption
  <2> QED  BY <1>1, <1>2, <1>4, <2>2, <2>3, <2>4 DEF GivenWoa, VerifyDrafts
<1> QED  BY <1>3, <1>4

LEMMA FieldsOf ==
    ASSUME NEW a, NEW b, NEW c, NEW d, NEW e, NEW f, NEW m,
           m = [main |-> a, draft |-> b, woa |-> c, perLayer |-> d, hashMin |-> e, hashSlots |-> f]
    PROVE  m.perLayer = d /\ m.hashMin = e /\ m.hashSlots = f
  OBVIOUS

LEMMA OpenedSound ==
    ASSUME TypeOK, ValidConfig, cmd.mode # "library" => Fits(cfg, env, context, budget),
           NEW global \in BOOLEAN, NEW equal \in BOOLEAN, NEW kept \in Int,
           NEW asked \in cfg.topk..cfg.experts,
           NEW m, m = Opened(global, equal, DraftSlots(cfg, env, GivenSlots, kept), asked)
    PROVE  /\ DOMAIN m = DOMAIN NoModel
           /\ m.main \in Nat /\ m.draft \in Nat /\ m.woa \in Nat
           /\ m.main + m.draft = GivenSlots
           /\ m.perLayer => PerLayer(cfg, m.main)
           /\ m.hashMin =>
                 /\ HashMin(cfg, m.main)
                 /\ \E n \in Int : n >= cfg.topk /\ m.hashSlots = HashSlots(cfg, m.main, n)
           /\ m.draft > 0 => cfg.stages > 0 /\ cfg.topk * cfg.stages <= m.draft
<1> DEFINE draft == DraftSlots(cfg, env, GivenSlots, kept)
           main == GivenSlots - draft
<1>1. GivenSlots \in Nat /\ GivenWoa \in Nat /\ cfg.stages \in Nat /\ cfg.topk \in Nat
  BY SlotsGiven, ValidTyped
<1>2. draft \in 0..GivenSlots
      /\ (draft > 0 => cfg.stages > 0 /\ cfg.topk * cfg.stages <= draft)
  BY <1>1, DraftSlotsWithin
<1> HIDE DEF draft
<1>3. main \in Nat /\ main + draft = GivenSlots /\ draft \in Nat
  BY <1>1, <1>2
<1>4. asked \in Int /\ asked >= cfg.topk
  BY <1>1, ValidTyped, GivenTyped DEF ConfigType
<1>5. m = [main |-> main, draft |-> draft, woa |-> GivenWoa,
           perLayer |-> ~global /\ PerLayer(cfg, main),
           hashMin |-> (~global /\ PerLayer(cfg, main)) /\ ~equal /\ HashMin(cfg, main),
           hashSlots |-> IF (~global /\ PerLayer(cfg, main)) /\ ~equal /\ HashMin(cfg, main)
                         THEN HashSlots(cfg, main, asked) ELSE 0]
  BY DEF Opened, draft
<1> HIDE DEF main
<1>6. DOMAIN m = DOMAIN NoModel
  BY <1>5 DEF NoModel
<1>7. m.main = main /\ m.draft = draft /\ m.woa = GivenWoa
  BY <1>5
<1>8. PICK p, h, n :
         /\ p = (~global /\ PerLayer(cfg, main))
         /\ h = ((~global /\ PerLayer(cfg, main)) /\ ~equal /\ HashMin(cfg, main))
         /\ n = IF h THEN HashSlots(cfg, main, asked) ELSE 0
  OBVIOUS
<1>9. m.perLayer = p /\ m.hashMin = h /\ m.hashSlots = n
  <2>1. m = [main |-> main, draft |-> draft, woa |-> GivenWoa, perLayer |-> p,
             hashMin |-> h, hashSlots |-> n]
    BY <1>5, <1>8, Zenon
  <2> QED  BY <2>1
<1>10. /\ m.perLayer => PerLayer(cfg, m.main)
       /\ m.hashMin => /\ HashMin(cfg, m.main)
                       /\ m.hashSlots = HashSlots(cfg, m.main, asked)
  BY <1>7, <1>8, <1>9, Zenon
<1> QED  BY <1>1, <1>2, <1>3, <1>4, <1>6, <1>7, <1>10

-------------------------------------------------------------------------------
(* A block of DSpark is no longer than the draft network makes it. *)
LEMMA DSparkBlock ==
    ASSUME TypeOK, ValidConfig, ModelInv, pc = "drafter", UseDSpark
    PROVE  cfg.block \in Nat /\ VerifyDrafts \in 1..cfg.block
<1>1. model.draft > 0
  BY DEF UseDSpark
<1>2. cfg.stages > 0
  BY <1>1 DEF ModelInv, Choosing
<1> QED  BY <1>2, ValidTyped DEF VerifyDrafts

LEMMA TypesKept ==
    ASSUME IInv, [Next]_vars
    PROVE  TypeOK'
<1> USE DEF IInv
<1>1. cmd' = cmd /\ env' = env /\ cfg' = cfg
  BY GivenStays
<1>2. CASE \E from \in {"arguments", "memory", "config", "context", "halve", "limits",
                        "plan", "prompt", "open"} : Exits(from)
  BY <1>2 DEF Exits, Stage, TypeOK, search, session, given
<1>3. CASE Restart
  BY <1>3 DEF Restart, TypeOK, search, session, given
<1>4. CASE AcceptArguments
  BY <1>4, GivenTyped, StartupAssumption DEF AcceptArguments, Stage, TypeOK, search, session, given
<1>5. CASE ChooseMemory
  <2>1. memory' \in Nat
    <3>1. ASSUME NEW ram \in Ram  PROVE AutomaticGib(ram) * Gib \in Nat
      <4>1. (ram.visible * 2) \div 3 \in Nat /\ (ram.available * 3) \div 4 \in Nat
        BY StartupAssumption, SMT
      <4>2. AutomaticGib(ram) \in Nat
        BY <4>1, StartupAssumption DEF AutomaticGib, AtMost
      <4> QED  BY <4>2, StartupAssumption
    <3> QED  BY <1>5, <3>1, GivenTyped DEF ChooseMemory, TypeOK
  <2> QED  BY <1>5, <2>1 DEF ChooseMemory, Stage, TypeOK, search, session, given
<1>6. CASE LoadConfig
  BY <1>6 DEF LoadConfig, Stage, TypeOK, search, session, given
<1>7. CASE GivenContext
  BY <1>7, GivenTyped, StartupAssumption
     DEF GivenContext, AtMost, Stage, TypeOK, search, session, given
<1>8. CASE BeginSearch
  <2>1. base' \in Nat
    BY <1>8, GivenTyped, StartupAssumption DEF BeginSearch, AtMost
  <2> QED  BY <1>8, <2>1 DEF BeginSearch, Stage, TypeOK, search, session, given
<1>9. CASE Halve
  <2>1. base' \in Nat
    BY <1>9 DEF Halve, TypeOK
  <2> QED  BY <1>9, <2>1 DEF Halve, Stage, TypeOK, search, session, given
<1>10. CASE BaseFits
  BY <1>10 DEF BaseFits, Stage, TypeOK, search, session, given
<1>11. CASE Grow
  <2>1. Candidate \in Nat
    <3>1. Ceiling \in Int /\ best \in Nat
      BY GivenTyped DEF TypeOK
    <3>2. best < Ceiling
      BY <1>11 DEF Grow
    <3> QED  BY <3>1, <3>2 DEF Candidate
  <2> QED  BY <1>11, <2>1 DEF Grow, Stage, TypeOK, search, session, given
<1>12. CASE EndSearch
  BY <1>12 DEF EndSearch, Stage, TypeOK, search, session, given
<1>13. CASE CheckLimits
  <2>1. budget' \in Nat
    <3>1. ValidConfig /\ context \in Nat
      BY <1>13, GivenTyped DEF CheckLimits, Stage, WithinLimits, ConfigInv, Planning
    <3>2. ContextBytes(cfg, context) \in Nat /\ WoaLayer(cfg, env) \in Nat
      BY <3>1, ValidTyped, GivenTyped, ContextBytesNatural
    <3>3. DSparkBytes(cfg, env) \in Nat
      <4>1. cfg.stages * WoaLayer(cfg, env) \in Nat /\ cfg.stages * cfg.window * RowBytes \in Nat
        BY <3>1, <3>2, ValidTyped, PlanAssumption
      <4> QED  BY <4>1 DEF DSparkBytes
    <3>4. cfg.layers * WoaLayer(cfg, env) \in Nat
      BY <3>1, <3>2, ValidTyped
    <3>5. CacheBudget \in Nat
      BY <3>2, <3>3, <3>4, GivenTyped, PlanAssumption DEF CacheBudget
    <3> QED  BY <1>13, <3>5 DEF CheckLimits, TypeOK
  <2> QED  BY <1>13, <2>1 DEF CheckLimits, Stage, TypeOK, search, session, given
<1>14. CASE PlanMemory \/ ReadPrompt
  BY <1>14 DEF PlanMemory, ReadPrompt, Stage, TypeOK, search, session, given
<1>15. CASE Started \/ UNCHANGED vars
  BY <1>15 DEF Started, vars, TypeOK, search, session, given
<1>16. CASE OpenModel
  <2>1. ValidConfig /\ (cmd.mode # "library" => Fits(cfg, env, context, budget))
    BY <1>16 DEF OpenModel, Stage, ConfigInv, BudgetInv
  <2>2. /\ DOMAIN model' = DOMAIN NoModel
        /\ model'.main \in Nat /\ model'.draft \in Nat /\ model'.woa \in Nat
    <3>1. PICK global \in BOOLEAN, equal \in BOOLEAN,
               kept \in (1..cfg.block) \cup {DraftPositions(cfg, VerifyDrafts)},
               asked \in cfg.topk..cfg.experts :
               model' = Opened(global, equal, DraftSlots(cfg, env, GivenSlots, kept), asked)
      BY <1>16 DEF OpenModel
    <3>2. kept \in Int
      BY <2>1, SlotsGiven, ValidTyped, DivisionBounds, Division DEF DraftPositions, AtMost
    <3> QED  BY <2>1, <3>1, <3>2, OpenedSound
  <2> QED  BY <1>16, <2>2 DEF OpenModel, Stage, TypeOK, search, session, given, NoModel
<1>17. CASE ChooseDrafter
  <2>1. ValidConfig
    BY <1>17 DEF ChooseDrafter, Stage, ConfigInv, Choosing
  <2>2. block' \in Nat
    <3>1. CASE UseDSpark
      <4>1. cfg.block \in Nat /\ VerifyDrafts \in 1..cfg.block
        BY <1>17, <2>1, <3>1, DSparkBlock DEF ChooseDrafter, Stage
      <4> QED  BY <1>17, <3>1, <4>1 DEF ChooseDrafter
    <3>2. CASE ~UseDSpark
      <4>1. block' \in NgramBlocks \/ block' = 0
        BY <1>17, <3>2, Zenon DEF ChooseDrafter
      <4>2. NgramBlocks \subseteq Nat
        BY StartupAssumption, Zenon
      <4> QED  BY <4>1, <4>2, 0 \in Nat, Zenon
    <3> QED  BY <3>1, <3>2
  <2> QED  BY <1>17, <2>2 DEF ChooseDrafter, Stage, TypeOK, search, session, given
<1>18. CASE MakeWorkspace
  <2>1. positions' \in Nat
    BY <1>18 DEF MakeWorkspace, Stage, Workspace, DrafterInv, TypeOK
  <2> QED  BY <1>18, <2>1 DEF MakeWorkspace, Stage, TypeOK, search, session, given
<1>19. CASE NoWorkspace
  BY <1>19 DEF NoWorkspace, Stage, TypeOK, search, session, given
<1> QED  BY <1>2, <1>3, <1>4, <1>5, <1>6, <1>7, <1>8, <1>9, <1>10, <1>11, <1>12, <1>13,
            <1>14, <1>15, <1>16, <1>17, <1>18, <1>19
         DEF Next, Arguments, Resources, Contexts, Opening, RefuseArguments, RestartFails,
             ImplausibleMemory, RefuseConfig, NoCeiling, NothingFits, PastLimits,
             RefusePlan, RefusePrompt, OpenFails

-------------------------------------------------------------------------------
(* The actions that only leave, and those that change nothing. *)
Leaves == \E from \in {"arguments", "memory", "config", "context", "halve", "limits",
                       "plan", "prompt", "open"} : Exits(from)
Rests == Started \/ UNCHANGED vars

LEMMA LeavingKeeps ==
    ASSUME IInv, Leaves
    PROVE  ConfigInv' /\ SearchInv' /\ BudgetInv' /\ ModelInv' /\ DrafterInv'
<1>1. pc' = "exit"
  BY DEF Leaves, Exits, Stage
<1> QED  BY <1>1 DEF ConfigInv, SearchInv, BudgetInv, ModelInv, DrafterInv, Planning, Choosing

LEMMA RestingKeeps ==
    ASSUME IInv, Rests
    PROVE  ConfigInv' /\ SearchInv' /\ BudgetInv' /\ ModelInv' /\ DrafterInv'
<1>1. /\ pc' = pc /\ cmd' = cmd /\ env' = env /\ cfg' = cfg /\ memory' = memory
      /\ base' = base /\ best' = best /\ context' = context /\ budget' = budget
      /\ model' = model /\ drafter' = drafter /\ block' = block /\ positions' = positions
  BY DEF Rests, Started, vars, given, search, session
<1>2. ConfigInv' /\ SearchInv'
  BY <1>1, GivenSame DEF IInv, ConfigInv, SearchInv, Searches, KeptPace, Ceiling, Native
<1>3. BudgetInv' /\ ModelInv' /\ DrafterInv'
  BY <1>1 DEF IInv, BudgetInv, CacheBudget, ModelInv, GivenSlots, Plan, DrafterInv
<1> QED  BY <1>2, <1>3

(* The conjuncts of Next, less those. *)
LEMMA NextCases ==
    ASSUME [Next]_vars
    PROVE  \/ Leaves \/ Rests
           \/ Restart \/ AcceptArguments \/ ChooseMemory \/ LoadConfig
           \/ GivenContext \/ BeginSearch \/ Halve \/ BaseFits \/ Grow \/ EndSearch
           \/ CheckLimits \/ PlanMemory \/ ReadPrompt
           \/ OpenModel \/ ChooseDrafter \/ MakeWorkspace \/ NoWorkspace
  BY DEF Next, Arguments, Resources, Contexts, Opening, Leaves, Rests, RefuseArguments,
         RestartFails, ImplausibleMemory, RefuseConfig, NoCeiling, NothingFits, PastLimits,
         RefusePlan, RefusePrompt, OpenFails

LEMMA ConfigKept ==
    ASSUME IInv, [Next]_vars
    PROVE  ConfigInv'
<1>1. cmd' = cmd /\ ValidConfig' = ValidConfig
  BY GivenStays, GivenSame
<1>2. CASE Restart \/ AcceptArguments \/ ChooseMemory \/ LoadConfig
  BY <1>1, <1>2 DEF Restart, AcceptArguments, ChooseMemory, LoadConfig, Stage,
                    IInv, ConfigInv, Planning, Choosing
<1>3. CASE GivenContext \/ BeginSearch \/ Halve \/ BaseFits \/ Grow \/ EndSearch
  BY <1>1, <1>3 DEF GivenContext, BeginSearch, Halve, BaseFits, Grow, EndSearch, Stage,
                    IInv, ConfigInv, Planning, Choosing
<1>4. CASE CheckLimits \/ PlanMemory \/ ReadPrompt
  BY <1>1, <1>4 DEF CheckLimits, PlanMemory, ReadPrompt, Stage,
                    IInv, ConfigInv, Planning, Choosing
<1>5. CASE OpenModel \/ ChooseDrafter \/ MakeWorkspace \/ NoWorkspace
  BY <1>1, <1>5 DEF OpenModel, ChooseDrafter, MakeWorkspace, NoWorkspace, Stage,
                    IInv, ConfigInv, Planning, Choosing
<1> QED  BY <1>2, <1>3, <1>4, <1>5, NextCases, LeavingKeeps, RestingKeeps

LEMMA SearchKept ==
    ASSUME IInv, [Next]_vars
    PROVE  SearchInv'
<1>1. /\ cmd' = cmd /\ env' = env /\ cfg' = cfg
      /\ Ceiling' = Ceiling /\ Ceiling \in Int
  BY GivenStays, GivenSame, GivenTyped DEF IInv
<1>2. CASE Restart \/ AcceptArguments \/ ChooseMemory \/ LoadConfig
  <2>1. pc' \notin {"halve", "grow", "limits"}
    BY <1>2 DEF Restart, AcceptArguments, ChooseMemory, LoadConfig, Stage
  <2> QED  BY <2>1 DEF SearchInv
<1>3. CASE GivenContext
  <2>1. pc' = "limits" /\ ~Searches
    BY <1>3 DEF GivenContext, Stage, Searches
  <2> QED  BY <1>1, <2>1 DEF SearchInv, Searches
<1>4. CASE BeginSearch
  <2>1. pc' = "halve" /\ base' \in 1..Ceiling
    BY <1>1, <1>4, StartupAssumption DEF BeginSearch, Stage, AtMost
  <2> QED  BY <1>1, <2>1 DEF SearchInv
<1>5. CASE Halve
  <2>1. base \in 1..Ceiling /\ base > 1
    BY <1>5 DEF Halve, IInv, SearchInv
  <2>2. pc' = "halve" /\ base' \in 1..Ceiling
    BY <1>1, <1>5, <2>1 DEF Halve
  <2> QED  BY <1>1, <2>2 DEF SearchInv
<1>6. CASE BaseFits
  <2>1. pc' = "grow" /\ base' = base /\ best' = base /\ memory' = memory
        /\ Fits(cfg, env, base, memory)
    BY <1>6 DEF BaseFits, Stage
  <2>2. base \in 1..Ceiling /\ ValidConfig
    BY <1>6 DEF BaseFits, Stage, IInv, SearchInv, ConfigInv, Planning
  <2>3. PlanSlots(cfg, env, base, memory) \in Nat
    <3>1. /\ ConfigType(cfg) /\ cfg.layers \in Nat
          /\ base \in Int /\ memory \in Int
      BY <2>2, GivenTyped, ValidTyped DEF IInv, TypeOK
    <3> QED  BY <2>1, <3>1, PlanWithinBudget
  <2>4. 10 * PlanSlots(cfg, env, base, memory) >= 9 * PlanSlots(cfg, env, base, memory)
    BY <2>3
  <2> QED  BY <1>1, <2>1, <2>2, <2>4 DEF SearchInv, KeptPace
<1>7. CASE Grow
  <2>1. pc' = "grow" /\ base' = base /\ best' = Candidate /\ memory' = memory
        /\ KeepsPace(Candidate) /\ best < Ceiling
    BY <1>7 DEF Grow
  <2>2. base \in 1..Ceiling /\ best \in base..Ceiling
    BY <1>7 DEF Grow, IInv, SearchInv, KeptPace
  <2>3. Candidate \in base..Ceiling
    BY <1>1, <2>2, SMT DEF Candidate
  <2>4. 10 * PlanSlots(cfg, env, Candidate, memory) >= 9 * PlanSlots(cfg, env, base, memory)
    <3>1. ValidConfig
      BY <1>7 DEF Grow, IInv, ConfigInv, Planning
    <3>2. ConfigType(cfg) /\ cfg.layers \in Nat /\ Candidate \in Int /\ base \in Int
          /\ memory \in Int
      BY <1>1, <2>2, <2>3, <3>1, GivenTyped, ValidTyped DEF IInv, TypeOK
    <3>3. PlanSlots(cfg, env, Candidate, memory) \in Int
          /\ PlanSlots(cfg, env, base, memory) \in Int
      BY <3>2, PlanTyped
    <3>4. PlanSlots(cfg, env, Candidate, memory) * 10 >= PlanSlots(cfg, env, base, memory) * 9
      BY <2>1 DEF KeepsPace
    <3> QED  BY <3>3, <3>4
  <2>5. PlanWoa(cfg, env, Candidate, memory) = PlanWoa(cfg, env, base, memory)
    BY <2>1 DEF KeepsPace
  <2> QED  BY <1>1, <2>1, <2>2, <2>3, <2>4, <2>5 DEF SearchInv, KeptPace
<1>8. CASE EndSearch
  <2>1. pc' = "limits" /\ context' = best /\ base' = base /\ memory' = memory
    BY <1>8 DEF EndSearch, Stage, search
  <2>2. KeptPace(best)
    BY <1>8 DEF EndSearch, Stage, IInv, SearchInv
  <2> QED  BY <1>1, <2>1, <2>2 DEF SearchInv, KeptPace
<1>9. CASE CheckLimits \/ PlanMemory \/ ReadPrompt \/ OpenModel \/ ChooseDrafter
           \/ MakeWorkspace \/ NoWorkspace
  <2>1. pc' \notin {"halve", "grow", "limits"}
    BY <1>9 DEF CheckLimits, PlanMemory, ReadPrompt, OpenModel, ChooseDrafter,
                MakeWorkspace, NoWorkspace, Stage
  <2> QED  BY <2>1 DEF SearchInv
<1> QED  BY <1>2, <1>3, <1>4, <1>5, <1>6, <1>7, <1>8, <1>9,
            NextCases, LeavingKeeps, RestingKeeps

LEMMA BudgetKept ==
    ASSUME IInv, [Next]_vars
    PROVE  BudgetInv'
<1>1. cmd' = cmd /\ env' = env /\ cfg' = cfg
  BY GivenStays
<1>2. CASE Restart \/ ChooseMemory \/ LoadConfig \/ GivenContext \/ BeginSearch
           \/ Halve \/ BaseFits \/ Grow \/ EndSearch
  <2>1. pc' \notin {"plan", "prompt", "open", "drafter", "workspace", "running"}
    BY <1>2 DEF Restart, ChooseMemory, LoadConfig, GivenContext, BeginSearch, Halve,
                BaseFits, Grow, EndSearch, Stage
  <2> QED  BY <2>1 DEF BudgetInv
<1>3. CASE AcceptArguments
  <2>1. pc' = "memory" \/ (pc' = "open" /\ cmd.mode = "library")
    BY <1>3 DEF AcceptArguments, Stage
  <2> QED  BY <1>1, <2>1 DEF BudgetInv
<1>4. CASE CheckLimits
  <2>1. pc' = "plan" /\ context' = context
        /\ (cmd.mode = "cache" => budget' = CacheBudget)
    BY <1>4 DEF CheckLimits, Stage
  <2> QED  BY <1>1, <2>1 DEF BudgetInv, CacheBudget
<1>5. CASE PlanMemory
  <2>1. pc = "plan" /\ pc' \in {"open", "prompt"} /\ context' = context /\ budget' = budget
        /\ Fits(cfg, env, context, budget)
    BY <1>5 DEF PlanMemory, Stage
  <2>2. cmd.mode = "cache" => budget = CacheBudget
    BY <2>1 DEF IInv, BudgetInv
  <2> QED  BY <1>1, <2>1, <2>2 DEF BudgetInv, CacheBudget
<1>6. CASE ReadPrompt \/ OpenModel \/ ChooseDrafter \/ MakeWorkspace \/ NoWorkspace
  <2>1. /\ pc \in {"prompt", "open", "drafter", "workspace", "running"}
        /\ context' = context /\ budget' = budget
    BY <1>6 DEF ReadPrompt, OpenModel, ChooseDrafter, MakeWorkspace, NoWorkspace, Stage
  <2>2. /\ cmd.mode = "cache" => budget = CacheBudget
        /\ cmd.mode # "library" => Fits(cfg, env, context, budget)
    BY <2>1 DEF IInv, BudgetInv
  <2> QED  BY <1>1, <2>1, <2>2 DEF BudgetInv, CacheBudget
<1> QED  BY <1>2, <1>3, <1>4, <1>5, <1>6, NextCases, LeavingKeeps, RestingKeeps

LEMMA ModelKept ==
    ASSUME IInv, [Next]_vars
    PROVE  ModelInv'
<1>1. cmd' = cmd /\ env' = env /\ cfg' = cfg
  BY GivenStays
<1>2. CASE Restart \/ AcceptArguments \/ ChooseMemory \/ LoadConfig \/ GivenContext
           \/ BeginSearch \/ Halve \/ BaseFits \/ Grow \/ EndSearch \/ CheckLimits
           \/ PlanMemory \/ ReadPrompt
  <2>1. pc' \notin {"drafter", "workspace", "running"}
    BY <1>2 DEF Restart, AcceptArguments, ChooseMemory, LoadConfig, GivenContext,
                BeginSearch, Halve, BaseFits, Grow, EndSearch, CheckLimits, PlanMemory,
                ReadPrompt, Stage, IInv, ConfigInv, Planning
  <2> QED  BY <2>1 DEF ModelInv, Choosing
<1>3. CASE OpenModel
  <2>1. ValidConfig /\ (cmd.mode # "library" => Fits(cfg, env, context, budget))
    BY <1>3 DEF OpenModel, Stage, IInv, ConfigInv, BudgetInv
  <2>2. PICK global \in BOOLEAN, equal \in BOOLEAN,
             kept \in (1..cfg.block) \cup {DraftPositions(cfg, VerifyDrafts)},
             asked \in cfg.topk..cfg.experts :
             model' = Opened(global, equal, DraftSlots(cfg, env, GivenSlots, kept), asked)
    BY <1>3 DEF OpenModel
  <2>3. kept \in Int
    BY <2>1, SlotsGiven, ValidTyped, DivisionBounds, Division
       DEF DraftPositions, AtMost, IInv
  <2>4. /\ model'.main + model'.draft = GivenSlots
        /\ model'.perLayer => PerLayer(cfg, model'.main)
        /\ model'.hashMin =>
              /\ HashMin(cfg, model'.main)
              /\ \E n \in Int : /\ n >= cfg.topk
                                /\ model'.hashSlots = HashSlots(cfg, model'.main, n)
        /\ model'.draft > 0 => cfg.stages > 0 /\ cfg.topk * cfg.stages <= model'.draft
    BY <2>1, <2>2, <2>3, OpenedSound DEF IInv
  <2>5. GivenSlots' = GivenSlots
    BY <1>1, <1>3 DEF OpenModel, GivenSlots, Plan
  <2> QED  BY <1>1, <2>4, <2>5 DEF ModelInv
<1>4. CASE ChooseDrafter \/ MakeWorkspace \/ NoWorkspace
  <2>1. pc \in Choosing /\ model' = model /\ context' = context /\ budget' = budget
    BY <1>4 DEF ChooseDrafter, MakeWorkspace, NoWorkspace, Stage, Choosing
  <2>2. GivenSlots' = GivenSlots
    BY <1>1, <2>1 DEF GivenSlots, Plan
  <2> QED  BY <1>1, <2>1, <2>2 DEF IInv, ModelInv
<1> QED  BY <1>2, <1>3, <1>4, NextCases, LeavingKeeps, RestingKeeps

LEMMA DrafterKept ==
    ASSUME IInv, [Next]_vars
    PROVE  DrafterInv'
<1>1. cmd' = cmd /\ env' = env /\ cfg' = cfg
  BY GivenStays
<1>2. CASE Restart \/ AcceptArguments \/ ChooseMemory \/ LoadConfig \/ GivenContext
           \/ BeginSearch \/ Halve \/ BaseFits \/ Grow \/ EndSearch \/ CheckLimits
           \/ PlanMemory \/ ReadPrompt \/ OpenModel
  <2>1. pc \notin {"workspace", "running", "exit"} /\ drafter' = drafter
        /\ pc' # "workspace"
    BY <1>2 DEF Restart, AcceptArguments, ChooseMemory, LoadConfig, GivenContext,
                BeginSearch, Halve, BaseFits, Grow, EndSearch, CheckLimits, PlanMemory,
                ReadPrompt, OpenModel, Stage, session
  <2>2. drafter = "none"
    BY <2>1 DEF IInv, DrafterInv
  <2> QED  BY <2>1, <2>2 DEF DrafterInv
<1>3. CASE ChooseDrafter
  <2>1. pc = "drafter" /\ pc' = "workspace" /\ ValidConfig
    BY <1>3 DEF ChooseDrafter, Stage, IInv, ConfigInv, Choosing
  <2>2. UseDSpark => cfg.block \in Nat /\ VerifyDrafts \in 1..cfg.block
    BY <2>1, DSparkBlock DEF IInv
  <2>3. drafter' = "dspark" => UseDSpark /\ block' = VerifyDrafts
    BY <1>3 DEF ChooseDrafter
  <2> QED  BY <1>1, <2>1, <2>2, <2>3 DEF DrafterInv
<1>4. CASE MakeWorkspace
  <2>1. pc = "workspace" /\ pc' = "running" /\ block' = block /\ drafter' = drafter
        /\ positions' = Workspace /\ context' = context /\ Workspace <= context
    BY <1>4 DEF MakeWorkspace, Stage
  <2>2. block + 1 <= Workspace
    <3>1. block \in Nat
      BY DEF IInv, TypeOK
    <3>2. drafter = "dspark" => cfg.block \in Nat /\ block \in 1..cfg.block
      BY <2>1 DEF IInv, DrafterInv
    <3> QED  BY <3>1, <3>2 DEF Workspace
  <2> QED  BY <2>1, <2>2 DEF DrafterInv
<1>5. CASE NoWorkspace
  <2>1. pc' = "running" /\ drafter' = "none"
    BY <1>5 DEF NoWorkspace, Stage
  <2> QED  BY <2>1 DEF DrafterInv
<1> QED  BY <1>2, <1>3, <1>4, <1>5, NextCases, LeavingKeeps, RestingKeeps

-------------------------------------------------------------------------------
(* The inductive invariant: what has been read, searched, budgeted, opened  *)
(* and chosen so far is consistent.                                         *)
THEOREM StartupInvariant == Spec => []IInv
<1>1. Init => IInv
  <2> SUFFICES ASSUME Init  PROVE IInv
    OBVIOUS
  <2>1. pc = "arguments" /\ drafter = "none"
    BY DEF Init
  <2>2. TypeOK
    BY DEF Init, TypeOK, NoModel
  <2> QED  BY <2>1, <2>2 DEF IInv, ConfigInv, SearchInv, BudgetInv, ModelInv, DrafterInv,
                             Planning, Choosing
<1>2. IInv /\ [Next]_vars => IInv'
  BY TypesKept, ConfigKept, SearchKept, BudgetKept, ModelKept, DrafterKept DEF IInv
<1> QED  BY <1>1, <1>2, PTL DEF Spec

-------------------------------------------------------------------------------
(* An automatic context keeps the pace of the one the search starts from,   *)
(* and a search that finds nothing has left nothing out.                    *)
THEOREM StartupKeepsPace == Spec => []LongContextKeepsPace
<1>1. IInv => LongContextKeepsPace
  <2> SUFFICES ASSUME IInv  PROVE LongContextKeepsPace
    OBVIOUS
  <2>1. pc = "limits" /\ Searches => KeptPace(context)
    BY DEF IInv, SearchInv
  <2>2. ASSUME pc = "halve", base <= 1, ~Fits(cfg, env, base, memory), NEW n \in 1..cfg.longest,
               Fits(cfg, env, n, memory)
        PROVE  FALSE
    <3>1. base = 1
      BY <2>2, GivenTyped DEF IInv, SearchInv
    <3>2. ConfigType(cfg) /\ cfg.layers \in Nat /\ memory \in Int
          /\ n \in Nat /\ 1 \in Nat /\ 1 <= n
      BY <2>2, GivenTyped, ValidTyped DEF IInv, TypeOK, ConfigInv, Planning
    <3>3. Fits(cfg, env, 1, memory)
      BY <2>2, <3>2, ShorterContextsFit, Zenon
    <3> QED  BY <2>2, <3>1, <3>3
  <2> QED  BY <2>1, <2>2 DEF LongContextKeepsPace, KeptPace
<1> QED  BY <1>1, StartupInvariant, PTL

(* --cache-gib buys exactly the cache it names, and every decoded layer     *)
(* beside it, whatever the context, the configuration and the environment.  *)
THEOREM StartupCacheAsAsked == Spec => []CacheAsAsked
<1>1. IInv => CacheAsAsked
  <2> SUFFICES ASSUME IInv,
                      pc \in {"prompt", "open", "drafter", "workspace", "running"},
                      cmd.mode = "cache", cmd.amount >= MinExpertCache
               PROVE  /\ PlanSlots(cfg, env, context, budget)
                            = AtMost(cmd.amount \div ExpertSlot, MostSlots)
                      /\ PlanWoa(cfg, env, context, budget) = cfg.layers
    BY DEF CacheAsAsked, Plan
  <2>1. ValidConfig /\ TypeOK
    BY DEF IInv, ConfigInv, Planning, Choosing
  <2>2. /\ ConfigType(cfg) /\ cfg.layers \in Nat \ {0} /\ WoaLayer(cfg, env) > 0
        /\ cmd.amount \in Nat /\ context \in Int /\ budget \in Int
    BY <2>1, GivenTyped, ValidTyped DEF TypeOK
  <2>3. budget = RuntimeReserve + ContextBytes(cfg, context)
                 + cfg.layers * WoaLayer(cfg, env) + DSparkBytes(cfg, env) + cmd.amount
    BY DEF IInv, BudgetInv, CacheBudget
  <2> QED  BY <2>2, <2>3, CacheBudgetBuysTheCache
<1> QED  BY <1>1, StartupInvariant, PTL

LEMMA IntervalSize ==
    ASSUME NEW a \in Int, NEW b \in Int, NEW k \in Nat, b - a >= k
    PROVE  Cardinality(a..(b - 1)) >= k
<1>1. Cardinality(a..(b - 1)) = IF a > b - 1 THEN 0 ELSE (b - 1) - a + 1
  BY FS_Interval
<1> QED  BY <1>1

(* A model that is opened has the slots that were planned, within budget;   *)
(* layers and draft stages own pieces of it that are apart, use every slot, *)
(* and can each pin the experts of a token; a round fits its snapshot.      *)
THEOREM StartupReadyToServe == Spec => []ReadyToServe
<1>1. IInv => ReadyToServe
  <2> SUFFICES ASSUME IInv  PROVE ReadyToServe
    OBVIOUS
  <2>1. TypeOK /\ (pc = "running" /\ drafter # "none" =>
                      block + 1 <= positions /\ positions <= context)
    BY DEF IInv, DrafterInv
  <2>2. ASSUME pc \in {"drafter", "workspace", "running"}
        PROVE  /\ model.main + model.draft = GivenSlots
               /\ cmd.mode # "library" => Planned(cfg, env, context, budget) <= budget
               /\ model.perLayer =>
                     /\ Apart(Layers)
                     /\ UNION {SlotsOf(l) : l \in Layers} = 0..(model.main - 1)
                     /\ \A l \in Layers : Cardinality(SlotsOf(l)) >= cfg.topk
               /\ model.draft > 0 =>
                     /\ Apart(Stages)
                     /\ UNION {SlotsOf(l) : l \in Stages} = model.main..(GivenSlots - 1)
                     /\ \A l \in Stages : Cardinality(SlotsOf(l)) >= cfg.topk
    <3> DEFINE B(l) == Bounds(cfg, model, l)
    <3>1. ValidConfig
      BY <2>2 DEF IInv, ConfigInv, Choosing
    <3>2. /\ cfg.layers \in Nat \ {0} /\ cfg.topk \in Nat /\ cfg.stages \in Nat
          /\ cfg.hash \in Int /\ ConfigType(cfg)
          /\ model.main \in Nat /\ model.draft \in Nat
          /\ context \in Int /\ budget \in Int
      BY <2>1, <3>1, ValidTyped, GivenTyped DEF TypeOK
    <3>3. /\ model.main + model.draft = GivenSlots
          /\ model.perLayer => PerLayer(cfg, model.main)
          /\ model.hashMin =>
                /\ HashMin(cfg, model.main)
                /\ \E n \in Int : /\ n >= cfg.topk
                                  /\ model.hashSlots = HashSlots(cfg, model.main, n)
          /\ model.draft > 0 => cfg.stages > 0 /\ cfg.topk * cfg.stages <= model.draft
      BY <2>2 DEF IInv, ModelInv, Choosing
    <3>4. cmd.mode # "library" => Planned(cfg, env, context, budget) <= budget
      <4>1. cmd.mode # "library" => Fits(cfg, env, context, budget)
        BY <2>2 DEF IInv, BudgetInv
      <4> QED  BY <3>2, <4>1, PlanWithinBudget
    <3>5. \A l : SlotsOf(l) = B(l)[1]..(B(l)[2] - 1)
      BY DEF SlotsOf
    <3>6. ASSUME model.perLayer
          PROVE  /\ Apart(Layers)
                 /\ UNION {SlotsOf(l) : l \in Layers} = 0..(model.main - 1)
                 /\ \A l \in Layers : Cardinality(SlotsOf(l)) >= cfg.topk
      <4>1. /\ \A l \in Layers : /\ B(l)[1] \in Nat /\ B(l)[2] \in 0..model.main
                                 /\ B(l)[2] - B(l)[1] >= cfg.topk
            /\ \A k, l \in Layers : k < l => B(k)[2] <= B(l)[1]
            /\ \A x \in 0..(model.main - 1) : \E l \in Layers : B(l)[1] <= x /\ x < B(l)[2]
        BY <3>2, <3>3, <3>6, LayersDivideTheCache DEF Layers
      <4>2. \A l \in Layers : l \in Int
        BY <3>2 DEF Layers
      <4> HIDE DEF B
      <4>3. Apart(Layers)
        <5>1. ASSUME NEW k \in Layers, NEW l \in Layers, k < l
              PROVE  SlotsOf(k) \cap SlotsOf(l) = {}
          <6>1. /\ B(k)[1] \in Int /\ B(k)[2] \in Int /\ B(l)[1] \in Int /\ B(l)[2] \in Int
                /\ B(k)[2] <= B(l)[1]
            BY <4>1, <5>1
          <6>2. SlotsOf(k) = B(k)[1]..(B(k)[2] - 1) /\ SlotsOf(l) = B(l)[1]..(B(l)[2] - 1)
            BY <3>5
          <6> QED  BY <6>1, <6>2
        <5>2. \A k, l \in Layers : k # l => k < l \/ l < k
          BY <4>2
        <5> QED  BY <5>1, <5>2 DEF Apart
      <4>4. UNION {SlotsOf(l) : l \in Layers} = 0..(model.main - 1)
        <5>1. ASSUME NEW x \in 0..(model.main - 1)
              PROVE  \E l \in Layers : x \in SlotsOf(l)
          <6>1. PICK l \in Layers : B(l)[1] <= x /\ x < B(l)[2]
            BY <4>1
          <6>2. B(l)[1] \in Int /\ B(l)[2] \in Int
            BY <4>1
          <6> QED  BY <3>5, <6>1, <6>2
        <5>2. ASSUME NEW l \in Layers, NEW x \in SlotsOf(l)
              PROVE  x \in 0..(model.main - 1)
          <6>1. B(l)[1] \in Nat /\ B(l)[2] \in 0..model.main
            BY <4>1
          <6>2. x \in B(l)[1]..(B(l)[2] - 1)
            BY <3>5, <5>2
          <6> QED  BY <3>2, <6>1, <6>2
        <5> QED  BY <5>1, <5>2
      <4>5. \A l \in Layers : Cardinality(SlotsOf(l)) >= cfg.topk
        <5> SUFFICES ASSUME NEW l \in Layers
                     PROVE  Cardinality(B(l)[1]..(B(l)[2] - 1)) >= cfg.topk
          BY <3>5
        <5>1. B(l)[1] \in Int /\ B(l)[2] \in Int /\ B(l)[2] - B(l)[1] >= cfg.topk
          BY <4>1
        <5> QED  BY <3>2, <5>1, IntervalSize
      <4> QED  BY <4>3, <4>4, <4>5
    <3>7. ASSUME model.draft > 0
          PROVE  /\ Apart(Stages)
                 /\ UNION {SlotsOf(l) : l \in Stages} = model.main..(GivenSlots - 1)
                 /\ \A l \in Stages : Cardinality(SlotsOf(l)) >= cfg.topk
      <4> DEFINE S == 0..(cfg.stages - 1)
                 C(i) == B(cfg.layers + i)
      <4>1. /\ \A i \in S : /\ C(i)[1] \in Int /\ model.main <= C(i)[1]
                            /\ C(i)[2] \in Int /\ C(i)[2] <= model.main + model.draft
                            /\ C(i)[2] - C(i)[1] >= cfg.topk
            /\ \A i, j \in S : i < j => C(i)[2] <= C(j)[1]
            /\ \A x \in model.main..(model.main + model.draft - 1) :
                  \E i \in S : C(i)[1] <= x /\ x < C(i)[2]
        BY <3>2, <3>3, <3>7, StagesDivideTheDraftSlots
      <4>2. \A l \in Stages : \E i \in S : l = cfg.layers + i
        BY DEF Stages
      <4>3. \A i \in S : cfg.layers + i \in Stages /\ i \in Int
        BY DEF Stages
      <4>4. \A i \in S : SlotsOf(cfg.layers + i) = C(i)[1]..(C(i)[2] - 1)
        BY <3>5
      <4> HIDE DEF B, C
      <4>5. Apart(Stages)
        <5>1. ASSUME NEW i \in S, NEW j \in S, i < j
              PROVE  SlotsOf(cfg.layers + i) \cap SlotsOf(cfg.layers + j) = {}
          <6>1. /\ C(i)[1] \in Int /\ C(i)[2] \in Int /\ C(j)[1] \in Int /\ C(j)[2] \in Int
                /\ C(i)[2] <= C(j)[1]
            BY <4>1, <5>1
          <6> QED  BY <4>4, <6>1
        <5>2. \A i, j \in S : i # j => i < j \/ j < i
          BY <4>3
        <5> QED  BY <4>2, <5>1, <5>2 DEF Apart
      <4>6. UNION {SlotsOf(l) : l \in Stages} = model.main..(GivenSlots - 1)
        <5>1. ASSUME NEW x \in model.main..(GivenSlots - 1)
              PROVE  \E l \in Stages : x \in SlotsOf(l)
          <6>1. PICK i \in S : C(i)[1] <= x /\ x < C(i)[2]
            BY <3>2, <3>3, <4>1
          <6> QED  BY <3>2, <4>1, <4>3, <4>4, <6>1
        <5>2. ASSUME NEW l \in Stages, NEW x \in SlotsOf(l)
              PROVE  x \in model.main..(GivenSlots - 1)
          <6>1. PICK i \in S : l = cfg.layers + i
            BY <4>2
          <6>2. x \in C(i)[1]..(C(i)[2] - 1)
            BY <4>4, <5>2, <6>1
          <6> QED  BY <3>2, <3>3, <4>1, <6>2
        <5> QED  BY <5>1, <5>2
      <4>7. \A l \in Stages : Cardinality(SlotsOf(l)) >= cfg.topk
        <5> SUFFICES ASSUME NEW i \in S
                     PROVE  Cardinality(C(i)[1]..(C(i)[2] - 1)) >= cfg.topk
          BY <4>2, <4>4
        <5> QED  BY <3>2, <4>1, IntervalSize
      <4> QED  BY <4>5, <4>6, <4>7
    <3> QED  BY <3>3, <3>4, <3>6, <3>7
  <2> QED  BY <2>1, <2>2 DEF ReadyToServe
<1> QED  BY <1>1, StartupInvariant, PTL
===============================================================================
