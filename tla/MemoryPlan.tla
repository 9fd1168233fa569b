------------------------------ MODULE MemoryPlan ------------------------------
(***************************************************************************)
(* The arithmetic of the memory plan (dsv4_tensor.c) and of the division   *)
(* of the expert cache that is opened from it: what a context costs, how   *)
(* many decoded wo_a layers and expert slots a budget buys, which slots    *)
(* the draft stages and the layers own.  Sizes are in a common unit; only  *)
(* their proportions matter.                                               *)
(*                                                                         *)
(* A configuration is a record: layers, hash (the layers routed by token   *)
(* id), experts, topk, window, ratios (a sequence, one per layer), stages  *)
(* and block (DSpark; 0 without it), targets (the layers DSpark looks at), *)
(* original and longest (the native and the longest context), woa and      *)
(* packed (a decoded wo_a layer, as BF16 or packed), and complete (no      *)
(* field is missing and the remaining members are plausible).  An          *)
(* environment e says whether DSpark is asked for (dspark) and wo_a packed *)
(* (packed).                                                               *)
(***************************************************************************)
EXTENDS Integers, Sequences, FiniteSets

CONSTANTS RuntimeReserve,   \* RUNTIME_RESERVE
          MinExpertCache,   \* MIN_EXPERT_CACHE, a GiB
          ExpertSlot,       \* EXPERT_SLOT_BYTES
          MostSlots,        \* the planner's ceiling of expert slots
          MostBudget,       \* the planner's ceiling of the budget
          RowBytes,         \* a key row of 512 floats
          IndexBytes,       \* an indexer row
          NearRatio,        \* the ratio of layers with an indexer, 4
          FarRatio          \* the other compression ratio, 128

ASSUME PlanAssumption ==
    /\ RuntimeReserve \in Nat /\ MinExpertCache \in Nat /\ MostBudget \in Nat
    /\ ExpertSlot \in Nat \ {0} /\ MostSlots \in Nat \ {0}
    /\ RowBytes \in Nat /\ IndexBytes \in Nat
    /\ NearRatio \in Nat \ {0} /\ FarRatio \in Nat \ {0}
    /\ ExpertSlot <= MinExpertCache

(* DSV4Config: ints, and sizes that were computed from them. *)
ConfigType(c) ==
    /\ {c.layers, c.hash, c.experts, c.topk, c.window, c.block} \subseteq Int
    /\ {c.stages, c.woa, c.packed} \subseteq Nat

AtMost(a, b) == IF a < b THEN a ELSE b
CeilDiv(a, b) == a \div b + (IF a % b # 0 THEN 1 ELSE 0)

LayersOf(c, ratio) == Cardinality({i \in 1..c.layers : c.ratios[i] = ratio})

ContextBytes(c, context) ==
    c.layers * c.window * RowBytes
    + LayersOf(c, NearRatio) * CeilDiv(context, NearRatio) * (RowBytes + IndexBytes)
    + LayersOf(c, FarRatio) * CeilDiv(context, FarRatio) * RowBytes

WoaLayer(c, e) == IF e.packed THEN c.packed ELSE c.woa

(* What DSpark keeps: the wo_a of its stages and their keys of the window. *)
DSparkBytes(c, e) ==
    IF e.dspark THEN c.stages * WoaLayer(c, e) + c.stages * c.window * RowBytes ELSE 0

Fixed(c, e, context) == RuntimeReserve + DSparkBytes(c, e) + ContextBytes(c, context)

-------------------------------------------------------------------------------
(* memory_plan_impl, over what is left of the budget. *)
WoaLayers(left, layer, n) ==
    IF layer > 0 /\ left > MinExpertCache
    THEN AtMost((left - MinExpertCache) \div layer, n) ELSE 0

Slots(left, woaBytes) == AtMost((left - woaBytes) \div ExpertSlot, MostSlots)

Left(c, e, context, budget) == budget - Fixed(c, e, context)

PlanWoa(c, e, context, budget) ==
    WoaLayers(Left(c, e, context, budget), WoaLayer(c, e), c.layers)

PlanSlots(c, e, context, budget) ==
    Slots(Left(c, e, context, budget), PlanWoa(c, e, context, budget) * WoaLayer(c, e))

Planned(c, e, context, budget) ==
    Fixed(c, e, context) + PlanWoa(c, e, context, budget) * WoaLayer(c, e)
    + PlanSlots(c, e, context, budget) * ExpertSlot

(* The plan is not refused. *)
Fits(c, e, context, budget) ==
    /\ context >= 0
    /\ budget > 0 /\ budget <= MostBudget
    /\ budget > Fixed(c, e, context)
    /\ PlanSlots(c, e, context, budget) >= 1

-------------------------------------------------------------------------------
(* dsv4_model_open: the slots taken out of the cache for the draft stages,  *)
(* when a draft of so many positions is to be kept resident.                *)
DraftSlots(c, e, slots, positions) ==
    LET ideal == AtMost(c.stages * positions * c.topk, slots \div 4)
        even == (ideal \div c.stages) * c.stages
    IN IF e.dspark /\ c.stages > 0 /\ even >= c.stages * c.topk THEN even ELSE 0

(* The number of positions: half a block unless the round verifies fewer.   *)
DraftPositions(c, drafts) == AtMost((c.block + 1) \div 2, drafts)

PerLayer(c, main) == main >= c.layers * c.topk
HashMin(c, main) == PerLayer(c, main) /\ c.hash > 0 /\ c.hash < c.layers

(* Mutant: what the other layers need is not kept back. *)
HashSlotsGreedy(c, main, asked) ==
    LET most == main \div c.hash IN
    IF AtMost(asked, most) < c.topk THEN c.topk ELSE AtMost(asked, most)

HashSlots(c, main, asked) ==
    LET most == (main - (c.layers - c.hash) * c.topk) \div c.hash IN
    IF AtMost(asked, most) < c.topk THEN c.topk ELSE AtMost(asked, most)

(* Where part i begins when n slots from first on are divided among k. *)
ShareBegin(first, n, k, i) == first + i * (n \div k) + AtMost(i, n % k)

(* cache_bounds, over an opened model: an interval [begin, end) of slots.   *)
Bounds(c, m, layer) ==
    CASE layer >= c.layers /\ (layer - c.layers >= c.stages \/ m.draft = 0)
             -> <<0, m.main>>
      [] layer >= c.layers /\ layer - c.layers < c.stages /\ m.draft # 0
             -> <<ShareBegin(m.main, m.draft, c.stages, layer - c.layers),
                  ShareBegin(m.main, m.draft, c.stages, layer - c.layers + 1)>>
      [] layer < c.layers /\ ~m.perLayer
             -> <<0, m.main>>
      [] layer < c.layers /\ layer < c.hash /\ m.perLayer /\ m.hashMin
             -> <<layer * m.hashSlots, (layer + 1) * m.hashSlots>>
      [] layer >= c.hash /\ layer < c.layers /\ m.perLayer /\ m.hashMin
             -> LET total == c.hash * m.hashSlots
                    learned == c.layers - c.hash
                IN <<ShareBegin(total, m.main - total, learned, layer - c.hash),
                     ShareBegin(total, m.main - total, learned, layer - c.hash + 1)>>
      [] layer < c.layers /\ m.perLayer /\ ~m.hashMin
             -> <<ShareBegin(0, m.main, c.layers, layer),
                  ShareBegin(0, m.main, c.layers, layer + 1)>>
===============================================================================
