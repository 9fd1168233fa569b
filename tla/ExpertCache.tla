----------------------------- MODULE ExpertCache -----------------------------
(***************************************************************************)
(* The replacement policy of the expert cache: which slots a layer owns,   *)
(* which slot a miss evicts, and how hits and publications move slots      *)
(* between the probationary and the protected segment.                     *)
(*                                                                         *)
(* Policy state is a record [seg, age, prot]: the segment of every slot    *)
(* (0 never used, 1 probationary, 2 protected), its recency rank (0 the    *)
(* most recent; the code stamps slots from a clock and only ever compares  *)
(* the stamps), and for every layer the counter cache_protected.           *)
(***************************************************************************)
EXTENDS Integers, Sequences, FiniteSets, SequencesExt

CONSTANTS NLayers,      \* layers of the model
          NHash,        \* the first of them, routed by token id
          NExperts,     \* routed experts of a layer
          Topk,         \* experts a token is routed to
          NSlots,       \* main_cache_slots
          ForceGlobal,  \* DSV4_EXPERT_CACHE_GLOBAL is set
          ForceLru      \* DSV4_EXPERT_CACHE_LRU is set

ASSUME SizesAssumption ==
    /\ NLayers \in Nat \ {0}
    /\ NHash \in 0..NLayers
    /\ NExperts \in Nat \ {0}
    /\ Topk \in 1..NExperts
    /\ NSlots \in Nat \ {0}
ASSUME SwitchesAssumption == ForceGlobal \in BOOLEAN /\ ForceLru \in BOOLEAN

Layer == 0..(NLayers - 1)
Expert == 0..(NExperts - 1)
Slot == 0..(NSlots - 1)
Key == Layer \X Expert

(* The policy dsv4_model_open selects. *)
PerLayer == ~ForceGlobal /\ NSlots >= NLayers * Topk
Slru == PerLayer /\ ~ForceLru
HashMin == PerLayer /\ NHash > 0 /\ NHash < NLayers
MaxHashSlots == (NSlots - (NLayers - NHash) * Topk) \div NHash

(* Part i of the n slots from first on, divided among k layers. *)
Share(first, n, k, i) ==
    LET base == n \div k
        extra == n % k
        begin == first + i * base + Min({i, extra})
    IN {s \in Slot : begin <= s /\ s < begin + base + (IF i < extra THEN 1 ELSE 0)}

(* The slots a layer owns when every hash-routed layer has h of them. *)
RangeOf(layer, h) ==
    IF ~PerLayer THEN Slot
    ELSE IF ~HashMin THEN Share(0, NSlots, NLayers, layer)
    ELSE IF layer < NHash THEN {s \in Slot : layer * h <= s /\ s < (layer + 1) * h}
    ELSE Share(NHash * h, NSlots - NHash * h, NLayers - NHash, layer - NHash)

-------------------------------------------------------------------------------
Policy0 ==
    [seg |-> [s \in Slot |-> 0],
     age |-> [s \in Slot |-> s],
     prot |-> [l \in Layer |-> 0]]

(* s becomes the most recently used slot. *)
Refresh(age, s) ==
    [t \in Slot |-> IF t = s THEN 0
                    ELSE IF age[t] < age[s] THEN age[t] + 1 ELSE age[t]]

(* Seven tenths of the range, at least one slot and never all of them. *)
ProtectedCap(range) ==
    LET n == Cardinality(range)
        seven == (n * 7) \div 10
    IN IF seven < 1 THEN Min({1, n - 1}) ELSE Min({seven, n - 1})

Oldest(p, S) == CHOOSE s \in S : \A t \in S : p.age[t] <= p.age[s]

MayProtect(p, layer, range) == p.prot[layer] < ProtectedCap(range)

(* A hit on slot s of a layer that owns range: a probationary slot becomes  *)
(* protected, and past the cap the oldest other protected slot pays for it. *)
Touch(p, layer, range, s) ==
    LET others == {t \in range \ {s} : p.seg[t] = 2}
        fresh == [p EXCEPT !.age = Refresh(@, s)]
        promoted == [fresh EXCEPT !.seg[s] = 2]
    IN IF ~Slru \/ p.seg[s] # 1 \/ ProtectedCap(range) <= 0 THEN fresh
       ELSE IF MayProtect(p, layer, range)
       THEN [promoted EXCEPT !.prot[layer] = @ + 1]
       ELSE IF others = {} THEN promoted
       ELSE [promoted EXCEPT !.seg[Oldest(fresh, others)] = 1]

(* Slot s, which held an expert of oldLayer, receives another one. *)
Publish(p, oldLayer, s) ==
    LET aged == [p EXCEPT !.age = Refresh(@, s), !.seg[s] = 1]
    IN IF Slru /\ p.seg[s] = 2
       THEN [aged EXCEPT !.prot[oldLayer] = @ - 1]
       ELSE aged

(* Slot s goes before slot t: empty slots first, in index order, then       *)
(* probationary before protected slots, then the least recently used.       *)
EvictBefore(p, empty, s, t) ==
    IF s \in empty \/ t \in empty
    THEN s \in empty /\ (t \in empty => s < t)
    ELSE IF Slru /\ (p.seg[s] = 2) # (p.seg[t] = 2)
    THEN p.seg[t] = 2
    ELSE p.age[s] > p.age[t]

(* Experts are visited by increasing id. *)
InOrder(S) == CHOOSE q \in SetToSeqs(S) : \A i, k \in DOMAIN q : i < k => q[i] < q[k]

(* The misses, taken in increasing expert id, receive the first of the free *)
(* slots in eviction order.                                                 *)
EvictionPlan(p, empty, misses, free, victim) ==
    /\ \A e, f \in misses : e < f => EvictBefore(p, empty, victim[e], victim[f])
    /\ \A e \in misses, s \in free \ {victim[f] : f \in misses} :
           EvictBefore(p, empty, victim[e], s)
===============================================================================
