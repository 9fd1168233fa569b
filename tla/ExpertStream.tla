----------------------------- MODULE ExpertStream -----------------------------
(***************************************************************************)
(* Streaming of expert weights through the bounded cache while a           *)
(* mixture-of-experts layer is evaluated: moe_forward for one token,       *)
(* moe_forward_batch for several, the batches of asynchronous reads that   *)
(* overwrite the buffers of evicted slots, and the resize of the           *)
(* hash-routed layers' partitions between two calls.                       *)
(*                                                                         *)
(* The inference thread is the only one to touch tags and policy state.    *)
(* Reads run beside it, in any order and number, and write the buffers of  *)
(* the slots reserved for them; their queue is the module ExpertPool.      *)
(***************************************************************************)
EXTENDS ExpertCache

CONSTANTS MaxTopk,      \* DSV4_MAX_TOPK: the most experts in a group
          MaxTokens,    \* bound: tokens of one batch
          HalfGroups,   \* not DSV4_NO_BATCH_MOE_HALF_GROUPS
          ReadFaults,   \* a read may come short
          NoKey,        \* no expert: an empty tag, a partly written buffer
          NotComputed   \* no weights yet

ASSUME StreamAssumption ==
    /\ MaxTopk \in Nat /\ MaxTopk >= Topk
    /\ MaxTokens \in Nat \ {0}
    /\ HalfGroups \in BOOLEAN /\ ReadFaults \in BOOLEAN
    /\ NoKey \notin Key
    /\ NotComputed \notin Key \cup {NoKey}

VARIABLES
    tag,        \* the (layer, expert) each slot claims to hold
    buffer,     \* the buffer each slot points to
    content,    \* the expert whose weights a buffer holds, NoKey if torn
    policy,     \* segments, recency and protected counters
    hashSlots,  \* cache_hash_slots
    pc,         \* where the inference thread is in the MoE call
    layer,      \* cur_layer of the call
    kind,       \* "token" for moe_forward, "batch" for moe_forward_batch
    want,       \* the distinct experts the call needs
    reused,     \* those that serve several tokens of a batch
    rest,       \* those in no group yet
    cur,        \* the group being evaluated, one of two
    group,      \* the experts of each group
    place,      \* the slot each expert of a group is in or will be read into
    miss,       \* the experts of a group that are not resident
    async,      \* whether the misses of a group are read asynchronously
    read,       \* the state of each asynchronous read
    result      \* the weights each wanted expert was evaluated with

cacheVars == <<tag, buffer, content, policy>>
callVars == <<layer, kind, want, reused>>
groupVars == <<group, place, miss, async, read>>
vars == <<cacheVars, hashSlots, pc, callVars, rest, cur, groupVars, result>>

Group == {0, 1}
Other(g) == 1 - g
NoSlot == -1
Mem == Slot     \* the expert buffers, named for the slots they began in
PC == {"idle", "first", "next", "getMany", "serial", "hits", "misses",
       "reduce", "failed"}

TypeOK ==
    /\ tag \in [Slot -> Key \cup {NoKey}]
    /\ buffer \in [Slot -> Mem]
    /\ content \in [Mem -> Key \cup {NoKey}]
    /\ DOMAIN policy = {"seg", "age", "prot"}
    /\ policy.seg \in [Slot -> 0..2]
    /\ policy.age \in [Slot -> 0..(NSlots - 1)]
    /\ policy.prot \in [Layer -> 0..NSlots]
    /\ hashSlots \in Nat
    /\ pc \in PC
    /\ layer \in Layer
    /\ kind \in {"token", "batch"}
    /\ want \subseteq Expert
    /\ reused \subseteq want
    /\ rest \subseteq want
    /\ cur \in Group
    /\ group \in [Group -> SUBSET Expert]
    /\ place \in [Group -> [Expert -> Slot \cup {NoSlot}]]
    /\ miss \in [Group -> SUBSET Expert]
    /\ async \in [Group -> BOOLEAN]
    /\ read \in [Group -> [Expert -> {"none", "queued", "reading", "done", "short"}]]
    /\ result \in [Expert -> Key \cup {NoKey, NotComputed}]

NoPlace == [e \in Expert |-> NoSlot]
NoRead == [e \in Expert |-> "none"]
NoResult == [e \in Expert |-> NotComputed]

Init ==
    /\ tag = [s \in Slot |-> NoKey]
    /\ buffer = [s \in Slot |-> s]
    /\ content = [b \in Mem |-> NoKey]
    /\ policy = Policy0
    /\ hashSlots = Topk
    /\ pc = "idle"
    /\ layer = 0 /\ kind = "token"
    /\ want = {} /\ reused = {} /\ rest = {}
    /\ cur = 0
    /\ group = [g \in Group |-> {}]
    /\ place = [g \in Group |-> NoPlace]
    /\ miss = [g \in Group |-> {}]
    /\ async = [g \in Group |-> FALSE]
    /\ read = [g \in Group |-> NoRead]
    /\ result = NoResult

-------------------------------------------------------------------------------
Owned == RangeOf(layer, hashSlots)
Empty == {s \in Slot : tag[s] = NoKey}

Holds(e) == {s \in Owned : tag[s] = <<layer, e>>}

(* cache_find: the first slot of the layer's range tagged with the expert.  *)
Find(e) == CHOOSE s \in Holds(e) : \A t \in Holds(e) : s <= t

TouchAll(p, slots) == FoldLeft(LAMBDA q, s : Touch(q, layer, Owned, s), p, slots)

OldLayer(s) == IF tag[s] = NoKey THEN layer ELSE tag[s][1]
PublishAll(p, slots) == FoldLeft(LAMBDA q, s : Publish(q, OldLayer(s), s), p, slots)

Slots(at, S) == [i \in 1..Cardinality(S) |-> at[InOrder(S)[i]]]

(* The tags once each expert of S was published in the slot at[e]. *)
Tagged(at, S) ==
    [s \in Slot |-> IF \E e \in S : at[e] = s
                    THEN <<layer, CHOOSE e \in S : at[e] = s>> ELSE tag[s]]

-------------------------------------------------------------------------------
(* Group sizes of moe_forward_batch. *)
Capacity == Cardinality(Owned)

(* Mutant: the size of the partition is left out. *)
FullGroupUnbounded == MaxTopk

FullGroup == Min({Capacity, MaxTopk})
GroupCap ==
    IF HalfGroups /\ Cardinality(want) > FullGroup /\ Capacity >= 2
    THEN Min({Capacity \div 2, MaxTopk}) ELSE FullGroup
Pipelined ==
    kind = "token" \/ Cardinality(want) <= GroupCap \/ Capacity >= 2 * GroupCap
GroupSize == IF kind = "token" THEN Topk ELSE GroupCap

FirstOf(S, n) == {e \in S : Cardinality({f \in S : f < e}) < n}

(* A call routes one token to Topk experts or several to their union. *)
Call(l, k, E, R) ==
    /\ pc = "idle"
    /\ pc' = "first"
    /\ layer' = l /\ kind' = k
    /\ want' = E /\ rest' = E /\ reused' = R
    /\ cur' = 0
    /\ result' = NoResult
    /\ UNCHANGED <<cacheVars, hashSlots, groupVars>>

CallToken ==
    \E l \in Layer, E \in SUBSET Expert :
        Cardinality(E) = Topk /\ Call(l, "token", E, {})

(* t tokens have t * Topk routes to the experts of E, no two of one token   *)
(* to the same expert; those of R have more than one.                       *)
CallBatch ==
    \E l \in Layer, E \in SUBSET Expert : \E R \in SUBSET E, t \in 2..MaxTokens :
        /\ Cardinality(E) >= Topk
        /\ Cardinality(E) + Cardinality(R) <= t * Topk
        /\ Cardinality(E) + (t - 1) * Cardinality(R) >= t * Topk
        /\ Call(l, "batch", E, R)

-------------------------------------------------------------------------------
(* Filling a group: expert_batch_begin_pinned and expert_get_many.          *)

(* Mutants: a slot the other group is filling is taken for a hit, or for a  *)
(* victim; a hit of the same group is taken for a victim.                   *)
HitsDespitePins(S, pins) == {e \in S : Holds(e) # {}}
FreeDespitePins(S, pins) == Owned \ {Find(e) : e \in {f \in S : Holds(f) # {} /\ Find(f) \notin pins}}
FreeDespiteHits(S, pins) == Owned \ pins

Hits(S, pins) == {e \in S : Holds(e) # {} /\ Find(e) \notin pins}
HitPlace(S) == [e \in Expert |-> IF e \in S THEN Find(e) ELSE NoSlot]
Free(S, pins) == Owned \ (pins \cup {Find(e) : e \in Hits(S, pins)})
Filled(victim, M, at) == [e \in Expert |-> IF e \in M THEN victim[e] ELSE at[e]]

(* The slots the other group reads from or writes to.                       *)
PinnedFor(g) == IF g = cur THEN {} ELSE {place[cur][e] : e \in group[cur]}
AfterBegin(g) == IF g = cur THEN "next" ELSE "hits"

(* The turn of group g, and the experts it receives.                        *)
Turn(g) ==
    \/ pc = "first" /\ g = cur
    \/ pc = "next" /\ Pipelined /\ rest # {} /\ g = Other(cur)
NewGroup == FirstOf(rest, GroupSize)

SetGroup(g, S, at, missing, asynchronous) ==
    /\ group' = [group EXCEPT ![g] = S]
    /\ place' = [place EXCEPT ![g] = at]
    /\ miss' = [miss EXCEPT ![g] = missing]
    /\ async' = [async EXCEPT ![g] = asynchronous]
    /\ read' = [read EXCEPT ![g] = [e \in Expert |->
                   IF asynchronous /\ e \in missing THEN "queued" ELSE "none"]]

(* Some experts are missing and there are slots for them: start the reads.  *)
BeginReads(g) ==
    LET S == NewGroup
        pins == PinnedFor(g)
        hits == Hits(S, pins)
        M == S \ hits
    IN /\ Turn(g) /\ Pipelined
       /\ M # {}
       /\ \E victim \in Injection(M, Free(S, pins)) :
             /\ EvictionPlan(policy, Empty, M, Free(S, pins), victim)
             /\ SetGroup(g, S, Filled(victim, M, HitPlace(hits)), M, TRUE)
       /\ rest' = rest \ S
       /\ pc' = AfterBegin(g)
       /\ UNCHANGED <<cacheVars, hashSlots, callVars, cur, result>>

(* Everything is resident, there are too few slots, or the groups are not   *)
(* pipelined: expert_get_many takes over, which knows of no pinned slot.    *)
BeginGetMany(g) ==
    LET S == NewGroup
        pins == PinnedFor(g)
        M == S \ Hits(S, pins)
    IN /\ Turn(g)
       /\ ~Pipelined \/ M = {} \/ Cardinality(M) > Cardinality(Free(S, pins))
       /\ SetGroup(g, S, NoPlace, {}, FALSE)
       /\ rest' = rest \ S
       /\ pc' = "getMany"
       /\ UNCHANGED <<cacheVars, hashSlots, callVars, cur, result>>

Filling == IF group[Other(cur)] # {} THEN Other(cur) ELSE cur

GetManyResident ==
    LET S == group[Filling] IN
    /\ pc = "getMany"
    /\ Hits(S, {}) = S
    /\ place' = [place EXCEPT ![Filling] = HitPlace(S)]
    /\ policy' = TouchAll(policy, Slots(HitPlace(S), S))
    /\ pc' = AfterBegin(Filling)
    /\ UNCHANGED <<tag, buffer, content, hashSlots, callVars, rest, cur,
                   group, miss, async, read, result>>

(* The misses are read in parallel and all have ended before they are       *)
(* published; how much a read returned is not looked at.                    *)
GetManyLoad ==
    LET S == group[Filling]
        hits == Hits(S, {})
        M == S \ hits
    IN /\ pc = "getMany"
       /\ M # {}
       /\ \E victim \in Injection(M, Free(S, {})),
             torn \in (IF ReadFaults THEN SUBSET M ELSE {{}}) :
             /\ EvictionPlan(policy, Empty, M, Free(S, {}), victim)
             /\ content' = [b \in Mem |->
                    IF \E e \in M : buffer[victim[e]] = b
                    THEN LET e == CHOOSE e \in M : buffer[victim[e]] = b
                         IN IF e \in torn THEN NoKey ELSE <<layer, e>>
                    ELSE content[b]]
             /\ tag' = Tagged(victim, M)
             /\ policy' = TouchAll(PublishAll(policy, Slots(victim, M)),
                                   Slots(HitPlace(hits), hits))
             /\ place' = [place EXCEPT ![Filling] = Filled(victim, M, HitPlace(hits))]
       /\ pc' = AfterBegin(Filling)
       /\ UNCHANGED <<buffer, hashSlots, callVars, rest, cur,
                      group, miss, async, read, result>>

GetManySerial ==
    LET S == group[Filling]
        hits == Hits(S, {})
    IN /\ pc = "getMany"
       /\ Cardinality(S \ hits) > Cardinality(Free(S, {}))
       /\ place' = [place EXCEPT ![Filling] = HitPlace(hits)]
       /\ miss' = [miss EXCEPT ![Filling] = S \ hits]
       /\ pc' = "serial"
       /\ UNCHANGED <<cacheVars, hashSlots, callVars, rest, cur,
                      group, async, read, result>>

(* One turn of the serial fallback: expert_get with the slots found for the *)
(* experts before this one pinned, and slot 0 when that leaves none.        *)
GetSerial ==
    LET g == Filling
        e == Min(miss[g])
        pins == {place[g][f] : f \in {x \in group[g] : x < e}}
        v == IF Owned \subseteq pins THEN 0
             ELSE CHOOSE s \in Owned \ pins : \A t \in (Owned \ pins) \ {s} :
                      EvictBefore(policy, Empty, s, t)
    IN /\ pc = "serial"
       /\ \/ /\ content' = [content EXCEPT ![buffer[v]] = <<layer, e>>]
             /\ tag' = [tag EXCEPT ![v] = <<layer, e>>]
             /\ policy' = Publish(policy, OldLayer(v), v)
             /\ place' = [place EXCEPT ![g][e] = v]
             /\ miss' = [miss EXCEPT ![g] = @ \ {e}]
             /\ pc' = IF miss[g] = {e} THEN AfterBegin(g) ELSE "serial"
          \/ /\ ReadFaults
             /\ content' = [content EXCEPT ![buffer[v]] = NoKey]
             /\ pc' = "failed"
             /\ UNCHANGED <<tag, policy, place, miss>>
       /\ UNCHANGED <<buffer, hashSlots, callVars, rest, cur, group, async, read, result>>

NoNext ==
    /\ pc = "next"
    /\ rest = {} \/ ~Pipelined
    /\ pc' = "hits"
    /\ UNCHANGED <<cacheVars, hashSlots, callVars, rest, cur, groupVars, result>>

-------------------------------------------------------------------------------
(* The reads, in the read workers.                                          *)

StartRead(g, e) ==
    /\ read[g][e] = "queued"
    /\ read' = [read EXCEPT ![g][e] = "reading"]
    /\ content' = [content EXCEPT ![buffer[place[g][e]]] = NoKey]
    /\ UNCHANGED <<tag, buffer, policy, hashSlots, pc, callVars, rest, cur,
                   group, place, miss, async, result>>

(* Mutant: a short read is reported as a complete one. *)
EndReadUnchecked(g, e) ==
    /\ read[g][e] = "reading"
    /\ read' = [read EXCEPT ![g][e] = "done"]
    /\ \/ content' = [content EXCEPT ![buffer[place[g][e]]] = <<layer, e>>]
       \/ ReadFaults /\ UNCHANGED content
    /\ UNCHANGED <<tag, buffer, policy, hashSlots, pc, callVars, rest, cur,
                   group, place, miss, async, result>>

EndRead(g, e) ==
    /\ read[g][e] = "reading"
    /\ \/ /\ read' = [read EXCEPT ![g][e] = "done"]
          /\ content' = [content EXCEPT ![buffer[place[g][e]]] = <<layer, e>>]
       \/ /\ ReadFaults
          /\ read' = [read EXCEPT ![g][e] = "short"]
          /\ UNCHANGED content
    /\ UNCHANGED <<tag, buffer, policy, hashSlots, pc, callVars, rest, cur,
                   group, place, miss, async, result>>

-------------------------------------------------------------------------------
(* Evaluation of the current group: expert_forward_batch_group.             *)

Weights(e) == content[buffer[place[cur][e]]]

(* Mutant: the experts in no group yet are forgotten. *)
AdvanceTooFar ==
    /\ group' = [group EXCEPT ![cur] = {}]
    /\ place' = [place EXCEPT ![cur] = NoPlace]
    /\ miss' = [miss EXCEPT ![cur] = {}]
    /\ async' = [async EXCEPT ![cur] = FALSE]
    /\ read' = [read EXCEPT ![cur] = NoRead]
    /\ IF group[Other(cur)] # {}
       THEN cur' = Other(cur) /\ pc' = "next"
       ELSE cur' = cur /\ pc' = "reduce"

(* The other buffer becomes current, or the next group of a call that is    *)
(* not pipelined begins, or all outputs are summed.                         *)
Advance ==
    /\ group' = [group EXCEPT ![cur] = {}]
    /\ place' = [place EXCEPT ![cur] = NoPlace]
    /\ miss' = [miss EXCEPT ![cur] = {}]
    /\ async' = [async EXCEPT ![cur] = FALSE]
    /\ read' = [read EXCEPT ![cur] = NoRead]
    /\ IF group[Other(cur)] # {}
       THEN cur' = Other(cur) /\ pc' = "next"
       ELSE cur' = cur /\ pc' = IF rest # {} THEN "first" ELSE "reduce"

(* A group made resident by expert_get_many is evaluated at once; an expert *)
(* that serves several tokens is touched once more for its reuse.           *)
ComputeResident ==
    LET S == group[cur]
        again == {e \in reused \cap S : tag[place[cur][e]] = <<layer, e>>}
    IN /\ pc = "hits" /\ ~async[cur]
       /\ result' = [e \in Expert |-> IF e \in S THEN Weights(e) ELSE result[e]]
       /\ policy' = TouchAll(policy, Slots(place[cur], again))
       /\ Advance
       /\ UNCHANGED <<tag, buffer, content, hashSlots, callVars, rest>>

ComputeHits ==
    LET hits == group[cur] \ miss[cur] IN
    /\ pc = "hits" /\ async[cur]
    /\ result' = [e \in Expert |-> IF e \in hits THEN Weights(e) ELSE result[e]]
    /\ pc' = "misses"
    /\ UNCHANGED <<cacheVars, hashSlots, callVars, rest, cur, groupVars>>

(* Mutant: a short read is not reported. *)
ComputeMissOnly(e) ==
    /\ pc = "misses"
    /\ e \in miss[cur] /\ result[e] = NotComputed
    /\ read[cur][e] = "done"
    /\ result' = [result EXCEPT ![e] = Weights(e)]
    /\ UNCHANGED <<cacheVars, hashSlots, pc, callVars, rest, cur, groupVars>>

(* expert_batch_next_ready: the misses are evaluated as their reads end. *)
ComputeMiss(e) ==
    /\ pc = "misses"
    /\ e \in miss[cur] /\ result[e] = NotComputed
    /\ \/ /\ read[cur][e] = "done"
          /\ result' = [result EXCEPT ![e] = Weights(e)]
          /\ UNCHANGED pc
       \/ /\ read[cur][e] = "short"
          /\ pc' = "failed"
          /\ UNCHANGED result
    /\ UNCHANGED <<cacheVars, hashSlots, callVars, rest, cur, groupVars>>

(* expert_batch_finish: publish every miss, touch every hit, then count the *)
(* reuses.                                                                  *)
FinishGroup ==
    LET S == group[cur]
        M == miss[cur]
        published == PublishAll(policy, Slots(place[cur], M))
        touched == TouchAll(published, Slots(place[cur], S \ M))
    IN /\ pc = "misses"
       /\ \A e \in M : result[e] # NotComputed
       /\ tag' = Tagged(place[cur], M)
       /\ policy' = TouchAll(touched, Slots(place[cur], reused \cap S))
       /\ Advance
       /\ UNCHANGED <<buffer, content, hashSlots, callVars, rest, result>>

Return ==
    /\ pc = "reduce"
    /\ pc' = "idle"
    /\ want' = {} /\ reused' = {} /\ rest' = {}
    /\ result' = NoResult
    /\ UNCHANGED <<cacheVars, hashSlots, layer, kind, cur, groupVars>>

-------------------------------------------------------------------------------
(* dsv4_expert_cache_set_hash_slots: every layer keeps its most recent      *)
(* slots, as many as its new range holds, at the front of that range; the   *)
(* buffers left over fill the other slots, empty.                           *)
TaggedBy(l) == {s \in Slot : tag[s] # NoKey /\ tag[s][1] = l}
Rank(l, s) == Cardinality({t \in TaggedBy(l) : policy.age[t] < policy.age[s]})

(* Slot d of the range of layer l keeps what slot s holds. *)
Keeps(h, l, d, s) ==
    /\ d \in RangeOf(l, h) /\ s \in TaggedBy(l)
    /\ Rank(l, s) = Cardinality({x \in RangeOf(l, h) : x < d})
Kept(h, d) == \E l \in Layer, s \in Slot : Keeps(h, l, d, s)

Reorder(h, from) ==
    /\ \A l \in Layer, d, s \in Slot : Keeps(h, l, d, s) => from[d] = s
    /\ \A c, d \in {x \in Slot : ~Kept(h, x)} : c < d => from[c] < from[d]

(* Mutants: the buffers of the slots that become empty stay where they were; *)
(* an emptied slot keeps its tag; the protected slots are not counted again. *)
EmptyBuffersStay(h, from) == [d \in Slot |-> IF Kept(h, d) THEN buffer[from[d]] ELSE buffer[d]]
TagsStay(h, from) == [d \in Slot |-> tag[from[d]]]
CountersStay(segs, tags) == policy.prot

MovedBuffers(h, from) == [d \in Slot |-> buffer[from[d]]]
MovedTags(h, from) == [d \in Slot |-> IF Kept(h, d) THEN tag[from[d]] ELSE NoKey]
MovedSegments(h, from) == [d \in Slot |-> IF Kept(h, d) THEN policy.seg[from[d]] ELSE 0]
Recounted(segs, tags) ==
    [l \in Layer |-> Cardinality({d \in Slot : segs[d] = 2 /\ tags[d][1] = l})]

Resize ==
    /\ pc = "idle"
    /\ HashMin /\ Slru
    /\ \E asked \in Topk..NExperts :
         LET h == Min({asked, MaxHashSlots}) IN
         /\ h # hashSlots
         /\ hashSlots' = h
         /\ \E from \in Bijection(Slot, Slot) :
               /\ Reorder(h, from)
               /\ tag' = MovedTags(h, from)
               /\ buffer' = MovedBuffers(h, from)
               /\ policy' = [seg |-> MovedSegments(h, from),
                             age |-> [d \in Slot |-> policy.age[from[d]]],
                             prot |-> Recounted(MovedSegments(h, from), MovedTags(h, from))]
    /\ UNCHANGED <<content, pc, callVars, rest, cur, groupVars, result>>

-------------------------------------------------------------------------------
BeginGroup == \E g \in Group : BeginReads(g) \/ BeginGetMany(g)
GetMany == GetManyResident \/ GetManyLoad \/ GetManySerial \/ GetSerial
Evaluate == ComputeResident \/ ComputeHits \/ (\E e \in Expert : ComputeMiss(e))
Inference == BeginGroup \/ GetMany \/ NoNext \/ Evaluate \/ FinishGroup \/ Return
Reads(g, e) == StartRead(g, e) \/ EndRead(g, e)

Failed == pc = "failed" /\ UNCHANGED vars

Next ==
    \/ /\ pc # "failed"
       /\ \/ CallToken \/ CallBatch \/ Inference \/ Resize
          \/ \E g \in Group, e \in Expert : Reads(g, e)
    \/ Failed

(* The inference thread is never descheduled for ever and the pool serves   *)
(* every read it was given.                                                 *)
Fairness ==
    /\ WF_vars(Inference)
    /\ \A g \in Group, e \in Expert : WF_vars(pc # "failed" /\ Reads(g, e))

SafetySpec == Init /\ [][Next]_vars
Spec == SafetySpec /\ Fairness

-------------------------------------------------------------------------------
(* Properties *)

(* An expert is only ever evaluated with its own weights, completely read.  *)
OwnWeights == \A e \in Expert : result[e] \in {NotComputed, <<layer, e>>}

(* The slots some started read will still write.                            *)
Reserved(g) == IF async[g] THEN {place[g][e] : e \in miss[g]} ELSE {}
InUse(g) == {place[g][e] : e \in group[g]} \ {NoSlot}

(* A slot that no read is reserved to overwrite holds what its tag says, so *)
(* that the next cache_find may trust the tag.                              *)
TagsTrue ==
    pc # "failed" => \A s \in Slot :
        tag[s] = NoKey \/ s \in Reserved(0) \cup Reserved(1) \/ content[buffer[s]] = tag[s]

(* The double buffer: no group reads or writes a slot the other one writes, *)
(* and the reads of one group write different slots.                        *)
GroupsDisjoint ==
    /\ Reserved(0) \cap InUse(1) = {} /\ Reserved(1) \cap InUse(0) = {}
    /\ \A g \in Group : async[g] =>
          \A e, f \in group[g] : e # f => place[g][e] # place[g][f]

(* No two slots share a buffer, whatever resizes moved. *)
BuffersDistinct == \A s, t \in Slot : buffer[s] = buffer[t] => s = t

(* An expert is in one slot of its layer's range at most. *)
NoDuplicate ==
    \A l \in Layer, s, t \in Slot :
        s # t /\ s \in RangeOf(l, hashSlots) /\ t \in RangeOf(l, hashSlots)
            /\ tag[s] = tag[t] => tag[s] = NoKey \/ tag[s][1] # l

(* The slots of a layer that cache_touch has protected from one-off misses. *)
Protected(l) == {s \in Slot : policy.seg[s] = 2 /\ tag[s] # NoKey /\ tag[s][1] = l}

(* The counter cache_protected, kept by hits, evictions and resizes, is the *)
(* number of protected slots the layer really has, so that it never leaves  *)
(* its bounds either.                                                       *)
ProtectedCounted ==
    /\ TypeOK
    /\ \A l \in Layer : policy.prot[l] = Cardinality(Protected(l))

(* A batched call never runs out of slots for a group: the half-size groups *)
(* leave the next group its victims.                                        *)
BatchNeverSerial == kind = "batch" => pc # "serial"

(* When a call returns, the experts of a token are all resident: the next   *)
(* token that is routed to them reads nothing.                              *)
TokenResident ==
    pc = "reduce" /\ kind = "token" /\ NSlots >= Topk => \A e \in want : Holds(e) # {}

(* Every call returns, or the process ends over a short read. *)
CallReturns == pc # "idle" ~> pc \in {"idle", "failed"}

(* Where a call to the layer is, as far as its caller can tell. *)
LayerMode == IF pc = "idle" THEN "idle" ELSE IF pc = "failed" THEN "failed" ELSE "busy"

(* The streamed evaluation is an evaluation of the layer. *)
Layers == INSTANCE MoELayer WITH mode <- LayerMode, answer <- result

ImplementsLayer == Layers!Spec
ImplementsLayerSafety == Layers!SafetySpec
===============================================================================
