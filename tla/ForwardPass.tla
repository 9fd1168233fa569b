------------------------------ MODULE ForwardPass ------------------------------
(***************************************************************************)
(* The walk of one token (dsv4_forward_token) or of the chunks of a prompt *)
(* (dsv4_prefill_capture) through the layers, with the two things it       *)
(* starts early: a thread that loads the weights of the next layer while   *)
(* the current one is evaluated, and reads of the experts the layer is     *)
(* predicted to need, into temporary slots, while its attention runs.      *)
(*                                                                         *)
(* A prefetched expert the layer turns out to need is adopted: its         *)
(* temporary slot and the cache slot it evicts exchange their buffers.     *)
(* The evaluation after it is one step here; its groups and reads are the  *)
(* module ExpertStream.  Every call is given no more experts than one      *)
(* group holds.                                                            *)
(***************************************************************************)
EXTENDS ExpertCache

CONSTANTS MaxTopk,      \* DSV4_MAX_TOPK: the temporary slots
          WoaLayers,    \* wo_a_cache_layers
          MaxChunks,    \* bound: chunks of 32 tokens of one prompt
          Routes,       \* bound: the experts each layer's inputs are routed to
          Memory,       \* the expert buffers
          NoKey,        \* no expert: an empty tag, a partly written buffer
          NoLayer

ASSUME NoLayerAssumption == NoLayer \notin Layer
ASSUME MaxTopkAssumption == MaxTopk \in Nat /\ MaxTopk >= Topk
ASSUME WoaAssumption == WoaLayers \in 0..NLayers
ASSUME ChunksAssumption == MaxChunks \in Nat \ {0}
ASSUME RoutesAssumption ==
    Routes \in [Layer -> SUBSET Expert] /\ \A l \in Layer : Cardinality(Routes[l]) >= Topk
ASSUME MemoryAssumption == Cardinality(Memory) = NSlots + MaxTopk /\ NoKey \notin Key

VARIABLES
    tag,        \* the (layer, expert) each slot claims to hold
    policy,     \* segments, recency and protected counters
    buffer,     \* the buffer of each cache slot
    temp,       \* the buffer of each temporary slot, route_prefetch_temp
    content,    \* the expert whose weights a buffer holds, NoKey if none
    fetch,      \* the prefetch: its layer, its experts, active
    read,       \* the state of the read into each temporary slot
    pc, kind,   \* where the inference thread is, and in which call
    layer,      \* cur_layer
    chunks,     \* chunks of the call, and those this layer has still to see
    weights,    \* the layer whose weights it holds
    loader,     \* the layer being loaded by the thread, and whether it is
    decoded,    \* the layers with a resident decoded wo_a
    need,       \* the experts the layer needs
    result      \* the weights they were evaluated with

cacheVars == <<tag, policy, buffer, temp, content>>
layerVars == <<weights, loader, decoded>>
vars == <<cacheVars, fetch, read, pc, kind, layer, chunks, layerVars, need, result>>

Temp == 1..MaxTopk
PC == {"idle", "load", "overlap", "predict", "attend", "evaluate", "chunk",
       "release", "join", "failed"}
ReadState == {"none", "reading", "done", "short"}

TypeOK ==
    /\ tag \in [Slot -> Key \cup {NoKey}]
    /\ buffer \in [Slot -> Memory] /\ temp \in [Temp -> Memory]
    /\ content \in [Memory -> Key \cup {NoKey}]
    /\ fetch.layer \in Layer /\ fetch.active \in BOOLEAN
    /\ fetch.experts \in Seq(Expert) /\ Len(fetch.experts) <= MaxTopk
    /\ read \in [Temp -> ReadState]
    /\ pc \in PC /\ kind \in {"token", "prompt"}
    /\ layer \in Layer
    /\ chunks.all \in 0..MaxChunks /\ chunks.left \in 0..MaxChunks
    /\ weights \in Layer \cup {NoLayer}
    /\ loader.layer \in Layer \cup {NoLayer} /\ loader.done \in BOOLEAN
    /\ decoded \subseteq Layer
    /\ need \subseteq Expert
    /\ result \in [Expert -> Key \cup {NoKey}]

NoFetch(l) == [layer |-> l, experts |-> <<>>, active |-> FALSE]
NoLoader == [layer |-> NoLayer, done |-> FALSE]
NoResult == [e \in Expert |-> NoKey]

(* The buffers are interchangeable: which one a slot starts with is free. *)
Init ==
    /\ tag = [s \in Slot |-> NoKey]
    /\ policy = Policy0
    /\ \E place \in [Slot \cup {NSlots + i : i \in Temp} -> Memory] :
          /\ IsInjective(place)
          /\ buffer = [s \in Slot |-> place[s]]
          /\ temp = [i \in Temp |-> place[NSlots + i]]
    /\ content = [b \in Memory |-> NoKey]
    /\ fetch = NoFetch(0)
    /\ read = [i \in Temp |-> "none"]
    /\ pc = "idle" /\ kind = "token" /\ layer = 0 /\ chunks = [all |-> 0, left |-> 0]
    /\ weights = NoLayer /\ loader = NoLoader /\ decoded = {}
    /\ need = {} /\ result = NoResult

-------------------------------------------------------------------------------
(* The walk over the layers.                                                *)

BeginToken ==
    /\ pc = "idle" /\ pc' = "load"
    /\ kind' = "token" /\ layer' = 0 /\ chunks' = [all |-> 1, left |-> 1]
    /\ UNCHANGED <<cacheVars, fetch, read, layerVars, need, result>>

BeginPrompt ==
    /\ pc = "idle" /\ pc' = "load"
    /\ kind' = "prompt" /\ layer' = 0
    /\ \E n \in 1..MaxChunks : chunks' = [all |-> n, left |-> n]
    /\ UNCHANGED <<cacheVars, fetch, read, layerVars, need, result>>

(* load_layer: a decoded wo_a of the first layers is kept. *)
DecodedWith(l) == IF l < WoaLayers THEN decoded \cup {l} ELSE decoded

LoadLayer ==
    /\ pc = "load" /\ pc' = IF kind = "token" THEN "overlap" ELSE "predict"
    /\ weights' = layer
    /\ decoded' = DecodedWith(layer)
    /\ UNCHANGED <<cacheVars, fetch, read, kind, layer, chunks, loader, need, result>>

(* Mutant: the decoded wo_a of the next layer need not be resident. *)
MayOverlapUndecoded(l) == l < NLayers /\ l < WoaLayers

(* layer_load_begin: only a layer whose decoded wo_a is resident. *)
MayOverlap(l) == l < NLayers /\ l < WoaLayers /\ l \in decoded

StartLoader ==
    /\ pc = "overlap" /\ pc' = "predict"
    /\ MayOverlap(layer + 1)
    /\ loader' = [layer |-> layer + 1, done |-> FALSE]
    /\ UNCHANGED <<cacheVars, fetch, read, kind, layer, chunks, weights, decoded, need, result>>

(* The last layer, a layer that may not be overlapped, or no thread. *)
SkipLoader ==
    /\ pc = "overlap" /\ pc' = "predict"
    /\ UNCHANGED <<cacheVars, fetch, read, kind, layer, chunks, layerVars, need, result>>

(* layer_load_thread *)
LoaderEnds ==
    /\ loader.layer # NoLayer /\ ~loader.done
    /\ loader' = [loader EXCEPT !.done = TRUE]
    /\ decoded' = DecodedWith(loader.layer)
    /\ UNCHANGED <<cacheVars, fetch, read, pc, kind, layer, chunks, weights, need, result>>

-------------------------------------------------------------------------------
(* The prefetch.                                                            *)

Owned == RangeOf(layer, Topk)
Wanted(S) == {<<layer, e>> : e \in S}
Resident(e) == \E s \in Owned : tag[s] = <<layer, e>>
Missing == {e \in Routes[layer] : ~Resident(e)}
Empty(t) == {s \in Slot : t[s] = NoKey}
OldLayer(t, s) == IF t[s] = NoKey THEN layer ELSE t[s][1]

(* No prediction, or none that is missing.  The prefetch of a prompt is a   *)
(* record of the layer's frame, cleared; that of a token keeps what it held. *)
PredictNothing ==
    /\ pc = "predict" /\ pc' = "attend"
    /\ fetch' = IF kind = "prompt" THEN NoFetch(layer) ELSE fetch
    /\ UNCHANGED <<cacheVars, read, kind, layer, chunks, layerVars, need, result>>

Fits(S) == Cardinality(S) <= IF kind = "token" THEN Topk ELSE MaxTopk

(* route_prediction_prepare sorts the missing experts it predicts,          *)
(* route_prefetch_begin_batch takes them as the tokens come, up to          *)
(* DSV4_MAX_TOPK; expert_temp_batch_begin starts the reads.                 *)
Predict ==
    /\ pc = "predict" /\ pc' = "attend"
    /\ \E S \in (SUBSET Missing) \ {{}} :
          /\ Fits(S)
          /\ \E order \in IF kind = "token" THEN {InOrder(S)} ELSE SetToSeqs(S) :
                /\ fetch' = [layer |-> layer, experts |-> order, active |-> TRUE]
                /\ read' = [i \in Temp |-> IF i <= Len(order) THEN "reading" ELSE "none"]
    /\ UNCHANGED <<cacheVars, kind, layer, chunks, layerVars, need, result>>

ReadEnds(i) ==
    /\ pc # "failed"
    /\ read[i] = "reading"
    /\ \E outcome \in {"done", "short"} :
          /\ read' = [read EXCEPT ![i] = outcome]
          /\ content' = [content EXCEPT ![temp[i]] =
                            IF outcome = "done" THEN <<fetch.layer, fetch.experts[i]>> ELSE NoKey]
    /\ UNCHANGED <<tag, policy, buffer, temp, fetch, pc, kind, layer, chunks, layerVars, need, result>>

(* The experts the router chooses: those of a token, or of several. *)
Needs(S) ==
    /\ S \subseteq Routes[layer]
    /\ IF kind = "token" THEN Cardinality(S) = Topk
       ELSE Cardinality(S) \in Topk..Min({MaxTopk, Cardinality(Owned)})

(* route_prefetch_finish_batch when nothing is being prefetched. *)
FinishNothing ==
    /\ pc = "attend" /\ pc' = "evaluate"
    /\ ~fetch.active
    /\ \E S \in SUBSET Routes[layer] : Needs(S) /\ need' = S
    /\ UNCHANGED <<cacheVars, fetch, read, kind, layer, chunks, layerVars, result>>

Fetched == 1..Len(fetch.experts)

(* Mutant: the wait leaves out those that are not needed. *)
WaitedNeeded(S) == \A i \in Fetched : fetch.experts[i] \in S => read[i] = "done"

Waited(S) == \A i \in Fetched : read[i] = "done"

Pinned(S) == {s \in Owned : tag[s] \in Wanted(S)}

(* Mutant: the slots just adopted can be evicted again. *)
FreeAgain(adopted, pinned) == Owned \ pinned

Free(adopted, pinned) == Owned \ (pinned \cup adopted)

(* Mutant: the temporary slots are taken from the other end. *)
TempFromEnd(i) == Len(fetch.experts) + 1 - i

TempOf(i) == i

(* Mutant: the temporary slot keeps its buffer. *)
TakenOnly(st, i, v) ==
    [st EXCEPT !.buffer[v] = st.temp[TempOf(i)]]

Exchanged(st, i, v) ==
    [st EXCEPT !.buffer[v] = st.temp[TempOf(i)], !.temp[TempOf(i)] = st.buffer[v]]

(* A needed expert that was prefetched and is not resident: the slot        *)
(* evicted for it, neither pinned nor adopted, and its temporary slot       *)
(* exchange their buffers.                                                  *)
Adopt(st, i, pinned) ==
    LET key == <<layer, fetch.experts[i]>>
        free == Free(st.adopted, pinned)
        v == CHOOSE s \in free : \A t \in free \ {s} : EvictBefore(st.policy, Empty(st.tag), s, t)
    IN IF free = {} \/ \E s \in Owned : st.tag[s] = key THEN st
       ELSE [Exchanged(st, i, v) EXCEPT
                !.tag[v] = key,
                !.policy = Publish(@, OldLayer(st.tag, v), v),
                !.adopted = @ \cup {v}]

(* The prefetched experts are visited in their order. *)
AdoptNeeded(S) ==
    FoldLeft(LAMBDA st, i : IF fetch.experts[i] \in S THEN Adopt(st, i, Pinned(S)) ELSE st,
             [tag |-> tag, policy |-> policy, buffer |-> buffer, temp |-> temp, adopted |-> {}],
             [i \in Fetched |-> i])

(* expert_temp_batch_finish.  What is left in the temporary slots is not    *)
(* told apart: nothing looks at it before the next read into them.          *)
FinishFetch ==
    /\ pc = "attend" /\ pc' = "evaluate"
    /\ fetch.active
    /\ \E S \in SUBSET Routes[layer] :
          /\ Needs(S) /\ Waited(S)
          /\ need' = S
          /\ LET st == AdoptNeeded(S)
             IN /\ tag' = st.tag /\ policy' = st.policy
                /\ buffer' = st.buffer /\ temp' = st.temp
                /\ content' = [b \in Memory |->
                                  IF b \in Range(st.temp) /\ b \notin Range(st.buffer)
                                  THEN NoKey ELSE content[b]]
    /\ fetch' = [fetch EXCEPT !.active = FALSE]
    /\ read' = [i \in Temp |-> IF read[i] = "reading" THEN "reading" ELSE "none"]
    /\ UNCHANGED <<kind, layer, chunks, layerVars, result>>

(* A prefetch that came short ends the process, needed or not. *)
FetchShort ==
    /\ pc = "attend" /\ pc' = "failed"
    /\ fetch.active
    /\ \E i \in Fetched : read[i] = "short" /\ \A k \in 1..(i - 1) : read[k] = "done"
    /\ UNCHANGED <<cacheVars, fetch, read, kind, layer, chunks, layerVars, need, result>>

-------------------------------------------------------------------------------
(* The evaluation and what follows it.                                      *)

TouchAll(p, slots) == FoldLeft(LAMBDA q, s : Touch(q, layer, Owned, s), p, slots)
PublishAll(p, slots) == FoldLeft(LAMBDA q, s : Publish(q, OldLayer(tag, s), s), p, slots)
SlotsOf(t, S) ==
    [i \in 1..Cardinality(S) |-> CHOOSE s \in Owned : t[s] = <<layer, InOrder(S)[i]>>]

(* The misses are read into the slots they evict and published, the hits    *)
(* are touched, then those of several tokens of a prompt once more.         *)
Evaluate ==
    /\ pc = "evaluate" /\ pc' = "chunk"
    /\ LET hits == {e \in need : Resident(e)}
           misses == need \ hits
           free == Owned \ Pinned(need)
       IN \E victim \in [misses -> free] :
          /\ IsInjective(victim)
          /\ EvictionPlan(policy, Empty(tag), misses, free, victim)
          /\ \E reused \in IF kind = "token" THEN {{}} ELSE SUBSET need :
             LET t == [s \in Slot |-> IF \E e \in misses : victim[e] = s
                                      THEN <<layer, CHOOSE e \in misses : victim[e] = s>> ELSE tag[s]]
                 c == [b \in Memory |-> IF \E e \in misses : buffer[victim[e]] = b
                                        THEN <<layer, CHOOSE e \in misses : buffer[victim[e]] = b>>
                                        ELSE content[b]]
             IN /\ tag' = t
                /\ content' = c
                /\ policy' = TouchAll(TouchAll(PublishAll(policy, SlotsOf(t, misses)),
                                               SlotsOf(t, hits)), SlotsOf(t, reused))
                /\ result' = [e \in Expert |->
                                 IF e \in need
                                 THEN c[buffer[CHOOSE s \in Owned : t[s] = <<layer, e>>]] ELSE NoKey]
    /\ UNCHANGED <<buffer, temp, fetch, read, kind, layer, chunks, layerVars, need>>

(* One of the reads of the evaluation came short. *)
EvaluateShort ==
    /\ pc = "evaluate" /\ pc' = "failed"
    /\ \E e \in need : ~Resident(e)
    /\ UNCHANGED <<cacheVars, fetch, read, kind, layer, chunks, layerVars, need, result>>

NextChunk ==
    /\ pc = "chunk"
    /\ chunks' = [chunks EXCEPT !.left = @ - 1]
    /\ need' = {} /\ result' = NoResult
    /\ pc' = IF chunks.left > 1 THEN "predict" ELSE "release"
    /\ UNCHANGED <<cacheVars, fetch, read, kind, layer, layerVars>>

(* The layer's weights go before the next layer's are waited for. *)
Release ==
    /\ pc = "release"
    /\ weights' = NoLayer
    /\ chunks' = [chunks EXCEPT !.left = chunks.all]
    /\ IF layer + 1 = NLayers THEN pc' = "idle" /\ UNCHANGED layer
       ELSE /\ pc' = IF loader.layer = NoLayer THEN "load" ELSE "join"
            /\ layer' = layer + 1
    /\ UNCHANGED <<cacheVars, fetch, read, kind, loader, decoded, need, result>>

JoinLoader ==
    /\ pc = "join" /\ pc' = "overlap"
    /\ loader.done
    /\ weights' = loader.layer
    /\ loader' = NoLoader
    /\ UNCHANGED <<cacheVars, fetch, read, kind, layer, chunks, decoded, need, result>>

-------------------------------------------------------------------------------
Walk ==
    \/ LoadLayer \/ StartLoader \/ SkipLoader
    \/ PredictNothing \/ Predict \/ FinishNothing \/ FinishFetch \/ FetchShort
    \/ Evaluate \/ EvaluateShort \/ NextChunk \/ Release \/ JoinLoader

Over == pc = "failed" /\ UNCHANGED vars

Next ==
    \/ BeginToken \/ BeginPrompt
    \/ Walk
    \/ LoaderEnds
    \/ \E i \in Temp : ReadEnds(i)
    \/ Over

Spec == Init /\ [][Next]_vars

-------------------------------------------------------------------------------
(* Properties *)

(* The buffers of the cache slots and of the temporary slots stay apart: no *)
(* exchange loses one or leaves two slots on the same; and a tagged slot    *)
(* holds the weights its tag names, through every exchange with a buffer    *)
(* that was being read a moment ago.                                        *)
SlotsTrue ==
    /\ TypeOK
    /\ IsInjective(buffer) /\ IsInjective(temp)
    /\ Range(buffer) \cap Range(temp) = {}
    /\ \A s \in Slot : tag[s] # NoKey => content[buffer[s]] = tag[s]

(* Whatever was predicted, prefetched and adopted, every expert of a layer  *)
(* is evaluated with its own weights.                                       *)
OwnWeights == pc = "chunk" => \A e \in need : result[e] = <<layer, e>>

(* No adoption evicts an expert the layer is about to evaluate, and no      *)
(* expert that was prefetched and is needed is read a second time.          *)
NeededKept ==
    [][FinishFetch => \A e \in need' : Resident(e) \/ e \in Range(fetch.experts) => Resident(e)']_vars

(* No read is left in a temporary slot when the layer is evaluated.         *)
ReadsEndInTheirLayer ==
    \A i \in Temp : read[i] = "reading" => fetch.active /\ pc \in {"attend", "failed"} /\ fetch.layer = layer

(* A layer is evaluated with its own weights in memory and at most the next *)
(* layer's beside them; and the loading thread is only given a layer whose  *)
(* wo_a is decoded already, for decoding opens a parallel region beside the *)
(* one of the main thread (4896-4897).                                      *)
LayerWeights ==
    /\ pc \in {"predict", "attend", "evaluate", "chunk"} => weights = layer
    /\ loader.layer # NoLayer =>
          /\ loader.layer = (IF weights = NoLayer THEN layer ELSE layer + 1)
          /\ loader.layer \in decoded
===============================================================================
