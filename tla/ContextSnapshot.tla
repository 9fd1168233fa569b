--------------------------- MODULE ContextSnapshot ----------------------------
(***************************************************************************)
(* The context of a running model and the bounded snapshot that lets a     *)
(* speculative batch be taken back: tokens are fed one by one              *)
(* (dsv4_forward_token) or in layer-major batches (dsv4_prefill_capture);  *)
(* a snapshot saves what the next n positions will overwrite, records the  *)
(* state after each of them, and either restores what was there or commits *)
(* a prefix of the batch.                                                  *)
(*                                                                         *)
(* The caller is any program that keeps to the contract of the calls:      *)
(* positions are fed in order; take opens a transaction that a commit or a *)
(* restore closes, between them it feeds only the positions of the         *)
(* snapshot, and nothing once they are captured; a commit is never made    *)
(* after the transaction was closed, a restore may be while the text       *)
(* extends the one at take by no more than the positions saved.            *)
(***************************************************************************)
EXTENDS LayerContext

CONSTANTS MaxPositions,  \* max_positions of the snapshot
          MaxBatch,      \* bound: tokens of a batch
          Beyond,        \* bound: tokens fed one by one past the context
          Junk           \* an array element malloc left unwritten

ASSUME SnapshotAssumption ==
    /\ MaxPositions \in 1..Context
    /\ MaxBatch \in Nat \ {0} /\ Beyond \in Nat
    /\ Junk # Blank

\* A row never written is none of the rows compressed.
ASSUME BlankAssumption ==
    \A L \in Layer : Blank \notin [StateSlot(L) -> (Nat \X Token) \cup {Blank}]

VARIABLES
    ring,       \* kv_cache below Window, of each layer
    comp,       \* state, compressed rows and count of each compressor
    hidden,     \* m->state: the row of the last token fed
    pc,         \* "idle", the kind of call in progress, or "exited"
    toks,       \* the tokens of the call
    at, step,   \* the layer and the token it has come to
    snap,       \* what take saved
    post,       \* what was captured after each position
    captured,   \* captured_positions
    active,     \* active_snapshot is this snapshot
    text,       \* history: the tokens the context stands for
    base, tried \* history: the text at take, the batch captured since

modelVars == <<ring, comp, hidden>>
callVars == <<pc, toks, at, step>>
snapVars == <<snap, post, captured, active>>
history == <<text, base, tried>>
vars == <<modelVars, callVars, snapVars, history>>

NoLayer == -1
Step == 0..(MaxPositions - 1)
NoPost ==
    [ring |-> [L \in Layer |-> [i \in Step |-> Junk]],
     comp |-> [u \in Unit |-> [i \in Step |-> Junk]],
     hidden |-> [i \in Step |-> Junk]]

Init ==
    /\ ring = [L \in Layer |-> [s \in RingSlot |-> Blank]]
    /\ comp = [u \in Unit |-> [slots |-> [i \in StateSlot(u[1]) |-> Blank],
                               rows |-> [c \in CompRow(u[1]) |-> Blank],
                               count |-> 0]]
    /\ hidden = Blank
    /\ pc = "idle" /\ toks = <<>> /\ at = NoLayer /\ step = 0
    /\ snap = [ready |-> FALSE, start |-> 0, n |-> 0, hidden |-> Blank,
               ring |-> [L \in Layer |-> <<>>],
               comp |-> [u \in Unit |-> [slots |-> <<>>, rows |-> <<>>, count |-> 0]]]
    /\ post = NoPost
    /\ captured = 0 /\ active = FALSE
    /\ text = <<>> /\ base = <<>> /\ tried = <<>>

-------------------------------------------------------------------------------
(* Feeding tokens. *)
InRange(p) == snap.start <= p /\ p < snap.start + snap.n

(* The caller's contract while a snapshot is open. *)
MayFeed(n) == active => captured = 0 /\ Len(text) + n <= snap.start + snap.n

BeginCall(kind, ts) ==
    /\ pc = "idle" /\ pc' = kind
    /\ MayFeed(Len(ts))
    /\ toks' = ts
    /\ at' = Min(Layer) /\ step' = 0
    /\ UNCHANGED <<modelVars, snapVars, history>>

(* dsv4_forward_token does not compare its position with the context. *)
FeedToken(t) == Len(text) < Context + Beyond /\ BeginCall("token", <<t>>)

FeedBatch(ts) == Len(text) <= Context - Len(ts) /\ BeginCall("batch", ts)

Position == Len(text) + step
Row == <<Position, toks[step + 1]>>

(* context_snapshot_capture_layer *)
Captured(L) ==
    [ring |-> [post.ring EXCEPT ![L][Position - snap.start] = ring'[L][Position % Window]],
     comp |-> [u \in Unit |->
                 IF u[1] # L THEN post.comp[u]
                 ELSE [post.comp[u] EXCEPT ![Position - snap.start] =
                         [slots |-> comp'[u].slots, count |-> comp'[u].count]]],
     hidden |-> post.hidden]

Calling == pc \in {"token", "batch"} /\ at # NoLayer

(* Only the main compressor looks at its capacity; the indexer's is behind it. *)
RunsOver == Main(at) \in Unit /\ Overflows(at, comp[Main(at)], Position)

NextLayer ==
    IF at = Max(Layer) THEN NoLayer ELSE Min({L \in Layer : L > at})

(* One position through one layer; a batch goes through a layer whole     *)
(* before the next one.                                                   *)
Attend ==
    /\ Calling /\ ~RunsOver
    /\ ring' = [ring EXCEPT ![at] = Written(ring[at], Position, Row)]
    /\ comp' = [u \in Unit |-> IF u[1] = at THEN Compressed(at, comp[u], Position, Row)
                                            ELSE comp[u]]
    /\ post' = IF active /\ InRange(Position) THEN Captured(at) ELSE post
    /\ IF step + 1 < Len(toks) THEN step' = step + 1 /\ at' = at
                               ELSE step' = 0 /\ at' = NextLayer
    /\ UNCHANGED <<hidden, pc, toks, snap, captured, active, history>>

Exit ==
    /\ Calling /\ RunsOver
    /\ pc' = "exited"
    /\ UNCHANGED <<modelVars, toks, at, step, snapVars, history>>

(* context_snapshot_capture_model_state: only the very batch announced. *)
IsAnnounced == active /\ pc = "batch" /\ Len(text) = snap.start /\ Len(toks) = snap.n

EndCall ==
    /\ pc \in {"token", "batch"} /\ at = NoLayer
    /\ pc' = "idle"
    /\ text' = text \o toks
    /\ hidden' = RowOf(text', Len(text') - 1)
    /\ IF IsAnnounced
       THEN /\ post' = [post EXCEPT !.hidden =
                          [i \in Step |-> IF i < Len(toks) THEN RowOf(text', Len(text) + i)
                                                           ELSE @[i]]]
            /\ captured' = Len(toks)
            /\ tried' = toks
       ELSE UNCHANGED <<post, captured, tried>>
    /\ toks' = <<>>
    /\ UNCHANGED <<ring, comp, at, step, snap, active, base>>

-------------------------------------------------------------------------------
(* The snapshot. *)
SlotsFrom(start, n) == {(start + i) % Window : i \in 0..(n - 1)}

SavedRows(c, L) == Min({RowCap(L) - c.count, MaxPositions})

(* dsv4_context_snapshot_take.  The arrays of captured states keep what an *)
(* earlier batch left in them; nothing may rely on it, so it is Junk here. *)
Take(n) ==
    /\ pc = "idle"
    /\ Len(text) <= Context - n
    /\ snap' = [ready |-> TRUE, start |-> Len(text), n |-> n, hidden |-> hidden,
                ring |-> [L \in Layer |-> [s \in SlotsFrom(Len(text), n) |-> ring[L][s]]],
                comp |-> [u \in Unit |->
                    [slots |-> comp[u].slots,
                     rows |-> [i \in 0..(SavedRows(comp[u], u[1]) - 1) |->
                                  comp[u].rows[comp[u].count + i]],
                     count |-> comp[u].count]]]
    /\ post' = NoPost
    /\ captured' = 0 /\ active' = TRUE
    /\ base' = text /\ tried' = <<>>
    /\ UNCHANGED <<modelVars, callVars, text>>

(* The saved rows from index skip on, copied to row first and after. *)
RowsBack(rows, saved, first, skip) ==
    [j \in DOMAIN rows |->
        IF first <= j /\ j - first + skip \in DOMAIN saved
        THEN saved[j - first + skip] ELSE rows[j]]

(* The caller's contract: the text has not left the positions saved. *)
Usable ==
    /\ snap.ready
    /\ Len(text) \in snap.start..(snap.start + snap.n)
    /\ SubSeq(text, 1, snap.start) = base

RestoredRing(L) ==
    [s \in RingSlot |-> IF s \in DOMAIN snap.ring[L] THEN snap.ring[L][s] ELSE ring[L][s]]

RestoredComp(u) ==
    [slots |-> snap.comp[u].slots,
     rows |-> RowsBack(comp[u].rows, snap.comp[u].rows, snap.comp[u].count, 0),
     count |-> snap.comp[u].count]

Restore ==
    /\ pc = "idle" /\ Usable
    /\ hidden' = snap.hidden
    /\ ring' = [L \in Layer |-> RestoredRing(L)]
    /\ comp' = [u \in Unit |-> RestoredComp(u)]
    /\ active' = FALSE
    /\ text' = base
    /\ UNCHANGED <<callVars, snap, post, captured, base, tried>>

(* Mutant: the rows of the refused tokens stay in the ring. *)
CommittedRingForward(L, k) ==
    [s \in RingSlot |->
        LET steps == {i \in 0..(k - 1) : (snap.start + i) % Window = s}
        IN  IF steps = {} THEN ring[L][s] ELSE post.ring[L][Max(steps)]]

(* The saved rows go back first, then those captured for the prefix, in    *)
(* order: a later position of the prefix overwrites an earlier one.        *)
CommittedRing(L, k) ==
    [s \in RingSlot |->
        LET steps == {i \in 0..(k - 1) : (snap.start + i) % Window = s}
        IN  IF steps # {} THEN post.ring[L][Max(steps)]
            ELSE RestoredRing(L)[s]]

(* Mutant: the compressed rows of the prefix are not counted. *)
CommittedCompUncounted(u, k) ==
    [slots |-> post.comp[u][k - 1].slots, rows |-> comp[u].rows,
     count |-> snap.comp[u].count]

CommittedComp(u, k) ==
    LET after == post.comp[u][k - 1]
    IN  [slots |-> after.slots,
         rows |-> RowsBack(comp[u].rows, snap.comp[u].rows, after.count,
                           Max({0, after.count - snap.comp[u].count})),
         count |-> after.count]

(* dsv4_context_snapshot_commit_prefix, when it does not refuse.  That the *)
(* snapshot is still open is the caller's contract, not a test of the code. *)
Commit(k) ==
    /\ pc = "idle" /\ active
    /\ snap.ready /\ k <= snap.n /\ captured >= k
    /\ hidden' = post.hidden[k - 1]
    /\ ring' = [L \in Layer |-> CommittedRing(L, k)]
    /\ comp' = [u \in Unit |-> CommittedComp(u, k)]
    /\ active' = FALSE
    /\ text' = base \o SubSeq(tried, 1, k)
    /\ UNCHANGED <<callVars, snap, post, captured, base, tried>>

(* dsv4_model_reset_context, between two conversations: no snapshot open. *)
Reset ==
    /\ pc = "idle" /\ ~active
    /\ ring' = [L \in Layer |-> [s \in RingSlot |-> Blank]]
    /\ comp' = [u \in Unit |-> [slots |-> [i \in StateSlot(u[1]) |-> Blank],
                                rows |-> [c \in CompRow(u[1]) |-> Blank],
                                count |-> 0]]
    /\ hidden' = Blank
    /\ text' = <<>>
    /\ UNCHANGED <<callVars, snapVars, base, tried>>

Batch == UNION {[1..n -> Token] : n \in 1..MaxBatch}

Next ==
    \/ \E t \in Token : FeedToken(t)
    \/ \E ts \in Batch : FeedBatch(ts)
    \/ Attend
    \/ Exit
    \/ EndCall
    \/ \E n \in 1..MaxPositions : Take(n)
    \/ Restore
    \/ \E k \in 1..MaxPositions : Commit(k)
    \/ Reset

Spec == Init /\ [][Next]_vars

-------------------------------------------------------------------------------
RowType == (Nat \X Token) \cup {Blank}

(* Every variable keeps to its type; counts never pass the rows allocated,  *)
(* and the snapshot never holds more rows than it has room for.             *)
TypeOK ==
    /\ ring \in [Layer -> [RingSlot -> RowType]]
    /\ \A u \in Unit :
          /\ comp[u].slots \in [StateSlot(u[1]) -> RowType]
          /\ DOMAIN comp[u].rows = CompRow(u[1])
          /\ comp[u].count \in 0..(RowCap(u[1]) - 1)
          /\ Cardinality(DOMAIN snap.comp[u].rows) <= MaxPositions
    /\ hidden \in RowType
    /\ pc \in {"idle", "token", "batch", "exited"}
    /\ toks \in Seq(Token) /\ text \in Seq(Token)
    /\ base \in Seq(Token) /\ tried \in Seq(Token)
    /\ at \in Layer \cup {NoLayer} /\ step \in Nat
    /\ snap.ready \in BOOLEAN
    /\ snap.start \in 0..Context /\ snap.n \in 0..MaxPositions
    /\ \A L \in Layer : Cardinality(DOMAIN snap.ring[L]) <= MaxPositions
    /\ captured \in 0..MaxPositions /\ active \in BOOLEAN

(* The tokens a layer has been fed: it is ahead of the text during a call. *)
FedTo(L) ==
    text \o (IF pc = "idle" THEN <<>>
             ELSE IF at = NoLayer \/ L < at THEN toks
             ELSE IF L = at THEN SubSeq(toks, 1, step) ELSE <<>>)

(* The memory of every layer is that of its text, byte for byte and also   *)
(* beyond the counts, whatever was fed and taken back before: restore      *)
(* leaves the state of the text at take, commit_prefix the state of that   *)
(* text and the prefix, as if nothing else had ever been fed.  This is     *)
(* what the tests of restore and commit_prefix compare at one position.    *)
(* Counts and saved rows stay within their arrays on the way.              *)
ContextIsOfText ==
    /\ TypeOK
    /\ \A L \in Layer : ring[L] = RingOf(FedTo(L))
    /\ \A u \in Unit : comp[u] = CompOf(u[1], FedTo(u[1]))
    /\ hidden = IF text = <<>> THEN Blank ELSE RowOf(text, Len(text) - 1)

(* What window_topk gives attention at the last position are the rows of   *)
(* the last Window positions of the text, the oldest first, wherever the   *)
(* ring has wrapped; then nothing, or padding up to the length of the ring *)
(* when that is kept.  The order is the one in which sparse_attn adds up,  *)
(* which a different order of the same rows would round differently.       *)
WindowIsRecent ==
    pc = "idle" /\ text # <<>> =>
        \A L \in Layer, keepPadding \in BOOLEAN :
            LET p == Len(text) - 1
                oldest == Max({0, (p - Window) + 1})
                recent == (p - oldest) + 1
                topk == WindowTopk(p, keepPadding)
            IN  /\ Len(topk) = IF keepPadding THEN Window ELSE recent
                /\ \A i \in 1..recent : ring[L][topk[i]] = RowOf(text, oldest + (i - 1))
                /\ \A i \in (recent + 1)..Len(topk) : topk[i] = NoSlot

(* In a layer that compresses, every position of the text is in the ring   *)
(* or went into a compressed row that attention can select: nothing is     *)
(* lost between a block's end and the wrap of the ring.                    *)
NothingForgotten ==
    pc = "idle" =>
        \A u \in Unit : \A p \in 0..(Len(text) - 1) :
            \/ LET topk == WindowTopk(Len(text) - 1, FALSE)
               IN  \E i \in 1..Len(topk) : ring[u[1]][topk[i]] = RowOf(text, p)
            \/ \E c \in 0..(comp[u].count - 1) :
                  comp[u].rows[c] # Blank /\ \E i \in StateSlot(u[1]) : comp[u].rows[c][i] = RowOf(text, p)

(* The process gives up over a full compressor only for a token past the   *)
(* context: the spare row is never needed within it.                       *)
ExitOnlyPastContext == pc = "exited" => Position >= Context
===============================================================================
