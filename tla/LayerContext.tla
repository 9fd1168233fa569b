----------------------------- MODULE LayerContext -----------------------------
(***************************************************************************)
(* What a layer remembers of the positions fed so far: a ring with the     *)
(* last Window rows, and for a layer with a compression ratio the running  *)
(* state of its compressor and the rows it has compressed.  The first part *)
(* is how attention_forward_impl and compressor_update change that memory  *)
(* by one position; the second part says, from the text alone, what the    *)
(* memory of a text is.                                                    *)
(*                                                                         *)
(* A row stands for the vector computed at a position: it is the position  *)
(* and its token.  A compressed row is the rows it was made from.  Layers  *)
(* of the same ratio go through the same states, so a layer is named by    *)
(* its ratio, 0 for a layer that only has the ring.                        *)
(***************************************************************************)
EXTENDS Integers, Sequences, FiniteSetsExt

CONSTANTS Ratios,        \* the compress_ratio of the layers
          OverlapRatio,  \* 4 in the code: overlapping blocks and an indexer
          Window,        \* cfg.window, the size of the ring
          Context,       \* the positions the model was opened for
          Token,
          Blank          \* a row never written

ASSUME LayerAssumption ==
    /\ Ratios \subseteq Nat /\ IsFiniteSet(Ratios) /\ Ratios # {}
    /\ OverlapRatio \in Nat \ {0}
    /\ Window \in Nat \ {0} /\ Context \in Nat \ {0}

Layer == Ratios

(* The compressors: one in each layer with a ratio, and the indexer's own. *)
Main(L) == <<L, "main">>
Index(L) == <<L, "index">>
Unit == {Main(L) : L \in Layer \ {0}} \cup {Index(L) : L \in Layer \cap {OverlapRatio}}

RingSlot == 0..(Window - 1)

(* coff: an overlapping compressor keeps the previous block as well. *)
Halves(L) == IF L = OverlapRatio THEN 2 ELSE 1
StateSlot(L) == 0..(Halves(L) * L - 1)

(* Mutant: no spare row is allocated. *)
RowCapExact(L) == (Context + L - 1) \div L

RowCap(L) == 1 + (Context + L - 1) \div L
CompRow(L) == 0..(RowCap(L) - 1)

-------------------------------------------------------------------------------
(* One position p with the row r, in a ring, in the state of a compressor,  *)
(* and at the end of a block in the compressed rows.                        *)
Written(ring, p, r) == [ring EXCEPT ![p % Window] = r]

StateWritten(L, slots, p, r) == [slots EXCEPT ![(p % L) + (Halves(L) - 1) * L] = r]

EndsBlock(L, p) == (p + 1) % L = 0

Shifted(L, slots) ==
    [i \in DOMAIN slots |-> IF Halves(L) = 2 /\ i < L THEN slots[i + L] ELSE slots[i]]

Compressed(L, c, p, r) ==
    LET slots == StateWritten(L, c.slots, p, r)
    IN  IF EndsBlock(L, p)
        THEN [slots |-> Shifted(L, slots),
              rows |-> [c.rows EXCEPT ![c.count] = slots],
              count |-> c.count + 1]
        ELSE [c EXCEPT !.slots = slots]

(* compressor_update gives up when the row it would write is the spare one. *)
Overflows(L, c, p) == EndsBlock(L, p) /\ c.count + 1 >= RowCap(L)

NoSlot == -1    \* padding, which sparse_attn skips

(* Mutant: the ring is read from the slot just written, not the one after. *)
WindowTopkFromNewest(p, keepPadding) ==
    IF p >= Window - 1
    THEN [i \in 1..Window |-> ((p % Window) + (i - 1)) % Window]
    ELSE [i \in 1..(IF keepPadding THEN Window ELSE p + 1) |->
             IF i <= p + 1 THEN i - 1 ELSE NoSlot]

(* window_topk: the ring slots attention reads at position p, in its order; *)
(* padded to the length of the ring when the environment asks for it.       *)
WindowTopk(p, keepPadding) ==
    IF p >= Window - 1
    THEN [i \in 1..Window |-> ((p % Window) + i) % Window]
    ELSE [i \in 1..(IF keepPadding THEN Window ELSE p + 1) |->
             IF i <= p + 1 THEN i - 1 ELSE NoSlot]

-------------------------------------------------------------------------------
(* The memory of a text.  LastRow is the row of the last of the first n     *)
(* positions that is s modulo m.                                            *)
Congruent(n, m, s) == {q \in 0..(n - 1) : q % m = s}
RowOf(text, p) == <<p, text[p + 1]>>
LastRow(text, n, m, s) ==
    IF Congruent(n, m, s) = {} THEN Blank ELSE RowOf(text, Max(Congruent(n, m, s)))

RingOf(text) == [s \in RingSlot |-> LastRow(text, Len(text), Window, s)]

(* The state slots: the lower half holds the block before `start', the     *)
(* upper half the positions up to n.                                       *)
SlotsOf(L, text, start, n) ==
    [i \in StateSlot(L) |->
        IF Halves(L) = 2 /\ i < L THEN LastRow(text, start, L, i)
                                  ELSE LastRow(text, n, L, i % L)]

BlocksIn(L, n) == n \div L

CompOf(L, text) ==
    LET n == Len(text)
        blocks == BlocksIn(L, n)
    IN  [slots |-> SlotsOf(L, text, blocks * L, n),
         rows |-> [c \in CompRow(L) |->
                     IF c < blocks THEN SlotsOf(L, text, c * L, (c + 1) * L) ELSE Blank],
         count |-> blocks]
===============================================================================
