------------------------- MODULE ContextSnapshotProofs -------------------------
(***************************************************************************)
(* Proofs about the context and its snapshot, for any ratios, window,      *)
(* context and batch: the memory is always that of the text.               *)
(***************************************************************************)
EXTENDS ContextSnapshot, CommonLemmas

-------------------------------------------------------------------------------
(* The last row of a remainder. *)

LEMMA CongruentBelow ==
    ASSUME NEW n \in Nat, NEW m \in Nat \ {0}, NEW s
    PROVE  Congruent(n, m, s) \in SUBSET Nat /\ \A q \in Congruent(n, m, s) : q < n
  BY DEF Congruent

LEMMA LastRowIs ==
    ASSUME NEW n \in Nat, NEW m \in Nat \ {0}, NEW s, NEW t,
           NEW q \in Congruent(n, m, s), \A r \in Congruent(n, m, s) : r <= q
    PROVE  LastRow(t, n, m, s) = RowOf(t, q)
<1> DEFINE S == Congruent(n, m, s)
<1>1. Max(S) = q
  <2>1. S \in SUBSET Nat
    BY CongruentBelow
  <2> HIDE DEF S
  <2> QED  BY <2>1, GreatestIs DEF S
<1> QED  BY <1>1 DEF LastRow

LEMMA LastRowCases ==
    ASSUME NEW n \in Nat, NEW m \in Nat \ {0}, NEW s, NEW t
    PROVE  \/ Congruent(n, m, s) = {} /\ LastRow(t, n, m, s) = Blank
           \/ \E q \in Congruent(n, m, s) :
                 /\ LastRow(t, n, m, s) = RowOf(t, q)
                 /\ \A r \in Congruent(n, m, s) : r <= q
<1> DEFINE S == Congruent(n, m, s)
<1>1. S \in SUBSET Nat /\ \A x \in S : x <= n
  BY CongruentBelow
<1>2. S = {} \/ (Max(S) \in S /\ \A x \in S : x <= Max(S))
  <2> HIDE DEF S
  <2> QED  BY <1>1, GreatestExists
<1> QED  BY <1>2 DEF LastRow

(* It is looked for in the first n positions only. *)
LEMMA LastRowPrefix ==
    ASSUME NEW n \in Nat, NEW m \in Nat \ {0}, NEW s, NEW t, NEW u,
           \A q \in 0..(n - 1) : t[q + 1] = u[q + 1]
    PROVE  LastRow(t, n, m, s) = LastRow(u, n, m, s)
<1>1. CASE Congruent(n, m, s) = {}
  BY <1>1 DEF LastRow
<1>2. CASE Congruent(n, m, s) # {}
  <2>1. PICK q \in Congruent(n, m, s) :
           /\ LastRow(t, n, m, s) = RowOf(t, q)
           /\ \A r \in Congruent(n, m, s) : r <= q
    BY <1>2, LastRowCases
  <2>2. LastRow(u, n, m, s) = RowOf(u, q)
    BY <2>1, LastRowIs
  <2>3. q \in 0..(n - 1)
    BY CongruentBelow
  <2> QED  BY <2>1, <2>2, <2>3 DEF RowOf
<1> QED  BY <1>1, <1>2

(* Positions of other remainders change nothing. *)
NoneFrom(n, k, m, s) == \A q \in n..(k - 1) : q % m # s

LEMMA LastRowSkip ==
    ASSUME NEW n \in Nat, NEW k \in Nat, n <= k, NEW m \in Nat \ {0}, NEW s, NEW t,
           NoneFrom(n, k, m, s)
    PROVE  LastRow(t, k, m, s) = LastRow(t, n, m, s)
<1>1. ASSUME NEW q  PROVE q \in Congruent(k, m, s) <=> q \in Congruent(n, m, s)
  <2>1. q \in 0..(k - 1) <=> q \in 0..(n - 1) \/ q \in n..(k - 1)
    OBVIOUS
  <2> QED  BY <2>1, Zenon DEF Congruent, NoneFrom
<1>2. Congruent(k, m, s) = Congruent(n, m, s)
  BY <1>1
<1> QED  BY <1>2 DEF LastRow

(* The next position is the last one of its remainder. *)
LEMMA LastRowHit ==
    ASSUME NEW n \in Nat, NEW m \in Nat \ {0}, NEW t
    PROVE  LastRow(t, n + 1, m, n % m) = RowOf(t, n)
<1>1. n + 1 \in Nat /\ n \in 0..((n + 1) - 1)
  OBVIOUS
<1> DEFINE s == n % m
<1>2. n \in Congruent(n + 1, m, s)
  BY <1>1, Zenon DEF Congruent
<1> HIDE DEF s
<1>3. \A r \in Congruent(n + 1, m, s) : r <= n
  BY <1>1, CongruentBelow
<1>4. LastRow(t, n + 1, m, s) = RowOf(t, n)
  BY <1>1, <1>2, <1>3, LastRowIs
<1> QED  BY <1>4 DEF s

LEMMA LastRowMiss ==
    ASSUME NEW n \in Nat, NEW m \in Nat \ {0}, NEW s, NEW t, n % m # s
    PROVE  LastRow(t, n + 1, m, s) = LastRow(t, n, m, s)
<1>1. n + 1 \in Nat /\ n <= n + 1 /\ \A q \in n..((n + 1) - 1) : q = n
  OBVIOUS
<1>2. NoneFrom(n, n + 1, m, s)
  BY <1>1, Zenon DEF NoneFrom
<1> QED  BY <1>1, <1>2, LastRowSkip

-------------------------------------------------------------------------------
(* The memory of the first n positions of a text t, and how one position    *)
(* changes it.                                                              *)

RingAt(t, n) == [s \in RingSlot |-> LastRow(t, n, Window, s)]
RowsAt(L, t, n) ==
    [c \in CompRow(L) |-> IF c < n \div L THEN SlotsOf(L, t, c * L, (c + 1) * L) ELSE Blank]
CompAt(L, t, n) ==
    [slots |-> SlotsOf(L, t, (n \div L) * L, n), rows |-> RowsAt(L, t, n), count |-> n \div L]

SameUpTo(t, u, n) == \A q \in 0..(n - 1) : t[q + 1] = u[q + 1]

LEMMA LayerIsNat ==
    /\ Layer \subseteq Nat
    /\ \A u \in Unit : u[1] \in Layer \ {0} /\ u[1] \in Nat \ {0}
  BY LayerAssumption DEF Layer, Unit, Main, Index

LEMMA RingAtNext ==
    ASSUME NEW t, NEW n \in Nat
    PROVE  RingAt(t, n + 1) = Written(RingAt(t, n), n, RowOf(t, n))
<1>1. n % Window \in RingSlot
  BY Division, LayerAssumption DEF RingSlot
<1>2. ASSUME NEW s \in RingSlot
      PROVE  LastRow(t, n + 1, Window, s)
             = IF s = n % Window THEN RowOf(t, n) ELSE LastRow(t, n, Window, s)
  <2>1. Window \in Nat \ {0}
    BY LayerAssumption
  <2>2. CASE n % Window = s
    <3>1. LastRow(t, n + 1, Window, s) = RowOf(t, n)
      <4>1. LastRow(t, n + 1, Window, n % Window) = RowOf(t, n)
        BY <2>1, LastRowHit, Zenon
      <4> QED  BY <2>2, <4>1, Zenon
    <3> QED  BY <2>2, <3>1, Zenon
  <2>3. CASE n % Window # s
    <3>1. LastRow(t, n + 1, Window, s) = LastRow(t, n, Window, s)
      BY <2>1, <2>3, LastRowMiss, Zenon
    <3> QED  BY <2>3, <3>1, Zenon
  <2> QED  BY <2>2, <2>3, Zenon
<1> DEFINE k == n % Window
<1> HIDE DEF k
<1>3. /\ k \in RingSlot
      /\ \A s \in RingSlot :
           LastRow(t, n + 1, Window, s) = IF s = k THEN RowOf(t, n) ELSE LastRow(t, n, Window, s)
  BY <1>1, <1>2, Zenon DEF k
<1>4. RingAt(t, n + 1) = [RingAt(t, n) EXCEPT ![k] = RowOf(t, n)]
  BY <1>3 DEF RingAt
<1> QED  BY <1>4, Zenon DEF Written, k

LEMMA RingAtPrefix ==
    ASSUME NEW t, NEW u, NEW n \in Nat, SameUpTo(t, u, n)
    PROVE  RingAt(t, n) = RingAt(u, n)
<1>1. \A s \in RingSlot : LastRow(t, n, Window, s) = LastRow(u, n, Window, s)
  BY LastRowPrefix, LayerAssumption DEF SameUpTo, RingSlot
<1> QED  BY <1>1 DEF RingAt

(* The upper half of the state, or all of it, is indexed by the remainder. *)
LEMMA UpperSlot ==
    ASSUME NEW L \in Nat \ {0}, NEW i \in StateSlot(L), ~(Halves(L) = 2 /\ i < L)
    PROVE  i % L \in 0..(L - 1) /\ i = (i % L) + (Halves(L) - 1) * L
<1>1. CASE Halves(L) = 1
  <2>1. i \in Nat /\ i = 0 * L + i /\ i \in 0..(L - 1)
    BY <1>1 DEF StateSlot
  <2>2. i % L = i
    BY <2>1, DivisionIs
  <2> QED  BY <1>1, <2>1, <2>2
<1>2. CASE Halves(L) = 2
  <2>1. i \in Nat /\ i - L \in 0..(L - 1) /\ i = 1 * L + (i - L)
    BY <1>2 DEF StateSlot
  <2>2. i % L = i - L
    BY <2>1, DivisionIs
  <2> QED  BY <1>2, <2>1, <2>2
<1> QED  BY <1>1, <1>2 DEF Halves

LEMMA SlotsNext ==
    ASSUME NEW L \in Nat \ {0}, NEW t, NEW b, NEW n \in Nat
    PROVE  StateWritten(L, SlotsOf(L, t, b, n), n, RowOf(t, n)) = SlotsOf(L, t, b, n + 1)
<1> DEFINE old == SlotsOf(L, t, b, n)
           k == (n % L) + (Halves(L) - 1) * L
           new == [old EXCEPT ![k] = RowOf(t, n)]
<1>1. n % L \in 0..(L - 1) /\ Halves(L) \in {1, 2}
  BY Division DEF Halves
<1>2. k \in StateSlot(L) /\ ~(Halves(L) = 2 /\ k < L)
  BY <1>1 DEF StateSlot
<1>3. ASSUME NEW i \in StateSlot(L)  PROVE new[i] = SlotsOf(L, t, b, n + 1)[i]
  <2>1. CASE Halves(L) = 2 /\ i < L
    BY <1>2, <2>1 DEF SlotsOf
  <2>2. CASE ~(Halves(L) = 2 /\ i < L)
    <3>1. i % L \in 0..(L - 1) /\ i = (i % L) + (Halves(L) - 1) * L
      BY <2>2, UpperSlot
    <3>2. i = k <=> n % L = i % L
      BY <1>1, <3>1
    <3>3. /\ n % L = i % L => LastRow(t, n + 1, L, i % L) = RowOf(t, n)
          /\ n % L # i % L => LastRow(t, n + 1, L, i % L) = LastRow(t, n, L, i % L)
      <4> DEFINE j == i % L
      <4> HIDE DEF j
      <4>1. LastRow(t, n + 1, L, n % L) = RowOf(t, n)
        BY LastRowHit, Zenon
      <4>2. n % L = j => LastRow(t, n + 1, L, j) = RowOf(t, n)
        BY <4>1, Zenon
      <4>3. n % L # j => LastRow(t, n + 1, L, j) = LastRow(t, n, L, j)
        BY LastRowMiss, Zenon
      <4> QED  BY <4>2, <4>3, Zenon DEF j
    <3>4. /\ SlotsOf(L, t, b, n + 1)[i] = LastRow(t, n + 1, L, i % L)
          /\ old[i] = LastRow(t, n, L, i % L)
      BY <2>2 DEF SlotsOf
    <3>5. new[i] = IF i = k THEN RowOf(t, n) ELSE old[i]
      BY DEF SlotsOf
    <3>6. CASE i = k
      BY <3>2, <3>3, <3>4, <3>5, <3>6, Zenon
    <3>7. CASE i # k
      BY <3>2, <3>3, <3>4, <3>5, <3>7, Zenon
    <3> QED  BY <3>6, <3>7, Zenon
  <2> QED  BY <2>1, <2>2
<1>4. DOMAIN new = StateSlot(L) /\ new = [i \in StateSlot(L) |-> new[i]]
  BY DEF SlotsOf
<1>5. SlotsOf(L, t, b, n + 1) = [i \in StateSlot(L) |-> SlotsOf(L, t, b, n + 1)[i]]
  BY DEF SlotsOf
<1>6. new = SlotsOf(L, t, b, n + 1)
  <2> HIDE DEF new
  <2> QED  BY <1>3, <1>4, <1>5
<1> QED  BY <1>6 DEF StateWritten

(* At the end of a block the upper half becomes the lower one. *)
LEMMA SlotsShift ==
    ASSUME NEW L \in Nat \ {0}, NEW t, NEW b, NEW n \in Nat
    PROVE  Shifted(L, SlotsOf(L, t, b, n)) = SlotsOf(L, t, n, n)
<1> DEFINE old == SlotsOf(L, t, b, n)
<1>1. DOMAIN old = StateSlot(L)
  BY DEF SlotsOf
<1>2. ASSUME NEW i \in StateSlot(L)
      PROVE  (IF Halves(L) = 2 /\ i < L THEN old[i + L] ELSE old[i]) = SlotsOf(L, t, n, n)[i]
  <2>1. CASE Halves(L) = 2 /\ i < L
    <3>1. i + L \in StateSlot(L) /\ ~(i + L < L) /\ i \in 0..(L - 1) /\ i + L = 1 * L + i
      BY <2>1 DEF StateSlot
    <3>2. (i + L) % L = i
      <4>1. i + L \in Nat
        BY <3>1
      <4> QED  BY <3>1, <4>1, DivisionIs
    <3>3. old[i + L] = LastRow(t, n, L, (i + L) % L)
      BY <3>1 DEF SlotsOf
    <3>4. SlotsOf(L, t, n, n)[i] = LastRow(t, n, L, i)
      BY <2>1 DEF SlotsOf
    <3> QED  BY <2>1, <3>2, <3>3, <3>4
  <2>2. CASE ~(Halves(L) = 2 /\ i < L)
    BY <2>2 DEF SlotsOf
  <2> QED  BY <2>1, <2>2
<1>3. SlotsOf(L, t, n, n) = [i \in StateSlot(L) |-> SlotsOf(L, t, n, n)[i]]
  BY DEF SlotsOf
<1> HIDE DEF old
<1> QED  BY <1>1, <1>2, <1>3 DEF Shifted, old

LEMMA SlotsPrefix ==
    ASSUME NEW L \in Nat \ {0}, NEW t, NEW u, NEW b \in Nat, NEW n \in Nat,
           b <= n, SameUpTo(t, u, n)
    PROVE  SlotsOf(L, t, b, n) = SlotsOf(L, u, b, n)
<1>1. \A s \in Nat : LastRow(t, n, L, s) = LastRow(u, n, L, s)
  BY LastRowPrefix DEF SameUpTo
<1>2. \A s \in Nat : LastRow(t, b, L, s) = LastRow(u, b, L, s)
  <2>1. \A q \in 0..(b - 1) : t[q + 1] = u[q + 1]
    BY DEF SameUpTo
  <2> QED  BY <2>1, LastRowPrefix
<1>3. \A i \in StateSlot(L) : i \in Nat /\ i % L \in Nat
  BY Division DEF StateSlot
<1> QED  BY <1>1, <1>2, <1>3 DEF SlotsOf

LEMMA RowsPrefix ==
    ASSUME NEW L \in Nat \ {0}, NEW t, NEW u, NEW n \in Nat, SameUpTo(t, u, n),
           NEW c \in Nat, c < n \div L
    PROVE  SlotsOf(L, t, c * L, (c + 1) * L) = SlotsOf(L, u, c * L, (c + 1) * L)
<1>1. (n \div L) * L <= n /\ n \div L \in Nat
  BY Division
<1>2. c * L \in Nat /\ (c + 1) * L \in Nat /\ c * L <= (c + 1) * L
  BY SMT
<1>3. (c + 1) * L <= (n \div L) * L
  BY <1>1, SMT
<1>4. SameUpTo(t, u, (c + 1) * L)
  <2> DEFINE m == (c + 1) * L
  <2>1. m \in Nat /\ m <= n
    BY <1>1, <1>2, <1>3
  <2> HIDE DEF m
  <2>2. SameUpTo(t, u, m)
    BY <2>1 DEF SameUpTo
  <2> QED  BY <2>2 DEF m
<1> QED  BY <1>2, <1>4, SlotsPrefix

LEMMA CompAtPrefix ==
    ASSUME NEW L \in Nat \ {0}, NEW t, NEW u, NEW n \in Nat, SameUpTo(t, u, n)
    PROVE  CompAt(L, t, n) = CompAt(L, u, n)
<1>1. (n \div L) * L <= n /\ n \div L \in Nat /\ (n \div L) * L \in Nat
  <2>1. (n \div L) * L <= n /\ n \div L \in Nat
    BY Division
  <2> QED  BY <2>1, SMT
<1>2. SlotsOf(L, t, (n \div L) * L, n) = SlotsOf(L, u, (n \div L) * L, n)
  BY <1>1, SlotsPrefix
<1>3. \A c \in CompRow(L) : c \in Nat
  BY DEF CompRow
<1>4. \A c \in CompRow(L) : c < n \div L =>
         SlotsOf(L, t, c * L, (c + 1) * L) = SlotsOf(L, u, c * L, (c + 1) * L)
  BY <1>3, RowsPrefix
<1>5. RowsAt(L, t, n) = RowsAt(L, u, n)
  BY <1>4 DEF RowsAt
<1> QED  BY <1>2, <1>5 DEF CompAt

LEMMA CompAtNext ==
    ASSUME NEW L \in Nat \ {0}, NEW t, NEW n \in Nat,
           EndsBlock(L, n) => n \div L \in CompRow(L)
    PROVE  CompAt(L, t, n + 1) = Compressed(L, CompAt(L, t, n), n, RowOf(t, n))
<1> DEFINE b == n \div L
           old == CompAt(L, t, n)
           slots == StateWritten(L, old.slots, n, RowOf(t, n))
<1>1. b \in Nat /\ b * L <= n /\ b * L \in Nat
  <2>1. b \in Nat /\ b * L <= n
    BY Division
  <2> QED  BY <2>1, SMT
<1>2. slots = SlotsOf(L, t, b * L, n + 1)
  BY SlotsNext DEF CompAt
<1>3. CASE EndsBlock(L, n)
  <2>1. (n + 1) \div L = b + 1 /\ n + 1 = (b + 1) * L /\ b \in CompRow(L)
    BY <1>3, NextDivision DEF EndsBlock
  <2>2. n + 1 \in Nat
    OBVIOUS
  <2>3. Shifted(L, slots) = SlotsOf(L, t, n + 1, n + 1)
    BY <1>2, <2>2, SlotsShift
  <2>4. SlotsOf(L, t, ((n + 1) \div L) * L, n + 1) = Shifted(L, slots)
    BY <2>1, <2>3
  <2>5. RowsAt(L, t, n + 1) = [RowsAt(L, t, n) EXCEPT ![b] = slots]
    <3>1. ASSUME NEW c \in CompRow(L)
          PROVE  (IF c < b + 1 THEN SlotsOf(L, t, c * L, (c + 1) * L) ELSE Blank)
                 = IF c = b THEN slots
                   ELSE IF c < b THEN SlotsOf(L, t, c * L, (c + 1) * L) ELSE Blank
      <4>1. c \in Nat
        BY DEF CompRow
      <4>2. c = b => SlotsOf(L, t, c * L, (c + 1) * L) = slots
        BY <1>2, <2>1
      <4>3. c < b + 1 <=> c = b \/ c < b
        BY <1>1, <4>1
      <4> HIDE DEF b, slots
      <4> QED  BY <1>1, <4>1, <4>2, <4>3
    <3> HIDE DEF slots
    <3> QED  BY <2>1, <3>1 DEF RowsAt
  <2>6. Compressed(L, old, n, RowOf(t, n))
        = [slots |-> Shifted(L, slots), rows |-> [RowsAt(L, t, n) EXCEPT ![b] = slots],
           count |-> b + 1]
    BY <1>3 DEF Compressed, CompAt
  <2>7. CompAt(L, t, n + 1)
        = [slots |-> SlotsOf(L, t, ((n + 1) \div L) * L, n + 1),
           rows |-> RowsAt(L, t, n + 1), count |-> (n + 1) \div L]
    BY DEF CompAt
  <2>8. CompAt(L, t, n + 1) = Compressed(L, old, n, RowOf(t, n))
    <3> HIDE DEF slots, old, b
    <3> QED  BY <2>1, <2>4, <2>5, <2>6, <2>7
  <2> QED  BY <2>8
<1>4. CASE ~EndsBlock(L, n)
  <2>1. (n + 1) \div L = b
    BY <1>4, NextDivision DEF EndsBlock
  <2>2. Compressed(L, old, n, RowOf(t, n)) = [old EXCEPT !.slots = slots]
    BY <1>4 DEF Compressed
  <2>3. [old EXCEPT !.slots = slots] = [slots |-> slots, rows |-> RowsAt(L, t, n), count |-> b]
    BY DEF CompAt
  <2>4. RowsAt(L, t, n + 1) = RowsAt(L, t, n)
    BY <2>1 DEF RowsAt
  <2> QED  BY <1>2, <2>1, <2>2, <2>3, <2>4 DEF CompAt
<1> QED  BY <1>3, <1>4

-------------------------------------------------------------------------------
(* The layers in order. *)

LEMMA FirstLayer == Min(Layer) \in Layer /\ \A L \in Layer : Min(Layer) <= L
  BY LeastIs, LayerAssumption DEF Layer

LEMMA NextLayerIs ==
    ASSUME at \in Layer
    PROVE  \/ NextLayer = NoLayer /\ \A L \in Layer : L <= at
           \/ NextLayer \in Layer /\ NextLayer > at
              /\ \A L \in Layer : L <= at \/ NextLayer <= L
<1>1. PICK b \in Nat : \A L \in Layer : L <= b
  BY FiniteBounded, LayerAssumption DEF Layer
<1>2. Max(Layer) \in Layer /\ \A L \in Layer : L <= Max(Layer)
  BY <1>1, GreatestExists, LayerAssumption DEF Layer
<1>3. CASE at = Max(Layer)
  BY <1>2, <1>3 DEF NextLayer
<1>4. CASE at # Max(Layer)
  <2> DEFINE S == {L \in Layer : L > at}
  <2>1. S \in SUBSET Nat /\ \A L \in Layer : L \in Nat
    BY LayerIsNat
  <2>2. Max(Layer) \in S
    BY <1>2, <1>4, <2>1
  <2>3. Min(S) \in S /\ \A x \in S : Min(S) <= x
    <3> HIDE DEF S
    <3> QED  BY <2>1, <2>2, LeastIs
  <2>4. NextLayer = Min(S)
    BY <1>4 DEF NextLayer
  <2>5. NextLayer \in Layer /\ NextLayer > at
    BY <2>3, <2>4
  <2>6. ASSUME NEW L \in Layer  PROVE L <= at \/ NextLayer <= L
    <3>1. L \in Nat /\ at \in Nat
      BY <2>1
    <3>2. L > at => L \in S
      OBVIOUS
    <3> HIDE DEF S
    <3> QED  BY <2>3, <2>4, <3>1, <3>2
  <2> QED  BY <2>5, <2>6
<1> QED  BY <1>3, <1>4

-------------------------------------------------------------------------------
(* Sizes of sets. *)

LEMMA SlotsFromSize ==
    ASSUME NEW start \in Nat, NEW n \in Nat
    PROVE  /\ IsFiniteSet(SlotsFrom(start, n))
           /\ Cardinality(SlotsFrom(start, n)) <= n
<1> DEFINE I == 0..(n - 1)
           f == [i \in I |-> (start + i) % Window]
<1>1. IsFiniteSet(I) /\ Cardinality(I) <= n
  BY UpToSize
<1>2. f \in Surjection(I, SlotsFrom(start, n))
  <2>1. SlotsFrom(start, n) = {f[i] : i \in I}
    BY Zenon DEF SlotsFrom
  <2>2. DOMAIN f = I /\ f = [i \in I |-> f[i]]
    BY Zenon
  <2> HIDE DEF f, I
  <2> QED  BY <2>1, <2>2 DEF Surjection
<1> DEFINE S == SlotsFrom(start, n)
<1>3. IsFiniteSet(S) /\ Cardinality(S) <= Cardinality(I)
  <2> HIDE DEF S, I, f
  <2> QED  BY <1>1, <1>2, FS_Surjection DEF S
<1>4. Cardinality(S) \in Nat /\ Cardinality(I) \in Nat
  BY <1>1, <1>3, FS_CardinalityType
<1> HIDE DEF I
<1> QED  BY <1>1, <1>3, <1>4

-------------------------------------------------------------------------------
(* The invariant. *)

(* The tokens of the text and of the call in progress, and how many of    *)
(* them a layer has been fed.                                              *)
All == text \o toks
Fed(L) ==
    Len(text) + (IF pc = "idle" THEN 0
                 ELSE IF at = NoLayer \/ L < at THEN Len(toks)
                 ELSE IF L = at THEN step ELSE 0)

LastRowOf(t) == IF t = <<>> THEN Blank ELSE RowOf(t, Len(t) - 1)

(* The calls. *)
CallInv ==
    /\ text \in Seq(Token) /\ toks \in Seq(Token)
    /\ pc \in {"idle", "token", "batch", "exited"}
    /\ at \in Layer \cup {NoLayer} /\ step \in Nat
    /\ at = NoLayer => step = 0
    /\ pc = "idle" => toks = <<>> /\ at = NoLayer
    /\ pc # "idle" => IF at = NoLayer THEN toks # <<>> ELSE step < Len(toks)
    /\ pc = "exited" => at # NoLayer /\ Position >= Context

(* The memory is that of the tokens fed, and the next compressed row has   *)
(* a place.                                                                *)
MemoryInv ==
    /\ ring = [L \in Layer |-> RingAt(All, Fed(L))]
    /\ comp = [u \in Unit |-> CompAt(u[1], All, Fed(u[1]))]
    /\ hidden = LastRowOf(text)
    /\ \A u \in Unit : Fed(u[1]) \div u[1] < RowCap(u[1])

(* The rows a snapshot saves of a compressor: none of them was written.    *)
BlankRows(L, n) == [i \in 0..(Min({RowCap(L) - n \div L, MaxPositions}) - 1) |-> Blank]

SnapType ==
    /\ base \in Seq(Token) /\ tried \in Seq(Token)
    /\ captured \in 0..MaxPositions /\ active \in BOOLEAN
    /\ snap.ready \in BOOLEAN
    /\ snap.start \in 0..Context /\ snap.n \in 0..MaxPositions
    /\ \A L \in Layer : Cardinality(DOMAIN snap.ring[L]) <= MaxPositions
    /\ \A u \in Unit : Cardinality(DOMAIN snap.comp[u].rows) <= MaxPositions

(* The snapshot holds the memory of the text at take. *)
SnapInv ==
    snap.ready =>
        /\ snap.start = Len(base) /\ snap.start + snap.n <= Context
        /\ snap.hidden = LastRowOf(base)
        /\ \A L \in Layer :
              snap.ring[L] = [s \in SlotsFrom(snap.start, snap.n) |->
                                 RingAt(base, snap.start)[s]]
        /\ \A u \in Unit :
              /\ snap.comp[u].count = snap.start \div u[1]
              /\ snap.comp[u].slots = CompAt(u[1], base, snap.start).slots
              /\ snap.comp[u].rows = BlankRows(u[1], snap.start)

PostType ==
    /\ DOMAIN post = {"ring", "comp", "hidden"}
    /\ DOMAIN post.ring = Layer /\ \A L \in Layer : DOMAIN post.ring[L] = Step
    /\ DOMAIN post.comp = Unit /\ \A u \in Unit : DOMAIN post.comp[u] = Step
    /\ DOMAIN post.hidden = Step

(* What was captured after a position fed is the memory of the tokens up   *)
(* to it.                                                                  *)
PostIs ==
    /\ \A L \in Layer : \A i \in Step :
          snap.start + i < Fed(L) => post.ring[L][i] = RowOf(All, snap.start + i)
    /\ \A u \in Unit : \A i \in Step :
          snap.start + i < Fed(u[1]) =>
              LET n == snap.start + i + 1
              IN  post.comp[u][i] = [slots |-> CompAt(u[1], All, n).slots, count |-> n \div u[1]]

(* Once the batch is whole, it is all the text has more than at take. *)
BatchIs ==
    captured > 0 =>
        /\ pc = "idle" /\ text = base \o tried /\ captured = Len(tried)
        /\ \A i \in 0..(captured - 1) : post.hidden[i] = RowOf(text, snap.start + i)

BatchInv ==
    active =>
        /\ snap.ready
        /\ Len(text) + Len(toks) <= snap.start + snap.n
        /\ snap.start <= Len(text) /\ SubSeq(text, 1, snap.start) = base
        /\ PostIs /\ BatchIs

Inv == CallInv /\ MemoryInv /\ SnapType /\ SnapInv /\ PostType /\ BatchInv

(* The invariant of the states is that of the model's memory. *)
LEMMA FedIs ==
    ASSUME CallInv, NEW L \in Layer
    PROVE  /\ Fed(L) \in Nat /\ Len(text) <= Fed(L) /\ Fed(L) <= Len(All)
           /\ Len(All) = Len(text) + Len(toks) /\ All \in Seq(Token)
           /\ FedTo(L) \in Seq(Token) /\ Len(FedTo(L)) = Fed(L)
           /\ SameUpTo(FedTo(L), All, Fed(L))
           /\ SameUpTo(text, All, Len(text))
<1>1. /\ text \in Seq(Token) /\ toks \in Seq(Token) /\ step \in Nat
      /\ pc = "idle" => toks = <<>> /\ at = NoLayer
      /\ at = NoLayer \/ step < Len(toks)
      /\ at \in Layer \cup {NoLayer} /\ L \in Nat /\ Layer \subseteq Nat
  BY LayerIsNat DEF CallInv
<1>2. Len(text) \in Nat /\ Len(toks) \in Nat
  BY <1>1
<1> DEFINE k == IF pc = "idle" THEN 0
                ELSE IF at = NoLayer \/ L < at THEN Len(toks)
                ELSE IF L = at THEN step ELSE 0
<1>3. k \in 0..Len(toks)
  BY <1>1, <1>2
<1>4. FedTo(L) = text \o SubSeq(toks, 1, k)
  <2>1. SubSeq(toks, 1, 0) = <<>>
    BY <1>1
  <2>2. SubSeq(toks, 1, Len(toks)) = toks
    BY <1>1
  <2> QED  BY <2>1, <2>2 DEF FedTo
<1>5. Fed(L) = Len(text) + k
  BY DEF Fed
<1> HIDE DEF k
<1>6. /\ SubSeq(toks, 1, k) \in Seq(Token) /\ Len(SubSeq(toks, 1, k)) = k
      /\ \A i \in 1..k : SubSeq(toks, 1, k)[i] = toks[i]
  BY <1>1, <1>3
<1> DEFINE part == SubSeq(toks, 1, k)
<1>7. part \in Seq(Token) /\ Len(part) = k /\ \A i \in 1..k : part[i] = toks[i]
  BY <1>6
<1> HIDE DEF part
<1>8. /\ text \o part \in Seq(Token) /\ Len(text \o part) = Len(text) + k
      /\ text \o toks \in Seq(Token) /\ Len(text \o toks) = Len(text) + Len(toks)
  <2>1. text \in Seq(Token) /\ toks \in Seq(Token) /\ part \in Seq(Token) /\ Len(part) = k
    BY <1>1, <1>7
  <2> QED  BY <2>1, ConcatProperties
<1> DEFINE fed == text \o part
           all == text \o toks
           n == Len(text) + k
<1>9. SameUpTo(fed, all, n)
  <2>1. ASSUME NEW q \in 0..(n - 1)  PROVE fed[q + 1] = all[q + 1]
    <3>1. CASE q < Len(text)
      BY <1>1, <1>2, <1>3, <1>7, <1>8, <3>1
    <3>2. CASE q >= Len(text)
      BY <1>1, <1>2, <1>3, <1>7, <1>8, <3>2
    <3>3. q \in Nat /\ (q < Len(text) \/ q >= Len(text))
      BY <1>2
    <3> QED  BY <3>1, <3>2, <3>3
  <2> HIDE DEF fed, all, n
  <2> QED  BY <2>1 DEF SameUpTo
<1>10. SameUpTo(text \o part, All, Len(text) + k)
  BY <1>9 DEF All
<1>11. SameUpTo(text, All, Len(text))
  BY <1>1, <1>2 DEF SameUpTo, All
<1> QED  BY <1>2, <1>3, <1>4, <1>5, <1>8, <1>10, <1>11 DEF All, part

-------------------------------------------------------------------------------
(* What steps leave alone. *)

LEMMA MemoryKept ==
    ASSUME CallInv, MemoryInv, UNCHANGED <<modelVars, text>>,
           \A L \in Layer : Fed(L)' = Fed(L) /\ SameUpTo(All, All', Fed(L))
    PROVE  MemoryInv'
<1>1. \A L \in Layer : Fed(L) \in Nat
  BY FedIs
<1>2. \A L \in Layer : RingAt(All, Fed(L)) = RingAt(All', Fed(L)')
  BY <1>1, RingAtPrefix
<1>3. \A u \in Unit : CompAt(u[1], All, Fed(u[1])) = CompAt(u[1], All', Fed(u[1])')
  BY <1>1, CompAtPrefix, LayerIsNat
<1>4. ring' = [L \in Layer |-> RingAt(All', Fed(L)')]
  BY <1>2 DEF MemoryInv, modelVars
<1>5. comp' = [u \in Unit |-> CompAt(u[1], All', Fed(u[1])')]
  BY <1>3 DEF MemoryInv, modelVars
<1>6. \A u \in Unit : Fed(u[1])' \div u[1] < RowCap(u[1])
  BY LayerIsNat DEF MemoryInv
<1>7. hidden' = LastRowOf(text')
  BY DEF MemoryInv, modelVars
<1> QED  BY <1>4, <1>5, <1>6, <1>7 DEF MemoryInv

LEMMA SnapKept ==
    ASSUME SnapInv, UNCHANGED <<snap, base>>
    PROVE  SnapInv'
  BY DEF SnapInv, BlankRows

LEMMA PostKept ==
    ASSUME CallInv, SnapType, PostIs, UNCHANGED <<snap, post>>,
           \A L \in Layer : Fed(L)' = Fed(L) /\ SameUpTo(All, All', Fed(L))
    PROVE  PostIs'
<1>1. /\ \A L \in Layer : Fed(L) \in Nat
      /\ snap.start \in Nat /\ Step \subseteq Nat
  BY FedIs, LayerAssumption, SnapshotAssumption DEF SnapType, Step
<1>2. ASSUME NEW L \in Layer, NEW i \in Step, snap.start + i < Fed(L)
      PROVE  RowOf(All, snap.start + i) = RowOf(All', snap.start + i)
  <2>1. snap.start + i \in 0..(Fed(L) - 1)
    BY <1>1, <1>2
  <2> QED  BY <2>1 DEF RowOf, SameUpTo
<1>3. ASSUME NEW u \in Unit, NEW i \in Step, snap.start + i < Fed(u[1])
      PROVE  CompAt(u[1], All, snap.start + i + 1) = CompAt(u[1], All', snap.start + i + 1)
  <2> DEFINE n == snap.start + i + 1
             L == u[1]
  <2>1. n \in Nat /\ n <= Fed(L) /\ Fed(L) \in Nat /\ L \in Nat \ {0}
        /\ SameUpTo(All, All', Fed(L))
    BY <1>1, <1>3, LayerIsNat
  <2> HIDE DEF n, L
  <2>2. SameUpTo(All, All', n)
    <3>1. \A q \in 0..(n - 1) : q \in 0..(Fed(L) - 1)
      BY <2>1
    <3> QED  BY <2>1, <3>1 DEF SameUpTo
  <2>3. CompAt(L, All, n) = CompAt(L, All', n)
    BY <2>1, <2>2, CompAtPrefix
  <2> QED  BY <2>3 DEF n, L
<1>4. \A u \in Unit : Fed(u[1])' = Fed(u[1])
  BY LayerIsNat
<1>5. \A L \in Layer : \A i \in Step :
        snap'.start + i < Fed(L)' => post'.ring[L][i] = RowOf(All', snap'.start + i)
  BY <1>2 DEF PostIs
<1>6. \A u \in Unit : \A i \in Step :
        snap'.start + i < Fed(u[1])' =>
            post'.comp[u][i] = [slots |-> CompAt(u[1], All', snap'.start + i + 1).slots,
                                count |-> (snap'.start + i + 1) \div u[1]]
  BY <1>3, <1>4 DEF PostIs
<1> QED  BY <1>5, <1>6 DEF PostIs

-------------------------------------------------------------------------------
(* The initial state. *)

LEMMA NothingBelow ==
    ASSUME NEW m \in Nat \ {0}, NEW s, NEW t
    PROVE  LastRow(t, 0, m, s) = Blank
  BY DEF LastRow, Congruent

LEMMA EmptyMemory ==
    ASSUME NEW t
    PROVE  /\ RingAt(t, 0) = [s \in RingSlot |-> Blank]
           /\ \A L \in Nat \ {0} :
                 CompAt(L, t, 0) = [slots |-> [i \in StateSlot(L) |-> Blank],
                                    rows |-> [c \in CompRow(L) |-> Blank], count |-> 0]
           /\ \A L \in Nat \ {0} : 0 \div L = 0 /\ 0 < RowCap(L)
<1>1. RingAt(t, 0) = [s \in RingSlot |-> Blank]
  BY NothingBelow, LayerAssumption DEF RingAt
<1>2. ASSUME NEW L \in Nat \ {0}
      PROVE  /\ 0 \div L = 0 /\ 0 < RowCap(L)
             /\ CompAt(L, t, 0) = [slots |-> [i \in StateSlot(L) |-> Blank],
                                   rows |-> [c \in CompRow(L) |-> Blank], count |-> 0]
  <2>1. 0 \div L = 0
    <3>1. 0 \in Nat /\ 0 = 0 * L + 0 /\ 0 \in 0..(L - 1)
      OBVIOUS
    <3> QED  BY <3>1, DivisionIs
  <2>2. (Context + L - 1) \div L \in Nat
    <3>1. Context + L - 1 \in Nat
      BY LayerAssumption
    <3> QED  BY <3>1, Division
  <2>3. 0 < RowCap(L)
    BY <2>2 DEF RowCap
  <2>4. SlotsOf(L, t, 0, 0) = [i \in StateSlot(L) |-> Blank]
    BY NothingBelow DEF SlotsOf
  <2>5. RowsAt(L, t, 0) = [c \in CompRow(L) |-> Blank]
    <3>1. \A c \in CompRow(L) : ~(c < 0)
      BY DEF CompRow
    <3> QED  BY <2>1, <3>1 DEF RowsAt
  <2>6. 0 * L = 0
    OBVIOUS
  <2> QED  BY <2>1, <2>3, <2>4, <2>5, <2>6 DEF CompAt
<1> QED  BY <1>1, <1>2

LEMMA InitInv == Init => Inv
<1> SUFFICES ASSUME Init  PROVE Inv
  OBVIOUS
<1>1. CallInv
  BY EmptySeq DEF Init, CallInv, NoLayer
<1>2. Len(text) = 0 /\ \A L \in Layer : Fed(L) = 0
  BY DEF Init, Fed
<1>3. MemoryInv
  <2>1. ring = [L \in Layer |-> RingAt(All, Fed(L))]
    BY <1>2, EmptyMemory DEF Init
  <2>2. \A u \in Unit : u[1] \in Layer /\ u[1] \in Nat \ {0}
    BY LayerIsNat
  <2>3. comp = [u \in Unit |-> CompAt(u[1], All, Fed(u[1]))]
    <3>1. \A u \in Unit :
            CompAt(u[1], All, Fed(u[1])) = [slots |-> [i \in StateSlot(u[1]) |-> Blank],
                                            rows |-> [c \in CompRow(u[1]) |-> Blank],
                                            count |-> 0]
      BY <1>2, <2>2, EmptyMemory
    <3> QED  BY <3>1 DEF Init
  <2>4. \A u \in Unit : Fed(u[1]) \div u[1] < RowCap(u[1])
    BY <1>2, <2>2, EmptyMemory
  <2>5. hidden = LastRowOf(text)
    BY DEF Init, LastRowOf
  <2> QED  BY <2>1, <2>3, <2>4, <2>5 DEF MemoryInv
<1>4. SnapType /\ SnapInv
  <2>1. MaxPositions \in Nat /\ Context \in Nat
    BY LayerAssumption, SnapshotAssumption
  <2>2. Cardinality({}) = 0 /\ DOMAIN <<>> = {}
    BY FS_EmptySet
  <2>3. /\ \A L \in Layer : DOMAIN snap.ring[L] = {}
        /\ \A u \in Unit : DOMAIN snap.comp[u].rows = {}
    BY <2>2 DEF Init
  <2>4. 0 <= MaxPositions
    BY <2>1
  <2>5. /\ \A L \in Layer : Cardinality(DOMAIN snap.ring[L]) <= MaxPositions
        /\ \A u \in Unit : Cardinality(DOMAIN snap.comp[u].rows) <= MaxPositions
    BY <2>2, <2>3, <2>4
  <2>6. /\ base \in Seq(Token) /\ tried \in Seq(Token)
        /\ captured \in 0..MaxPositions /\ snap.start \in 0..Context
        /\ snap.n \in 0..MaxPositions
    BY <2>1, EmptySeq DEF Init
  <2>7. active \in BOOLEAN /\ snap.ready \in BOOLEAN /\ ~snap.ready
    BY DEF Init
  <2>8. SnapType
    BY <2>5, <2>6, <2>7, Zenon DEF SnapType
  <2> QED  BY <2>7, <2>8 DEF SnapInv
<1>5. PostType
  BY DEF Init, NoPost, PostType
<1>6. BatchInv
  BY DEF Init, BatchInv
<1> QED  BY <1>1, <1>3, <1>4, <1>5, <1>6 DEF Inv

-------------------------------------------------------------------------------
(* A call: its beginning, a position in a layer, its end. *)

LEMMA BeginCallInv ==
    ASSUME Inv, NEW kind \in {"token", "batch"}, NEW ts \in Seq(Token), ts # <<>>,
           BeginCall(kind, ts)
    PROVE  Inv'
<1>1. /\ pc = "idle" /\ toks = <<>> /\ at = NoLayer /\ text \in Seq(Token)
      /\ pc' = kind /\ toks' = ts /\ at' = Min(Layer) /\ step' = 0 /\ text' = text
      /\ UNCHANGED <<modelVars, snapVars, history>>
      /\ MayFeed(Len(ts))
  BY DEF BeginCall, Inv, CallInv, history
<1>2. Len(text) \in Nat /\ Len(ts) \in Nat \ {0} /\ NoLayer \notin Layer /\ Layer \subseteq Nat
  BY <1>1, LayerIsNat, EmptySeq DEF NoLayer
<1>3. \A L \in Layer : Fed(L) = Len(text) /\ Fed(L)' = Fed(L)
  <2> SUFFICES ASSUME NEW L \in Layer  PROVE Fed(L) = Len(text) /\ Fed(L)' = Fed(L)
    OBVIOUS
  <2>1. Fed(L) = Len(text)
    BY <1>1, <1>2 DEF Fed
  <2>2. at' \in Layer /\ at' <= L /\ at' # NoLayer /\ ~(L < at')
    <3>1. at' \in Layer /\ at' <= L
      BY <1>1, FirstLayer
    <3>2. at' \in Nat /\ L \in Nat /\ at' # NoLayer
      BY <1>2, <3>1
    <3> QED  BY <3>1, <3>2
  <2>3. Fed(L)' = Len(text)
    BY <1>1, <1>2, <2>2 DEF Fed
  <2> QED  BY <2>1, <2>3
<1>4. All = text /\ All' = text \o ts
  BY <1>1 DEF All
<1>5. SameUpTo(All, All', Len(text))
  BY <1>1, <1>2, <1>4 DEF SameUpTo
<1>6. CallInv'
  <2>1. at' \in Layer /\ at' # NoLayer
    BY <1>1, <1>2, FirstLayer
  <2> QED  BY <1>1, <1>2, <2>1 DEF CallInv
<1>7. MemoryInv'
  <2>1. UNCHANGED <<modelVars, text>>
    BY <1>1
  <2> QED  BY <1>3, <1>5, <2>1, MemoryKept DEF Inv
<1>8. SnapType' /\ SnapInv' /\ PostType'
  <2>1. UNCHANGED <<snap, post, captured, active, base, tried>>
    BY <1>1 DEF snapVars, history
  <2>2. SnapInv'
    BY <2>1, SnapKept DEF Inv
  <2>3. SnapType'
    BY <2>1 DEF Inv, SnapType
  <2> QED  BY <2>1, <2>2, <2>3 DEF Inv, PostType
<1>9. BatchInv'
  <2> SUFFICES ASSUME active'  PROVE BatchInv'
    BY DEF BatchInv
  <2>1. UNCHANGED <<snap, post, captured, active, base, tried>> /\ active
    BY <1>1 DEF snapVars, history
  <2>2. captured = 0 /\ Len(text) + Len(ts) <= snap.start + snap.n
    BY <1>1, <2>1 DEF MayFeed
  <2>3. BatchInv /\ PostIs
    BY <2>1 DEF Inv, BatchInv
  <2>4. PostIs'
    BY <1>3, <1>5, <2>1, <2>3, PostKept DEF Inv
  <2>5. BatchIs'
    BY <2>1, <2>2 DEF BatchIs
  <2> QED  BY <1>1, <2>1, <2>2, <2>3, <2>4, <2>5 DEF BatchInv
<1> QED  BY <1>6, <1>7, <1>8, <1>9 DEF Inv

LEMMA FeedInv ==
    ASSUME Inv, (\E t \in Token : FeedToken(t)) \/ (\E ts \in Batch : FeedBatch(ts))
    PROVE  Inv'
<1>1. ASSUME NEW t \in Token, FeedToken(t)  PROVE Inv'
  <2>1. <<t>> \in Seq(Token) /\ <<t>> # <<>>
    OBVIOUS
  <2>2. BeginCall("token", <<t>>)
    BY <1>1 DEF FeedToken
  <2> QED  BY <2>1, <2>2, BeginCallInv
<1>2. ASSUME NEW ts \in Batch, FeedBatch(ts)  PROVE Inv'
  <2>1. PICK n \in 1..MaxBatch : ts \in [1..n -> Token]
    BY DEF Batch
  <2>2. ts \in Seq(Token) /\ Len(ts) = n
    BY <2>1
  <2>3. ts # <<>>
    BY <2>2
  <2>4. BeginCall("batch", ts)
    BY <1>2 DEF FeedBatch
  <2> QED  BY <2>2, <2>3, <2>4, BeginCallInv
<1> QED  BY <1>1, <1>2


LEMMA ExitInv ==
    ASSUME Inv, Exit
    PROVE  Inv'
<1>1. /\ Calling /\ RunsOver /\ pc' = "exited"
      /\ UNCHANGED <<modelVars, toks, at, step, snapVars, history>>
      /\ pc \in {"token", "batch"} /\ at \in Layer /\ at # NoLayer /\ step < Len(toks)
      /\ text \in Seq(Token) /\ toks \in Seq(Token) /\ step \in Nat
  BY DEF Exit, Calling, Inv, CallInv
<1>2. UNCHANGED <<modelVars, toks, at, step, snap, post, captured, active, text, base, tried>>
  BY <1>1 DEF snapVars, history
<1>3. \A L \in Layer : Fed(L)' = Fed(L)
  BY <1>1, <1>2 DEF Fed
<1>4. All' = All /\ \A L \in Layer : SameUpTo(All, All', Fed(L))
  BY <1>2 DEF All, SameUpTo
<1>5. Fed(at) = Position /\ Position \in Nat
  <2>1. ~(at < at)
    BY <1>1, LayerIsNat
  <2> QED  BY <1>1, <2>1 DEF Fed, Position
<1>6. Position >= Context
  <2>1. Main(at) \in Unit /\ Overflows(at, comp[Main(at)], Position)
    BY <1>1 DEF RunsOver
  <2>2. Main(at)[1] = at
    BY DEF Main
  <2>3. at \in Nat \ {0}
    BY <2>1, <2>2, LayerIsNat
  <2>4. comp[Main(at)].count = Position \div at
    BY <2>1, <2>2, <1>5 DEF Inv, MemoryInv, CompAt
  <2> DEFINE k == Position \div at
             c == (Context + at - 1) \div at
  <2>5. k \in Nat /\ Position + 1 = (k + 1) * at /\ k + 1 >= 1 + c
    BY <2>1, <2>3, <2>4, <1>5, NextDivision, Division DEF Overflows, EndsBlock, RowCap
  <2>6. c \in Nat /\ Context + at - 1 < c * at + at
    <3>1. Context + at - 1 \in Nat
      BY <2>3, LayerAssumption
    <3> QED  BY <3>1, <2>3, Division
  <2> HIDE DEF k, c
  <2>7. (k + 1) * at >= (1 + c) * at
    BY <2>3, <2>5, <2>6, SMT
  <2>8. (1 + c) * at = c * at + at
    BY <2>3, <2>6, SMT
  <2>9. c * at \in Nat /\ (k + 1) * at \in Nat /\ Context \in Nat
    BY <2>3, <2>5, <2>6, LayerAssumption, SMT
  <2> QED  BY <1>5, <2>3, <2>5, <2>6, <2>7, <2>8, <2>9
<1>7. CallInv'
  <2>1. Position' = Position
    BY <1>2 DEF Position
  <2> QED  BY <1>1, <1>2, <1>6, <2>1 DEF CallInv
<1>8. MemoryInv'
  <2>1. UNCHANGED <<modelVars, text>>
    BY <1>2
  <2> QED  BY <1>3, <1>4, <2>1, MemoryKept DEF Inv
<1>9. SnapType' /\ SnapInv' /\ PostType'
  <2>1. SnapInv'
    BY <1>2, SnapKept DEF Inv
  <2>2. SnapType'
    BY <1>2 DEF Inv, SnapType
  <2> QED  BY <1>2, <2>1, <2>2 DEF Inv, PostType
<1>10. BatchInv'
  <2> SUFFICES ASSUME active'  PROVE BatchInv'
    BY DEF BatchInv
  <2>1. BatchInv /\ PostIs /\ BatchIs /\ active
    BY <1>2 DEF Inv, BatchInv
  <2>2. PostIs'
    BY <1>2, <1>3, <1>4, <2>1, PostKept DEF Inv
  <2>3. ~(captured > 0)
    BY <1>1, <2>1 DEF BatchIs
  <2>4. BatchIs'
    BY <1>2, <2>3 DEF BatchIs
  <2> QED  BY <1>2, <2>1, <2>2, <2>4 DEF BatchInv
<1> QED  BY <1>7, <1>8, <1>9, <1>10 DEF Inv


(* A layer is fed one more position, and no other layer is. *)
LEMMA AttendFed ==
    ASSUME CallInv, Attend
    PROVE  /\ at \in Layer /\ All' = All /\ CallInv'
           /\ Fed(at) = Position /\ Position \in Nat /\ Len(text) <= Position
           /\ Position < Len(text) + Len(toks)
           /\ Row = RowOf(All, Position)
           /\ \A L \in Layer : Fed(L)' = IF L = at THEN Position + 1 ELSE Fed(L)
<1>1. /\ pc \in {"token", "batch"} /\ at \in Layer /\ at # NoLayer /\ step < Len(toks)
      /\ text \in Seq(Token) /\ toks \in Seq(Token) /\ step \in Nat
      /\ UNCHANGED <<pc, toks, text>>
      /\ IF step + 1 < Len(toks) THEN step' = step + 1 /\ at' = at
                                 ELSE step' = 0 /\ at' = NextLayer
  BY DEF Attend, Calling, CallInv, history
<1>2. /\ Len(text) \in Nat /\ Len(toks) \in Nat /\ Layer \subseteq Nat
      /\ \A L \in Layer : L # NoLayer
  BY <1>1, LayerIsNat DEF NoLayer
<1>3. All' = All
  BY <1>1 DEF All
<1>4. Fed(at) = Position
  <2>1. ~(at < at)
    BY <1>1, <1>2
  <2> QED  BY <1>1, <2>1 DEF Fed, Position
<1>5. Position \in Nat /\ Len(text) <= Position /\ Position < Len(text) + Len(toks)
  BY <1>1, <1>2 DEF Position
<1>6. Row = RowOf(All, Position)
  <2>1. (text \o toks)[Len(text) + (step + 1)] = toks[step + 1]
    BY <1>1, <1>2
  <2>2. Position + 1 = Len(text) + (step + 1)
    BY <1>1, <1>2 DEF Position
  <2> QED  BY <2>1, <2>2 DEF Row, RowOf, All
<1>7. CASE step + 1 < Len(toks)
  <2>1. step' = step + 1 /\ at' = at
    BY <1>1, <1>7
  <2>2. ASSUME NEW L \in Layer
        PROVE  Fed(L)' = IF L = at THEN Position + 1 ELSE Fed(L)
    <3>1. CASE L = at
      <4>1. ~(at < at)
        BY <1>1, <1>2
      <4> QED  BY <1>1, <1>2, <2>1, <3>1, <4>1 DEF Fed, Position
    <3>2. CASE L # at
      BY <1>1, <2>1, <3>2 DEF Fed
    <3> QED  BY <3>1, <3>2
  <2>3. CallInv'
    BY <1>1, <1>2, <1>7, <2>1 DEF CallInv
  <2> QED  BY <1>1, <1>3, <1>4, <1>5, <1>6, <2>2, <2>3
<1>8. CASE ~(step + 1 < Len(toks))
  <2>1. step' = 0 /\ at' = NextLayer /\ Len(toks) = step + 1
    BY <1>1, <1>2, <1>8
  <2>2. \/ at' = NoLayer /\ \A L \in Layer : L <= at
        \/ at' \in Layer /\ at' > at /\ \A L \in Layer : L <= at \/ at' <= L
    BY <1>1, <2>1, NextLayerIs
  <2>3. ASSUME NEW L \in Layer
        PROVE  Fed(L)' = IF L = at THEN Position + 1 ELSE Fed(L)
    <3>0. L \in Nat /\ at \in Nat /\ (at' = NoLayer \/ at' \in Nat)
      BY <1>1, <1>2, <2>2
    <3>1. CASE L = at
      <4>1. at' = NoLayer \/ L < at'
        BY <2>2, <3>1
      <4>2. Fed(L)' = Len(text) + Len(toks)
        BY <1>1, <4>1 DEF Fed
      <4> QED  BY <1>1, <1>2, <2>1, <3>1, <4>2 DEF Position
    <3>2. CASE L < at
      <4>1. at' = NoLayer \/ L < at'
        BY <2>2, <3>0, <3>2
      <4>2. Fed(L)' = Len(text) + Len(toks)
        BY <1>1, <4>1 DEF Fed
      <4>3. Fed(L) = Len(text) + Len(toks)
        BY <1>1, <3>2 DEF Fed
      <4> QED  BY <3>0, <3>2, <4>2, <4>3
    <3>3. CASE L > at
      <4>1. at' # NoLayer /\ ~(L < at')
        <5>1. ~(L <= at)
          BY <3>0, <3>3
        <5>2. at' \in Layer /\ at' <= L
          BY <2>2, <5>1
        <5>3. at' \in Nat /\ at' # NoLayer
          BY <1>2, <5>2
        <5> QED  BY <3>0, <5>2, <5>3
      <4>2. Fed(L)' = Len(text)
        BY <1>1, <1>2, <2>1, <4>1 DEF Fed
      <4>3. Fed(L) = Len(text)
        BY <1>1, <1>2, <3>0, <3>3 DEF Fed
      <4> QED  BY <3>0, <3>3, <4>2, <4>3
    <3> QED  BY <3>0, <3>1, <3>2, <3>3
  <2>4. CallInv'
    <3>1. at' \in Layer \cup {NoLayer} /\ toks # <<>> /\ 0 < Len(toks)
      BY <1>1, <1>2, <2>1, <2>2
    <3> QED  BY <1>1, <2>1, <3>1 DEF CallInv
  <2> QED  BY <1>1, <1>3, <1>4, <1>5, <1>6, <2>3, <2>4
<1> QED  BY <1>7, <1>8

(* The compressors of the layer go on, and have a place for their next row. *)
LEMMA AttendMemory ==
    ASSUME CallInv, MemoryInv, Attend
    PROVE  /\ MemoryInv'
           /\ ring'[at][Position % Window] = RowOf(All, Position)
           /\ \A u \in Unit : u[1] = at => comp'[u] = CompAt(at, All, Position + 1)
<1>1. /\ at \in Layer /\ All' = All
      /\ Fed(at) = Position /\ Position \in Nat
      /\ Row = RowOf(All, Position)
      /\ \A L \in Layer : Fed(L)' = IF L = at THEN Position + 1 ELSE Fed(L)
  BY AttendFed
<1>2. /\ ~RunsOver /\ UNCHANGED <<hidden, text>>
      /\ ring' = [ring EXCEPT ![at] = Written(ring[at], Position, Row)]
      /\ comp' = [u \in Unit |-> IF u[1] = at THEN Compressed(at, comp[u], Position, Row)
                                              ELSE comp[u]]
  BY DEF Attend, history
<1>3. ring' = [L \in Layer |-> RingAt(All', Fed(L)')]
  <2>1. ring[at] = RingAt(All, Position)
    BY <1>1 DEF MemoryInv
  <2>2. Written(ring[at], Position, Row) = RingAt(All, Position + 1)
    BY <1>1, <2>1, RingAtNext
  <2>3. ring' = [L \in Layer |-> IF L = at THEN RingAt(All, Position + 1)
                                           ELSE RingAt(All, Fed(L))]
    BY <1>2, <2>2 DEF MemoryInv
  <2>4. \A L \in Layer : RingAt(All', Fed(L)') = IF L = at THEN RingAt(All, Position + 1)
                                                          ELSE RingAt(All, Fed(L))
    BY <1>1
  <2> QED  BY <2>3, <2>4
<1>4. ring'[at][Position % Window] = RowOf(All, Position)
  <2>1. Position % Window \in RingSlot
    BY <1>1, Division, LayerAssumption DEF RingSlot
  <2>2. ring'[at] = RingAt(All, Position + 1)
    BY <1>1, <1>3
  <2>3. RingAt(All, Position + 1)[Position % Window]
        = LastRow(All, Position + 1, Window, Position % Window)
    BY <2>1, Zenon DEF RingAt
  <2>4. Window \in Nat \ {0}
    BY LayerAssumption
  <2>5. LastRow(All, Position + 1, Window, Position % Window) = RowOf(All, Position)
    BY <1>1, <2>4, LastRowHit, Zenon
  <2> QED  BY <2>2, <2>3, <2>5, Zenon
<1>5. ASSUME NEW u \in Unit, u[1] = at
      PROVE  /\ Compressed(at, comp[u], Position, Row) = CompAt(at, All, Position + 1)
             /\ (Position + 1) \div at < RowCap(at)
  <2>1. at \in Nat \ {0} /\ Main(at) \in Unit /\ Main(at)[1] = at
    BY <1>5, LayerIsNat DEF Unit, Main, Index
  <2>2. /\ comp[u] = CompAt(at, All, Position)
        /\ comp[Main(at)].count = Position \div at
        /\ Position \div at < RowCap(at)
    BY <1>1, <1>5, <2>1 DEF MemoryInv, CompAt
  <2>3. Position \div at \in CompRow(at) /\ RowCap(at) \in Int
    <3>1. Context + at - 1 \in Nat
      BY <2>1, LayerAssumption
    <3>2. RowCap(at) \in Nat
      BY <2>1, <3>1, Division DEF RowCap
    <3>3. Position \div at \in Nat
      BY <1>1, <2>1, Division
    <3> QED  BY <2>2, <3>2, <3>3 DEF CompRow
  <2>4. Compressed(at, comp[u], Position, Row) = CompAt(at, All, Position + 1)
    BY <1>1, <2>1, <2>2, <2>3, CompAtNext
  <2>5. EndsBlock(at, Position) => (Position \div at) + 1 < RowCap(at)
    <3>1. EndsBlock(at, Position) => ~((Position \div at) + 1 >= RowCap(at))
      BY <1>2, <2>1, <2>2 DEF RunsOver, Overflows
    <3>2. Position \div at \in Nat
      BY <1>1, <2>1, Division
    <3> QED  BY <2>3, <3>1, <3>2
  <2>6. (Position + 1) \div at < RowCap(at)
    BY <1>1, <2>1, <2>2, <2>5, NextDivision DEF EndsBlock
  <2> QED  BY <2>4, <2>6
<1>6. comp' = [u \in Unit |-> CompAt(u[1], All', Fed(u[1])')]
  <2>1. \A u \in Unit : u[1] \in Layer
    BY LayerIsNat
  <2>2. \A u \in Unit : CompAt(u[1], All', Fed(u[1])')
                        = IF u[1] = at THEN CompAt(at, All, Position + 1)
                                       ELSE CompAt(u[1], All, Fed(u[1]))
    BY <1>1, <2>1
  <2>3. \A u \in Unit : u[1] # at => comp[u] = CompAt(u[1], All, Fed(u[1]))
    BY DEF MemoryInv
  <2>4. \A u \in Unit : u[1] = at => Compressed(at, comp[u], Position, Row)
                                     = CompAt(at, All, Position + 1)
    BY <1>5
  <2> QED  BY <1>2, <2>2, <2>3, <2>4
<1>7. \A u \in Unit : Fed(u[1])' \div u[1] < RowCap(u[1])
  <2> SUFFICES ASSUME NEW u \in Unit  PROVE Fed(u[1])' \div u[1] < RowCap(u[1])
    OBVIOUS
  <2>1. u[1] \in Layer
    BY LayerIsNat
  <2>2. CASE u[1] = at
    BY <1>1, <1>5, <2>1, <2>2
  <2>3. CASE u[1] # at
    BY <1>1, <2>1, <2>3 DEF MemoryInv
  <2> QED  BY <2>2, <2>3
<1>8. hidden' = LastRowOf(text')
  BY <1>2 DEF MemoryInv
<1>9. \A u \in Unit : u[1] = at => comp'[u] = CompAt(at, All, Position + 1)
  BY <1>2, <1>5
<1> QED  BY <1>3, <1>4, <1>6, <1>7, <1>8, <1>9 DEF MemoryInv


LEMMA AttendInv ==
    ASSUME Inv, Attend
    PROVE  Inv'
<1>1. /\ at \in Layer /\ All' = All /\ CallInv'
      /\ Fed(at) = Position /\ Position \in Nat /\ Len(text) <= Position
      /\ Position < Len(text) + Len(toks)
      /\ \A L \in Layer : Fed(L)' = IF L = at THEN Position + 1 ELSE Fed(L)
  BY AttendFed DEF Inv
<1>2. /\ MemoryInv'
      /\ ring'[at][Position % Window] = RowOf(All, Position)
      /\ \A u \in Unit : u[1] = at => comp'[u] = CompAt(at, All, Position + 1)
  BY AttendMemory DEF Inv
<1>3. /\ UNCHANGED <<toks, snap, captured, active, text, base, tried>>
      /\ post' = IF active /\ InRange(Position) THEN Captured(at) ELSE post
      /\ pc # "idle" /\ pc' = pc
  BY DEF Attend, Calling, history
<1>4. SnapType' /\ SnapInv'
  <2>1. SnapInv'
    BY <1>3, SnapKept DEF Inv
  <2>2. SnapType'
    BY <1>3 DEF Inv, SnapType
  <2> QED  BY <2>1, <2>2
<1>5. CASE ~active
  <2>1. post' = post /\ ~active'
    BY <1>3, <1>5
  <2>2. PostType'
    BY <2>1 DEF Inv, PostType
  <2> QED  BY <1>1, <1>2, <1>4, <2>1, <2>2 DEF Inv, BatchInv
<1>6. CASE active
  <2>1. /\ snap.ready /\ Len(text) + Len(toks) <= snap.start + snap.n
        /\ snap.start <= Len(text) /\ SubSeq(text, 1, snap.start) = base
        /\ PostIs /\ BatchIs
    BY <1>6 DEF Inv, BatchInv
  <2>2. /\ Len(text) \in Nat /\ Len(toks) \in Nat /\ Layer \subseteq Nat
        /\ snap.start \in Nat /\ snap.n \in 0..MaxPositions /\ MaxPositions \in Nat
    BY LayerIsNat, LayerAssumption, SnapshotAssumption DEF Inv, CallInv, SnapType
  <2> DEFINE j == Position - snap.start
  <2>3. j \in Step /\ snap.start + j = Position /\ InRange(Position)
    BY <1>1, <2>1, <2>2 DEF Step, InRange
  <2>4. post' = Captured(at)
    BY <1>3, <1>6, <2>3
  <2> HIDE DEF j
  <2>5. /\ DOMAIN post.ring = Layer /\ \A L \in Layer : DOMAIN post.ring[L] = Step
        /\ DOMAIN post.comp = Unit /\ \A u \in Unit : DOMAIN post.comp[u] = Step
        /\ DOMAIN post.hidden = Step
    BY DEF Inv, PostType
  <2>6. post'.ring = [post.ring EXCEPT ![at][j] = RowOf(All, Position)]
    BY <1>2, <2>4 DEF Captured, j
  <2>7. \A u \in Unit : post'.comp[u] =
          IF u[1] # at THEN post.comp[u]
          ELSE [post.comp[u] EXCEPT ![j] = [slots |-> CompAt(at, All, Position + 1).slots,
                                            count |-> (Position + 1) \div at]]
    <3>1. \A u \in Unit : u[1] = at => /\ comp'[u].slots = CompAt(at, All, Position + 1).slots
                                       /\ comp'[u].count = (Position + 1) \div at
      BY <1>2 DEF CompAt
    <3>2. post'.comp = [u \in Unit |->
             IF u[1] # at THEN post.comp[u]
             ELSE [post.comp[u] EXCEPT ![j] =
                     [slots |-> comp'[u].slots, count |-> comp'[u].count]]]
      BY <2>4 DEF Captured, j
    <3> QED  BY <3>1, <3>2
  <2>8. post'.hidden = post.hidden
    BY <2>4 DEF Captured
  <2>9. DOMAIN post'.comp = Unit
    BY <2>4 DEF Captured
  <2>10. PostType'
    <3>1. DOMAIN post'.ring = Layer /\ \A L \in Layer : DOMAIN post'.ring[L] = Step
      BY <1>1, <2>5, <2>6
    <3>2. \A u \in Unit : DOMAIN post'.comp[u] = Step
      BY <2>5, <2>7
    <3>3. DOMAIN post' = {"ring", "comp", "hidden"}
      BY <2>4 DEF Captured
    <3> QED  BY <2>5, <2>8, <2>9, <3>1, <3>2, <3>3 DEF PostType, Step
  <2>11. PostIs'
    <3>1. ASSUME NEW L \in Layer, NEW i \in Step, snap.start + i < Fed(L)'
          PROVE  post'.ring[L][i] = RowOf(All, snap.start + i)
      <4>1. CASE L = at /\ i = j
        BY <1>1, <2>3, <2>5, <2>6, <4>1
      <4>2. CASE L = at /\ i # j
        <5>1. i \in Nat /\ snap.start + i < Position
          BY <1>1, <2>2, <2>3, <3>1, <4>2 DEF Step
        <5>2. post'.ring[L][i] = post.ring[L][i]
          BY <2>5, <2>6, <4>2
        <5> QED  BY <1>1, <2>1, <4>2, <5>1, <5>2 DEF PostIs
      <4>3. CASE L # at
        <5>1. post'.ring[L][i] = post.ring[L][i]
          BY <2>5, <2>6, <4>3
        <5> QED  BY <1>1, <2>1, <3>1, <4>3, <5>1 DEF PostIs
      <4> QED  BY <4>1, <4>2, <4>3
    <3>2. ASSUME NEW u \in Unit, NEW i \in Step, snap.start + i < Fed(u[1])'
          PROVE  post'.comp[u][i] = [slots |-> CompAt(u[1], All, snap.start + i + 1).slots,
                                     count |-> (snap.start + i + 1) \div u[1]]
      <4>0. u[1] \in Layer
        BY LayerIsNat
      <4>1. CASE u[1] = at /\ i = j
        <5>1. post'.comp[u] = [post.comp[u] EXCEPT
                 ![j] = [slots |-> CompAt(at, All, Position + 1).slots,
                         count |-> (Position + 1) \div at]]
          BY <2>7, <4>1
        <5>2. post'.comp[u][j] = [slots |-> CompAt(at, All, Position + 1).slots,
                                  count |-> (Position + 1) \div at]
          BY <2>3, <2>5, <5>1
        <5>3. u[1] = at /\ i = j /\ Position = snap.start + i
          BY <2>3, <4>1
        <5> QED  BY <5>2, <5>3, Zenon
      <4>2. CASE u[1] = at /\ i # j
        <5>1. i \in Nat /\ snap.start + i < Position
          BY <1>1, <2>2, <2>3, <3>2, <4>0, <4>2 DEF Step
        <5>2. post'.comp[u][i] = post.comp[u][i]
          BY <2>5, <2>7, <4>2
        <5>3. snap.start + i < Fed(u[1])
          BY <1>1, <4>2, <5>1
        <5> QED  BY <2>1, <5>2, <5>3 DEF PostIs
      <4>3. CASE u[1] # at
        <5>1. post'.comp[u][i] = post.comp[u][i]
          BY <2>7, <4>3
        <5>2. snap.start + i < Fed(u[1])
          BY <1>1, <3>2, <4>0, <4>3
        <5> QED  BY <2>1, <5>1, <5>2 DEF PostIs
      <4> QED  BY <4>1, <4>2, <4>3
    <3>3. \A L \in Layer : \A i \in Step :
             snap'.start + i < Fed(L)' => post'.ring[L][i] = RowOf(All', snap'.start + i)
      BY <1>1, <1>3, <3>1
    <3>4. \A u \in Unit : \A i \in Step :
             snap'.start + i < Fed(u[1])' =>
               post'.comp[u][i] = [slots |-> CompAt(u[1], All', snap'.start + i + 1).slots,
                                   count |-> (snap'.start + i + 1) \div u[1]]
      BY <1>1, <1>3, <3>2
    <3> QED  BY <3>3, <3>4 DEF PostIs, Step
  <2>12. BatchIs'
    BY <1>3, <2>1 DEF BatchIs
  <2>13. BatchInv'
    BY <1>3, <2>1, <2>11, <2>12 DEF BatchInv
  <2> QED  BY <1>1, <1>2, <1>4, <2>10, <2>13 DEF Inv
<1> QED  BY <1>5, <1>6

LEMMA EndCallInv ==
    ASSUME Inv, EndCall
    PROVE  Inv'
<1>1. /\ pc \in {"token", "batch"} /\ at = NoLayer /\ step = 0 /\ pc' = "idle"
      /\ text' = text \o toks /\ hidden' = RowOf(text', Len(text') - 1)
      /\ toks' = <<>> /\ UNCHANGED <<ring, comp, at, step, snap, active, base>>
      /\ text \in Seq(Token) /\ toks \in Seq(Token) /\ toks # <<>>
  BY DEF EndCall, Inv, CallInv
<1>2. /\ IsAnnounced => /\ post' = [post EXCEPT !.hidden =
                              [i \in Step |-> IF i < Len(toks)
                                              THEN RowOf(text', Len(text) + i) ELSE @[i]]]
                        /\ captured' = Len(toks) /\ tried' = toks
      /\ ~IsAnnounced => UNCHANGED <<post, captured, tried>>
  BY DEF EndCall
<1>3. text' \in Seq(Token) /\ text' # <<>> /\ Len(text') = Len(text) + Len(toks)
      /\ Len(text) \in Nat /\ Len(toks) \in Nat \ {0}
  BY <1>1
<1>4. All' = All /\ All = text'
  <2>1. text' \o <<>> = text'
    BY <1>3
  <2> QED  BY <1>1, <2>1 DEF All
<1>5. \A L \in Layer : Fed(L)' = Fed(L) /\ Fed(L) = Len(text) + Len(toks)
  BY <1>1, <1>3 DEF Fed
<1>6. CallInv'
  BY <1>1, <1>3, EmptySeq DEF CallInv, Inv
<1>7. MemoryInv'
  <2>1. hidden' = LastRowOf(text')
    BY <1>1, <1>3 DEF LastRowOf
  <2>2. \A u \in Unit : u[1] \in Layer
    BY LayerIsNat
  <2> QED  BY <1>1, <1>4, <1>5, <2>1, <2>2 DEF Inv, MemoryInv
<1>8. SnapInv'
  BY <1>1, SnapKept DEF Inv
<1>9. /\ post'.ring = post.ring /\ post'.comp = post.comp
      /\ IsAnnounced => post'.hidden = [k \in Step |->
                          IF k < Len(toks) THEN RowOf(text', Len(text) + k) ELSE post.hidden[k]]
      /\ PostType'
  <2>1. DOMAIN post = {"ring", "comp", "hidden"} /\ DOMAIN post.hidden = Step
    BY DEF Inv, PostType
  <2>2. CASE IsAnnounced
    <3> DEFINE h == [k \in Step |->
                       IF k < Len(toks) THEN RowOf(text', Len(text) + k) ELSE post.hidden[k]]
    <3>1. post' = [post EXCEPT !.hidden = h]
      BY <1>2, <2>2
    <3>2. DOMAIN h = Step
      OBVIOUS
    <3> HIDE DEF h
    <3>3. post'.ring = post.ring /\ post'.comp = post.comp /\ post'.hidden = h
          /\ DOMAIN post' = {"ring", "comp", "hidden"}
      BY <2>1, <3>1
    <3>4. PostType'
      BY <3>2, <3>3 DEF Inv, PostType, Step
    <3> QED  BY <3>3, <3>4 DEF h
  <2>3. CASE ~IsAnnounced
    BY <1>2, <2>3 DEF Inv, PostType
  <2> QED  BY <2>2, <2>3
<1>10. IsAnnounced => /\ active /\ Len(text) = snap.start /\ Len(toks) = snap.n
                      /\ Len(toks) \in 0..MaxPositions
  BY DEF IsAnnounced, Inv, SnapType
<1>11. SnapType'
  <2>1. captured' \in 0..MaxPositions /\ tried' \in Seq(Token)
    BY <1>1, <1>2, <1>10 DEF Inv, SnapType
  <2> QED  BY <1>1, <2>1 DEF Inv, SnapType
<1>12. BatchInv'
  <2> SUFFICES ASSUME active'  PROVE BatchInv'
    BY DEF BatchInv
  <2>1. /\ active /\ snap.ready /\ Len(text) + Len(toks) <= snap.start + snap.n
        /\ snap.start <= Len(text) /\ SubSeq(text, 1, snap.start) = base
        /\ PostIs /\ BatchIs
    BY <1>1 DEF Inv, BatchInv
  <2>2. snap.start \in Nat
    BY LayerAssumption DEF Inv, SnapType
  <2>3. SubSeq(text', 1, snap.start) = base
    <3>1. /\ SubSeq(text', 1, snap.start) \in Seq(Token)
          /\ Len(SubSeq(text', 1, snap.start)) = snap.start
          /\ \A i \in 1..snap.start : SubSeq(text', 1, snap.start)[i] = text'[i]
      BY <1>3, <2>1, <2>2
    <3>2. /\ SubSeq(text, 1, snap.start) \in Seq(Token)
          /\ Len(SubSeq(text, 1, snap.start)) = snap.start
          /\ \A i \in 1..snap.start : SubSeq(text, 1, snap.start)[i] = text[i]
      BY <1>1, <1>3, <2>1, <2>2
    <3>3. \A i \in 1..snap.start : text'[i] = text[i]
      BY <1>1, <1>3, <2>1, <2>2
    <3>4. SubSeq(text', 1, snap.start) = SubSeq(text, 1, snap.start)
      <4> DEFINE b == SubSeq(text', 1, snap.start)
                 c == SubSeq(text, 1, snap.start)
      <4>1. /\ b \in Seq(Token) /\ c \in Seq(Token) /\ Len(b) = Len(c)
            /\ \A i \in 1..Len(b) : b[i] = c[i]
        BY <3>1, <3>2, <3>3
      <4> HIDE DEF b, c
      <4>2. b = c
        BY <4>1, SeqEqual
      <4> QED  BY <4>2 DEF b, c
    <3> QED  BY <2>1, <3>4
  <2>4. PostIs'
    <3>1. \A u \in Unit : u[1] \in Layer
      BY LayerIsNat
    <3> QED  BY <1>1, <1>4, <1>5, <1>9, <2>1, <3>1 DEF PostIs, Step
  <2>5. BatchIs'
    <3>1. CASE IsAnnounced
      <4>1. text = base
        <5>1. SubSeq(text, 1, Len(text)) = text
          BY <1>1, SubSeqFull
        <5> QED  BY <1>10, <2>1, <3>1, <5>1
      <4>2. text' = base' \o tried' /\ captured' = Len(tried')
        BY <1>1, <1>2, <3>1, <4>1
      <4>3. ASSUME NEW i \in 0..(captured' - 1)
            PROVE  post'.hidden[i] = RowOf(text', snap'.start + i)
        <5>1. i \in Step /\ i < Len(toks)
          BY <1>2, <1>3, <1>10, <3>1, SnapshotAssumption, LayerAssumption DEF Step
        <5> QED  BY <1>1, <1>9, <1>10, <3>1, <5>1
      <4> QED  BY <1>1, <4>2, <4>3 DEF BatchIs
    <3>2. CASE ~IsAnnounced
      <4>1. ~(captured > 0)
        BY <1>1, <2>1 DEF BatchIs
      <4> QED  BY <1>2, <3>2, <4>1 DEF BatchIs
    <3> QED  BY <3>1, <3>2
  <2>6. Len(text') + Len(toks') <= snap'.start + snap'.n /\ snap'.start <= Len(text')
    BY <1>1, <1>3, <2>1, <2>2, EmptySeq
  <2> QED  BY <1>1, <2>1, <2>3, <2>4, <2>5, <2>6 DEF BatchInv
<1> QED  BY <1>6, <1>7, <1>8, <1>9, <1>11, <1>12 DEF Inv


-------------------------------------------------------------------------------
(* The snapshot: taken, restored, and a prefix of the batch committed. *)

LEMMA BlocksGrow ==
    ASSUME NEW n \in Nat, NEW k \in Nat, NEW L \in Nat \ {0}
    PROVE  (n + k) \div L <= (n \div L) + k
<1> DEFINE c == n \div L
           q == (n + k) \div L
<1>1. c \in Nat /\ n < c * L + L
  BY Division
<1>2. q \in Nat /\ q * L <= n + k
  <2>1. n + k \in Nat
    OBVIOUS
  <2> QED  BY <2>1, Division
<1> HIDE DEF c, q
<1>3. q <= c + k
  <2> SUFFICES ASSUME q >= c + k + 1  PROVE FALSE
    BY <1>1, <1>2
  <2>1. q * L >= (c + k + 1) * L
    BY <1>1, <1>2, SMT
  <2>2. (c + k + 1) * L = c * L + k * L + L
    BY <1>1, SMT
  <2>3. k * L >= k
    BY SMT
  <2>4. c * L \in Nat /\ k * L \in Nat /\ q * L \in Nat
    BY <1>1, <1>2, SMT
  <2> QED  BY <1>1, <1>2, <2>1, <2>2, <2>3, <2>4
<1> QED  BY <1>3 DEF c, q

LEMMA RowCapIsNat ==
    ASSUME NEW L \in Nat \ {0}
    PROVE  RowCap(L) \in Nat \ {0}
<1>1. Context + L - 1 \in Nat
  BY LayerAssumption
<1>2. (Context + L - 1) \div L \in Nat
  BY <1>1, Division
<1> QED  BY <1>2 DEF RowCap

(* The rows saved at n put back behind those of the first k positions: no   *)
(* row of the m positions fed since is left.                               *)
LEMMA RowsPutBack ==
    ASSUME NEW L \in Nat \ {0}, NEW t, NEW v,
           NEW n \in Nat, NEW k \in Nat, NEW m \in Nat,
           n <= k, k <= m, m <= n + MaxPositions,
           m \div L < RowCap(L), SameUpTo(t, v, k)
    PROVE  RowsBack(RowsAt(L, t, m), BlankRows(L, n), k \div L, (k \div L) - (n \div L))
           = RowsAt(L, v, k)
<1> DEFINE a == k \div L
           b == n \div L
           c == m \div L
           M == Min({RowCap(L) - b, MaxPositions})
           saved == BlankRows(L, n)
<1>1. a \in Nat /\ b \in Nat /\ c \in Nat /\ b <= a /\ a <= c /\ c < RowCap(L)
  BY Division, DivisionMonotone
<1>2. RowCap(L) \in Nat /\ MaxPositions \in Nat
  BY RowCapIsNat, LayerAssumption, SnapshotAssumption
<1>3. c <= b + MaxPositions
  <2>1. n + MaxPositions \in Nat
    BY <1>2
  <2>2. c <= (n + MaxPositions) \div L
    BY <2>1, DivisionMonotone
  <2>3. (n + MaxPositions) \div L <= b + MaxPositions
    BY <1>2, BlocksGrow
  <2>4. (n + MaxPositions) \div L \in Nat
    BY <2>1, Division
  <2> HIDE DEF b, c
  <2> QED  BY <1>1, <1>2, <2>2, <2>3, <2>4
<1>4. M = IF RowCap(L) - b <= MaxPositions THEN RowCap(L) - b ELSE MaxPositions
  <2>1. RowCap(L) - b \in Nat
    BY <1>1, <1>2
  <2> HIDE DEF b
  <2> QED  BY <1>2, <2>1, MinOfTwo
<1>5. DOMAIN saved = 0..(M - 1) /\ \A i \in 0..(M - 1) : saved[i] = Blank
  BY Zenon DEF BlankRows
<1>6. ASSUME NEW j \in CompRow(L), j < a
      PROVE  SlotsOf(L, t, j * L, (j + 1) * L) = SlotsOf(L, v, j * L, (j + 1) * L)
  <2>1. j \in Nat
    BY DEF CompRow
  <2> QED  BY <1>6, <2>1, RowsPrefix
<1> DEFINE old == RowsAt(L, t, m)
           new == RowsAt(L, v, k)
<1>7. /\ DOMAIN old = CompRow(L) /\ DOMAIN new = CompRow(L)
      /\ new = [j \in CompRow(L) |-> new[j]]
  BY DEF RowsAt
<1>8. /\ \A j \in CompRow(L) : j < c => old[j] = SlotsOf(L, t, j * L, (j + 1) * L)
      /\ \A j \in CompRow(L) : ~(j < c) => old[j] = Blank
      /\ \A j \in CompRow(L) : j < a => new[j] = SlotsOf(L, v, j * L, (j + 1) * L)
      /\ \A j \in CompRow(L) : ~(j < a) => new[j] = Blank
  BY DEF RowsAt
<1> HIDE DEF a, b, c, M, saved, old, new
<1>9. ASSUME NEW j \in CompRow(L)
      PROVE  (IF a <= j /\ j - a + (a - b) \in DOMAIN saved
              THEN saved[j - a + (a - b)] ELSE old[j]) = new[j]
  <2>1. j \in Nat /\ j < RowCap(L)
    BY <1>2 DEF CompRow
  <2>2. j - a + (a - b) = j - b
    BY <1>1, <2>1
  <2>3. CASE j < a
    BY <1>1, <1>6, <1>8, <2>1, <2>3
  <2>4. CASE a <= j
    <3>1. new[j] = Blank
      BY <1>1, <1>8, <2>1, <2>4
    <3>2. CASE j - b \in 0..(M - 1)
      BY <1>5, <2>2, <2>4, <3>1, <3>2
    <3>3. CASE j - b \notin 0..(M - 1)
      <4>1. j >= b + MaxPositions
        BY <1>1, <1>2, <1>4, <2>1, <2>4, <3>3
      <4>2. ~(j < c)
        BY <1>1, <1>2, <1>3, <2>1, <4>1
      <4>3. old[j] = Blank
        BY <1>8, <4>2
      <4> QED  BY <1>5, <2>2, <3>1, <3>3, <4>3
    <3> QED  BY <3>2, <3>3
  <2> QED  BY <1>1, <2>1, <2>3, <2>4
<1>10. RowsBack(old, saved, a, a - b) = new
  BY <1>7, <1>9 DEF RowsBack
<1> QED  BY <1>10 DEF a, b, saved, old, new

LEMMA RowsBackIs ==
    ASSUME NEW L \in Nat \ {0}, NEW t, NEW v,
           NEW n \in Nat, NEW k \in Nat, NEW m \in Nat,
           n <= k, k <= m, m <= n + MaxPositions,
           BlocksIn(L, m) < RowCap(L), SameUpTo(t, v, k)
    PROVE  RowsBack(RowsAt(L, t, m), BlankRows(L, n), BlocksIn(L, k),
                    BlocksIn(L, k) - BlocksIn(L, n))
           = RowsAt(L, v, k)
  BY RowsPutBack DEF BlocksIn

(* Between two calls every layer has been fed the text. *)
LEMMA IdleFed ==
    ASSUME Inv, pc = "idle"
    PROVE  /\ text \in Seq(Token) /\ Len(text) \in Nat /\ toks = <<>> /\ at = NoLayer
           /\ All = text /\ \A L \in Layer : Fed(L) = Len(text)
           /\ ring = [L \in Layer |-> RingAt(text, Len(text))]
           /\ comp = [u \in Unit |-> CompAt(u[1], text, Len(text))]
           /\ hidden = LastRowOf(text)
           /\ \A u \in Unit : /\ u[1] \in Layer /\ u[1] \in Nat \ {0}
                              /\ Len(text) \div u[1] < RowCap(u[1])
<1>1. text \in Seq(Token) /\ toks = <<>> /\ at = NoLayer
  BY DEF Inv, CallInv
<1>2. Len(text) \in Nat /\ All = text
  BY <1>1 DEF All
<1>3. \A L \in Layer : Fed(L) = Len(text)
  BY <1>2 DEF Fed
<1>4. \A u \in Unit : u[1] \in Layer /\ u[1] \in Nat \ {0}
  BY LayerIsNat
<1> QED  BY <1>1, <1>2, <1>3, <1>4 DEF Inv, MemoryInv

(* What it takes for the invariant to hold between two calls. *)
LEMMA IdleInv ==
    ASSUME CallInv, pc = "idle",
           ring' = [L \in Layer |-> RingAt(text', Len(text'))],
           comp' = [u \in Unit |-> CompAt(u[1], text', Len(text'))],
           hidden' = LastRowOf(text'),
           \A u \in Unit : Len(text') \div u[1] < RowCap(u[1]),
           text' \in Seq(Token), UNCHANGED callVars
    PROVE  /\ CallInv' /\ MemoryInv' /\ All' = text'
           /\ \A L \in Layer : Fed(L)' = Len(text')
<1>1. toks = <<>> /\ at = NoLayer /\ UNCHANGED <<pc, toks, at, step>>
  BY DEF CallInv, callVars
<1>2. Len(text') \in Nat /\ All' = text'
  BY <1>1 DEF All
<1>3. \A L \in Layer : Fed(L)' = Len(text')
  BY <1>1, <1>2 DEF Fed
<1>4. \A u \in Unit : u[1] \in Layer
  BY LayerIsNat
<1>5. CallInv'
  BY <1>1 DEF CallInv
<1>6. MemoryInv'
  BY <1>2, <1>3, <1>4 DEF MemoryInv
<1> QED  BY <1>2, <1>3, <1>5, <1>6

LEMMA ResetInv ==
    ASSUME Inv, Reset
    PROVE  Inv'
<1>1. /\ pc = "idle" /\ ~active /\ text' = <<>> /\ hidden' = Blank
      /\ ring' = [L \in Layer |-> [s \in RingSlot |-> Blank]]
      /\ comp' = [u \in Unit |-> [slots |-> [i \in StateSlot(u[1]) |-> Blank],
                                  rows |-> [c \in CompRow(u[1]) |-> Blank],
                                  count |-> 0]]
      /\ UNCHANGED callVars
      /\ UNCHANGED <<snap, post, captured, active, base, tried>>
  BY DEF Reset, snapVars
<1>2. text' \in Seq(Token) /\ Len(text') = 0
  BY <1>1, EmptySeq
<1>3. \A u \in Unit : u[1] \in Nat \ {0}
  BY LayerIsNat
<1>4. ring' = [L \in Layer |-> RingAt(text', Len(text'))]
  BY <1>1, <1>2, EmptyMemory
<1>5. comp' = [u \in Unit |-> CompAt(u[1], text', Len(text'))]
  <2>1. \A u \in Unit :
          CompAt(u[1], text', Len(text')) = [slots |-> [i \in StateSlot(u[1]) |-> Blank],
                                             rows |-> [c \in CompRow(u[1]) |-> Blank],
                                             count |-> 0]
    BY <1>2, <1>3, EmptyMemory
  <2> QED  BY <1>1, <2>1
<1>6. \A u \in Unit : Len(text') \div u[1] < RowCap(u[1])
  BY <1>2, <1>3, EmptyMemory
<1>7. hidden' = LastRowOf(text')
  BY <1>1 DEF LastRowOf
<1>8. CallInv' /\ MemoryInv'
  BY <1>1, <1>2, <1>4, <1>5, <1>6, <1>7, IdleInv DEF Inv
<1>9. SnapType' /\ SnapInv' /\ PostType'
  <2>1. SnapInv'
    BY <1>1, SnapKept DEF Inv
  <2>2. SnapType'
    BY <1>1 DEF Inv, SnapType
  <2> QED  BY <1>1, <2>1, <2>2 DEF Inv, PostType
<1>10. BatchInv'
  BY <1>1 DEF BatchInv
<1> QED  BY <1>8, <1>9, <1>10 DEF Inv


LEMMA TakeInv ==
    ASSUME Inv, NEW n \in 1..MaxPositions, Take(n)
    PROVE  Inv'
<1>1. /\ pc = "idle" /\ Len(text) <= Context - n
      /\ post' = NoPost /\ captured' = 0 /\ active' = TRUE
      /\ base' = text /\ tried' = <<>> /\ text' = text
      /\ UNCHANGED modelVars /\ UNCHANGED callVars
  BY DEF Take
<1>2. /\ snap'.ready = TRUE /\ snap'.start = Len(text) /\ snap'.n = n
      /\ snap'.hidden = hidden
      /\ snap'.ring = [L \in Layer |-> [s \in SlotsFrom(Len(text), n) |-> ring[L][s]]]
      /\ snap'.comp = [u \in Unit |->
            [slots |-> comp[u].slots,
             rows |-> [i \in 0..(SavedRows(comp[u], u[1]) - 1) |->
                          comp[u].rows[comp[u].count + i]],
             count |-> comp[u].count]]
  BY DEF Take
<1>3. /\ text \in Seq(Token) /\ Len(text) \in Nat /\ toks = <<>> /\ at = NoLayer
      /\ All = text /\ \A L \in Layer : Fed(L) = Len(text)
      /\ ring = [L \in Layer |-> RingAt(text, Len(text))]
      /\ comp = [u \in Unit |-> CompAt(u[1], text, Len(text))]
      /\ hidden = LastRowOf(text)
      /\ \A u \in Unit : /\ u[1] \in Layer /\ u[1] \in Nat \ {0}
                         /\ Len(text) \div u[1] < RowCap(u[1])
  BY <1>1, IdleFed
<1>4. CallInv' /\ MemoryInv' /\ \A L \in Layer : Fed(L)' = Len(text)
  <2>1. ring' = ring /\ comp' = comp /\ hidden' = hidden
    BY <1>1 DEF modelVars
  <2> QED  BY <1>1, <1>3, <2>1, IdleInv DEF Inv
<1>5. MaxPositions \in Nat /\ Context \in Nat /\ n \in Nat
  BY LayerAssumption, SnapshotAssumption
<1>6. \A L \in Layer : snap'.ring[L] = [s \in SlotsFrom(Len(text), n) |->
                                          RingAt(text, Len(text))[s]]
  BY <1>2, <1>3
<1>7. ASSUME NEW u \in Unit
      PROVE  /\ snap'.comp[u].count = Len(text) \div u[1]
             /\ snap'.comp[u].slots = CompAt(u[1], text, Len(text)).slots
             /\ snap'.comp[u].rows = BlankRows(u[1], Len(text))
             /\ Cardinality(DOMAIN snap'.comp[u].rows) <= MaxPositions
  <2>0. snap'.comp[u].rows = [i \in 0..(SavedRows(comp[u], u[1]) - 1) |->
                                comp[u].rows[comp[u].count + i]]
    <3>1. snap'.comp[u] =
            [slots |-> comp[u].slots,
             rows |-> [i \in 0..(SavedRows(comp[u], u[1]) - 1) |->
                          comp[u].rows[comp[u].count + i]],
             count |-> comp[u].count]
      BY <1>2, Zenon
    <3> QED  BY <3>1
  <2> DEFINE L == u[1]
             b == Len(text) \div L
             M == Min({RowCap(L) - b, MaxPositions})
  <2>1. comp[u] = CompAt(L, text, Len(text))
    BY <1>3
  <2>2. comp[u].count = b /\ comp[u].rows = RowsAt(L, text, Len(text))
    BY <2>1 DEF CompAt
  <2>3. SavedRows(comp[u], L) = M
    BY <2>2, Zenon DEF SavedRows
  <2>4. /\ b \in Nat /\ b < RowCap(L) /\ RowCap(L) \in Nat
    BY <1>3, Division, RowCapIsNat
  <2>5. /\ M \in Nat /\ M <= RowCap(L) - b /\ M <= MaxPositions
    <3>1. RowCap(L) - b \in Nat
      BY <2>4
    <3>2. M = IF RowCap(L) - b <= MaxPositions THEN RowCap(L) - b ELSE MaxPositions
      <4> HIDE DEF b
      <4> QED  BY <1>5, <3>1, MinOfTwo
    <3> HIDE DEF b, M
    <3> QED  BY <1>5, <3>1, <3>2
  <2>6. snap'.comp[u].rows = [i \in 0..(M - 1) |-> comp[u].rows[comp[u].count + i]]
    BY <2>0, <2>3, Zenon
  <2>7. ASSUME NEW i \in 0..(M - 1)  PROVE comp[u].rows[comp[u].count + i] = Blank
    <3> HIDE DEF b, M
    <3>1. b + i \in CompRow(L) /\ ~(b + i < b)
      BY <2>4, <2>5 DEF CompRow
    <3>2. RowsAt(L, text, Len(text))[b + i] = Blank
      BY <3>1 DEF RowsAt, b
    <3> QED  BY <2>2, <3>2
  <2>8. snap'.comp[u].rows = [i \in 0..(M - 1) |-> Blank]
    <3> HIDE DEF M
    <3> QED  BY <2>6, <2>7
  <2>9. Cardinality(DOMAIN snap'.comp[u].rows) <= MaxPositions
    <3> HIDE DEF M
    <3>1. DOMAIN snap'.comp[u].rows = 0..(M - 1)
      BY <2>8
    <3>2. Cardinality(0..(M - 1)) <= MaxPositions
      BY <1>5, <2>5, UpToSize
    <3> QED  BY <3>1, <3>2
  <2>10. snap'.comp[u].count = comp[u].count /\ snap'.comp[u].slots = comp[u].slots
    BY <1>2
  <2> QED  BY <2>1, <2>2, <2>8, <2>9, <2>10, Zenon DEF BlankRows
<1>8. SnapInv'
  <2>1. snap'.start + snap'.n <= Context
    BY <1>1, <1>2, <1>3, <1>5
  <2>2. snap'.hidden = LastRowOf(base')
    BY <1>1, <1>2, <1>3
  <2>3. \A L \in Layer : snap'.ring[L] = [s \in SlotsFrom(snap'.start, snap'.n) |->
                                            RingAt(base', snap'.start)[s]]
    BY <1>1, <1>2, <1>6
  <2>4. \A u \in Unit : /\ snap'.comp[u].count = snap'.start \div u[1]
                        /\ snap'.comp[u].slots = CompAt(u[1], base', snap'.start).slots
                        /\ snap'.comp[u].rows = BlankRows(u[1], snap'.start)
    BY <1>1, <1>2, <1>7
  <2> QED  BY <1>1, <1>2, <2>1, <2>2, <2>3, <2>4 DEF SnapInv, BlankRows
<1>9. SnapType'
  <2>1. \A L \in Layer : Cardinality(DOMAIN snap'.ring[L]) <= MaxPositions
    <3> DEFINE S == SlotsFrom(Len(text), n)
    <3>1. \A L \in Layer : DOMAIN snap'.ring[L] = S
      BY <1>6
    <3>2. Cardinality(S) <= n /\ Cardinality(S) \in Nat
      BY <1>3, <1>5, SlotsFromSize, FS_CardinalityType
    <3> HIDE DEF S
    <3>3. Cardinality(S) <= MaxPositions
      BY <1>5, <3>2
    <3> QED  BY <3>1, <3>3
  <2>2. \A u \in Unit : Cardinality(DOMAIN snap'.comp[u].rows) <= MaxPositions
    BY <1>7
  <2>3. /\ snap'.start \in 0..Context /\ snap'.n \in 0..MaxPositions
        /\ captured' \in 0..MaxPositions
    BY <1>1, <1>2, <1>3, <1>5
  <2>4. base' \in Seq(Token) /\ tried' \in Seq(Token)
    BY <1>1, <1>3, EmptySeq
  <2>5. active' \in BOOLEAN /\ snap'.ready \in BOOLEAN
    BY <1>1, <1>2
  <2> QED  BY <2>1, <2>2, <2>3, <2>4, <2>5, Zenon DEF SnapType
<1>10. PostType'
  BY <1>1 DEF PostType, NoPost, Step
<1>11. BatchInv'
  <2>1. toks' = <<>> /\ Len(toks') = 0
    BY <1>1, <1>3, EmptySeq DEF callVars
  <2>2. PostIs'
    <3>1. \A i \in Step : ~(Len(text) + i < Len(text))
      BY <1>3 DEF Step
    <3>2. \A u \in Unit : u[1] \in Layer
      BY <1>3
    <3> QED  BY <1>2, <1>4, <3>1, <3>2 DEF PostIs, Step
  <2>3. BatchIs'
    BY <1>1 DEF BatchIs
  <2>4. SubSeq(text, 1, Len(text)) = text
    BY <1>3, SubSeqFull
  <2>5. /\ Len(text') + Len(toks') <= snap'.start + snap'.n /\ snap'.start <= Len(text')
        /\ snap'.ready /\ SubSeq(text', 1, snap'.start) = base'
    BY <1>1, <1>2, <1>3, <1>5, <2>1, <2>4
  <2> QED  BY <2>2, <2>3, <2>5, Zenon DEF BatchInv
<1> QED  BY <1>4, <1>8, <1>9, <1>10, <1>11 DEF Inv

(* A text that still begins with the one at take. *)
LEMMA SameBase ==
    ASSUME Inv, snap.ready, snap.start <= Len(text), SubSeq(text, 1, snap.start) = base
    PROVE  /\ SameUpTo(text, base, snap.start) /\ snap.start \in Nat
           /\ base \in Seq(Token) /\ Len(base) = snap.start
<1>1. /\ snap.start \in Nat /\ base \in Seq(Token) /\ Len(base) = snap.start
      /\ text \in Seq(Token)
  BY LayerAssumption DEF Inv, SnapType, SnapInv, CallInv
<1> DEFINE n == snap.start
<1>2. \A i \in 1..n : SubSeq(text, 1, n)[i] = text[i]
  BY <1>1
<1>3. \A q \in 0..(n - 1) : q + 1 \in 1..n
  BY <1>1
<1>4. \A i \in 1..n : base[i] = text[i]
  BY <1>2
<1> HIDE DEF n
<1>5. SameUpTo(text, base, n)
  BY <1>3, <1>4 DEF SameUpTo
<1> QED  BY <1>1, <1>5 DEF n

LEMMA RestoredRingIs ==
    ASSUME Inv, pc = "idle", snap.ready, Len(text) <= snap.start + snap.n,
           snap.start <= Len(text), SubSeq(text, 1, snap.start) = base,
           NEW L \in Layer, NEW s \in RingSlot
    PROVE  RestoredRing(L)[s] = LastRow(base, snap.start, Window, s)
<1> DEFINE b == snap.start
           S == SlotsFrom(b, snap.n)
<1>1. /\ SameUpTo(text, base, b) /\ b \in Nat /\ Len(text) \in Nat
      /\ ring[L] = RingAt(text, Len(text))
      /\ snap.n \in Nat /\ Window \in Nat \ {0}
      /\ snap.ring[L] = [r \in S |-> RingAt(base, b)[r]]
  BY SameBase, IdleFed, LayerAssumption, SnapshotAssumption DEF Inv, SnapType, SnapInv
<1>2. RestoredRing(L)[s] = IF s \in S THEN RingAt(base, b)[s] ELSE RingAt(text, Len(text))[s]
  <2> HIDE DEF S
  <2> QED  BY <1>1 DEF RestoredRing
<1>3. CASE s \in S
  BY <1>2, <1>3 DEF RingAt
<1>4. CASE s \notin S
  <2>1. ASSUME NEW q \in b..(Len(text) - 1)  PROVE q % Window # s
    <3>1. q - b \in 0..(snap.n - 1) /\ q = b + (q - b)
      BY <1>1
    <3>2. (b + (q - b)) % Window \in S
      BY <3>1, Zenon DEF SlotsFrom
    <3> HIDE DEF S, b
    <3> QED  BY <1>4, <3>1, <3>2, Zenon
  <2> HIDE DEF S, b
  <2>2. LastRow(text, Len(text), Window, s) = LastRow(text, b, Window, s)
    <3>1. b <= Len(text)
      BY DEF b
    <3>2. NoneFrom(b, Len(text), Window, s)
      BY <2>1, Zenon DEF NoneFrom
    <3> QED  BY <1>1, <3>1, <3>2, LastRowSkip
  <2>3. LastRow(text, b, Window, s) = LastRow(base, b, Window, s)
    <3>1. RingAt(text, b) = RingAt(base, b)
      BY <1>1, RingAtPrefix
    <3> QED  BY <3>1, Zenon DEF RingAt
  <2>4. RestoredRing(L)[s] = LastRow(text, Len(text), Window, s)
    BY <1>2, <1>4 DEF RingAt
  <2> QED  BY <2>2, <2>3, <2>4 DEF b
<1> QED  BY <1>3, <1>4


LEMMA RestoreInv ==
    ASSUME Inv, Restore
    PROVE  Inv'
<1>1. /\ pc = "idle" /\ snap.ready /\ Len(text) \in snap.start..(snap.start + snap.n)
      /\ SubSeq(text, 1, snap.start) = base
      /\ hidden' = snap.hidden /\ active' = FALSE /\ text' = base
      /\ ring' = [L \in Layer |-> RestoredRing(L)]
      /\ comp' = [u \in Unit |-> RestoredComp(u)]
      /\ UNCHANGED callVars
      /\ UNCHANGED <<snap, post, captured, base, tried>>
  BY DEF Restore, Usable
<1> DEFINE b == snap.start
<1>2. /\ b \in Nat /\ Len(text) \in Nat /\ b <= Len(text) /\ Len(text) <= b + MaxPositions
      /\ Len(text) <= b + snap.n /\ MaxPositions \in Nat
      /\ SameUpTo(text, base, b) /\ base \in Seq(Token) /\ Len(base) = b
  <2>1. b \in Nat /\ snap.n \in 0..MaxPositions /\ MaxPositions \in Nat
    BY LayerAssumption, SnapshotAssumption DEF Inv, SnapType
  <2>2. b <= Len(text) /\ Len(text) <= b + snap.n /\ Len(text) \in Nat
    BY <1>1, <2>1, IdleFed
  <2>3. SameUpTo(text, base, b) /\ base \in Seq(Token) /\ Len(base) = b
    BY <1>1, <2>2, SameBase
  <2> QED  BY <2>1, <2>2, <2>3
<1>3. ring' = [L \in Layer |-> RingAt(text', Len(text'))]
  <2>1. \A L \in Layer : \A s \in RingSlot : RestoredRing(L)[s] = LastRow(base, b, Window, s)
    BY <1>1, <1>2, RestoredRingIs
  <2>2. \A L \in Layer : RestoredRing(L) = [s \in RingSlot |-> RestoredRing(L)[s]]
    BY DEF RestoredRing
  <2>3. \A L \in Layer : RestoredRing(L) = RingAt(base, b)
    BY <2>1, <2>2 DEF RingAt
  <2> QED  BY <1>1, <1>2, <2>3
<1>4. comp' = [u \in Unit |-> CompAt(u[1], text', Len(text'))]
  <2>1. ASSUME NEW u \in Unit  PROVE RestoredComp(u) = CompAt(u[1], base, b)
    <3> DEFINE L == u[1]
               k == b \div L
    <3>1. /\ L \in Nat \ {0} /\ Len(text) \div L < RowCap(L)
          /\ comp[u].rows = RowsAt(L, text, Len(text))
      BY <1>1, IdleFed DEF CompAt
    <3>2. /\ snap.comp[u].count = k
          /\ snap.comp[u].slots = CompAt(L, base, b).slots
          /\ snap.comp[u].rows = BlankRows(L, b)
      BY <1>1 DEF Inv, SnapInv
    <3>3. k \in Nat /\ k - k = 0
      <4>1. k \in Nat
        <5> HIDE DEF b, L
        <5> QED  BY <1>2, <3>1, Division
      <4> QED  BY <4>1
    <3>4. RowsBack(RowsAt(L, text, Len(text)), BlankRows(L, b), k, k - k) = RowsAt(L, base, b)
      <4>1. b <= b
        BY <1>2
      <4> HIDE DEF L, b
      <4> DEFINE m == Len(text)
      <4>2. b \in Nat /\ m \in Nat /\ b <= m /\ m <= b + MaxPositions /\ SameUpTo(text, base, b)
            /\ L \in Nat \ {0} /\ m \div L < RowCap(L)
        BY <1>2, <3>1
      <4> HIDE DEF m
      <4>3. BlocksIn(L, m) < RowCap(L)
        BY <4>2, Zenon DEF BlocksIn
      <4>4. RowsBack(RowsAt(L, text, m), BlankRows(L, b), BlocksIn(L, b),
                     BlocksIn(L, b) - BlocksIn(L, b)) = RowsAt(L, base, b)
        BY <4>1, <4>2, <4>3, RowsBackIs
      <4> QED  BY <4>4, Zenon DEF k, m, BlocksIn
    <3>5. RestoredComp(u) = [slots |-> snap.comp[u].slots,
                             rows |-> RowsBack(comp[u].rows, snap.comp[u].rows, k, 0),
                             count |-> k]
      BY <3>2 DEF RestoredComp
    <3>6. CompAt(L, base, b) = [slots |-> CompAt(L, base, b).slots,
                                rows |-> RowsAt(L, base, b), count |-> k]
      BY DEF CompAt
    <3> HIDE DEF k, L, b
    <3>7. RestoredComp(u) = CompAt(L, base, b)
      BY <3>1, <3>2, <3>3, <3>4, <3>5, <3>6
    <3> QED  BY <3>7 DEF L, b
  <2> QED  BY <1>1, <1>2, <2>1
<1>5. \A u \in Unit : Len(text') \div u[1] < RowCap(u[1])
  <2> SUFFICES ASSUME NEW u \in Unit  PROVE b \div u[1] < RowCap(u[1])
    BY <1>1, <1>2
  <2>1. /\ u[1] \in Nat \ {0} /\ Len(text) \div u[1] < RowCap(u[1])
    BY <1>1, IdleFed
  <2>2. b \div u[1] <= Len(text) \div u[1]
    BY <1>2, <2>1, DivisionMonotone
  <2>3. b \div u[1] \in Nat /\ Len(text) \div u[1] \in Nat /\ RowCap(u[1]) \in Nat
    BY <1>2, <2>1, Division, RowCapIsNat
  <2> QED  BY <2>1, <2>2, <2>3
<1>6. hidden' = LastRowOf(text')
  BY <1>1 DEF Inv, SnapInv
<1>7. CallInv' /\ MemoryInv'
  <2>1. text' \in Seq(Token)
    BY <1>1, <1>2
  <2> QED  BY <1>1, <1>3, <1>4, <1>5, <1>6, <2>1, IdleInv DEF Inv
<1>8. SnapType' /\ SnapInv' /\ PostType'
  <2>1. SnapInv'
    BY <1>1, SnapKept DEF Inv
  <2>2. SnapType'
    BY <1>1 DEF Inv, SnapType
  <2> QED  BY <1>1, <2>1, <2>2 DEF Inv, PostType
<1>9. BatchInv'
  BY <1>1 DEF BatchInv
<1> QED  BY <1>7, <1>8, <1>9 DEF Inv

(* The text a commit leaves: the one at take and the first k tokens tried. *)
LEMMA CommitText ==
    ASSUME Inv, NEW k \in 1..MaxPositions, Commit(k)
    PROVE  /\ snap.start \in Nat /\ Len(text) \in Nat /\ snap.start + k <= Len(text)
           /\ Len(text) <= snap.start + snap.n /\ Len(text) <= snap.start + MaxPositions
           /\ SubSeq(text, 1, snap.start) = base /\ MaxPositions \in Nat
           /\ text' \in Seq(Token) /\ Len(text') = snap.start + k
           /\ SameUpTo(text, text', snap.start + k)
           /\ SameUpTo(base, text', snap.start)
           /\ PostIs /\ \A i \in 0..(k - 1) : post.hidden[i] = RowOf(text, snap.start + i)
<1>1. /\ pc = "idle" /\ active /\ snap.ready /\ k <= snap.n /\ captured >= k
      /\ text' = base \o SubSeq(tried, 1, k)
  BY DEF Commit
<1>2. /\ captured \in 0..MaxPositions /\ MaxPositions \in Nat /\ k \in Nat \ {0}
      /\ base \in Seq(Token) /\ tried \in Seq(Token) /\ text \in Seq(Token)
      /\ snap.start \in Nat /\ snap.n \in 0..MaxPositions /\ toks = <<>>
      /\ Len(base) = snap.start
  BY <1>1, LayerAssumption, SnapshotAssumption DEF Inv, SnapType, CallInv, SnapInv
<1>3. /\ Len(text) + Len(toks) <= snap.start + snap.n
      /\ SubSeq(text, 1, snap.start) = base /\ PostIs /\ BatchIs
  BY <1>1 DEF Inv, BatchInv
<1>4. /\ text = base \o tried /\ captured = Len(tried)
      /\ \A i \in 0..(captured - 1) : post.hidden[i] = RowOf(text, snap.start + i)
  BY <1>1, <1>2, <1>3 DEF BatchIs
<1> DEFINE part == SubSeq(tried, 1, k)
<1>5. part \in Seq(Token) /\ Len(part) = k /\ \A i \in 1..k : part[i] = tried[i]
  BY <1>1, <1>2, <1>4
<1> HIDE DEF part
<1> DEFINE whole == base \o tried
           kept == base \o part
           b == snap.start
<1>6. /\ Len(whole) = b + captured /\ kept \in Seq(Token) /\ Len(kept) = b + k
      /\ \A i \in 1..b : whole[i] = base[i] /\ kept[i] = base[i]
      /\ \A i \in 1..k : whole[b + i] = tried[i] /\ kept[b + i] = part[i]
  <2>1. /\ base \in Seq(Token) /\ tried \in Seq(Token) /\ part \in Seq(Token)
        /\ Len(base) = b /\ Len(tried) = captured /\ Len(part) = k
        /\ b \in Nat /\ captured \in Nat /\ k \in Nat /\ k <= captured
    BY <1>1, <1>2, <1>4, <1>5
  <2>2. /\ Len(whole) = b + captured
        /\ \A i \in 1..b : whole[i] = base[i]
        /\ \A i \in 1..captured : whole[b + i] = tried[i]
    <3>1. /\ Len(whole) = Len(base) + Len(tried)
          /\ \A i \in 1..Len(base) : whole[i] = base[i]
          /\ \A i \in 1..Len(tried) : whole[Len(base) + i] = tried[i]
      <4>1. base \in Seq(Token) /\ tried \in Seq(Token)
        BY <2>1
      <4> QED  BY <4>1, PartsOfConcat
    <3> HIDE DEF b, whole
    <3> QED  BY <2>1, <3>1
  <2>3. /\ kept \in Seq(Token) /\ Len(kept) = b + k
        /\ \A i \in 1..b : kept[i] = base[i]
        /\ \A i \in 1..k : kept[b + i] = part[i]
    <3>1. /\ kept \in Seq(Token) /\ Len(kept) = Len(base) + Len(part)
          /\ \A i \in 1..Len(base) : kept[i] = base[i]
          /\ \A i \in 1..Len(part) : kept[Len(base) + i] = part[i]
      <4>1. base \in Seq(Token) /\ part \in Seq(Token)
        BY <2>1
      <4> QED  BY <4>1, PartsOfConcat
    <3> HIDE DEF b, kept
    <3> QED  BY <2>1, <3>1
  <2>4. \A i \in 1..k : i \in 1..captured
    BY <2>1
  <2> HIDE DEF whole, kept, b
  <2> QED  BY <2>2, <2>3, <2>4
<1>7. b \in Nat
  BY <1>2
<1>8. kept = text' /\ whole = text
  BY <1>1, <1>4 DEF part
<1> HIDE DEF whole, kept, b
<1>9. ASSUME NEW q \in 0..((b + k) - 1)  PROVE whole[q + 1] = kept[q + 1]
  <2>1. CASE q + 1 <= b
    BY <1>2, <1>6, <1>7, <2>1
  <2>2. CASE q + 1 > b
    <3>1. (q + 1) - b \in 1..k /\ q + 1 = b + ((q + 1) - b)
      BY <1>2, <1>7, <2>2
    <3> DEFINE i == (q + 1) - b
    <3>2. whole[b + i] = kept[b + i]
      <4> HIDE DEF i
      <4>1. i \in 1..k
        BY <3>1 DEF i
      <4> QED  BY <1>5, <1>6, <4>1
    <3> QED  BY <3>1, <3>2
  <2>3. q \in Nat /\ (q + 1 <= b \/ q + 1 > b)
    BY <1>7
  <2> QED  BY <2>1, <2>2, <2>3
<1>10. SameUpTo(whole, kept, b + k)
  BY <1>9 DEF SameUpTo
<1>11. SameUpTo(base, kept, b)
  <2>1. \A q \in 0..(b - 1) : q + 1 \in 1..b
    BY <1>7
  <2> QED  BY <1>6, <2>1 DEF SameUpTo
<1>12. \A i \in 0..(k - 1) : post.hidden[i] = RowOf(text, snap.start + i)
  <2>1. \A i \in 0..(k - 1) : i \in 0..(captured - 1)
    BY <1>1, <1>2
  <2> QED  BY <1>4, <2>1
<1>13. /\ SameUpTo(text, text', snap.start + k) /\ SameUpTo(base, text', snap.start)
       /\ text' \in Seq(Token) /\ Len(text') = snap.start + k
       /\ Len(text) = snap.start + captured
  BY <1>6, <1>8, <1>10, <1>11 DEF b
<1>14. Len(toks) = 0
  BY <1>2, EmptySeq
<1>15. /\ snap.start + k <= Len(text) /\ Len(text) \in Nat
       /\ Len(text) <= snap.start + snap.n /\ Len(text) <= snap.start + MaxPositions
  <2> DEFINE n == Len(text)
             z == Len(toks)
             from == snap.start
             most == snap.n
  <2>1. n = from + captured /\ n + z <= from + most /\ z = 0
    BY <1>3, <1>13, <1>14
  <2>2. from \in Nat /\ captured \in Nat /\ k \in Nat /\ k <= captured
    BY <1>1, <1>2
  <2>3. most \in Nat /\ most <= MaxPositions /\ MaxPositions \in Nat
    BY <1>2
  <2> HIDE DEF n, z, from, most
  <2>4. from + k <= n /\ n \in Nat /\ n <= from + most /\ n <= from + MaxPositions
    BY <2>1, <2>2, <2>3
  <2> QED  BY <2>4 DEF n, from, most
<1> QED  BY <1>2, <1>3, <1>12, <1>13, <1>15

LEMMA CommitInv ==
    ASSUME Inv, NEW k \in 1..MaxPositions, Commit(k)
    PROVE  Inv'
<1>1. /\ pc = "idle" /\ active /\ snap.ready /\ k <= snap.n /\ captured >= k
      /\ hidden' = post.hidden[k - 1] /\ active' = FALSE
      /\ ring' = [L \in Layer |-> CommittedRing(L, k)]
      /\ comp' = [u \in Unit |-> CommittedComp(u, k)]
      /\ UNCHANGED callVars
      /\ UNCHANGED <<snap, post, captured, base, tried>>
  BY DEF Commit
<1> DEFINE b == snap.start
           end == b + k
           len == Len(text)
<1>2. /\ b \in Nat /\ len \in Nat /\ k \in Nat \ {0} /\ end \in Nat /\ b <= end /\ end <= len
      /\ len <= b + snap.n /\ len <= b + MaxPositions /\ MaxPositions \in Nat /\ b <= len
      /\ SubSeq(text, 1, b) = base
      /\ text' \in Seq(Token) /\ Len(text') = end
      /\ SameUpTo(text, text', end) /\ SameUpTo(base, text', b)
      /\ PostIs /\ \A i \in 0..(k - 1) : post.hidden[i] = RowOf(text, b + i)
  BY CommitText
<1>3. /\ All = text /\ \A L \in Layer : Fed(L) = len
      /\ \A u \in Unit : u[1] \in Layer /\ u[1] \in Nat \ {0} /\ len \div u[1] < RowCap(u[1])
      /\ \A u \in Unit : comp[u] = CompAt(u[1], text, len)
  BY <1>1, IdleFed
<1>4. \A q \in 0..(end - 1) : RowOf(text, q) = RowOf(text', q)
  BY <1>2 DEF SameUpTo, RowOf
<1>5. \A i \in 0..(k - 1) : /\ i \in Step /\ i \in Nat /\ b + i < len /\ b + i \in 0..(end - 1)
  BY <1>2 DEF Step
<1>6. ASSUME NEW L \in Layer, NEW s \in RingSlot
      PROVE  CommittedRing(L, k)[s] = LastRow(text', end, Window, s)
  <2> DEFINE steps == {i \in 0..(k - 1) : (b + i) % Window = s}
  <2>0. CommittedRing(L, k)[s] = IF steps # {} THEN post.ring[L][Max(steps)]
                                              ELSE RestoredRing(L)[s]
    BY Zenon DEF CommittedRing
  <2>1. Window \in Nat \ {0}
    BY LayerAssumption
  <2>2. CASE steps # {}
    <3>1. steps \in SUBSET Nat /\ \A i \in steps : i <= k
      BY <1>5, <1>2
    <3>2. Max(steps) \in steps /\ \A i \in steps : i <= Max(steps)
      <4> HIDE DEF steps
      <4> QED  BY <1>2, <2>2, <3>1, GreatestExists
    <3> DEFINE i == Max(steps)
    <3>3. i \in 0..(k - 1) /\ (b + i) % Window = s
      BY <3>2, Zenon
    <3>4. b + i \in Congruent(end, Window, s)
      <4>1. b + i \in 0..(end - 1)
        BY <1>5, <3>3
      <4> QED  BY <3>3, <4>1, Zenon DEF Congruent
    <3>5. ASSUME NEW r \in Congruent(end, Window, s)  PROVE r <= b + i
      <4>1. r \in 0..(end - 1) /\ r % Window = s
        BY Zenon DEF Congruent
      <4>i. b \in Nat /\ i \in Nat /\ r \in Nat
        BY <1>2, <1>5, <3>3, <4>1
      <4>2. CASE r < b
        <5> HIDE DEF b, i
        <5> QED  BY <4>i, <4>2
      <4>3. CASE r >= b
        <5>1. r - b \in 0..(k - 1) /\ b + (r - b) = r
          BY <1>2, <4>1, <4>3
        <5>2. r - b \in steps
          BY <4>1, <5>1, Zenon
        <5>3. r - b <= i
          BY <3>2, <5>2
        <5> HIDE DEF b, i
        <5> QED  BY <4>i, <5>3
      <4> QED  BY <4>i, <4>2, <4>3
    <3> HIDE DEF i, steps
    <3>6. LastRow(text', end, Window, s) = RowOf(text', b + i)
      BY <1>2, <2>1, <3>4, <3>5, LastRowIs
    <3>7. post.ring[L][i] = RowOf(text, b + i)
      <4> HIDE DEF b
      <4>1. i \in Step /\ b + i < Fed(L)
        BY <1>3, <1>5, <3>3
      <4> QED  BY <1>2, <1>3, <4>1 DEF PostIs, b
    <3>8. RowOf(text, b + i) = RowOf(text', b + i)
      BY <1>4, <1>5, <3>3
    <3> QED  BY <2>0, <2>2, <3>6, <3>7, <3>8 DEF i
  <2>3. CASE steps = {}
    <3>1. RestoredRing(L)[s] = LastRow(base, b, Window, s)
      BY <1>1, <1>2, RestoredRingIs
    <3>2. LastRow(base, b, Window, s) = LastRow(text', b, Window, s)
      <4>1. RingAt(base, b) = RingAt(text', b)
        BY <1>2, RingAtPrefix
      <4> QED  BY <4>1, Zenon DEF RingAt
    <3>3. ASSUME NEW q \in b..(end - 1)  PROVE q % Window # s
      <4>1. q - b \in 0..(k - 1) /\ b + (q - b) = q
        BY <1>2
      <4>2. q % Window = s => q - b \in steps
        BY <4>1, Zenon
      <4> HIDE DEF steps
      <4> QED  BY <2>3, <4>2, Zenon
    <3> HIDE DEF b, end, len, steps
    <3>4. LastRow(text', end, Window, s) = LastRow(text', b, Window, s)
      <4>1. b \in Nat /\ end \in Nat /\ b <= end
        BY <1>2
      <4>2. NoneFrom(b, end, Window, s)
        BY <3>3, Zenon DEF NoneFrom
      <4> QED  BY <2>1, <4>1, <4>2, LastRowSkip
    <3> QED  BY <2>0, <2>3, <3>1, <3>2, <3>4
  <2> QED  BY <2>2, <2>3
<1>7. ring' = [L \in Layer |-> RingAt(text', Len(text'))]
  <2>1. \A L \in Layer : CommittedRing(L, k) = [s \in RingSlot |-> CommittedRing(L, k)[s]]
    BY Zenon DEF CommittedRing
  <2>2. \A L \in Layer : CommittedRing(L, k) = RingAt(text', end)
    BY <1>6, <2>1 DEF RingAt
  <2> QED  BY <1>1, <1>2, <2>2
<1>8. ASSUME NEW u \in Unit
      PROVE  /\ CommittedComp(u, k) = CompAt(u[1], text', end)
             /\ end \div u[1] < RowCap(u[1])
  <2> DEFINE L == u[1]
             after == post.comp[u][k - 1]
             a == end \div L
             c == b \div L
  <2>1. L \in Layer /\ L \in Nat \ {0} /\ len \div L < RowCap(L)
        /\ comp[u].rows = RowsAt(L, text, len)
    <3>1. CompAt(L, text, len).rows = RowsAt(L, text, len)
      BY DEF CompAt
    <3> HIDE DEF len
    <3> QED  BY <1>3, <3>1, Zenon
  <2>2. after = [slots |-> CompAt(L, text, end).slots, count |-> a]
    <3> DEFINE i == k - 1
    <3>1. i \in Step /\ b + i < Fed(L) /\ b + i + 1 = end
      BY <1>2, <1>3, <1>5, <2>1
    <3> HIDE DEF i
    <3>2. post.comp[u][i] = [slots |-> CompAt(L, text, b + i + 1).slots,
                             count |-> (b + i + 1) \div L]
      BY <1>2, <1>3, <3>1 DEF PostIs
    <3> QED  BY <3>1, <3>2 DEF i
  <2>3. /\ snap.comp[u].count = c /\ snap.comp[u].rows = BlankRows(L, b)
    BY <1>1 DEF Inv, SnapInv
  <2>4. a \in Nat /\ c \in Nat /\ c <= a /\ a <= len \div L /\ len \div L \in Nat
        /\ RowCap(L) \in Nat
    BY <1>2, <2>1, Division, DivisionMonotone, RowCapIsNat
  <2>5. Max({0, a - c}) = a - c
    <3> HIDE DEF a, c
    <3>1. a - c \in Int /\ 0 \in Nat /\ (a - c <= 0 => a - c = 0)
      BY <2>4
    <3> QED  BY <3>1, MaxOfTwo
  <2>6. RowsBack(RowsAt(L, text, len), BlankRows(L, b), a, a - c) = RowsAt(L, text', end)
    <3> HIDE DEF L, b, len, end
    <3>1. BlocksIn(L, len) < RowCap(L)
      BY <2>1, Zenon DEF BlocksIn
    <3>2. RowsBack(RowsAt(L, text, len), BlankRows(L, b), BlocksIn(L, end),
                   BlocksIn(L, end) - BlocksIn(L, b)) = RowsAt(L, text', end)
      <4>1. /\ b \in Nat /\ end \in Nat /\ len \in Nat /\ b <= end /\ end <= len
            /\ len <= b + MaxPositions /\ SameUpTo(text, text', end) /\ L \in Nat \ {0}
        BY <1>2, <2>1
      <4> HIDE DEF after, a, c
      <4> QED  BY <3>1, <4>1, RowsBackIs
    <3> QED  BY <3>2, Zenon DEF a, c, BlocksIn
  <2>7. CompAt(L, text, end) = CompAt(L, text', end)
    <3> HIDE DEF L, end
    <3> QED  BY <1>2, <2>1, CompAtPrefix
  <2>8. CompAt(L, text', end) = [slots |-> CompAt(L, text', end).slots,
                               rows |-> RowsAt(L, text', end), count |-> a]
    BY DEF CompAt
  <2>9. CommittedComp(u, k) =
          [slots |-> after.slots,
           rows |-> RowsBack(comp[u].rows, snap.comp[u].rows, after.count,
                             Max({0, after.count - snap.comp[u].count})),
           count |-> after.count]
    BY DEF CommittedComp
  <2>10. after.slots = CompAt(L, text', end).slots /\ after.count = a
    <3> HIDE DEF L, end, a, after
    <3> QED  BY <2>2, <2>7
  <2>11. CommittedComp(u, k) = CompAt(L, text', end)
    <3> HIDE DEF L, b, len, end, a, c, after
    <3> QED  BY <2>1, <2>3, <2>5, <2>6, <2>8, <2>9, <2>10
  <2>12. a < RowCap(L)
    <3> HIDE DEF a, L, len
    <3>1. len \div L \in Nat /\ a <= len \div L /\ len \div L < RowCap(L)
      BY <2>1, <2>4
    <3> DEFINE w == len \div L
    <3> HIDE DEF w
    <3>2. w \in Nat /\ a <= w /\ w < RowCap(L)
      BY <3>1 DEF w
    <3> QED  BY <2>4, <3>2
  <2> QED  BY <2>11, <2>12
<1>9. hidden' = LastRowOf(text')
  <2>1. k - 1 \in 0..(k - 1) /\ b + (k - 1) = end - 1 /\ text' # <<>>
    BY <1>2, EmptySeq
  <2>2. post.hidden[k - 1] = RowOf(text, end - 1)
    BY <1>2, <2>1
  <2>3. end - 1 \in 0..(end - 1)
    BY <1>2
  <2>4. RowOf(text, end - 1) = RowOf(text', end - 1)
    BY <1>4, <2>3
  <2> QED  BY <1>1, <1>2, <2>1, <2>2, <2>4 DEF LastRowOf
<1>10. CallInv' /\ MemoryInv'
  <2>1. comp' = [u \in Unit |-> CompAt(u[1], text', Len(text'))]
    BY <1>1, <1>2, <1>8
  <2>2. \A u \in Unit : Len(text') \div u[1] < RowCap(u[1])
    BY <1>2, <1>8
  <2> QED  BY <1>1, <1>2, <1>7, <1>9, <2>1, <2>2, IdleInv DEF Inv
<1>11. SnapType' /\ SnapInv' /\ PostType'
  <2>1. SnapInv'
    BY <1>1, SnapKept DEF Inv
  <2>2. SnapType'
    BY <1>1 DEF Inv, SnapType
  <2> QED  BY <1>1, <2>1, <2>2 DEF Inv, PostType
<1>12. BatchInv'
  BY <1>1 DEF BatchInv
<1> QED  BY <1>10, <1>11, <1>12 DEF Inv


-------------------------------------------------------------------------------
(* Every step keeps the invariant. *)

LEMMA NextInv ==
    ASSUME Inv, [Next]_vars
    PROVE  Inv'
<1>1. CASE \/ \E t \in Token : FeedToken(t)
           \/ \E ts \in Batch : FeedBatch(ts)
  BY <1>1, FeedInv
<1>2. CASE Attend
  BY <1>2, AttendInv
<1>3. CASE Exit
  BY <1>3, ExitInv
<1>4. CASE EndCall
  BY <1>4, EndCallInv
<1>5. CASE \E n \in 1..MaxPositions : Take(n)
  BY <1>5, TakeInv
<1>6. CASE Restore
  BY <1>6, RestoreInv
<1>7. CASE \E k \in 1..MaxPositions : Commit(k)
  BY <1>7, CommitInv
<1>8. CASE Reset
  BY <1>8, ResetInv
<1>9. CASE UNCHANGED vars
  <2>1. /\ UNCHANGED <<ring, comp, hidden, pc, toks, at, step>>
        /\ UNCHANGED <<snap, post, captured, active, text, base, tried>>
    BY <1>9 DEF vars, modelVars, callVars, snapVars, history
  <2>2. All' = All /\ \A L \in Layer : Fed(L)' = Fed(L) /\ SameUpTo(All, All', Fed(L))
    BY <2>1 DEF All, Fed, SameUpTo
  <2>3. CallInv'
    BY <2>1 DEF Inv, CallInv, Position
  <2>4. MemoryInv'
    BY <2>1, <2>2, MemoryKept DEF Inv, modelVars
  <2>5. SnapType' /\ SnapInv' /\ PostType'
    <3>1. SnapInv'
      BY <2>1, SnapKept DEF Inv
    <3>2. SnapType'
      BY <2>1 DEF Inv, SnapType
    <3> QED  BY <2>1, <3>1, <3>2 DEF Inv, PostType
  <2>6. BatchInv'
    <3> SUFFICES ASSUME active'  PROVE BatchInv'
      BY DEF BatchInv
    <3>1. BatchInv /\ active /\ PostIs /\ BatchIs
      BY <2>1 DEF Inv, BatchInv
    <3>2. PostIs'
      BY <2>1, <2>2, <3>1, PostKept DEF Inv
    <3>3. BatchIs'
      BY <2>1, <3>1 DEF BatchIs
    <3> QED  BY <2>1, <3>1, <3>2, <3>3 DEF BatchInv
  <2> QED  BY <2>3, <2>4, <2>5, <2>6 DEF Inv
<1> QED  BY <1>1, <1>2, <1>3, <1>4, <1>5, <1>6, <1>7, <1>8, <1>9 DEF Next

(* The invariant holds in every state, whatever was fed, taken back or     *)
(* committed before.                                                       *)
THEOREM ContextInvariant == Spec => []Inv
  BY InitInv, NextInv, PTL DEF Spec

-------------------------------------------------------------------------------
(* What follows from it. *)

LEMMA RowIsRow ==
    ASSUME NEW t \in Seq(Token), NEW q \in Nat, q < Len(t)
    PROVE  RowOf(t, q) \in Nat \X Token
<1>1. q + 1 \in 1..Len(t)
  OBVIOUS
<1>2. t[q + 1] \in Token
  BY <1>1
<1> QED  BY <1>2 DEF RowOf

LEMMA LastRowType ==
    ASSUME NEW t \in Seq(Token), NEW n \in Nat, n <= Len(t), NEW m \in Nat \ {0}, NEW s
    PROVE  LastRow(t, n, m, s) \in RowType
<1>1. CASE LastRow(t, n, m, s) = Blank
  BY <1>1 DEF RowType
<1>2. ASSUME NEW q \in Congruent(n, m, s), LastRow(t, n, m, s) = RowOf(t, q)
      PROVE  LastRow(t, n, m, s) \in RowType
  <2>1. q \in Nat /\ q < n
    BY CongruentBelow
  <2>2. q < Len(t)
    BY <2>1
  <2> QED  BY <1>2, <2>1, <2>2, RowIsRow DEF RowType
<1> QED  BY <1>1, <1>2, LastRowCases

LEMMA SlotsType ==
    ASSUME NEW t \in Seq(Token), NEW n \in Nat, n <= Len(t), NEW L \in Nat \ {0},
           NEW b \in Nat, b <= n
    PROVE  SlotsOf(L, t, b, n) \in [StateSlot(L) -> RowType]
<1>1. b <= Len(t)
  OBVIOUS
<1>2. \A i \in StateSlot(L) : LastRow(t, b, L, i) \in RowType
  BY <1>1, LastRowType
<1>3. \A i \in StateSlot(L) : LastRow(t, n, L, i % L) \in RowType
  <2> SUFFICES ASSUME NEW i  PROVE LastRow(t, n, L, i % L) \in RowType
    OBVIOUS
  <2> DEFINE j == i % L
  <2> HIDE DEF j
  <2>1. LastRow(t, n, L, j) \in RowType
    BY LastRowType
  <2> QED  BY <2>1 DEF j
<1> QED  BY <1>2, <1>3, Zenon DEF SlotsOf

LEMMA BlockStart ==
    ASSUME NEW n \in Nat, NEW L \in Nat \ {0}
    PROVE  (n \div L) * L \in Nat /\ (n \div L) * L <= n /\ n \div L \in Nat
<1>1. n \div L \in Nat /\ (n \div L) * L <= n
  BY Division
<1> QED  BY <1>1, SMT

LEMMA InvTypeOK == Inv => TypeOK
<1> SUFFICES ASSUME Inv  PROVE TypeOK
  OBVIOUS
<1>1. /\ All \in Seq(Token) /\ Layer \subseteq Nat
      /\ \A L \in Layer : Fed(L) \in Nat /\ Fed(L) <= Len(All)
      /\ \A u \in Unit : u[1] \in Layer /\ u[1] \in Nat \ {0}
  <2>1. Min(Layer) \in Layer
    BY FirstLayer
  <2> QED  BY <2>1, FedIs, LayerIsNat DEF Inv
<1>2. ring \in [Layer -> [RingSlot -> RowType]]
  <2>1. \A L \in Layer : RingAt(All, Fed(L)) \in [RingSlot -> RowType]
    <3> SUFFICES ASSUME NEW L \in Layer, NEW s \in RingSlot
                 PROVE  LastRow(All, Fed(L), Window, s) \in RowType
      BY DEF RingAt
    <3> QED  BY <1>1, LastRowType, LayerAssumption
  <2> QED  BY <2>1 DEF Inv, MemoryInv
<1>3. ASSUME NEW u \in Unit
      PROVE  /\ comp[u].slots \in [StateSlot(u[1]) -> RowType]
             /\ DOMAIN comp[u].rows = CompRow(u[1])
             /\ comp[u].count \in 0..(RowCap(u[1]) - 1)
  <2> DEFINE L == u[1]
             n == Fed(L)
             b == (n \div L) * L
  <2>1. L \in Nat \ {0} /\ n \in Nat /\ n <= Len(All)
    BY <1>1
  <2>2. b \in Nat /\ b <= n /\ n \div L \in Nat
    <3> HIDE DEF n, L
    <3> QED  BY <2>1, BlockStart
  <2>3. comp[u] = [slots |-> SlotsOf(L, All, b, n), rows |-> RowsAt(L, All, n),
                   count |-> n \div L] /\ n \div L < RowCap(L)
    BY DEF Inv, MemoryInv, CompAt
  <2>4. SlotsOf(L, All, b, n) \in [StateSlot(L) -> RowType]
    <3> HIDE DEF L, n, b
    <3> QED  BY <1>1, <2>1, <2>2, SlotsType
  <2>5. DOMAIN RowsAt(L, All, n) = CompRow(L)
    BY DEF RowsAt
  <2>6. n \div L \in 0..(RowCap(L) - 1)
    <3> DEFINE c == n \div L
    <3>1. c \in Nat /\ c < RowCap(L) /\ RowCap(L) \in Nat
      BY <2>1, <2>2, <2>3, RowCapIsNat
    <3> HIDE DEF c
    <3>2. c \in 0..(RowCap(L) - 1)
      BY <3>1
    <3> QED  BY <3>2 DEF c
  <2>7. /\ comp[u].slots = SlotsOf(L, All, b, n) /\ comp[u].rows = RowsAt(L, All, n)
        /\ comp[u].count = n \div L
    <3> HIDE DEF L, n, b
    <3> QED  BY <2>3
  <2> HIDE DEF n, b
  <2> QED  BY <2>4, <2>5, <2>6, <2>7, Zenon
<1>4. hidden \in RowType
  <2>1. hidden = LastRowOf(text) /\ text \in Seq(Token)
    BY DEF Inv, MemoryInv, CallInv
  <2>2. CASE text = <<>>
    BY <2>1, <2>2 DEF LastRowOf, RowType
  <2>3. CASE text # <<>>
    <3>1. Len(text) - 1 \in Nat /\ Len(text) - 1 < Len(text)
      BY <2>1, <2>3, EmptySeq
    <3>2. RowOf(text, Len(text) - 1) \in Nat \X Token
      BY <2>1, <3>1, RowIsRow
    <3> QED  BY <2>1, <2>3, <3>2 DEF LastRowOf, RowType
  <2> QED  BY <2>2, <2>3
<1> QED  BY <1>2, <1>3, <1>4 DEF TypeOK, Inv, CallInv, SnapType

LEMMA InvContext == Inv => ContextIsOfText
<1> SUFFICES ASSUME Inv  PROVE ContextIsOfText
  OBVIOUS
<1>1. ASSUME NEW L \in Layer
      PROVE  /\ ring[L] = RingOf(FedTo(L))
             /\ L # 0 => CompOf(L, FedTo(L)) = CompAt(L, All, Fed(L))
  <2>1. /\ Fed(L) \in Nat /\ Len(FedTo(L)) = Fed(L)
        /\ SameUpTo(FedTo(L), All, Fed(L)) /\ L \in Nat
    BY FedIs, LayerIsNat DEF Inv
  <2>2. RingOf(FedTo(L)) = RingAt(FedTo(L), Fed(L))
    BY <2>1 DEF RingOf, RingAt
  <2>3. RingAt(FedTo(L), Fed(L)) = RingAt(All, Fed(L))
    BY <2>1, RingAtPrefix
  <2>4. CompOf(L, FedTo(L)) = CompAt(L, FedTo(L), Fed(L))
    BY <2>1, Zenon DEF CompOf, CompAt, RowsAt, BlocksIn
  <2>5. L # 0 => CompAt(L, FedTo(L), Fed(L)) = CompAt(L, All, Fed(L))
    BY <2>1, CompAtPrefix
  <2>6. ring[L] = RingAt(All, Fed(L))
    BY DEF Inv, MemoryInv
  <2> QED  BY <2>2, <2>3, <2>4, <2>5, <2>6
<1>2. \A u \in Unit : u[1] \in Layer /\ u[1] # 0
  BY LayerIsNat
<1>3. \A u \in Unit : comp[u] = CompOf(u[1], FedTo(u[1]))
  BY <1>1, <1>2 DEF Inv, MemoryInv
<1>4. hidden = IF text = <<>> THEN Blank ELSE RowOf(text, Len(text) - 1)
  BY DEF Inv, MemoryInv, LastRowOf
<1> QED  BY <1>1, <1>3, <1>4, InvTypeOK DEF ContextIsOfText

(* One of the last Window positions is the last of its remainder. *)
LEMMA RecentRow ==
    ASSUME NEW t, NEW n \in Nat, NEW q \in Nat, q < n, n <= q + Window
    PROVE  LastRow(t, n, Window, q % Window) = RowOf(t, q)
<1>0. Window \in Nat \ {0}
  BY LayerAssumption
<1> DEFINE s == q % Window
<1>1. q \in Congruent(n, Window, s)
  <2>1. q \in 0..(n - 1)
    OBVIOUS
  <2> QED  BY <2>1, Zenon DEF Congruent
<1>2. ASSUME NEW r \in Congruent(n, Window, s)  PROVE r <= q
  <2>1. r \in 0..(n - 1) /\ r % Window = q % Window
    BY Zenon DEF Congruent
  <2>2. r \in Nat /\ r < q + Window
    BY <1>0, <2>1
  <2>3. CASE q <= r
    <3>1. q = r
      BY <1>0, <2>1, <2>2, <2>3, SameRemainder
    <3> QED  BY <2>2, <3>1
  <2> QED  BY <2>2, <2>3
<1> HIDE DEF s
<1>3. LastRow(t, n, Window, s) = RowOf(t, q)
  BY <1>0, <1>1, <1>2, LastRowIs
<1> QED  BY <1>3 DEF s

(* Where the ring has wrapped, the slot after the one of position p is that *)
(* of the oldest position left, and the others follow.                      *)
LEMMA RingOrder ==
    ASSUME NEW w \in Nat \ {0}, NEW p \in Nat, p >= w - 1, NEW i \in 1..w
    PROVE  /\ (p - w) + i \in Nat
           /\ ((p - w) + i) % w = ((p % w) + i) % w
<1> DEFINE k == p \div w
           r == p % w
           q == (p - w) + i
<1>1. k \in Nat /\ r \in 0..(w - 1) /\ p = k * w + r
  BY Division
<1>2. q \in Nat /\ q = (p - w) + i
  OBVIOUS
<1> HIDE DEF k, r, q
<1>3. CASE r + i < w
  <2>1. k # 0
    <3> SUFFICES ASSUME k = 0  PROVE FALSE
      OBVIOUS
    <3>1. k * w = 0
      BY SMT
    <3>2. p = r
      BY <1>1, <3>1
    <3> QED  BY <1>1, <1>3, <3>2
  <2> DEFINE j == k - 1
             m == k * w
             l == j * w
             z == r + i
  <2>2. j \in Nat
    BY <1>1, <2>1
  <2>3. m \in Nat /\ l \in Int /\ l = m - w /\ p = m + r
    BY <1>1, <2>1, SMT
  <2>4. z = r + i /\ z \in 0..(w - 1)
    BY <1>1, <1>3
  <2> HIDE DEF j, m, l, z
  <2>5. q = l + z
    BY <1>1, <1>2, <2>3, <2>4
  <2>6. q = j * w + z
    BY <2>5 DEF l
  <2>7. q \in Nat
    BY <1>2
  <2>8. z \in 0..(w - 1)
    BY <2>4
  <2>9. q % w = z
    BY <2>2, <2>6, <2>7, <2>8, DivisionIs
  <2>10. z % w = z
    BY <2>8, SmallRemainder
  <2>11. q % w = z % w
    BY <2>9, <2>10
  <2> QED  BY <1>2, <2>11 DEF q, r, z
<1>4. CASE ~(r + i < w)
  <2> DEFINE m == k * w
             z == r + i
             t == z - w
  <2>1. m \in Nat /\ p = m + r
    BY <1>1, SMT
  <2>2. z \in Nat /\ t \in 0..(w - 1) /\ z = 1 * w + t
    BY <1>1, <1>4
  <2>3. z = r + i /\ t = z - w
    OBVIOUS
  <2> HIDE DEF m, z, t
  <2>4. q = m + t
    BY <1>1, <1>2, <2>1, <2>2, <2>3
  <2>5. q = k * w + t
    BY <2>4 DEF m
  <2>6. q \in Nat /\ k \in Nat /\ t \in 0..(w - 1)
    BY <1>1, <1>2, <2>2
  <2>7. q % w = t
    BY <2>5, <2>6, DivisionIs
  <2>8. z % w = t
    BY <2>2, DivisionIs
  <2>9. q % w = z % w
    BY <2>7, <2>8
  <2> QED  BY <1>2, <2>9 DEF q, r, z
<1> QED  BY <1>3, <1>4

(* The first of the last Window positions. *)
Oldest(p) == Max({0, (p - Window) + 1})

LEMMA OldestIs ==
    ASSUME NEW p \in Nat
    PROVE  /\ Oldest(p) = IF p >= Window - 1 THEN (p - Window) + 1 ELSE 0
           /\ Oldest(p) \in Nat /\ p - Window < Oldest(p) /\ Oldest(p) <= p
           /\ (p - Oldest(p)) + 1 \in 1..Window
<1>0. Window \in Nat \ {0}
  BY LayerAssumption
<1> DEFINE d == (p - Window) + 1
<1>1. d \in Int /\ 0 \in Nat
  BY <1>0
<1> HIDE DEF d
<1>2. Max({0, d}) = IF d <= 0 THEN 0 ELSE d
  BY <1>1, MaxOfTwo
<1>3. Oldest(p) = IF p >= Window - 1 THEN (p - Window) + 1 ELSE 0
  BY <1>0, <1>2 DEF d, Oldest
<1> QED  BY <1>0, <1>3

(* The slots selected for position p are those of the last Window positions, *)
(* the oldest first, and padding.                                            *)
LEMMA SelectedSlots ==
    ASSUME NEW p \in Nat, NEW padded \in BOOLEAN
    PROVE  LET topk == WindowTopk(p, padded)
               recent == (p - Oldest(p)) + 1
           IN  /\ Len(topk) = IF padded THEN Window ELSE recent
               /\ \A i \in 1..recent : topk[i] = (Oldest(p) + (i - 1)) % Window
               /\ \A i \in (recent + 1)..Len(topk) : topk[i] = NoSlot
<1> DEFINE topk == WindowTopk(p, padded)
           recent == (p - Oldest(p)) + 1
<1>0. Window \in Nat \ {0}
  BY LayerAssumption
<1>1. CASE p >= Window - 1
  <2>1. Oldest(p) = (p - Window) + 1 /\ recent = Window
    BY <1>0, <1>1, OldestIs
  <2>2. topk = [i \in 1..Window |-> ((p % Window) + i) % Window]
    BY <1>1 DEF WindowTopk
  <2>3. Len(topk) = Window
    BY <1>0, <2>2
  <2>4. ASSUME NEW i \in 1..Window  PROVE topk[i] = (Oldest(p) + (i - 1)) % Window
    <3>1. topk[i] = ((p % Window) + i) % Window
      BY <2>2
    <3>2. ((p - Window) + i) % Window = ((p % Window) + i) % Window
      BY <1>0, <1>1, RingOrder
    <3>3. Oldest(p) + (i - 1) = (p - Window) + i
      BY <1>0, <2>1
    <3> QED  BY <3>1, <3>2, <3>3, Zenon
  <2> HIDE DEF topk, recent
  <2>5. (recent + 1)..Len(topk) = {}
    BY <1>0, <2>1, <2>3
  <2>6. Len(topk) = IF padded THEN Window ELSE recent
    BY <2>1, <2>3
  <2>7. /\ \A i \in 1..recent : topk[i] = (Oldest(p) + (i - 1)) % Window
        /\ \A i \in (recent + 1)..Len(topk) : topk[i] = NoSlot
    BY <2>1, <2>4, <2>5, Zenon
  <2> QED  BY <2>6, <2>7, Zenon DEF topk, recent
<1>2. CASE ~(p >= Window - 1)
  <2>1. Oldest(p) = 0 /\ recent = p + 1
    BY <1>0, <1>2, OldestIs
  <2> DEFINE count == IF padded THEN Window ELSE p + 1
  <2>2. topk = [i \in 1..count |-> IF i <= p + 1 THEN i - 1 ELSE NoSlot]
    BY <1>2 DEF WindowTopk
  <2>3. count \in Nat /\ p + 1 <= count /\ count = IF padded THEN Window ELSE recent
    BY <1>0, <1>2, <2>1
  <2> HIDE DEF count
  <2>4. Len(topk) = count
    BY <2>2, <2>3
  <2>5. ASSUME NEW i \in 1..recent  PROVE topk[i] = (Oldest(p) + (i - 1)) % Window
    <3>1. i \in 1..count /\ i <= p + 1 /\ i - 1 \in 0..(Window - 1) /\ Oldest(p) + (i - 1) = i - 1
      BY <1>0, <1>2, <2>1, <2>3
    <3>2. topk[i] = i - 1
      BY <2>2, <3>1
    <3> DEFINE j == i - 1
    <3>3. j \in 0..(Window - 1) /\ topk[i] = j /\ Oldest(p) + (i - 1) = j
      BY <3>1, <3>2
    <3> HIDE DEF j
    <3>4. j % Window = j
      BY <1>0, <3>3, SmallRemainder
    <3> QED  BY <3>3, <3>4, Zenon
  <2>6. ASSUME NEW i \in (recent + 1)..Len(topk)  PROVE topk[i] = NoSlot
    <3>1. i \in 1..count /\ ~(i <= p + 1)
      BY <2>1, <2>3, <2>4
    <3> QED  BY <2>2, <3>1
  <2> HIDE DEF topk, recent
  <2> QED  BY <2>3, <2>4, <2>5, <2>6, Zenon DEF topk, recent
<1> QED  BY <1>1, <1>2

(* A position that the ring still holds is in its slot. *)
LEMMA InTheRing ==
    ASSUME Inv, pc = "idle", text # <<>>, NEW L \in Layer,
           NEW q \in Nat, q < Len(text), Len(text) <= q + Window
    PROVE  ring[L][q % Window] = RowOf(text, q)
<1>1. ring[L] = RingAt(text, Len(text)) /\ Len(text) \in Nat
  BY IdleFed
<1>2. LastRow(text, Len(text), Window, q % Window) = RowOf(text, q)
  BY <1>1, RecentRow
<1>3. q % Window \in RingSlot
  BY LayerAssumption, Division DEF RingSlot
<1> QED  BY <1>1, <1>2, <1>3, Zenon DEF RingAt

LEMMA InvWindow == Inv => WindowIsRecent
<1> SUFFICES ASSUME Inv, pc = "idle", text # <<>>, NEW L \in Layer, NEW padded \in BOOLEAN
             PROVE  LET p == Len(text) - 1
                        oldest == Max({0, (p - Window) + 1})
                        recent == (p - oldest) + 1
                        topk == WindowTopk(p, padded)
                    IN  /\ Len(topk) = IF padded THEN Window ELSE recent
                        /\ \A i \in 1..recent :
                              ring[L][topk[i]] = RowOf(text, oldest + (i - 1))
                        /\ \A i \in (recent + 1)..Len(topk) : topk[i] = NoSlot
  BY Zenon DEF WindowIsRecent
<1> DEFINE n == Len(text)
           p == n - 1
           oldest == Oldest(p)
           recent == (p - oldest) + 1
           topk == WindowTopk(p, padded)
<1>1. n \in Nat \ {0} /\ p \in Nat /\ n = p + 1 /\ Window \in Nat \ {0}
  BY IdleFed, EmptySeq, LayerAssumption
<1> HIDE DEF p
<1>2. oldest \in Nat /\ p - Window < oldest /\ oldest <= p
  BY <1>1, OldestIs
<1>3. /\ Len(topk) = IF padded THEN Window ELSE recent
      /\ \A i \in 1..recent : topk[i] = (oldest + (i - 1)) % Window
      /\ \A i \in (recent + 1)..Len(topk) : topk[i] = NoSlot
  BY <1>1, SelectedSlots
<1>4. ASSUME NEW i \in 1..recent
      PROVE  ring[L][topk[i]] = RowOf(text, oldest + (i - 1))
  <2> DEFINE q == oldest + (i - 1)
  <2> HIDE DEF oldest, topk
  <2>1. q \in Nat /\ q < n /\ n <= q + Window
    BY <1>1, <1>2
  <2>2. topk[i] = q % Window
    BY <1>3
  <2> HIDE DEF q
  <2>3. ring[L][q % Window] = RowOf(text, q)
    BY <2>1, InTheRing
  <2> QED  BY <2>2, <2>3, Zenon DEF q
<1> HIDE DEF topk
<1> QED  BY <1>3, <1>4, Zenon DEF p, topk, Oldest

(* A position is the row of its remainder in its block. *)
LEMMA CompressedRow ==
    ASSUME NEW t, NEW L \in Nat \ {0}, NEW p \in Nat
    PROVE  LET c == p \div L
           IN  \E i \in StateSlot(L) : SlotsOf(L, t, c * L, (c + 1) * L)[i] = RowOf(t, p)
<1> DEFINE c == p \div L
           n == (c + 1) * L
           i == (p % L) + (Halves(L) - 1) * L
<1>1. c \in Nat /\ p % L \in 0..(L - 1) /\ p = c * L + (p % L)
  BY Division
<1>2. n \in Nat /\ p < n /\ n <= p + L
  <2>1. n = c * L + L /\ c * L \in Nat
    BY <1>1, SMT
  <2> HIDE DEF c, n
  <2> QED  BY <1>1, <2>1
<1>3. /\ i \in StateSlot(L) /\ ~(Halves(L) = 2 /\ i < L)
      /\ i = (Halves(L) - 1) * L + (p % L) /\ Halves(L) - 1 \in Nat /\ i \in Nat
  BY <1>1 DEF StateSlot, Halves
<1>4. i % L = p % L
  <2> DEFINE h == Halves(L) - 1
             r == p % L
  <2>1. i \in Nat /\ h \in Nat /\ r \in 0..(L - 1) /\ i = h * L + r
    BY <1>1, <1>3
  <2> HIDE DEF h, r, i
  <2>2. i % L = r
    BY <2>1, DivisionIs
  <2> QED  BY <2>2 DEF r
<1>5. SlotsOf(L, t, c * L, n)[i] = LastRow(t, n, L, i % L)
  <2> HIDE DEF i, n, c
  <2> QED  BY <1>3, Zenon DEF SlotsOf
<1>6. LastRow(t, n, L, p % L) = RowOf(t, p)
  <2> DEFINE s == p % L
  <2>1. p \in Congruent(n, L, s)
    <3>1. p \in 0..(n - 1)
      BY <1>2
    <3> HIDE DEF n
    <3> QED  BY <3>1, Zenon DEF Congruent
  <2>2. ASSUME NEW r \in Congruent(n, L, s)  PROVE r <= p
    <3> HIDE DEF n
    <3>1. r \in 0..(n - 1) /\ r % L = p % L
      BY Zenon DEF Congruent
    <3>2. r \in Nat /\ r < p + L
      BY <1>2, <3>1
    <3>3. CASE p <= r
      <4>1. p = r
        BY <3>1, <3>2, <3>3, SameRemainder
      <4> QED  BY <3>2, <4>1
    <3> QED  BY <3>2, <3>3
  <2> HIDE DEF s, n
  <2>3. LastRow(t, n, L, s) = RowOf(t, p)
    BY <1>2, <2>1, <2>2, LastRowIs
  <2> QED  BY <2>3 DEF s
<1>7. SlotsOf(L, t, c * L, n)[i] = RowOf(t, p)
  <2> HIDE DEF i, n, c
  <2> QED  BY <1>4, <1>5, <1>6, Zenon
<1> HIDE DEF i
<1> QED  BY <1>3, <1>7, Zenon

(* What is asked of the ratios: a block ends before its first position     *)
(* leaves the ring.  The released model has the ratios 4 and 128 and a      *)
(* window of 128; the loader of the configuration does not ask for it.      *)
WindowCoversBlocks == \A L \in Layer : L <= Window + 1

LEMMA InvNothingForgotten == Inv /\ WindowCoversBlocks => NothingForgotten
<1> SUFFICES ASSUME Inv, WindowCoversBlocks, pc = "idle",
                    NEW u \in Unit, NEW p \in 0..(Len(text) - 1)
             PROVE  \/ \E i \in 1..Len(WindowTopk(Len(text) - 1, FALSE)) :
                         ring[u[1]][WindowTopk(Len(text) - 1, FALSE)[i]] = RowOf(text, p)
                    \/ \E c \in 0..(comp[u].count - 1) :
                         /\ comp[u].rows[c] # Blank
                         /\ \E i \in StateSlot(u[1]) : comp[u].rows[c][i] = RowOf(text, p)
  BY DEF NothingForgotten
<1> DEFINE n == Len(text)
           L == u[1]
<1>1. /\ n \in Nat /\ L \in Layer /\ L \in Nat \ {0} /\ text \in Seq(Token)
      /\ ring[L] = RingAt(text, n) /\ comp[u] = CompAt(L, text, n)
      /\ n \div L < RowCap(L)
      /\ Window \in Nat \ {0} /\ p \in Nat /\ p < n /\ L <= Window + 1
  BY IdleFed, LayerAssumption DEF WindowCoversBlocks
<1>2. CASE n <= p + Window
  <2> DEFINE k == n - 1
             topk == WindowTopk(k, FALSE)
             i == (p - Oldest(k)) + 1
  <2>1. k \in Nat /\ p <= k /\ k < p + Window /\ text # <<>>
    BY <1>1, <1>2, EmptySeq
  <2>2. ring[L][p % Window] = RowOf(text, p)
    BY <1>1, <1>2, <2>1, InTheRing
  <2> HIDE DEF k, L
  <2>3. /\ Len(topk) = (k - Oldest(k)) + 1
        /\ \A j \in 1..((k - Oldest(k)) + 1) : topk[j] = (Oldest(k) + (j - 1)) % Window
    BY <2>1, SelectedSlots
  <2>4. /\ Oldest(k) = IF k >= Window - 1 THEN (k - Window) + 1 ELSE 0
        /\ Oldest(k) \in Nat
    BY <2>1, OldestIs
  <2>5. i \in 1..((k - Oldest(k)) + 1) /\ Oldest(k) + (i - 1) = p
    BY <1>1, <2>1, <2>4
  <2> HIDE DEF topk, i
  <2>6. topk[i] = p % Window /\ i \in 1..Len(topk)
    BY <2>3, <2>5, Zenon
  <2>7. \E j \in 1..Len(topk) : ring[L][topk[j]] = RowOf(text, p)
    BY <2>2, <2>6, Zenon
  <2> QED  BY <2>7, Zenon DEF topk, k, L
<1>3. CASE ~(n <= p + Window)
  <2> DEFINE c == p \div L
             row == SlotsOf(L, text, c * L, (c + 1) * L)
  <2>1. c \in Nat /\ (c + 1) * L <= p + L /\ (c + 1) * L \in Nat
    <3>1. c \in Nat /\ c * L <= p
      BY <1>1, BlockStart
    <3> HIDE DEF c, L
    <3>2. (c + 1) * L = c * L + L /\ c * L \in Nat /\ (c + 1) * L \in Nat
      BY <1>1, <3>1, SMT
    <3> QED  BY <1>1, <3>1, <3>2
  <2>2. (c + 1) * L <= n
    <3> DEFINE e == (c + 1) * L
    <3>1. e \in Nat /\ e <= p + L
      BY <2>1
    <3> HIDE DEF e, L, n
    <3>2. e <= n
      BY <1>1, <1>3, <3>1
    <3> QED  BY <3>2 DEF e
  <2>3. c + 1 <= n \div L /\ n \div L \in Nat
    <3> HIDE DEF c, n, L
    <3>1. c + 1 \in Int
      BY <2>1
    <3> QED  BY <1>1, <2>2, <3>1, DivisionAtLeast, Division
  <2>4. /\ comp[u].count = n \div L /\ comp[u].rows = RowsAt(L, text, n)
    BY <1>1 DEF CompAt
  <2>5. c \in 0..(comp[u].count - 1) /\ c < n \div L /\ c \in CompRow(L)
    <3> DEFINE e == n \div L
    <3>1. e \in Nat /\ c + 1 <= e /\ e < RowCap(L) /\ RowCap(L) \in Nat
      BY <1>1, <2>3, RowCapIsNat
    <3> HIDE DEF e, c, L
    <3>2. c \in 0..(e - 1) /\ c < e /\ c \in CompRow(L)
      BY <2>1, <3>1 DEF CompRow
    <3> QED  BY <2>4, <3>2 DEF e
  <2>6. comp[u].rows[c] = row
    <3> HIDE DEF c, L, n
    <3> QED  BY <2>4, <2>5 DEF RowsAt
  <2>7. \E i \in StateSlot(L) : row[i] = RowOf(text, p)
    <3> HIDE DEF L
    <3> QED  BY <1>1, CompressedRow
  <2>8. row # Blank
    <3> DEFINE b == c * L
               e == (c + 1) * L
    <3>1. b \in Nat /\ b <= e /\ e \in Nat /\ e <= Len(text)
      <4>1. c * L \in Nat /\ c * L <= p
        BY <1>1, BlockStart
      <4>2. (c + 1) * L = c * L + L
        <5> HIDE DEF L, c
        <5> QED  BY <1>1, <2>1, SMT
      <4> HIDE DEF c, L
      <4> QED  BY <1>1, <2>1, <2>2, <4>1, <4>2
    <3> HIDE DEF b, e, L
    <3>2. SlotsOf(L, text, b, e) \in [StateSlot(L) -> RowType]
      BY <1>1, <3>1, SlotsType
    <3> QED  BY <1>1, <3>2, BlankAssumption DEF RowType, b, e
  <2> HIDE DEF c, row
  <2> QED  BY <2>5, <2>6, <2>7, <2>8
<1> QED  BY <1>2, <1>3

(* The memory of every layer is that of the text, byte for byte, whatever   *)
(* was fed, taken back by restore or kept by commit_prefix before; every    *)
(* variable keeps to its type and every count to its array.                 *)
THEOREM MemoryIsOfText == Spec => []ContextIsOfText
  BY ContextInvariant, InvContext, PTL

(* What window_topk selects is the last Window positions of the text, the   *)
(* oldest first wherever the ring has wrapped, and padding behind them.     *)
THEOREM AttentionSeesTheWindow == Spec => []WindowIsRecent
  BY ContextInvariant, InvWindow, PTL

(* In a compressing layer no position is lost between the end of its block  *)
(* and the wrap of the ring.                                                *)
THEOREM NoPositionLost == WindowCoversBlocks => (Spec => []NothingForgotten)
<1> SUFFICES ASSUME WindowCoversBlocks  PROVE Spec => []NothingForgotten
  OBVIOUS
<1>1. Inv => NothingForgotten
  BY InvNothingForgotten
<1> QED  BY <1>1, ContextInvariant, PTL

(* The process gives up over a full compressor only past the context. *)
THEOREM ExitPastContext == Spec => []ExitOnlyPastContext
<1>1. Inv => ExitOnlyPastContext
  BY DEF Inv, CallInv, ExitOnlyPastContext
<1> QED  BY <1>1, ContextInvariant, PTL


===============================================================================
