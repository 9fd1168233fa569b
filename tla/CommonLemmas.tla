---------------------------- MODULE CommonLemmas ----------------------------
(***************************************************************************)
(* Facts of arithmetic, of sets of numbers and of sequences without        *)
(* repetition that the proofs of several modules need.                     *)
(***************************************************************************)
EXTENDS Integers, Sequences, FiniteSetsExt, Functions, FiniteSetTheorems,
        SequenceTheorems, WellFoundedInduction, TLAPS

-------------------------------------------------------------------------------
(* Quotients and remainders. *)

LEMMA Division ==
    ASSUME NEW a \in Nat, NEW b \in Nat \ {0}
    PROVE  /\ a \div b \in Nat /\ a % b \in 0..(b - 1)
           /\ a = (a \div b) * b + (a % b)
           /\ (a \div b) * b <= a /\ a < (a \div b) * b + b
    BY SMT

LEMMA DivisionAtLeast ==
    ASSUME NEW a \in Nat, NEW b \in Nat \ {0}, NEW k \in Int, k * b <= a
    PROVE  k <= a \div b
    BY SMT

(* A quotient and a remainder are those of the division. *)
LEMMA DivisionIs ==
    ASSUME NEW a \in Nat, NEW b \in Nat \ {0}, NEW k \in Nat, NEW r \in 0..(b - 1),
           a = k * b + r
    PROVE  a \div b = k /\ a % b = r
<1>1. k <= a \div b
  <2>1. k * b <= a
    BY SMT
  <2> QED  BY <2>1, DivisionAtLeast
<1>2. /\ a \div b \in Nat /\ a % b \in 0..(b - 1)
      /\ a = (a \div b) * b + (a % b)
  BY Division
<1>3. a \div b <= k
  <2> SUFFICES ASSUME a \div b >= k + 1  PROVE FALSE
    BY <1>2
  <2>1. (a \div b) * b >= (k + 1) * b
    BY <1>2, SMT
  <2> QED  BY <1>2, <2>1, SMT
<1>4. a \div b = k
  BY <1>1, <1>2, <1>3
<1> QED  BY <1>2, <1>4, SMT

(* What is less than the divisor is its own remainder. *)
LEMMA SmallRemainder ==
    ASSUME NEW b \in Nat \ {0}, NEW a \in 0..(b - 1)
    PROVE  a % b = a
<1>1. 0 * b = 0 /\ a = 0 + a /\ 0 \in Nat /\ a \in Nat
  BY SMT
<1>2. a = 0 * b + a
  BY <1>1
<1> QED  BY <1>1, <1>2, DivisionIs

LEMMA NextDivision ==
    ASSUME NEW a \in Nat, NEW b \in Nat \ {0}
    PROVE  /\ (a + 1) % b = 0 => /\ (a + 1) \div b = (a \div b) + 1 /\ a % b = b - 1
                                 /\ a + 1 = ((a \div b) + 1) * b
           /\ (a + 1) % b # 0 => /\ (a + 1) \div b = a \div b /\ (a + 1) % b = (a % b) + 1
<1> DEFINE k == a \div b
           r == a % b
<1>1. k \in Nat /\ r \in 0..(b - 1) /\ a = k * b + r
  BY Division
<1> HIDE DEF k, r
<1>2. CASE r = b - 1
  <2>1. a + 1 = (k + 1) * b + 0
    BY <1>1, <1>2, SMT
  <2>2. k + 1 \in Nat /\ 0 \in 0..(b - 1) /\ a + 1 \in Nat
    BY <1>1
  <2>3. (a + 1) \div b = k + 1 /\ (a + 1) % b = 0
    BY <2>1, <2>2, DivisionIs
  <2> QED  BY <1>2, <2>1, <2>3, <1>1 DEF k, r
<1>3. CASE r # b - 1
  <2>1. a + 1 = k * b + (r + 1) /\ r + 1 \in 0..(b - 1) /\ a + 1 \in Nat
    BY <1>1, <1>3, SMT
  <2>2. (a + 1) \div b = k /\ (a + 1) % b = r + 1
    BY <1>1, <2>1, DivisionIs
  <2> QED  BY <1>1, <2>2 DEF k, r
<1> QED  BY <1>2, <1>3

LEMMA DivisionMonotone ==
    ASSUME NEW a \in Nat, NEW c \in Nat, a <= c, NEW b \in Nat \ {0}
    PROVE  a \div b <= c \div b
<1>1. (a \div b) * b <= c /\ a \div b \in Nat
  BY Division
<1> QED  BY <1>1, DivisionAtLeast

(* Two positions less than m apart with the same remainder are the same. *)
LEMMA SameRemainder ==
    ASSUME NEW m \in Nat \ {0}, NEW p \in Nat, NEW q \in Nat,
           p <= q, q < p + m, p % m = q % m
    PROVE  p = q
<1> DEFINE k == p \div m
           l == q \div m
           r == p % m
<1>1. k \in Nat /\ l \in Nat /\ p = k * m + r /\ q = l * m + r /\ r \in 0..(m - 1)
  BY Division
<1> HIDE DEF k, l, r
<1>2. k = l
  <2>1. CASE l >= k + 1
    <3>1. l * m >= (k + 1) * m
      BY <1>1, <2>1, SMT
    <3> QED  BY <1>1, <3>1, SMT
  <2>2. CASE l < k
    <3>1. k * m >= (l + 1) * m
      BY <1>1, <2>2, SMT
    <3> QED  BY <1>1, <3>1, SMT
  <2> QED  BY <1>1, <2>1, <2>2
<1> QED  BY <1>1, <1>2

(* Any m positions in a row have every remainder. *)
LEMMA EveryRemainder ==
    ASSUME NEW m \in Nat \ {0}, NEW a \in Nat, NEW s \in 0..(m - 1)
    PROVE  \E q \in a..(a + m - 1) : q % m = s
<1> DEFINE k == a \div m
           r == a % m
<1>1. k \in Nat /\ r \in 0..(m - 1) /\ a = k * m + r
  BY Division
<1> HIDE DEF k, r
<1>2. CASE r <= s
  <2>1. k * m + s \in a..(a + m - 1)
    BY <1>1, <1>2, SMT
  <2>2. (k * m + s) % m = s
    <3>1. k * m + s \in Nat
      BY <1>1, SMT
    <3> QED  BY <1>1, <3>1, DivisionIs
  <2> QED  BY <2>1, <2>2
<1>3. CASE r > s
  <2>1. (k + 1) * m + s \in a..(a + m - 1)
    BY <1>1, <1>3, SMT
  <2>2. ((k + 1) * m + s) % m = s
    <3>1. (k + 1) * m + s \in Nat /\ k + 1 \in Nat
      BY <1>1, SMT
    <3> QED  BY <1>1, <3>1, DivisionIs
  <2> QED  BY <2>1, <2>2
<1> QED  BY <1>1, <1>2, <1>3

-------------------------------------------------------------------------------
(* The largest and the smallest of a set. *)

LEMMA LeastExists ==
    ASSUME NEW S \in SUBSET Nat, S # {}
    PROVE  \E m \in S : \A n \in S : m <= n
<1>1. PICK m \in S : \A n \in S : ~(<<n, m>> \in OpToRel(<, Nat))
  BY NatLessThanWellFounded, WFMin
<1>2. \A n \in S : m <= n
  <2> SUFFICES ASSUME NEW n \in S, n < m  PROVE FALSE
    OBVIOUS
  <2>1. n \in Nat /\ m \in Nat
    OBVIOUS
  <2>2. <<n, m>> \in Nat \X Nat /\ <<n, m>>[1] < <<n, m>>[2]
    BY <2>1
  <2>3. <<n, m>> \in OpToRel(<, Nat)
    BY <2>2 DEF OpToRel
  <2> QED  BY <1>1, <2>3
<1> QED  BY <1>2

LEMMA LeastIs ==
    ASSUME NEW S \in SUBSET Nat, S # {}
    PROVE  Min(S) \in S /\ \A x \in S : Min(S) <= x
  BY LeastExists DEF Min

(* A set of naturals with a bound has a largest element: the bound less the *)
(* least distance from it.                                                  *)
LEMMA GreatestExists ==
    ASSUME NEW S \in SUBSET Nat, S # {}, NEW b \in Nat, \A x \in S : x <= b
    PROVE  Max(S) \in S /\ \A x \in S : x <= Max(S)
<1> DEFINE D == {b - x : x \in S}
<1>1. D \in SUBSET Nat /\ D # {}
  OBVIOUS
<1> HIDE DEF D
<1>2. PICK d \in D : \A e \in D : d <= e
  BY <1>1, LeastExists
<1>3. PICK m \in S : d = b - m
  BY <1>2 DEF D
<1>4. \A x \in S : m >= x
  <2> SUFFICES ASSUME NEW x \in S  PROVE m >= x
    OBVIOUS
  <2>1. d <= b - x
    BY <1>2 DEF D
  <2>2. m \in Nat /\ x \in Nat
    OBVIOUS
  <2> QED  BY <1>3, <2>1, <2>2
<1>5. Max(S) \in S /\ \A x \in S : Max(S) >= x
  BY <1>4 DEF Max
<1>6. Max(S) \in Nat /\ \A x \in S : x \in Nat
  BY <1>5
<1> QED  BY <1>5, <1>6

LEMMA GreatestIs ==
    ASSUME NEW S \in SUBSET Nat, NEW m \in S, \A x \in S : x <= m
    PROVE  Max(S) = m
<1>1. Max(S) \in S /\ \A x \in S : x <= Max(S)
  BY GreatestExists
<1>2. Max(S) \in Nat /\ m \in Nat /\ m <= Max(S) /\ Max(S) <= m
  BY <1>1
<1> QED  BY <1>2

LEMMA FiniteBounded ==
    ASSUME NEW S \in SUBSET Nat, IsFiniteSet(S)
    PROVE  \E b \in Nat : \A x \in S : x <= b
<1> DEFINE Bounded(T) == \E b \in Nat : \A x \in T : x <= b
           Bad(T) == T \in SUBSET Nat /\ IsFiniteSet(T) /\ ~Bounded(T)
           N == {n \in Nat : \E T \in SUBSET Nat : Bad(T) /\ Cardinality(T) = n}
<1> SUFFICES ASSUME Bad(S)  PROVE FALSE
  OBVIOUS
<1>1. N \in SUBSET Nat /\ N # {}
  <2>1. Cardinality(S) \in Nat
    BY FS_CardinalityType
  <2> HIDE DEF Bad
  <2> QED  BY <2>1
<1>2. PICK n \in N : \A k \in N : n <= k
  <2> HIDE DEF N
  <2> QED  BY <1>1, LeastExists
<1>3. PICK T \in SUBSET Nat : Bad(T) /\ Cardinality(T) = n
  BY <1>2
<1>4. T # {}
  BY <1>3
<1>5. PICK x \in T : TRUE
  BY <1>4
<1>6. IsFiniteSet(T \ {x}) /\ Cardinality(T \ {x}) = n - 1 /\ n \in Nat /\ n - 1 \in Nat
  <2>1. Cardinality(T \ {x}) = n - 1 /\ IsFiniteSet(T \ {x})
    BY <1>3, <1>5, FS_RemoveElement
  <2>2. Cardinality(T \ {x}) \in Nat
    BY <2>1, FS_CardinalityType
  <2> QED  BY <1>2, <2>1, <2>2
<1>7. Bounded(T \ {x})
  <2> SUFFICES ASSUME ~Bounded(T \ {x})  PROVE FALSE
    OBVIOUS
  <2>1. Bad(T \ {x}) /\ T \ {x} \in SUBSET Nat
    BY <1>6
  <2> HIDE DEF Bad
  <2>2. n - 1 \in N
    BY <1>6, <2>1
  <2>3. n <= n - 1
    BY <1>2, <2>2
  <2> QED  BY <1>6, <2>3
<1>8. PICK b \in Nat : \A y \in T \ {x} : y <= b
  BY <1>7
<1>9. \A y \in T : y <= b + x
  <2>1. x \in Nat
    BY <1>5
  <2>2. ASSUME NEW y \in T  PROVE y <= b + x
    <3>1. y \in Nat /\ (y = x \/ y <= b)
      BY <1>8
    <3> QED  BY <2>1, <3>1
  <2> QED  BY <2>2
<1> QED  BY <1>3, <1>5, <1>9

LEMMA MinOfTwo ==
    ASSUME NEW a \in Int, NEW b \in Int
    PROVE  Min({a, b}) = IF a <= b THEN a ELSE b
<1>1. PICK x \in {a, b} : \A y \in {a, b} : x <= y
  <2>1. CASE a <= b
    BY <2>1
  <2>2. CASE ~(a <= b)
    BY <2>2
  <2> QED  BY <2>1, <2>2
<1>2. Min({a, b}) \in {a, b} /\ \A y \in {a, b} : Min({a, b}) <= y
  BY <1>1 DEF Min
<1> QED  BY <1>2

LEMMA MaxOfTwo ==
    ASSUME NEW a \in Nat, NEW b \in Int
    PROVE  Max({a, b}) = IF b <= a THEN a ELSE b
<1> DEFINE S == {a, b}
<1>1. \E x \in S : \A y \in S : x >= y
  OBVIOUS
<1>2. Max(S) \in S /\ \A y \in S : Max(S) >= y
  <2> HIDE DEF S
  <2> QED  BY <1>1 DEF Max
<1> QED  BY <1>2

-------------------------------------------------------------------------------
(* Sizes of intervals. *)

LEMMA UpTo ==
    ASSUME NEW n \in Nat
    PROVE  IsFiniteSet(1..n) /\ Cardinality(1..n) = n
<1>1. 1 \in Int /\ n \in Int
  OBVIOUS
<1>2. IsFiniteSet(1..n) /\ Cardinality(1..n) = IF 1 > n THEN 0 ELSE n - 1 + 1
  BY <1>1, FS_Interval, Zenon
<1> QED  BY <1>2

LEMMA UpToSize ==
    ASSUME NEW n \in Int, NEW m \in Nat, n <= m
    PROVE  IsFiniteSet(0..(n - 1)) /\ Cardinality(0..(n - 1)) <= m
<1> DEFINE b == n - 1
<1>1. b \in Int /\ 0 \in Int
  OBVIOUS
<1> HIDE DEF b
<1>2. IsFiniteSet(0..b) /\ Cardinality(0..b) = IF 0 > b THEN 0 ELSE b - 0 + 1
  BY <1>1, FS_Interval, Zenon
<1>3. Cardinality(0..b) <= m
  BY <1>1, <1>2 DEF b
<1> QED  BY <1>2, <1>3 DEF b

-------------------------------------------------------------------------------
(* Sequences without repetition, taken from at the head and put to at the   *)
(* end, as the queues of the read pool and of the ring are.                 *)

LEMMA TailOfInjective ==
    ASSUME NEW S, NEW s \in Seq(S), s # <<>>, IsInjective(s)
    PROVE  /\ Head(s) \in S /\ Tail(s) \in Seq(S)
           /\ IsInjective(Tail(s))
           /\ Range(s) = Range(Tail(s)) \cup {Head(s)}
           /\ Head(s) \notin Range(Tail(s))
           /\ Len(Tail(s)) <= Len(s)
<1>1. /\ Head(s) \in S /\ Tail(s) \in Seq(S)
      /\ Len(Tail(s)) = Len(s) - 1
      /\ \A i \in 1..Len(Tail(s)) : Tail(s)[i] = s[i + 1]
  BY HeadTailProperties
<1>2. Len(s) \in Nat \ {0} /\ DOMAIN s = 1..Len(s) /\ Head(s) = s[1]
  BY EmptySeq, LenProperties
<1>3. DOMAIN Tail(s) = 1..Len(Tail(s))
  BY <1>1, LenProperties
<1>4. IsInjective(Tail(s))
  <2> SUFFICES ASSUME NEW a \in 1..Len(Tail(s)), NEW b \in 1..Len(Tail(s)),
                      Tail(s)[a] = Tail(s)[b]
               PROVE  a = b
    BY <1>3 DEF IsInjective
  <2>1. s[a + 1] = s[b + 1] /\ a + 1 \in DOMAIN s /\ b + 1 \in DOMAIN s
    BY <1>1, <1>2
  <2> QED  BY <2>1 DEF IsInjective
<1>5. Range(s) = Range(Tail(s)) \cup {Head(s)}
  <2>1. ASSUME NEW x \in Range(s)  PROVE x \in Range(Tail(s)) \cup {Head(s)}
    <3>1. PICK i \in 1..Len(s) : x = s[i]
      BY <1>2 DEF Range
    <3>2. i # 1 => i - 1 \in 1..Len(Tail(s)) /\ Tail(s)[i - 1] = s[i]
      BY <1>1, <1>2
    <3> QED  BY <3>1, <3>2, <1>2, <1>3 DEF Range
  <2>2. ASSUME NEW x \in Range(Tail(s))  PROVE x \in Range(s)
    <3>1. PICK i \in 1..Len(Tail(s)) : x = Tail(s)[i]
      BY <1>3 DEF Range
    <3>2. x = s[i + 1] /\ i + 1 \in DOMAIN s
      BY <3>1, <1>1, <1>2
    <3> QED  BY <3>2 DEF Range
  <2>3. Head(s) \in Range(s)
    BY <1>2 DEF Range
  <2> QED  BY <2>1, <2>2, <2>3
<1>6. Head(s) \notin Range(Tail(s))
  <2> SUFFICES ASSUME NEW i \in 1..Len(Tail(s)), s[1] = Tail(s)[i]  PROVE FALSE
    BY <1>2, <1>3 DEF Range
  <2>1. s[1] = s[i + 1] /\ 1 \in DOMAIN s /\ i + 1 \in DOMAIN s
    BY <1>1, <1>2
  <2>2. i + 1 # 1
    OBVIOUS
  <2> QED  BY <2>1, <2>2 DEF IsInjective
<1> QED  BY <1>1, <1>2, <1>4, <1>5, <1>6

(* The elements of a concatenation. *)
LEMMA PartsOfConcat ==
    ASSUME NEW S, NEW s \in Seq(S), NEW t \in Seq(S)
    PROVE  /\ s \o t \in Seq(S) /\ Len(s \o t) = Len(s) + Len(t)
           /\ \A i \in 1..Len(s) : (s \o t)[i] = s[i]
           /\ \A i \in 1..Len(t) : (s \o t)[Len(s) + i] = t[i]
<1>1. /\ s \o t \in Seq(S) /\ Len(s \o t) = Len(s) + Len(t)
      /\ \A i \in 1..Len(s) + Len(t) : (s \o t)[i] = IF i <= Len(s) THEN s[i] ELSE t[i - Len(s)]
  BY ConcatProperties
<1>2. Len(s) \in Nat /\ Len(t) \in Nat
  OBVIOUS
<1>3. ASSUME NEW i \in 1..Len(t)  PROVE (s \o t)[Len(s) + i] = t[i]
  <2>1. Len(s) + i \in 1..Len(s) + Len(t) /\ ~(Len(s) + i <= Len(s)) /\ (Len(s) + i) - Len(s) = i
    BY <1>2
  <2> QED  BY <1>1, <2>1
<1>4. ASSUME NEW i \in 1..Len(s)  PROVE (s \o t)[i] = s[i]
  <2>1. i \in 1..Len(s) + Len(t) /\ i <= Len(s)
    BY <1>2
  <2> QED  BY <1>1, <2>1
<1> QED  BY <1>1, <1>3, <1>4

LEMMA ConcatOfInjective ==
    ASSUME NEW S, NEW s \in Seq(S), NEW t \in Seq(S),
           IsInjective(s), IsInjective(t), Range(s) \cap Range(t) = {}
    PROVE  /\ s \o t \in Seq(S)
           /\ IsInjective(s \o t)
           /\ Range(s \o t) = Range(s) \cup Range(t)
<1>1. /\ s \o t \in Seq(S)
      /\ Len(s \o t) = Len(s) + Len(t)
      /\ \A i \in 1..(Len(s) + Len(t)) :
            (s \o t)[i] = IF i <= Len(s) THEN s[i] ELSE t[i - Len(s)]
  BY ConcatProperties
<1>2. /\ Len(s) \in Nat /\ DOMAIN s = 1..Len(s)
      /\ Len(t) \in Nat /\ DOMAIN t = 1..Len(t)
      /\ DOMAIN (s \o t) = 1..(Len(s) + Len(t))
  BY <1>1, LenProperties
<1>3. ASSUME NEW a \in 1..(Len(s) + Len(t)), NEW b \in 1..(Len(s) + Len(t)),
             (s \o t)[a] = (s \o t)[b]
      PROVE  a = b
  <2>1. CASE a <= Len(s) /\ b <= Len(s)
    <3>1. s[a] = s[b] /\ a \in DOMAIN s /\ b \in DOMAIN s
      BY <2>1, <1>1, <1>2, <1>3
    <3> QED  BY <3>1 DEF IsInjective
  <2>2. CASE ~(a <= Len(s)) /\ ~(b <= Len(s))
    <3>1. /\ t[a - Len(s)] = t[b - Len(s)]
          /\ a - Len(s) \in DOMAIN t /\ b - Len(s) \in DOMAIN t
      BY <2>2, <1>1, <1>2, <1>3
    <3>2. a - Len(s) = b - Len(s)
      BY <3>1 DEF IsInjective
    <3> QED  BY <3>2, <1>2
  <2>3. CASE a <= Len(s) /\ ~(b <= Len(s))
    <3>1. s[a] = t[b - Len(s)] /\ a \in DOMAIN s /\ b - Len(s) \in DOMAIN t
      BY <2>3, <1>1, <1>2, <1>3
    <3> QED  BY <3>1 DEF Range
  <2>4. CASE ~(a <= Len(s)) /\ b <= Len(s)
    <3>1. s[b] = t[a - Len(s)] /\ b \in DOMAIN s /\ a - Len(s) \in DOMAIN t
      BY <2>4, <1>1, <1>2, <1>3
    <3> QED  BY <3>1 DEF Range
  <2> QED  BY <2>1, <2>2, <2>3, <2>4
<1>4. IsInjective(s \o t)
  BY <1>2, <1>3 DEF IsInjective
<1> QED  BY <1>1, <1>4, RangeConcatenation

LEMMA AppendOfInjective ==
    ASSUME NEW S, NEW s \in Seq(S), NEW x \in S, IsInjective(s), x \notin Range(s)
    PROVE  /\ Append(s, x) \in Seq(S)
           /\ IsInjective(Append(s, x))
           /\ Range(Append(s, x)) = Range(s) \cup {x}
<1> DEFINE t == <<x>>
<1>1. t \in Seq(S) /\ Append(s, x) = s \o t
  BY AppendIsConcat
<1>2. Range(t) = {x} /\ IsInjective(t)
  BY DEF Range, IsInjective
<1> HIDE DEF t
<1>3. Range(s) \cap Range(t) = {}
  BY <1>2
<1>4. /\ s \o t \in Seq(S)
      /\ IsInjective(s \o t)
      /\ Range(s \o t) = Range(s) \cup Range(t)
  BY <1>1, <1>2, <1>3, ConcatOfInjective
<1> QED  BY <1>1, <1>2, <1>4

-------------------------------------------------------------------------------
(* Induction over a set of numbers, and what a left fold computes: the fold *)
(* of the community modules is a function over the sets of positions, each  *)
(* set without its largest element being folded first.                      *)

LEMMA Induct ==
    ASSUME NEW T, 0 \in T, \A n \in Nat : n \in T => n + 1 \in T
    PROVE  \A n \in Nat : n \in T
<1> SUFFICES ASSUME NEW x \in Nat, x \notin T  PROVE FALSE
  OBVIOUS
<1> DEFINE B == Nat \ T
<1>1. PICK m \in B : \A n \in B : m <= n
  <2>1. B \in SUBSET Nat /\ B # {}
    OBVIOUS
  <2> HIDE DEF B
  <2> QED  BY <2>1, LeastExists
<1>2. m \in Nat /\ m \notin T
  OBVIOUS
<1>3. m # 0
  BY <1>2
<1>4. m - 1 \in Nat /\ m = (m - 1) + 1
  BY <1>2, <1>3
<1>5. m - 1 \in T
  <2> SUFFICES ASSUME m - 1 \notin T  PROVE FALSE
    OBVIOUS
  <2>1. m - 1 \in B
    BY <1>4
  <2>2. m <= m - 1
    BY <1>1, <2>1
  <2> QED  BY <1>2, <2>2
<1> QED  BY <1>2, <1>4, <1>5

Folding(g, n, base, F) ==
    g = [s \in SUBSET (1..n) |-> IF s = {} THEN base ELSE F[<<g[s \ {Max(s)}], Max(s)>>]]

LEMMA MaxOfPositions ==
    ASSUME NEW n \in Nat, NEW s \in SUBSET (1..n), s # {}
    PROVE  /\ Max(s) \in s /\ \A x \in s : x <= Max(s)
           /\ Max(s) \in 1..n /\ s \ {Max(s)} \in SUBSET (1..(Max(s) - 1))
<1>1. s \in SUBSET Nat /\ \A x \in s : x <= n
  OBVIOUS
<1>2. Max(s) \in s /\ \A x \in s : x <= Max(s)
  BY <1>1, GreatestExists
<1> HIDE <1>1
<1>3. Max(s) \in 1..n
  BY <1>2
<1>4. \A x \in s \ {Max(s)} : x \in 1..(Max(s) - 1)
  <2> DEFINE m == Max(s)
  <2> HIDE DEF m
  <2>1. \A x \in s : x <= m /\ x \in 1..n
    BY <1>2 DEF m
  <2>2. m \in 1..n
    BY <1>3 DEF m
  <2>3. \A x \in s \ {m} : x \in 1..(m - 1)
    BY <2>1, <2>2
  <2> QED  BY <2>3 DEF m
<1> QED  BY <1>2, <1>3, <1>4

LEMMA FoldExists ==
    ASSUME NEW n \in Nat, NEW base, NEW F
    PROVE  \E g : Folding(g, n, base, F)
<1> DEFINE T == {k \in Nat : \E g : Folding(g, k, base, F)}
<1>1. 0 \in T
  <2> DEFINE g == [s \in SUBSET (1..0) |-> base]
  <2>1. \A s \in SUBSET (1..0) : s = {}
    OBVIOUS
  <2>2. Folding(g, 0, base, F)
    BY <2>1 DEF Folding
  <2> QED  BY <2>2
<1>2. ASSUME NEW k \in Nat, k \in T  PROVE k + 1 \in T
  <2>1. PICK h : Folding(h, k, base, F)
    BY <1>2
  <2> DEFINE g == [s \in SUBSET (1..(k + 1)) |->
                     IF k + 1 \in s THEN F[<<h[s \ {k + 1}], k + 1>>] ELSE h[s]]
  <2>a. \A s \in SUBSET (1..k) : s \in SUBSET (1..(k + 1)) /\ k + 1 \notin s
    OBVIOUS
  <2>b. \A s \in SUBSET (1..k) : g[s] = h[s]
    BY <2>a
  <2>c. h = [s \in SUBSET (1..k) |-> IF s = {} THEN base ELSE F[<<h[s \ {Max(s)}], Max(s)>>]]
    BY <2>1 DEF Folding
  <2>2. ASSUME NEW s \in SUBSET (1..(k + 1))
        PROVE  g[s] = IF s = {} THEN base ELSE F[<<g[s \ {Max(s)}], Max(s)>>]
    <3>1. CASE k + 1 \in s
      <4>1. Max(s) = k + 1
        <5>1. s \in SUBSET Nat /\ \A x \in s : x <= k + 1
          OBVIOUS
        <5>2. k + 1 \in s
          BY <3>1
        <5> QED  BY <5>1, <5>2, GreatestIs
      <4>2. s \ {k + 1} \in SUBSET (1..k)
        OBVIOUS
      <4>3. g[s \ {k + 1}] = h[s \ {k + 1}]
        BY <4>2, <2>b
      <4>4. g[s] = F[<<h[s \ {k + 1}], k + 1>>]
        BY <3>1
      <4>5. s # {}
        BY <3>1
      <4> HIDE DEF g
      <4> QED  BY <4>1, <4>3, <4>4, <4>5
    <3>2. CASE k + 1 \notin s /\ s # {}
      <4>1. s \in SUBSET (1..k)
        BY <3>2
      <4>2. Max(s) \in 1..k /\ s \ {Max(s)} \in SUBSET (1..(Max(s) - 1))
        BY <4>1, <3>2, MaxOfPositions
      <4>3. s \ {Max(s)} \in SUBSET (1..k)
        BY <4>1
      <4>4. g[s] = h[s] /\ g[s \ {Max(s)}] = h[s \ {Max(s)}]
        BY <4>1, <4>3, <2>b
      <4>5. h[s] = F[<<h[s \ {Max(s)}], Max(s)>>]
        BY <2>c, <4>1, <3>2
      <4> HIDE DEF g
      <4> QED  BY <4>4, <4>5, <3>2
    <3>3. CASE s = {}
      <4>1. {} \in SUBSET (1..k)
        OBVIOUS
      <4>2. h[{}] = base
        BY <4>1, <2>c
      <4>3. g[{}] = h[{}]
        BY <4>1, <2>b
      <4> HIDE DEF g
      <4> QED  BY <4>2, <4>3, <3>3
    <3> QED  BY <3>1, <3>2, <3>3
  <2>3. g = [s \in SUBSET (1..(k + 1)) |->
                IF s = {} THEN base ELSE F[<<g[s \ {Max(s)}], Max(s)>>]]
    <3>1. DOMAIN g = SUBSET (1..(k + 1)) /\ g = [s \in SUBSET (1..(k + 1)) |-> g[s]]
      OBVIOUS
    <3> HIDE DEF g
    <3> QED  BY <2>2, <3>1
  <2>4. Folding(g, k + 1, base, F)
    <3> HIDE DEF g
    <3> QED  BY <2>3 DEF Folding
  <2> HIDE DEF g
  <2> QED  BY <2>4
<1>3. \A k \in Nat : k \in T
  <2> HIDE DEF T
  <2> QED  BY <1>1, <1>2, Induct
<1> QED  BY <1>3

(* a lists the values from the base to the result. *)
Accumulates(a, n, base, F, St, last) ==
    /\ a \in [0..n -> St] /\ a[0] = base /\ a[n] = last
    /\ \A k \in 1..n : a[k] = F[<<a[k - 1], k>>]

LEMMA FoldRuns ==
    ASSUME NEW n \in Nat, NEW base, NEW F, NEW St, NEW g, Folding(g, n, base, F),
           base \in St, \A x \in St, k \in 1..n : F[<<x, k>>] \in St
    PROVE  /\ g \in [SUBSET (1..n) -> St]
           /\ \E a : Accumulates(a, n, base, F, St, g[1..n])
<1>a. g = [s \in SUBSET (1..n) |-> IF s = {} THEN base ELSE F[<<g[s \ {Max(s)}], Max(s)>>]]
  BY DEF Folding
<1>b. /\ \A s \in SUBSET (1..n) :
            g[s] = IF s = {} THEN base ELSE F[<<g[s \ {Max(s)}], Max(s)>>]
      /\ DOMAIN g = SUBSET (1..n)
      /\ g = [s \in SUBSET (1..n) |-> g[s]]
  BY <1>a
<1> HIDE <1>a
<1> DEFINE Typed(k) == \A s \in SUBSET (1..k) : g[s] \in St
           T == {k \in Nat : k <= n => Typed(k)}
<1>1. 0 \in T
  <2>1. \A s \in SUBSET (1..0) : s = {}
    OBVIOUS
  <2>2. {} \in SUBSET (1..n)
    OBVIOUS
  <2>3. g[{}] = base
    BY <1>b, <2>2
  <2> QED  BY <2>1, <2>3
<1>2. ASSUME NEW k \in Nat, k \in T  PROVE k + 1 \in T
  <2> SUFFICES ASSUME k + 1 <= n  PROVE Typed(k + 1)
    <3> HIDE DEF Typed
    <3> QED  OBVIOUS
  <2> SUFFICES ASSUME NEW s \in SUBSET (1..(k + 1))  PROVE g[s] \in St
    OBVIOUS
  <2>a. \A t \in SUBSET (1..k) : g[t] \in St
    BY <1>2
  <2> HIDE DEF T
  <2>1. s \in SUBSET (1..n)
    OBVIOUS
  <2>2. CASE s = {}
    BY <1>b, <2>1, <2>2
  <2>3. CASE s # {}
    <3>1. k + 1 \in Nat
      OBVIOUS
    <3>2. Max(s) \in 1..(k + 1) /\ s \ {Max(s)} \in SUBSET (1..(Max(s) - 1))
      BY <3>1, <2>3, MaxOfPositions
    <3> DEFINE m == Max(s)
    <3>3. m \in 1..n /\ s \ {m} \in SUBSET (1..k)
      <4>1. m \in 1..(k + 1) /\ s \ {m} \in SUBSET (1..(m - 1))
        BY <3>2
      <4> HIDE DEF m
      <4> QED  BY <4>1
    <3>4. g[s \ {m}] \in St
      BY <2>a, <3>3
    <3>5. F[<<g[s \ {m}], m>>] \in St
      <4> HIDE DEF m
      <4> QED  BY <3>3, <3>4
    <3>6. g[s] = F[<<g[s \ {m}], m>>]
      BY <1>b, <2>1, <2>3
    <3> QED  BY <3>5, <3>6
  <2> QED  BY <2>2, <2>3
<1>3. n \in T
  <2>1. \A k \in Nat : k \in T
    <3> HIDE DEF T
    <3> QED  BY <1>1, <1>2, Induct
  <2> QED  BY <2>1
<1>4. g \in [SUBSET (1..n) -> St]
  <2>1. Typed(n)
    <3> HIDE DEF Typed
    <3> QED  BY <1>3
  <2> HIDE DEF T
  <2> QED  BY <2>1, <1>b
<1> HIDE DEF T
<1> DEFINE a == [k \in 0..n |-> g[1..k]]
<1>5. a \in [0..n -> St]
  BY <1>4
<1>6. a[0] = base
  <2>1. 1..0 = {} /\ {} \in SUBSET (1..n)
    OBVIOUS
  <2>2. g[{}] = base
    BY <1>b, <2>1
  <2>3. a[0] = g[1..0]
    OBVIOUS
  <2> QED  BY <2>1, <2>2, <2>3
<1>7. ASSUME NEW k \in 1..n  PROVE a[k] = F[<<a[k - 1], k>>]
  <2>1. 1..k \in SUBSET (1..n) /\ k \in 1..k /\ k - 1 \in 0..n /\ (1..k) \ {k} = 1..(k - 1)
    OBVIOUS
  <2>2. Max(1..k) = k
    <3>1. 1..k \in SUBSET Nat /\ \A x \in 1..k : x <= k
      OBVIOUS
    <3> QED  BY <3>1, <2>1, GreatestIs
  <2>3. g[1..k] = F[<<g[(1..k) \ {k}], k>>]
    BY <1>b, <2>1, <2>2
  <2>4. a[k] = g[1..k] /\ a[k - 1] = g[1..(k - 1)]
    BY <2>1
  <2> HIDE DEF a
  <2> QED  BY <2>1, <2>3, <2>4
<1>8. a[n] = g[1..n]
  OBVIOUS
<1> HIDE DEF a
<1>9. Accumulates(a, n, base, F, St, g[1..n])
  BY <1>5, <1>6, <1>7, <1>8 DEF Accumulates
<1> QED  BY <1>4, <1>9

-------------------------------------------------------------------------------
(* A finite set of numbers can be listed in increasing order. *)

Listed(q, S) ==
    /\ q \in [1..Cardinality(S) -> S]
    /\ \A i, k \in 1..Cardinality(S) : i < k => q[i] < q[k]
    /\ \A i, k \in 1..Cardinality(S) : i # k => q[i] # q[k]
    /\ \A e \in S : \E i \in 1..Cardinality(S) : q[i] = e

LEMMA ListedExists ==
    ASSUME NEW S \in SUBSET Nat, IsFiniteSet(S)
    PROVE  \E q : Listed(q, S)
<1> DEFINE Good(n) == \A X \in SUBSET Nat :
                         IsFiniteSet(X) /\ Cardinality(X) = n => \E q : Listed(q, X)
           T == {n \in Nat : Good(n)}
<1>1. 0 \in T
  <2> SUFFICES ASSUME NEW X \in SUBSET Nat, IsFiniteSet(X), Cardinality(X) = 0
               PROVE  \E q : Listed(q, X)
    OBVIOUS
  <2>1. X = {}
    BY FS_EmptySet
  <2>2. 1..0 = {}
    OBVIOUS
  <2>3. Listed(<<>>, X)
    BY <2>1, <2>2 DEF Listed
  <2> QED  BY <2>3
<1>2. ASSUME NEW n \in Nat, n \in T  PROVE n + 1 \in T
  <2> SUFFICES ASSUME NEW X \in SUBSET Nat, IsFiniteSet(X), Cardinality(X) = n + 1
               PROVE  \E q : Listed(q, X)
    OBVIOUS
  <2>1. X # {}
    BY FS_EmptySet
  <2>2. PICK b \in Nat : \A x \in X : x <= b
    BY FiniteBounded
  <2> DEFINE m == Max(X)
             Y == X \ {m}
  <2>3. m \in X /\ \A x \in X : x <= m
    BY <2>1, <2>2, GreatestExists
  <2>4. IsFiniteSet(Y) /\ Cardinality(Y) = n /\ Y \in SUBSET Nat
    <3>1. m \in X
      BY <2>3
    <3> HIDE DEF m
    <3>2. IsFiniteSet(Y) /\ Cardinality(Y) = (n + 1) - 1
      BY <3>1, FS_RemoveElement
    <3>3. Cardinality(Y) = n
      BY <3>2
    <3> QED  BY <3>2, <3>3
  <2>5. PICK q : Listed(q, Y)
    BY <1>2, <2>4
  <2> HIDE DEF m
  <2>6. /\ q \in [1..n -> Y]
        /\ \A i, k \in 1..n : i < k => q[i] < q[k]
        /\ \A i, k \in 1..n : i # k => q[i] # q[k]
        /\ \A e \in Y : \E i \in 1..n : q[i] = e
    BY <2>4, <2>5 DEF Listed
  <2>7. \A y \in Y : y \in X /\ y \in Nat /\ y < m /\ y # m
    BY <2>3
  <2> HIDE DEF Y
  <2> DEFINE r == [i \in 1..(n + 1) |-> IF i = n + 1 THEN m ELSE q[i]]
  <2>8. r[n + 1] = m /\ \A i \in 1..n : r[i] = q[i] /\ q[i] \in Y
    BY <2>6
  <2>9. \A i \in 1..(n + 1) : i = n + 1 \/ i \in 1..n
    OBVIOUS
  <2>10. r \in [1..(n + 1) -> X]
    <3>1. \A i \in 1..(n + 1) : r[i] \in X
      BY <2>3, <2>7, <2>8, <2>9
    <3> QED  BY <3>1
  <2>11. DOMAIN r = 1..(n + 1)
    OBVIOUS
  <2> HIDE DEF r
  <2>12. \A i, k \in 1..(n + 1) : i < k => r[i] < r[k]
    <3> SUFFICES ASSUME NEW i \in 1..(n + 1), NEW k \in 1..(n + 1), i < k  PROVE r[i] < r[k]
      OBVIOUS
    <3>1. i \in 1..n
      OBVIOUS
    <3>2. CASE k = n + 1
      BY <2>7, <2>8, <3>1, <3>2
    <3>3. CASE k \in 1..n
      BY <2>6, <2>8, <3>1, <3>3
    <3> QED  BY <2>9, <3>2, <3>3
  <2>13. \A i, k \in 1..(n + 1) : i # k => r[i] # r[k]
    <3> SUFFICES ASSUME NEW i \in 1..(n + 1), NEW k \in 1..(n + 1), i # k  PROVE r[i] # r[k]
      OBVIOUS
    <3>1. CASE i = n + 1
      <4>1. k \in 1..n
        BY <2>9, <3>1
      <4> QED  BY <2>7, <2>8, <3>1, <4>1
    <3>2. CASE k = n + 1
      <4>1. i \in 1..n
        BY <2>9, <3>2
      <4> QED  BY <2>7, <2>8, <3>2, <4>1
    <3>3. CASE i \in 1..n /\ k \in 1..n
      BY <2>6, <2>8, <3>3
    <3> QED  BY <2>9, <3>1, <3>2, <3>3
  <2>14. \A e \in X : \E i \in 1..(n + 1) : r[i] = e
    <3> SUFFICES ASSUME NEW e \in X  PROVE \E i \in 1..(n + 1) : r[i] = e
      OBVIOUS
    <3>1. CASE e = m
      <4>1. n + 1 \in 1..(n + 1)
        OBVIOUS
      <4> QED  BY <2>8, <3>1, <4>1
    <3>2. CASE e # m
      <4>1. e \in Y
        BY <3>2 DEF Y
      <4>2. PICK i \in 1..n : q[i] = e
        BY <2>6, <4>1
      <4>3. i \in 1..(n + 1)
        OBVIOUS
      <4> QED  BY <2>8, <4>2, <4>3
    <3> QED  BY <3>1, <3>2
  <2>15. Listed(r, X)
    BY <2>10, <2>12, <2>13, <2>14 DEF Listed
  <2> QED  BY <2>15
<1>3. \A n \in Nat : n \in T
  <2> HIDE DEF T
  <2> QED  BY <1>1, <1>2, Induct
<1>4. Cardinality(S) \in Nat
  BY FS_CardinalityType
<1>5. Good(Cardinality(S))
  <2> HIDE DEF Good
  <2> QED  BY <1>3, <1>4
<1> QED  BY <1>5
-------------------------------------------------------------------------------
(* A range of slots divided among several. *)

LEMMA IntervalSize ==
    ASSUME NEW a \in Nat, NEW h \in Nat
    PROVE  IsFiniteSet(a..((a + h) - 1)) /\ Cardinality(a..((a + h) - 1)) = h
<1> DEFINE b == (a + h) - 1
<1>1. a \in Int /\ b \in Int /\ (a > b => h = 0) /\ b - a + 1 = h
  OBVIOUS
<1> HIDE DEF b
<1>2. IsFiniteSet(a..b) /\ Cardinality(a..b) = IF a > b THEN 0 ELSE b - a + 1
  BY <1>1, FS_Interval, Zenon
<1> QED  BY <1>1, <1>2 DEF b

(* A set that holds an interval has at least its elements. *)
LEMMA HoldsInterval ==
    ASSUME NEW S, IsFiniteSet(S), NEW a \in Nat, NEW h \in Nat, a..((a + h) - 1) \in SUBSET S
    PROVE  Cardinality(S) \in Nat /\ Cardinality(S) >= h
<1>1. Cardinality(a..((a + h) - 1)) = h
  BY IntervalSize
<1> QED  BY <1>1, FS_Subset, FS_CardinalityType

(* Every part of n slots divided among k has at least q of them when all k  *)
(* together can have as many.                                               *)
LEMMA PartSize ==
    ASSUME NEW size \in Nat, NEW first \in Nat, NEW n \in Nat, NEW k \in Nat \ {0},
           NEW i \in 0..(k - 1), first + n <= size, NEW q \in Nat, q * k <= n
    PROVE  LET base == n \div k
               extra == n % k
               begin == first + i * base + Min({i, extra})
           IN \E h \in Nat :
                 /\ h >= q /\ begin \in Nat
                 /\ begin..((begin + h) - 1) \in SUBSET
                       {s \in 0..(size - 1) :
                           begin <= s /\ s < begin + base + (IF i < extra THEN 1 ELSE 0)}
<1> DEFINE base == n \div k
           extra == n % k
           begin == first + i * base + Min({i, extra})
           more == IF i < extra THEN 1 ELSE 0
<1>1. base \in Nat /\ extra \in Nat /\ n = base * k + extra /\ q <= base
  BY Division, DivisionAtLeast
<1>2. Min({i, extra}) \in Nat /\ Min({i, extra}) <= extra
  <2> HIDE DEF extra
  <2> QED  BY <1>1, MinOfTwo
<1>3. more \in {0, 1}
  OBVIOUS
<1>4. i * base \in Nat /\ i * base + base <= base * k
  <2> HIDE DEF base
  <2> QED  BY <1>1, SMT
<1>5. begin \in Nat /\ begin + base <= first + n
  <2> HIDE DEF base, extra
  <2> QED  BY <1>1, <1>2, <1>4
<1>6. \A s \in begin..((begin + base) - 1) :
         s \in 0..(size - 1) /\ begin <= s /\ s < begin + base + more
  <2> HIDE DEF base, extra, begin, more
  <2> QED  BY <1>1, <1>3, <1>5
<1>7. begin..((begin + base) - 1) \in SUBSET {s \in 0..(size - 1) : begin <= s /\ s < begin + base + more}
  <2> HIDE DEF base, extra, begin, more
  <2> QED  BY <1>6
<1> QED  BY <1>1, <1>5, <1>7
===============================================================================
