--------------------------- MODULE SpecDecodeProofs ----------------------------
(***************************************************************************)
(* Proofs about SpecDecode: for every weights, drafter, block and limit,   *)
(* history and context stay in step, the arrays are never overrun, and     *)
(* the conversation is that of plain decoding.                             *)
(***************************************************************************)
EXTENDS SpecDecode, CommonLemmas

(* What is assumed of the model: an answer is a token of the vocabulary.   *)
AnswersAreTokens ==
    \A s \in Setup : \A t \in Seq(Token) : \A d \in Nat : Answer(s, t, d) \in Token

-------------------------------------------------------------------------------
(* The smallest of three. *)

LEMMA MinOfThree ==
    ASSUME NEW a \in Int, NEW b \in Int, NEW c \in Int
    PROVE  Min({a, b, c}) <= a /\ Min({a, b, c}) \in Int
<1> DEFINE T == {a, b, c}
<1>1. \E x \in T : \A y \in T : x <= y
  <2>1. CASE a <= b /\ a <= c
    BY <2>1
  <2>2. CASE b <= a /\ b <= c
    BY <2>2
  <2>3. CASE c <= a /\ c <= b
    BY <2>3
  <2> QED  BY <2>1, <2>2, <2>3
<1>2. Min(T) \in T /\ \A y \in T : Min(T) <= y
  BY <1>1 DEF Min
<1> QED  BY <1>2

-------------------------------------------------------------------------------
(* Prefixes. *)

LEMMA SubSeqOf ==
    ASSUME NEW S, NEW s \in Seq(S), NEW n \in 0..Len(s)
    PROVE  /\ SubSeq(s, 1, n) \in Seq(S)
           /\ Len(SubSeq(s, 1, n)) = n
           /\ \A i \in 1..n : SubSeq(s, 1, n)[i] = s[i]
<1>1. \A i \in 1..n : s[i] \in S
  BY ElementOfSeq
<1> QED  BY <1>1, SubSeqProperties

LEMMA PrefixGrows ==
    ASSUME NEW S, NEW s \in Seq(S), NEW n \in 0..(Len(s) - 1)
    PROVE  Append(SubSeq(s, 1, n), s[n + 1]) = SubSeq(s, 1, n + 1)
<1>1. s[n + 1] \in S /\ n + 1 \in 0..Len(s) /\ n \in 0..Len(s)
  BY ElementOfSeq
<1>2. /\ SubSeq(s, 1, n) \in Seq(S) /\ Len(SubSeq(s, 1, n)) = n
      /\ \A i \in 1..n : SubSeq(s, 1, n)[i] = s[i]
  BY <1>1, SubSeqOf
<1>3. /\ SubSeq(s, 1, n + 1) \in Seq(S) /\ Len(SubSeq(s, 1, n + 1)) = n + 1
      /\ \A i \in 1..(n + 1) : SubSeq(s, 1, n + 1)[i] = s[i]
  BY <1>1, SubSeqOf
<1> DEFINE u == Append(SubSeq(s, 1, n), s[n + 1])
           v == SubSeq(s, 1, n + 1)
<1>4. /\ u \in Seq(S) /\ Len(u) = n + 1
      /\ \A i \in 1..n : u[i] = s[i]
      /\ u[n + 1] = s[n + 1]
  BY <1>1, <1>2, AppendProperties
<1>5. \A i \in 1..Len(u) : u[i] = v[i]
  BY <1>3, <1>4
<1> HIDE DEF u, v
<1>6. v \in Seq(S) /\ Len(u) = Len(v)
  BY <1>3, <1>4 DEF v
<1> QED  BY <1>4, <1>5, <1>6, SeqEqual DEF u, v

LEMMA PrefixOfAppend ==
    ASSUME NEW S, NEW s \in Seq(S), NEW x \in S
    PROVE  SubSeq(Append(s, x), 1, Len(s)) = s
<1> DEFINE u == Append(s, x)
           v == SubSeq(u, 1, Len(s))
<1>1. /\ u \in Seq(S) /\ Len(u) = Len(s) + 1 /\ Len(s) \in Nat
      /\ \A i \in 1..Len(s) : u[i] = s[i]
  BY AppendProperties, LenProperties
<1>2. v \in Seq(S) /\ Len(v) = Len(s) /\ \A i \in 1..Len(s) : v[i] = u[i]
  BY <1>1, SubSeqOf
<1> HIDE DEF u, v
<1>3. v = s
  BY <1>1, <1>2, SeqEqual
<1> QED  BY <1>3 DEF u, v

(* A prefix of a text and of a part of what follows it. *)
LEMMA PrefixOfConcat ==
    ASSUME NEW S, NEW s \in Seq(S), NEW t \in Seq(S), NEW k \in 0..Len(t), NEW i \in 0..k
    PROVE  SubSeq(s \o SubSeq(t, 1, k), 1, Len(s) + i) = s \o SubSeq(t, 1, i)
<1> DEFINE tk == SubSeq(t, 1, k)
           ti == SubSeq(t, 1, i)
           u == s \o tk
           v == SubSeq(u, 1, Len(s) + i)
           w == s \o ti
<1>1. Len(s) \in Nat /\ Len(t) \in Nat /\ i \in 0..Len(t)
  BY LenProperties
<1>2. tk \in Seq(S) /\ Len(tk) = k /\ \A j \in 1..k : tk[j] = t[j]
  BY SubSeqOf
<1>3. ti \in Seq(S) /\ Len(ti) = i /\ \A j \in 1..i : ti[j] = t[j]
  BY <1>1, SubSeqOf
<1> HIDE DEF tk, ti
<1>4. /\ u \in Seq(S) /\ Len(u) = Len(s) + k
      /\ \A j \in 1..(Len(s) + k) : u[j] = IF j <= Len(s) THEN s[j] ELSE tk[j - Len(s)]
  BY <1>2, ConcatProperties
<1>5. /\ w \in Seq(S) /\ Len(w) = Len(s) + i
      /\ \A j \in 1..(Len(s) + i) : w[j] = IF j <= Len(s) THEN s[j] ELSE ti[j - Len(s)]
  BY <1>3, ConcatProperties
<1> HIDE DEF u, w
<1>6. /\ v \in Seq(S) /\ Len(v) = Len(s) + i
      /\ \A j \in 1..(Len(s) + i) : v[j] = u[j]
  <2>1. Len(s) + i \in 0..Len(u)
    BY <1>1, <1>4
  <2> QED  BY <2>1, <1>4, SubSeqOf
<1> HIDE DEF v
<1>7. \A j \in 1..Len(v) : v[j] = w[j]
  <2> SUFFICES ASSUME NEW j \in 1..(Len(s) + i)  PROVE v[j] = w[j]
    BY <1>6
  <2>1. CASE j <= Len(s)
    <3>1. j \in 1..(Len(s) + k)
      BY <1>1
    <3>2. u[j] = s[j] /\ w[j] = s[j] /\ v[j] = u[j]
      BY <3>1, <2>1, <1>4, <1>5, <1>6
    <3> QED  BY <3>2
  <2>2. CASE ~(j <= Len(s))
    <3>1. j - Len(s) \in 1..i /\ j \in 1..(Len(s) + k)
      BY <2>2, <1>1
    <3>2. v[j] = tk[j - Len(s)] /\ w[j] = ti[j - Len(s)]
      BY <3>1, <2>2, <1>4, <1>5, <1>6
    <3>3. j - Len(s) \in 1..k
      BY <3>1
    <3> QED  BY <3>1, <3>2, <3>3, <1>2, <1>3
  <2> QED  BY <2>1, <2>2
<1>8. v = w
  BY <1>5, <1>6, <1>7, SeqEqual
<1> QED  BY <1>8 DEF u, v, w, tk, ti

LEMMA PrefixesOfConcat ==
    ASSUME NEW S, NEW s \in Seq(S), NEW t \in Seq(S), NEW k \in 0..Len(t)
    PROVE  \A i \in 0..k : SubSeq(s \o SubSeq(t, 1, k), 1, Len(s) + i) = s \o SubSeq(t, 1, i)
BY PrefixOfConcat

LEMMA AppendedTo ==
    ASSUME NEW S, NEW s \in Seq(S), NEW x \in S
    PROVE  LET u == Append(s, x)
           IN  u \in Seq(S) /\ Len(u) = Len(s) + 1 /\ u[Len(u)] = x /\ u # <<>>
BY AppendProperties

-------------------------------------------------------------------------------
(* The inductive invariant. *)

Drawn(n) == IF setup.sampling THEN n ELSE 0

Typed ==
    /\ setup \in Setup
    /\ pc \in {"listening", "first", "loop", "judging", "emitting", "done"}
    /\ text \in Seq(Token) /\ history \in Seq(Token)
    /\ tail \in Seq(Token) /\ todo \in Seq(Token)
    /\ pc \in {"loop", "judging", "emitting"} \/ (pc = "listening" /\ text # <<>>)
          => pending \in Token
    /\ gen \in Nat /\ limit \in Nat /\ accepted \in Nat
    /\ rng \in Nat /\ spoken \in Nat

(* How much a response may still add. *)
RoomInv ==
    /\ gen <= limit /\ limit <= Context
    /\ Len(history) + (limit - gen) <= Context
    /\ pc = "first" => gen = 0
    /\ text # <<>> \/ pc \in {"listening", "done"}
    /\ pc # "emitting" => todo = <<>>

(* During a round: the pending token is fed and not yet committed, and the  *)
(* drafts accepted are what plain decoding would have said.                 *)
JudgingInv ==
    pc = "judging" =>
        /\ setup.drafter \in {"ngram", "dspark"}
        /\ history = Append(text, pending) /\ pending # Eos
        /\ tail # <<>> /\ tail[1] = pending
        /\ accepted + 1 <= Len(tail) /\ gen + Len(tail) <= limit
        /\ \A i \in 1..accepted :
              tail[i + 1] = Answer(setup, text \o SubSeq(tail, 1, i), spoken + Drawn(i - 1))
        /\ setup.drafter = "ngram" => \A i \in 1..(accepted - 1) : tail[i + 1] # Eos
        /\ rng = spoken + Drawn(accepted)

(* While a round is delivered: the history is behind the text, and all that *)
(* is still to be delivered, but the last token, is in the text.            *)
EmittingInv ==
    pc = "emitting" =>
        /\ todo # <<>> /\ gen + Len(todo) <= limit
        /\ Len(history) + Len(todo) = Len(text) + 1
        /\ history # <<>> /\ history[Len(history)] # Eos
        /\ history = SubSeq(text, 1, Len(history))
        /\ \A i \in 1..(Len(todo) - 1) : todo[i] = text[Len(history) + i] /\ todo[i] # Eos
        /\ \A i \in 1..Len(todo) :
              todo[i] = Answer(setup, SubSeq(text, 1, Len(history) + i - 1), spoken + Drawn(i - 1))
        /\ rng = spoken + Drawn(Len(todo))

IInv ==
    /\ Typed
    /\ InStep
    /\ RoomInv
    /\ JudgingInv
    /\ EmittingInv

-------------------------------------------------------------------------------
(* The invariant is inductive: one lemma per action. *)

LEMMA InitIInv == Init => IInv
<1> SUFFICES ASSUME Init  PROVE IInv
  OBVIOUS
<1>1. Typed
  BY DEF Init, Typed
<1>2. InStep /\ RoomInv /\ JudgingInv /\ EmittingInv
  BY DecodeAssumption DEF Init, InStep, RoomInv, JudgingInv, EmittingInv
<1> QED  BY <1>1, <1>2 DEF IInv

(* The turn carried over, and the history it makes. *)
LEMMA TurnFacts ==
    ASSUME Typed, InStep, pc = "listening", NEW line \in Turn
    PROVE  /\ Carried \in Seq(Token) /\ line \in Seq(Token) /\ line # <<>>
           /\ Carried \o line \in Seq(Token) /\ Carried \o line # <<>>
           /\ SubSeq(history, 1, committed) = text
<1>1. line \in Seq(Token) /\ line # <<>> /\ Eos \in Token
  BY DecodeAssumption
<1>2. Carried \in Seq(Token)
  BY <1>1 DEF Carried, Typed
<1>3. /\ Carried \o line \in Seq(Token)
      /\ Len(Carried \o line) = Len(Carried) + Len(line)
  BY <1>1, <1>2, ConcatProperties
<1>4. Carried \o line # <<>>
  BY <1>1, <1>2, <1>3, EmptySeq, LenProperties
<1>5. SubSeq(history, 1, committed) = text
  <2>1. CASE text = <<>>
    <3>1. history = text
      BY <2>1 DEF InStep
    <3> QED  BY <3>1, <2>1, SubSeqEmpty DEF committed
  <2>2. CASE text # <<>>
    <3>1. history = Append(text, pending) /\ pending \in Token /\ text \in Seq(Token)
      BY <2>2 DEF InStep, Typed
    <3> QED  BY <3>1, PrefixOfAppend DEF committed
  <2> QED  BY <2>1, <2>2
<1> QED  BY <1>1, <1>2, <1>3, <1>4, <1>5

LEMMA NextTurnKeeps ==
    ASSUME IInv, NEW line \in Turn, NextTurn(line)
    PROVE  IInv'
<1> DEFINE turn == Carried \o line
<1> USE DEF IInv
<1>1. pc = "listening" /\ pc' = "first"
  BY DEF NextTurn
<1>2. /\ turn \in Seq(Token) /\ turn # <<>>
      /\ SubSeq(history, 1, committed) = text
  BY <1>1, TurnFacts
<1>3. text \in Seq(Token) /\ Context \in Nat /\ MaxTokens \in Nat \ {0}
  BY DecodeAssumption DEF Typed
<1> HIDE DEF turn
<1>4. /\ committed + Len(turn) < Context
      /\ text' = text \o turn
      /\ history' = SubSeq(history, 1, committed) \o turn
      /\ gen' = 0 /\ limit' = Min({Context - (committed + Len(turn)), MaxTokens})
      /\ UNCHANGED <<setup, rng, spoken, tail, accepted, todo>>
  BY DEF NextTurn, turn, roundVars
<1>5. /\ text' \in Seq(Token) /\ Len(text') = committed + Len(turn)
      /\ text' # <<>> /\ history' = text'
  <2>1. text' \in Seq(Token) /\ Len(text') = Len(text) + Len(turn)
    BY <1>2, <1>3, <1>4, ConcatProperties
  <2>2. Len(turn) \in Nat /\ Len(turn) # 0 /\ Len(text) \in Nat
    BY <1>2, <1>3, EmptySeq, LenProperties
  <2>3. text' # <<>>
    BY <2>1, <2>2, EmptySeq
  <2> QED  BY <2>1, <2>3, <1>2, <1>4 DEF committed
<1>6. /\ limit' \in Nat /\ limit' <= Context - Len(text')
      /\ Len(text') \in Nat
  <2>1. Len(text') \in Nat /\ Len(text') < Context
    BY <1>4, <1>5, LenProperties
  <2>2. limit' = IF Context - Len(text') <= MaxTokens
                 THEN Context - Len(text') ELSE MaxTokens
    <3> DEFINE d == Context - Len(text')
    <3>1. limit' = Min({d, MaxTokens})
      BY <1>4, <1>5
    <3>2. d \in Int /\ MaxTokens \in Int
      BY <2>1, <1>3
    <3> HIDE DEF d
    <3>3. Min({d, MaxTokens}) = IF d <= MaxTokens THEN d ELSE MaxTokens
      BY <3>2, MinOfTwo
    <3> QED  BY <3>1, <3>3 DEF d
  <2> QED  BY <2>1, <2>2, <1>3
<1>7. Typed'
  BY <1>1, <1>4, <1>5, <1>6 DEF Typed
<1>8. InStep'
  BY <1>1, <1>4, <1>5 DEF InStep
<1>9. RoomInv'
  <2>1. todo' = <<>>
    BY <1>1, <1>4 DEF RoomInv
  <2>2. gen' <= limit' /\ limit' <= Context /\ Len(text') + (limit' - gen') <= Context
    BY <1>3, <1>4, <1>6
  <2> QED  BY <2>1, <2>2, <1>1, <1>4, <1>5 DEF RoomInv
<1> QED  BY <1>1, <1>7, <1>8, <1>9 DEF JudgingInv, EmittingInv

(* Delivering a token the text grows by: what Deliver does. *)
LEMMA DeliverFacts ==
    ASSUME IInv, NEW t \in Token, Deliver(t), gen < limit, limit' = limit, setup' = setup
    PROVE  /\ history' = Append(history, t) /\ history' \in Seq(Token)
           /\ Len(history') = Len(history) + 1 /\ Len(history) \in Nat
           /\ pending' = t /\ pending' \in Token
           /\ gen' = gen + 1 /\ gen' \in Nat /\ gen' <= limit'
           /\ Len(history') + (limit' - gen') <= Context
           /\ spoken' = spoken + Draw /\ spoken' \in Nat
<1>1. history \in Seq(Token) /\ gen \in Nat /\ limit \in Nat /\ spoken \in Nat
  BY DEF IInv, Typed
<1>2. Len(history) + (limit - gen) <= Context /\ Context \in Nat
  BY DecodeAssumption DEF IInv, RoomInv
<1>3. history' = Append(history, t) /\ pending' = t /\ gen' = gen + 1 /\ spoken' = spoken + Draw
  BY DEF Deliver
<1>4. history' \in Seq(Token) /\ Len(history') = Len(history) + 1 /\ Len(history) \in Nat
  BY <1>1, <1>3, AppendProperties, LenProperties
<1>5. spoken' \in Nat
  BY <1>1, <1>3 DEF Draw
<1> QED  BY <1>1, <1>2, <1>3, <1>4, <1>5

LEMMA FirstTokenKeeps ==
    ASSUME AnswersAreTokens, IInv, FirstToken
    PROVE  IInv'
<1> DEFINE t == Answer(setup, text, rng)
<1> USE DEF IInv
<1>1. /\ pc = "first" /\ pc' = "loop" /\ limit > 0 /\ Deliver(t)
      /\ rng' = rng + Draw
      /\ UNCHANGED <<setup, text, limit, tail, accepted, todo>>
  BY DEF FirstToken, roundVars
<1>2. t \in Token
  BY DEF AnswersAreTokens, Typed
<1> HIDE DEF t
<1>3. gen = 0 /\ history = text /\ rng = spoken /\ todo = <<>> /\ text # <<>>
  BY <1>1 DEF RoomInv, InStep
<1>4. gen < limit /\ limit \in Nat
  BY <1>1, <1>3 DEF Typed
<1>5. /\ history' = Append(history, t) /\ history' \in Seq(Token)
      /\ pending' = t /\ pending' \in Token
      /\ gen' \in Nat /\ gen' <= limit'
      /\ Len(history') + (limit' - gen') <= Context
      /\ spoken' = spoken + Draw /\ spoken' \in Nat
  BY <1>1, <1>2, <1>4, DeliverFacts
<1>6. Typed'
  BY <1>1, <1>3, <1>5 DEF Typed
<1>7. InStep'
  BY <1>1, <1>3, <1>5 DEF InStep
<1>8. RoomInv'
  BY <1>1, <1>3, <1>5 DEF RoomInv
<1> QED  BY <1>1, <1>6, <1>7, <1>8 DEF JudgingInv, EmittingInv

LEMMA ScalarKeeps ==
    ASSUME AnswersAreTokens, IInv, Scalar
    PROVE  IInv'
<1> DEFINE t == Answer(setup, text', rng)
<1> USE DEF IInv
<1>1. /\ pc = "loop" /\ pc' = "loop" /\ gen < limit
      /\ text' = Append(text, pending) /\ Deliver(t)
      /\ rng' = rng + Draw
      /\ UNCHANGED <<setup, limit, tail, accepted, todo>>
  BY DEF Scalar, InLoop, Running, roundVars
<1>2. /\ history = Append(text, pending) /\ rng = spoken /\ todo = <<>>
      /\ pending \in Token /\ text \in Seq(Token)
  BY <1>1 DEF RoomInv, InStep, Typed
<1>3. text' = history /\ text' \in Seq(Token) /\ text' # <<>>
  BY <1>1, <1>2, AppendProperties
<1>4. t \in Token
  BY <1>3 DEF AnswersAreTokens, Typed
<1> HIDE DEF t
<1>5. /\ history' = Append(history, t) /\ history' \in Seq(Token)
      /\ pending' = t /\ pending' \in Token
      /\ gen' \in Nat /\ gen' <= limit'
      /\ Len(history') + (limit' - gen') <= Context
      /\ spoken' = spoken + Draw /\ spoken' \in Nat
  BY <1>1, <1>4, DeliverFacts
<1>6. Typed'
  BY <1>1, <1>2, <1>3, <1>5 DEF Typed
<1>7. InStep'
  BY <1>1, <1>2, <1>3, <1>5 DEF InStep
<1>8. RoomInv'
  BY <1>1, <1>2, <1>3, <1>5 DEF RoomInv
<1> QED  BY <1>1, <1>6, <1>7, <1>8 DEF JudgingInv, EmittingInv

LEMMA ProposeKeeps ==
    ASSUME IInv, NEW n \in 1..Block, NEW draft \in [1..n -> Token], Propose(draft)
    PROVE  IInv'
<1> USE DEF IInv
<1>1. /\ pc = "loop" /\ pc' = "judging" /\ pending # Eos
      /\ MayDraft(Len(draft))
      /\ tail' = <<pending>> \o draft /\ accepted' = 0
      /\ UNCHANGED <<setup, text, history, pending, gen, limit, todo, rng, spoken>>
  BY DEF Propose, InLoop, Running
<1>2. Block \in Nat \ {0} /\ n \in Nat \ {0}
  BY DecodeAssumption
<1>3. draft \in Seq(Token) /\ Len(draft) = n
  BY <1>2, SeqDef, LenProperties
<1>4. /\ history = Append(text, pending) /\ rng = spoken /\ todo = <<>>
      /\ pending \in Token /\ gen \in Nat /\ limit \in Nat
  BY <1>1 DEF RoomInv, InStep, Typed
<1>5. <<pending>> \in Seq(Token) /\ Len(<<pending>>) = 1 /\ <<pending>>[1] = pending
  BY <1>4
<1>6. /\ tail' \in Seq(Token) /\ Len(tail') = n + 1
      /\ tail'[1] = pending /\ tail' # <<>>
  <2>1. tail' \in Seq(Token) /\ Len(tail') = 1 + n
    BY <1>1, <1>3, <1>5, ConcatProperties
  <2>2. tail'[1] = pending
    BY <1>1, <1>2, <1>3, <1>5, ConcatProperties
  <2> QED  BY <2>1, <2>2, <1>2, EmptySeq
<1>7. setup.drafter \in {"ngram", "dspark"} /\ gen + (n + 1) <= limit
  <2>1. CASE setup.drafter = "ngram" /\ n <= Cap
    <3>1. Len(text) \in Nat /\ Context \in Nat
      BY DecodeAssumption, LenProperties DEF Typed
    <3>2. limit - gen - 1 \in Int /\ Context - committed - 1 \in Int /\ Block \in Int
      BY <3>1, <1>2, <1>4 DEF committed
    <3>3. Cap <= limit - gen - 1 /\ Cap \in Int
      BY <3>2, MinOfThree DEF Cap
    <3> QED  BY <3>3, <2>1, <1>2, <1>4
  <2>2. CASE setup.drafter = "dspark" /\ limit - gen >= Block + 1 /\ n = Block
    BY <2>2, <1>2, <1>4
  <2> QED  BY <2>1, <2>2, <1>1, <1>3 DEF MayDraft
<1>8. Typed'
  BY <1>1, <1>4, <1>6 DEF Typed
<1>9. InStep'
  BY <1>1 DEF InStep
<1>10. RoomInv'
  BY <1>1, <1>4 DEF RoomInv
<1>11. JudgingInv'
  <2>1. Drawn(0) = 0
    BY DEF Drawn
  <2>2. rng' = spoken' + Drawn(accepted)'
    <3>1. spoken \in Nat
      BY DEF Typed
    <3> QED  BY <3>1, <1>1, <1>4 DEF Drawn
  <2>3. accepted' + 1 <= Len(tail') /\ gen' + Len(tail') <= limit'
    BY <1>1, <1>2, <1>6, <1>7
  <2>4. 1..accepted' = {} /\ 1..(accepted' - 1) = {}
    BY <1>1
  <2> QED  BY <2>2, <2>3, <2>4, <1>1, <1>4, <1>6, <1>7 DEF JudgingInv
<1> QED  BY <1>1, <1>8, <1>9, <1>10, <1>11 DEF EmittingInv

(* What the target answers to the drafts accepted so far. *)
LEMMA VerdictFacts ==
    ASSUME AnswersAreTokens, IInv, pc = "judging"
    PROVE  /\ Verdict \in Token
           /\ Verdict = Answer(setup, text \o SubSeq(tail, 1, accepted + 1),
                               spoken + Drawn(accepted))
           /\ rng + Draw = spoken + Drawn(accepted + 1)
           /\ rng + Draw \in Nat
<1>1. /\ setup \in Setup /\ text \in Seq(Token) /\ tail \in Seq(Token)
      /\ accepted \in Nat /\ rng \in Nat /\ spoken \in Nat
  BY DEF IInv, Typed
<1>2. accepted + 1 \in 0..Len(tail) /\ rng = spoken + Drawn(accepted)
  <2>1. accepted + 1 <= Len(tail) /\ rng = spoken + Drawn(accepted)
    BY DEF IInv, JudgingInv
  <2> QED  BY <2>1, <1>1, LenProperties
<1>3. Row(accepted) = text \o SubSeq(tail, 1, accepted + 1)
  BY DEF Row
<1>4. Row(accepted) \in Seq(Token)
  <2>1. SubSeq(tail, 1, accepted + 1) \in Seq(Token)
    BY <1>1, <1>2, SubSeqOf
  <2> QED  BY <2>1, <1>1, <1>3, ConcatProperties
<1>5. Verdict = Answer(setup, Row(accepted), rng)
  BY DEF Verdict
<1>6. Verdict \in Token
  BY <1>1, <1>4, <1>5 DEF AnswersAreTokens
<1>7. rng + Draw = spoken + Drawn(accepted + 1) /\ rng + Draw \in Nat
  BY <1>1, <1>2 DEF Drawn, Draw
<1> QED  BY <1>2, <1>3, <1>5, <1>6, <1>7

LEMMA AcceptDraftKeeps ==
    ASSUME AnswersAreTokens, IInv, AcceptDraft
    PROVE  IInv'
<1> USE DEF IInv
<1>1. /\ pc = "judging" /\ pc' = "judging"
      /\ accepted < Drafts /\ ~(setup.drafter = "ngram" /\ SawEos)
      /\ tail[accepted + 1 + 1] = Verdict
      /\ accepted' = accepted + 1
      /\ rng' = rng + Draw
      /\ UNCHANGED <<setup, text, history, pending, gen, limit, tail, todo, spoken>>
  BY DEF AcceptDraft, Comparing, Agrees, Draft, turnVars
<1>2. accepted \in Nat /\ Len(tail) \in Nat
  BY LenProperties DEF Typed
<1>3. accepted' + 1 <= Len(tail)
  BY <1>1, <1>2 DEF Drafts
<1>4. /\ Verdict = Answer(setup, text \o SubSeq(tail, 1, accepted + 1),
                          spoken + Drawn(accepted))
      /\ rng' = spoken + Drawn(accepted + 1)
      /\ rng' \in Nat
  BY <1>1, VerdictFacts
<1>5. Typed'
  BY <1>1, <1>2, <1>4 DEF Typed
<1>6. InStep'
  BY <1>1 DEF InStep
<1>7. RoomInv'
  BY <1>1 DEF RoomInv
<1>8. JudgingInv'
  <2>1. ASSUME NEW i \in 1..accepted'
        PROVE  tail[i + 1] = Answer(setup, text \o SubSeq(tail, 1, i), spoken + Drawn(i - 1))
    <3>1. CASE i \in 1..accepted
      BY <3>1, <1>1 DEF JudgingInv
    <3>2. CASE i = accepted + 1
      <4>1. i - 1 = accepted
        BY <3>2, <1>2
      <4> QED  BY <4>1, <3>2, <1>1, <1>4
    <3> QED  BY <3>1, <3>2, <1>1, <1>2
  <2>2. setup.drafter = "ngram" => \A i \in 1..(accepted' - 1) : tail[i + 1] # Eos
    BY <1>1, <1>2 DEF SawEos, Draft
  <2>3. /\ setup.drafter \in {"ngram", "dspark"}
        /\ history = Append(text, pending) /\ pending # Eos
        /\ tail # <<>> /\ tail[1] = pending /\ gen + Len(tail) <= limit
    BY <1>1 DEF JudgingInv
  <2>4. Drawn(accepted)' = Drawn(accepted + 1)
    BY <1>1 DEF Drawn
  <2>5. \A i \in 1..accepted' :
            tail'[i + 1] = Answer(setup', text' \o SubSeq(tail', 1, i), spoken' + Drawn(i - 1)')
    BY <2>1, <1>1 DEF Drawn
  <2> QED  BY <2>2, <2>3, <2>4, <2>5, <1>1, <1>3, <1>4 DEF JudgingInv
<1> QED  BY <1>1, <1>5, <1>6, <1>7, <1>8 DEF EmittingInv

(* The common end of a round: k of the tokens fed are committed, and k      *)
(* tokens, the accepted drafts among them first, are to be delivered.       *)
LEMMA EndRoundKeeps ==
    ASSUME IInv,
           NEW k \in Nat, k >= 1, k <= accepted + 1,
           NEW tokens \in Seq(Token), Len(tokens) = k,
           NEW drawn \in Nat,
           EndRound(k, tokens, drawn),
           \A i \in 1..(k - 1) : tokens[i] = tail[i + 1] /\ tokens[i] # Eos,
           \A i \in 1..k :
               tokens[i] = Answer(setup, text \o SubSeq(tail, 1, i), spoken + Drawn(i - 1)),
           rng + drawn = spoken + Drawn(k)
    PROVE  IInv'
<1> USE DEF IInv
<1>1. /\ pc = "judging" /\ pc' = "emitting"
      /\ text' = text \o SubSeq(tail, 1, k) /\ tail' = <<>>
      /\ todo' = tokens /\ accepted' = 0 /\ rng' = rng + drawn
      /\ UNCHANGED <<setup, history, pending, gen, limit, spoken>>
  BY DEF EndRound, CommitPrefix
<1>2. /\ text \in Seq(Token) /\ tail \in Seq(Token) /\ pending \in Token
      /\ gen \in Nat /\ limit \in Nat /\ rng \in Nat /\ spoken \in Nat /\ accepted \in Nat
  BY <1>1 DEF Typed
<1>3. /\ history = Append(text, pending) /\ pending # Eos /\ tail[1] = pending
      /\ accepted + 1 <= Len(tail) /\ gen + Len(tail) <= limit
  BY <1>1 DEF JudgingInv
<1>4. Len(text) \in Nat /\ Len(tail) \in Nat /\ k \in 0..Len(tail) /\ k <= Len(tail)
  BY <1>2, <1>3, LenProperties
<1>5. /\ SubSeq(tail, 1, k) \in Seq(Token) /\ Len(SubSeq(tail, 1, k)) = k
      /\ \A i \in 1..k : SubSeq(tail, 1, k)[i] = tail[i]
  BY <1>2, <1>4, SubSeqOf
<1>6. /\ text' \in Seq(Token) /\ Len(text') = Len(text) + k
      /\ \A i \in 1..k : text'[Len(text) + i] = tail[i]
  <2>1. /\ text' \in Seq(Token) /\ Len(text') = Len(text) + k
        /\ \A j \in 1..(Len(text) + k) :
              text'[j] = IF j <= Len(text) THEN text[j]
                         ELSE SubSeq(tail, 1, k)[j - Len(text)]
    BY <1>1, <1>2, <1>5, ConcatProperties
  <2>2. ASSUME NEW i \in 1..k  PROVE text'[Len(text) + i] = tail[i]
    <3> DEFINE at == Len(text) + i
    <3>1. at \in 1..(Len(text) + k) /\ ~(at <= Len(text)) /\ at - Len(text) = i
      BY <1>4
    <3> HIDE DEF at
    <3>2. text'[at] = SubSeq(tail, 1, k)[i]
      BY <3>1, <2>1
    <3> QED  BY <3>2, <1>5 DEF at
  <2> QED  BY <2>1, <2>2
<1>7. \A i \in 0..k : SubSeq(text', 1, Len(text) + i) = text \o SubSeq(tail, 1, i)
  <2>1. text \in Seq(Token) /\ tail \in Seq(Token) /\ k \in 0..Len(tail)
    BY <1>2, <1>4
  <2>2. text' = text \o SubSeq(tail, 1, k)
    BY <1>1
  <2>3. \A i \in 0..k :
            SubSeq(text \o SubSeq(tail, 1, k), 1, Len(text) + i) = text \o SubSeq(tail, 1, i)
    BY <2>1, PrefixesOfConcat
  <2> QED  BY <2>2, <2>3, Zenon
<1>8. /\ history \in Seq(Token) /\ Len(history) = Len(text) + 1
      /\ history[Len(history)] = pending /\ history # <<>>
  <2>1. LET h == Append(text, pending)
        IN  h \in Seq(Token) /\ Len(h) = Len(text) + 1 /\ h[Len(h)] = pending /\ h # <<>>
    BY <1>2, AppendedTo
  <2> QED  BY <2>1, <1>3, Zenon
<1>9. Typed'
  BY <1>1, <1>2, <1>6, <1>8 DEF Typed
<1>10. InStep'
  BY <1>1 DEF InStep
<1>11. text' # <<>>
  BY <1>4, <1>6, EmptySeq
<1>12. RoomInv'
  BY <1>1, <1>11 DEF RoomInv
<1>13. history = SubSeq(text', 1, Len(history))
  <2> DEFINE one == SubSeq(tail, 1, 1)
  <2>1. one \in Seq(Token) /\ Len(one) = 1 /\ one[1] = pending
    <3>1. 1 \in 0..Len(tail)
      BY <1>4
    <3> QED  BY <3>1, <1>2, <1>3, SubSeqOf
  <2>2. SubSeq(text', 1, Len(history)) = text \o one
    BY <1>4, <1>7, <1>8
  <2> HIDE DEF one
  <2>3. one = <<pending>>
    BY <2>1, <1>2, SeqEqual
  <2> QED  BY <2>2, <2>3, <1>2, <1>3, AppendIsConcat
<1>14. \A i \in 1..(k - 1) : tokens[i] = text'[Len(history) + i]
  <2> SUFFICES ASSUME NEW i \in 1..(k - 1)  PROVE tokens[i] = text'[Len(history) + i]
    OBVIOUS
  <2>1. i + 1 \in 1..k /\ Len(history) + i = Len(text) + (i + 1)
    BY <1>4, <1>8
  <2> QED  BY <2>1, <1>6
<1>15. \A i \in 1..k :
          tokens[i] = Answer(setup, SubSeq(text', 1, Len(history) + i - 1),
                             spoken + Drawn(i - 1))
  <2> SUFFICES ASSUME NEW i \in 1..k
               PROVE  tokens[i] = Answer(setup, SubSeq(text', 1, Len(history) + i - 1),
                                         spoken + Drawn(i - 1))
    OBVIOUS
  <2>1. Len(history) + i - 1 = Len(text) + i /\ i \in 0..k
    BY <1>4, <1>8
  <2> QED  BY <2>1, <1>7
<1>16. EmittingInv'
  <2>1. todo' # <<>> /\ gen' + Len(todo') <= limit'
    BY <1>1, <1>2, <1>3, <1>4, EmptySeq
  <2>2. Len(history') + Len(todo') = Len(text') + 1
    <3>1. Len(todo') = k /\ Len(history') = Len(text) + 1
      BY <1>1, <1>8
    <3> QED  BY <3>1, <1>4, <1>6
  <2>3. history' # <<>> /\ history'[Len(history')] # Eos
        /\ history' = SubSeq(text', 1, Len(history'))
    BY <1>1, <1>3, <1>8, <1>13
  <2>4. \A i \in 1..(Len(todo') - 1) : todo'[i] = text'[Len(history') + i] /\ todo'[i] # Eos
    BY <1>1, <1>14
  <2>5. \A i \in 1..Len(todo') :
            todo'[i] = Answer(setup', SubSeq(text', 1, Len(history') + i - 1),
                              spoken' + Drawn(i - 1)')
    BY <1>1, <1>15 DEF Drawn
  <2>6. rng' = spoken' + Drawn(Len(todo))'
    BY <1>1 DEF Drawn
  <2> QED  BY <2>1, <2>2, <2>3, <2>4, <2>5, <2>6 DEF EmittingInv
<1> QED  BY <1>1, <1>9, <1>10, <1>12, <1>16 DEF JudgingInv

(* The accepted drafts, from the second token fed on. *)
LEMMA AcceptedDrafts ==
    ASSUME IInv, pc = "judging", NEW m \in 0..accepted
    PROVE  /\ SubSeq(tail, 2, m + 1) \in Seq(Token)
           /\ Len(SubSeq(tail, 2, m + 1)) = m
           /\ \A i \in 1..m : SubSeq(tail, 2, m + 1)[i] = tail[i + 1]
<1>1. tail \in Seq(Token) /\ accepted \in Nat /\ accepted + 1 <= Len(tail)
  BY DEF IInv, Typed, JudgingInv
<1>2. Len(tail) \in Nat
  BY <1>1, LenProperties
<1>3. \A i \in 2..(m + 1) : tail[i] \in Token
  <2> SUFFICES ASSUME NEW i \in 2..(m + 1)  PROVE tail[i] \in Token
    OBVIOUS
  <2>1. i \in 1..Len(tail)
    BY <1>1, <1>2
  <2> QED  BY <2>1, <1>1, ElementOfSeq
<1>4. /\ SubSeq(tail, 2, m + 1) \in Seq(Token)
      /\ Len(SubSeq(tail, 2, m + 1)) = IF 2 <= m + 1 THEN m + 1 - 2 + 1 ELSE 0
      /\ \A i \in 1..(m + 1 - 2 + 1) : SubSeq(tail, 2, m + 1)[i] = tail[2 + i - 1]
  BY <1>1, <1>3, SubSeqProperties
<1>5. \A i \in 1..m : SubSeq(tail, 2, m + 1)[i] = tail[i + 1]
  <2> SUFFICES ASSUME NEW i \in 1..m  PROVE SubSeq(tail, 2, m + 1)[i] = tail[i + 1]
    OBVIOUS
  <2>1. i \in 1..(m + 1 - 2 + 1) /\ 2 + i - 1 = i + 1
    BY <1>1
  <2> QED  BY <2>1, <1>4
<1> QED  BY <1>1, <1>4, <1>5

LEMMA CommitEosKeeps ==
    ASSUME IInv, CommitEos
    PROVE  IInv'
<1> DEFINE E == {i \in 1..accepted : tail[i + 1] = Eos}
           k == EosAt
           tokens == SubSeq(tail, 2, k + 1)
<1>1. pc = "judging" /\ E # {} /\ EndRound(k, tokens, 0) /\ k = Min(E)
  BY DEF CommitEos, EndRound, SawEos, Draft, EosAt
<1>2. /\ accepted \in Nat /\ rng \in Nat /\ spoken \in Nat /\ setup \in Setup
      /\ setup.drafter \in {"ngram", "dspark"}
      /\ \A i \in 1..accepted :
            tail[i + 1] = Answer(setup, text \o SubSeq(tail, 1, i), spoken + Drawn(i - 1))
      /\ setup.drafter = "ngram" => \A i \in 1..(accepted - 1) : tail[i + 1] # Eos
      /\ rng = spoken + Drawn(accepted)
  BY <1>1 DEF IInv, Typed, JudgingInv
<1>3. k \in E /\ \A i \in E : k <= i
  <2>1. E \in SUBSET Nat
    BY <1>2
  <2> HIDE DEF E, k
  <2> QED  BY <1>1, <2>1, LeastIs
<1>4. k \in 1..accepted /\ \A i \in 1..(k - 1) : tail[i + 1] # Eos
  <2>1. k \in 1..accepted
    BY <1>3
  <2>2. ASSUME NEW i \in 1..(k - 1)  PROVE tail[i + 1] # Eos
    <3>1. i \in 1..accepted /\ ~(k <= i)
      BY <2>1, <1>2
    <3> QED  BY <3>1, <1>3
  <2> QED  BY <2>1, <2>2
<1> HIDE DEF E, k
<1>5. /\ tokens \in Seq(Token) /\ Len(tokens) = k
      /\ \A i \in 1..k : tokens[i] = tail[i + 1]
  <2>1. k \in 0..accepted
    BY <1>2, <1>4
  <2> QED  BY <2>1, <1>1, AcceptedDrafts
<1>6. rng + 0 = spoken + Drawn(k)
  <2>1. CASE setup.drafter = "ngram"
    <3>1. ~(k \in 1..(accepted - 1))
      BY <2>1, <1>2, <1>3 DEF E
    <3>2. k = accepted
      BY <3>1, <1>2, <1>4
    <3> QED  BY <3>2, <1>2
  <2>2. CASE setup.drafter = "dspark"
    <3>1. ~setup.sampling
      BY <2>2, <1>2, SetupAssumption
    <3> QED  BY <3>1, <1>2 DEF Drawn
  <2> QED  BY <2>1, <2>2, <1>2
<1>7. k \in Nat /\ k >= 1 /\ k <= accepted + 1
  BY <1>2, <1>4
<1>8. \A i \in 1..(k - 1) : tokens[i] = tail[i + 1] /\ tokens[i] # Eos
  BY <1>4, <1>5, <1>7
<1>9. \A i \in 1..k :
         tokens[i] = Answer(setup, text \o SubSeq(tail, 1, i), spoken + Drawn(i - 1))
  BY <1>2, <1>4, <1>5, <1>7
<1> HIDE DEF tokens
<1> QED  BY <1>1, <1>5, <1>6, <1>7, <1>8, <1>9, EndRoundKeeps

(* The accepted drafts and the target's token behind them. *)
LEMMA EndOfBlockKeeps ==
    ASSUME AnswersAreTokens, IInv, ~SawEos,
           EndRound(accepted + 1, Append(SubSeq(tail, 2, accepted + 1), Verdict), Draw)
    PROVE  IInv'
<1> DEFINE k == accepted + 1
           drafts == SubSeq(tail, 2, accepted + 1)
           tokens == Append(drafts, Verdict)
<1>1. pc = "judging"
  BY DEF EndRound
<1>2. /\ accepted \in Nat /\ rng \in Nat /\ spoken \in Nat
      /\ \A i \in 1..accepted :
            tail[i + 1] = Answer(setup, text \o SubSeq(tail, 1, i), spoken + Drawn(i - 1))
  BY <1>1 DEF IInv, Typed, JudgingInv
<1>3. /\ Verdict \in Token
      /\ Verdict = Answer(setup, text \o SubSeq(tail, 1, k), spoken + Drawn(accepted))
      /\ rng + Draw = spoken + Drawn(k)
  BY <1>1, VerdictFacts
<1>4. /\ drafts \in Seq(Token) /\ Len(drafts) = accepted
      /\ \A i \in 1..accepted : drafts[i] = tail[i + 1]
  BY <1>1, <1>2, AcceptedDrafts
<1> HIDE DEF drafts
<1>5. /\ tokens \in Seq(Token) /\ Len(tokens) = k
      /\ \A i \in 1..accepted : tokens[i] = tail[i + 1]
      /\ tokens[k] = Verdict
  BY <1>2, <1>3, <1>4, AppendProperties
<1>6. \A i \in 1..accepted : tail[i + 1] # Eos
  BY DEF SawEos, Draft
<1>7. k \in Nat /\ k >= 1 /\ k <= accepted + 1 /\ k - 1 = accepted
  BY <1>2
<1>8. \A i \in 1..(k - 1) : tokens[i] = tail[i + 1] /\ tokens[i] # Eos
  BY <1>5, <1>6, <1>7
<1>9. ASSUME NEW i \in 1..k
      PROVE  tokens[i] = Answer(setup, text \o SubSeq(tail, 1, i), spoken + Drawn(i - 1))
  <2>1. CASE i \in 1..accepted
    BY <2>1, <1>2, <1>5
  <2>2. CASE i = k
    BY <2>2, <1>3, <1>5, <1>7
  <2>3. i \in 1..accepted \/ i = k
    BY <1>2
  <2> QED  BY <2>1, <2>2, <2>3
<1>10. Draw \in Nat
  BY DEF Draw
<1>11. EndRound(k, tokens, Draw)
  BY DEF drafts
<1> HIDE DEF tokens, k
<1> QED  BY <1>3, <1>5, <1>7, <1>8, <1>9, <1>10, <1>11, EndRoundKeeps

(* What is delivered next is what plain decoding says next. *)
LEMMA EmitFacts ==
    ASSUME IInv, Emit
    PROVE  /\ Head(todo) = todo[1] /\ todo[1] \in Token
           /\ Tail(todo) \in Seq(Token) /\ Len(Tail(todo)) = Len(todo) - 1
           /\ \A i \in 1..(Len(todo) - 1) : Tail(todo)[i] = todo[i + 1]
           /\ Len(todo) \in Nat \ {0}
           /\ gen < limit /\ Deliver(todo[1])
           /\ todo[1] = Answer(setup, history, spoken)
<1>1. /\ pc = "emitting" /\ Deliver(Head(todo))
  BY DEF Emit
<1>2. /\ todo \in Seq(Token) /\ todo # <<>> /\ gen + Len(todo) <= limit
      /\ gen \in Nat /\ limit \in Nat /\ spoken \in Nat /\ history \in Seq(Token)
      /\ history = SubSeq(text, 1, Len(history))
      /\ \A i \in 1..Len(todo) :
            todo[i] = Answer(setup, SubSeq(text, 1, Len(history) + i - 1),
                             spoken + Drawn(i - 1))
  BY <1>1 DEF IInv, Typed, EmittingInv
<1>3. /\ Head(todo) \in Token /\ Tail(todo) \in Seq(Token)
      /\ Len(Tail(todo)) = Len(todo) - 1
      /\ \A i \in 1..Len(Tail(todo)) : Tail(todo)[i] = todo[i + 1]
  BY <1>2, HeadTailProperties
<1>4. Head(todo) = todo[1] /\ Len(todo) \in Nat /\ Len(todo) # 0
  BY <1>2, EmptySeq, LenProperties
<1>5. todo[1] = Answer(setup, history, spoken)
  <2>1. Len(history) + 1 - 1 = Len(history) /\ spoken + Drawn(1 - 1) = spoken
    BY <1>2, LenProperties DEF Drawn
  <2>2. 1 \in 1..Len(todo)
    BY <1>4
  <2>3. todo[1] = Answer(setup, SubSeq(text, 1, Len(history) + 1 - 1), spoken + Drawn(1 - 1))
    BY <2>2, <1>2
  <2> QED  BY <2>1, <2>3, <1>2
<1>6. gen < limit
  BY <1>2, <1>4
<1> QED  BY <1>1, <1>3, <1>4, <1>5, <1>6

LEMMA EmitKeeps ==
    ASSUME IInv, Emit
    PROVE  IInv'
<1> DEFINE rest == Tail(todo)
           n == Len(history)
<1> USE DEF IInv
<1>1. /\ pc = "emitting" /\ pc' = IF rest = <<>> THEN "loop" ELSE "emitting"
      /\ todo' = rest
      /\ UNCHANGED <<setup, text, limit, rng, tail, accepted>>
  BY DEF Emit
<1>2. /\ Head(todo) = todo[1] /\ todo[1] \in Token
      /\ rest \in Seq(Token) /\ Len(rest) = Len(todo) - 1
      /\ \A i \in 1..(Len(todo) - 1) : rest[i] = todo[i + 1]
      /\ Len(todo) \in Nat \ {0}
      /\ gen < limit /\ Deliver(todo[1])
  BY EmitFacts
<1> HIDE DEF rest
<1>3. /\ history' = Append(history, todo[1]) /\ history' \in Seq(Token)
      /\ Len(history') = n + 1 /\ n \in Nat
      /\ pending' = todo[1] /\ pending' \in Token
      /\ gen' = gen + 1 /\ gen' \in Nat /\ gen' <= limit'
      /\ Len(history') + (limit' - gen') <= Context
      /\ spoken' = spoken + Draw /\ spoken' \in Nat
  BY <1>1, <1>2, DeliverFacts
<1>4. /\ text \in Seq(Token) /\ gen \in Nat /\ limit \in Nat /\ spoken \in Nat
      /\ history \in Seq(Token) /\ todo \in Seq(Token)
  BY DEF Typed
<1>5. /\ gen + Len(todo) <= limit /\ n + Len(todo) = Len(text) + 1
      /\ history = SubSeq(text, 1, n)
      /\ \A i \in 1..(Len(todo) - 1) : todo[i] = text[n + i] /\ todo[i] # Eos
      /\ \A i \in 1..Len(todo) :
            todo[i] = Answer(setup, SubSeq(text, 1, n + i - 1), spoken + Drawn(i - 1))
      /\ rng = spoken + Drawn(Len(todo))
  BY <1>1 DEF EmittingInv
<1>6. text # <<>> /\ Len(text) \in Nat
  BY <1>1, <1>4, LenProperties DEF RoomInv
<1> HIDE DEF n
<1>7. history'[Len(history')] = todo[1] /\ history' # <<>>
  BY <1>2, <1>3, <1>4, AppendProperties DEF n
<1>8. Typed'
  BY <1>1, <1>2, <1>3, <1>4 DEF Typed
<1>9. CASE rest = <<>>
  <2>1. Len(todo) = 1 /\ n = Len(text)
    <3>1. Len(rest) = 0
      BY <1>9
    <3>2. Len(todo) = 1
      BY <3>1, <1>2
    <3> QED  BY <3>2, <1>3, <1>5, <1>6
  <2>2. history = text
    BY <2>1, <1>4, <1>5, SubSeqFull
  <2>3. rng' = spoken'
    BY <2>1, <1>1, <1>3, <1>4, <1>5 DEF Drawn, Draw
  <2>4. InStep'
    BY <2>2, <2>3, <1>1, <1>3, <1>9 DEF InStep
  <2>5. RoomInv'
    BY <1>1, <1>3, <1>6, <1>9 DEF RoomInv
  <2> QED  BY <2>4, <2>5, <1>1, <1>8, <1>9 DEF JudgingInv, EmittingInv
<1>10. CASE rest # <<>>
  <2>1. pc' = "emitting" /\ Len(rest) \in Nat \ {0} /\ Len(todo) >= 2
    BY <1>1, <1>2, <1>10, EmptySeq, LenProperties
  <2>2. InStep'
    BY <2>1 DEF InStep
  <2>3. RoomInv'
    BY <2>1, <1>1, <1>3, <1>6 DEF RoomInv
  <2>4. todo[1] = text[n + 1] /\ todo[1] # Eos
    BY <2>1, <1>2, <1>5
  <2>5. history' = SubSeq(text, 1, n + 1)
    <3>1. n \in 0..(Len(text) - 1)
      BY <2>1, <1>2, <1>3, <1>5, <1>6
    <3> QED  BY <3>1, <2>4, <1>3, <1>4, <1>5, PrefixGrows
  <2>6. ASSUME NEW i \in 1..(Len(rest) - 1)
        PROVE  rest[i] = text[n + 1 + i] /\ rest[i] # Eos
    <3>1. /\ i \in 1..(Len(todo) - 1) /\ i + 1 \in 1..(Len(todo) - 1)
          /\ n + (i + 1) = n + 1 + i
      BY <2>1, <1>2, <1>3
    <3>2. rest[i] = todo[i + 1] /\ todo[i + 1] = text[n + (i + 1)] /\ todo[i + 1] # Eos
      BY <3>1, <1>2, <1>5
    <3> QED  BY <3>1, <3>2
  <2>7. ASSUME NEW i \in 1..Len(rest)
        PROVE  rest[i] = Answer(setup, SubSeq(text, 1, n + 1 + i - 1),
                                spoken + Draw + Drawn(i - 1))
    <3>1. /\ i \in 1..(Len(todo) - 1) /\ i + 1 \in 1..Len(todo)
          /\ n + (i + 1) - 1 = n + 1 + i - 1
      BY <2>1, <1>2, <1>3
    <3>2. spoken + Draw + Drawn(i - 1) = spoken + Drawn(i + 1 - 1)
      BY <1>4 DEF Drawn, Draw
    <3>3. rest[i] = Answer(setup, SubSeq(text, 1, n + (i + 1) - 1), spoken + Drawn(i + 1 - 1))
      BY <3>1, <1>2, <1>5
    <3> QED  BY <3>1, <3>2, <3>3
  <2>8. gen' + Len(todo') <= limit' /\ Len(history') + Len(todo') = Len(text') + 1
    <3>1. Len(todo') = Len(todo) - 1 /\ Len(todo) \in Nat
      BY <1>1, <1>2
    <3>2. gen' + Len(todo') <= limit'
      BY <3>1, <1>1, <1>3, <1>4, <1>5
    <3>3. Len(history') + Len(todo') = Len(text') + 1
      <4>1. Len(text') = Len(text)
        BY <1>1
      <4> QED  BY <4>1, <3>1, <1>3, <1>5, <1>6
    <3> QED  BY <3>2, <3>3
  <2>9. rng' = spoken' + Drawn(Len(todo))'
    BY <2>1, <1>1, <1>2, <1>3, <1>4, <1>5 DEF Drawn, Draw
  <2>10. history' = SubSeq(text', 1, Len(history'))
         /\ history'[Len(history')] # Eos /\ todo' # <<>>
    BY <2>4, <2>5, <1>1, <1>3, <1>7, <1>10
  <2>11. \A i \in 1..(Len(todo') - 1) :
            todo'[i] = text'[Len(history') + i] /\ todo'[i] # Eos
    BY <2>6, <1>1, <1>3
  <2>12. \A i \in 1..Len(todo') :
            todo'[i] = Answer(setup', SubSeq(text', 1, Len(history') + i - 1),
                              spoken' + Drawn(i - 1)')
    BY <2>7, <1>1, <1>3 DEF Drawn
  <2>13. EmittingInv'
    BY <2>8, <2>9, <2>10, <2>11, <2>12, <1>7 DEF EmittingInv
  <2> QED  BY <2>1, <2>2, <2>3, <2>13, <1>8 DEF JudgingInv
<1> QED  BY <1>9, <1>10

LEMMA EndTurnKeeps ==
    ASSUME IInv, EndTurn
    PROVE  IInv'
<1>1. /\ pc = "loop" /\ pc' = "listening"
      /\ UNCHANGED <<setup, text, history, pending, gen, limit, rng, spoken, tail,
                     accepted, todo>>
  BY DEF EndTurn, roundVars
<1>2. Typed'
  BY <1>1 DEF IInv, Typed
<1>3. InStep' /\ RoomInv'
  BY <1>1 DEF IInv, InStep, RoomInv
<1> QED  BY <1>1, <1>2, <1>3 DEF IInv, JudgingInv, EmittingInv

LEMMA ResetKeeps ==
    ASSUME IInv, Reset
    PROVE  IInv'
<1>1. /\ pc = "listening" /\ pc' = "listening"
      /\ text' = <<>> /\ history' = <<>>
      /\ UNCHANGED <<setup, gen, limit, rng, spoken, tail, accepted, todo>>
  BY DEF Reset, roundVars, turnVars
<1>2. Typed'
  BY <1>1 DEF IInv, Typed
<1>3. InStep'
  BY <1>1 DEF IInv, InStep
<1>4. RoomInv'
  <2>1. /\ history \in Seq(Token) /\ gen \in Nat /\ limit \in Nat /\ Context \in Nat
        /\ gen <= limit /\ limit <= Context
    BY DecodeAssumption DEF IInv, Typed, RoomInv
  <2>2. Len(history') = 0
    BY <1>1
  <2> QED  BY <2>1, <2>2, <1>1 DEF IInv, RoomInv
<1> QED  BY <1>1, <1>2, <1>3, <1>4 DEF IInv, JudgingInv, EmittingInv

(* A step that touches nothing the invariant speaks of, but may leave. *)
LEMMA NothingMoves ==
    ASSUME IInv, pc' = pc \/ (pc = "listening" /\ pc' = "done"),
           UNCHANGED <<setup, text, history, pending, gen, limit, rng, spoken, tail,
                       accepted, todo>>
    PROVE  IInv'
<1>1. Typed'
  BY DEF IInv, Typed
<1>2. InStep' /\ RoomInv'
  BY DEF IInv, InStep, RoomInv
<1>3. JudgingInv'
  BY DEF IInv, JudgingInv, Drawn
<1>4. EmittingInv'
  BY DEF IInv, EmittingInv, Drawn
<1> QED  BY <1>1, <1>2, <1>3, <1>4 DEF IInv

LEMMA NextKeeps ==
    ASSUME AnswersAreTokens, IInv, [Next]_vars
    PROVE  IInv'
<1>1. CASE \E line \in Turn : NextTurn(line)
  BY <1>1, NextTurnKeeps
<1>2. CASE FirstToken
  BY <1>2, FirstTokenKeeps
<1>3. CASE \E n \in 1..Block : \E draft \in [1..n -> Token] : Propose(draft)
  BY <1>3, ProposeKeeps
<1>4. CASE AcceptDraft
  BY <1>4, AcceptDraftKeeps
<1>5. CASE CommitEos
  BY <1>5, CommitEosKeeps
<1>6. CASE CommitCorrection
  BY <1>6, EndOfBlockKeeps DEF CommitCorrection
<1>7. CASE CommitBonus
  BY <1>7, EndOfBlockKeeps DEF CommitBonus
<1>8. CASE Emit
  BY <1>8, EmitKeeps
<1>9. CASE Scalar
  BY <1>9, ScalarKeeps
<1>10. CASE EndTurn
  BY <1>10, EndTurnKeeps
<1>11. CASE Reset
  BY <1>11, ResetKeeps
<1>12. CASE Interrupt
  BY <1>12, NothingMoves DEF Interrupt, roundVars, turnVars
<1>13. CASE Quit
  BY <1>13, NothingMoves DEF Quit, roundVars, turnVars
<1>14. CASE UNCHANGED vars
  BY <1>14, NothingMoves DEF vars, roundVars, turnVars
<1> QED
  BY <1>1, <1>2, <1>3, <1>4, <1>5, <1>6, <1>7, <1>8, <1>9, <1>10, <1>11, <1>12, <1>13,
     <1>14 DEF Next, Decode

THEOREM SpecInvariant == ASSUME AnswersAreTokens PROVE SafetySpec => []IInv
<1>1. Init => IInv
  BY InitIInv
<1>2. IInv /\ [Next]_vars => IInv'
  BY NextKeeps
<1> QED  BY <1>1, <1>2, PTL DEF SafetySpec

(* Between rounds the conversation is the committed text and the pending    *)
(* token, and the generator is where plain decoding would have left it      *)
(* (InStep).                                                                *)
THEOREM SpecInStep == ASSUME AnswersAreTokens PROVE SafetySpec => []InStep
<1>1. IInv => InStep
  BY DEF IInv
<1> QED  BY <1>1, SpecInvariant, PTL

(* No round delivers more tokens than the response, or the arrays of the    *)
(* context's length, have room for (WithinArrays).                          *)
THEOREM SpecWithinArrays == ASSUME AnswersAreTokens PROVE SafetySpec => []WithinArrays
<1>1. IInv => WithinArrays
  <2> SUFFICES ASSUME IInv  PROVE WithinArrays
    OBVIOUS
  <2>1. /\ gen \in Nat /\ limit \in Nat /\ Context \in Nat
        /\ Len(history) \in Nat /\ Len(todo) \in Nat
    BY DecodeAssumption, LenProperties DEF IInv, Typed
  <2>2. gen <= limit /\ limit <= Context /\ Len(history) + (limit - gen) <= Context
    BY DEF IInv, RoomInv
  <2>3. gen + Len(todo) <= limit
    <3>1. CASE pc = "emitting"
      BY <3>1 DEF IInv, EmittingInv
    <3>2. CASE pc # "emitting"
      <4>1. Len(todo) = 0
        BY <3>2 DEF IInv, RoomInv
      <4> QED  BY <4>1, <2>1, <2>2
    <3> QED  BY <3>1, <3>2
  <2> QED  BY <2>1, <2>2, <2>3 DEF WithinArrays
<1> QED  BY <1>1, SpecInvariant, PTL

(* Only a response that proposed something has widened the cache. *)
LayoutInv ==
    /\ layout = "ordinary" \/ expanded
    /\ LayoutRestored

(* However a response ends, the next turn finds the cache laid out for      *)
(* single tokens (LayoutRestored).  Nothing is assumed of the answers.      *)
THEOREM SpecLayoutRestored == SafetySpec => []LayoutRestored
<1>1. Init => LayoutInv
  BY DEF Init, LayoutInv, LayoutRestored
<1>2. ASSUME LayoutInv, [Next]_vars  PROVE LayoutInv'
  <2> USE DEF LayoutInv, LayoutRestored
  <2>1. CASE \E line \in Turn : NextTurn(line)
    BY <1>2, <2>1 DEF NextTurn
  <2>2. CASE \E n \in 1..Block : \E draft \in [1..n -> Token] : Propose(draft)
    BY <1>2, <2>2 DEF Propose
  <2>3. CASE CommitEos \/ CommitCorrection \/ CommitBonus
    BY <1>2, <2>3 DEF CommitEos, CommitCorrection, CommitBonus, EndRound
  <2>4. CASE FirstToken \/ AcceptDraft \/ Emit \/ Scalar
    BY <1>2, <2>4 DEF FirstToken, AcceptDraft, Emit, Scalar, turnVars
  <2>5. CASE EndTurn
    BY <1>2, <2>5 DEF EndTurn, LayoutAfterTurn
  <2>6. CASE Reset \/ Interrupt \/ Quit \/ UNCHANGED vars
    BY <1>2, <2>6 DEF Reset, Interrupt, Quit, vars, turnVars
  <2> QED  BY <1>2, <2>1, <2>2, <2>3, <2>4, <2>5, <2>6 DEF Next, Decode
<1>3. LayoutInv => LayoutRestored
  BY DEF LayoutInv
<1> QED  BY <1>1, <1>2, <1>3, PTL DEF SafetySpec

-------------------------------------------------------------------------------
(* The search of the history for a draft (NgramDraft). *)

(* Where the newest occurrence of the last n tokens is, and an older one. *)
LEMMA OccurrencesAre ==
    ASSUME NEW T, NEW h \in Seq(T), NEW n \in 1..MaxMatch, Occurrences(h, n) # {}
    PROVE  /\ Newest(h, n) \in Nat /\ Newest(h, n) + n < Len(h) /\ Available(h, n) \in Nat \ {0}
           /\ \A i \in 0..(n - 1) : At(h, Newest(h, n) + i) = At(h, (Len(h) - n) + i)
           /\ Older(h, n) # {} => /\ Max(Older(h, n)) \in Nat
                                  /\ Max(Older(h, n)) < Newest(h, n)
<1> DEFINE O == Occurrences(h, n)
           b == (Len(h) - n) - 1
<1>1. n \in Nat /\ Len(h) \in Nat
  BY DEF MaxMatch
<1>2. O = {s \in 0..b : \A i \in 0..(n - 1) : At(h, s + i) = At(h, (Len(h) - n) + i)}
  BY DEF Occurrences
<1>3. O \in SUBSET Nat /\ O # {} /\ b \in Nat /\ \A s \in O : s <= b
  <2>1. \A s \in O : s \in 0..b
    BY <1>2
  <2>2. b \in Int
    BY <1>1
  <2> HIDE DEF O, b
  <2> QED  BY <2>1, <2>2 DEF O
<1>4. Newest(h, n) \in O /\ \A s \in O : s <= Newest(h, n)
  <2>1. Max(O) \in O /\ \A s \in O : s <= Max(O)
    <3> HIDE DEF O, b
    <3> QED  BY <1>3, GreatestExists
  <2> QED  BY <2>1 DEF Newest
<1>5. Newest(h, n) \in Nat /\ Newest(h, n) <= b
  <2> HIDE DEF O, b
  <2> QED  BY <1>3, <1>4
<1>6. Newest(h, n) + n < Len(h) /\ Available(h, n) \in Nat \ {0}
  BY <1>1, <1>5 DEF Available
<1>7. \A i \in 0..(n - 1) : At(h, Newest(h, n) + i) = At(h, (Len(h) - n) + i)
  <2> HIDE DEF b
  <2> QED  BY <1>2, <1>4
<1>8. Older(h, n) # {} => Max(Older(h, n)) \in Nat /\ Max(Older(h, n)) < Newest(h, n)
  <2> DEFINE P == Older(h, n)
  <2>1. P \in SUBSET Nat /\ \A s \in P : s < Newest(h, n) /\ s <= Newest(h, n)
    BY <1>3, <1>5 DEF Older
  <2> HIDE DEF P
  <2>2. P # {} => Max(P) \in P
    BY <1>5, <2>1, GreatestExists
  <2> QED  BY <2>1, <2>2 DEF P
<1> QED  BY <1>5, <1>6, <1>7, <1>8

(* Every token of a draft passed the loop's tests, and there are no more    *)
(* than were asked for.                                                     *)
LEMMA DraftedIs ==
    ASSUME NEW h, NEW n, NEW cap \in Nat, NEW overlap, NEW periodic
    PROVE  /\ Drafted(h, n, cap, overlap, periodic) \in 0..cap
           /\ \A i \in 0..(Drafted(h, n, cap, overlap, periodic) - 1) :
                 Continues(h, n, i, overlap, periodic)
<1> DEFINE most == DraftCap(h, n, cap)
           K == {k \in 0..most : \A i \in 0..(k - 1) : Continues(h, n, i, overlap, periodic)}
<1>1. most \in 0..cap
  <2>1. CASE Older(h, n) = {}
    <3>1. most = Min({cap, MaxAlone})
      BY <2>1 DEF DraftCap
    <3>2. Min({cap, MaxAlone}) = IF cap <= MaxAlone THEN cap ELSE MaxAlone
      <4>1. cap \in Int /\ MaxAlone \in Int
        BY DEF MaxAlone
      <4> QED  BY <4>1, MinOfTwo
    <3> QED  BY <3>1, <3>2 DEF MaxAlone
  <2>2. CASE Older(h, n) # {}
    BY <2>2 DEF DraftCap
  <2> QED  BY <2>1, <2>2
<1> HIDE DEF most
<1>2. K \in SUBSET Nat /\ 0 \in K /\ \A k \in K : k <= most
  BY <1>1
<1>3. Max(K) \in K
  <2>1. K # {} /\ most \in Nat
    BY <1>1, <1>2
  <2> HIDE DEF K
  <2> QED  BY <1>2, <2>1, GreatestExists
<1>4. Drafted(h, n, cap, overlap, periodic) = Max(K)
  BY DEF Drafted, most
<1>5. Max(K) \in 0..most /\ \A i \in 0..(Max(K) - 1) : Continues(h, n, i, overlap, periodic)
  <2> DEFINE m == Max(K)
  <2>1. m \in K
    BY <1>3
  <2> HIDE DEF m
  <2>2. m \in 0..most /\ \A i \in 0..(m - 1) : Continues(h, n, i, overlap, periodic)
    BY <2>1
  <2> QED  BY <2>2 DEF m
<1> HIDE DEF K
<1> QED  BY <1>1, <1>4, <1>5

(* A draft goes on as the text went on from the newest occurrence.          *)
LEMMA DraftResumes ==
    ASSUME NEW T, NEW h \in Seq(T), NEW n \in 1..MaxMatch, Occurrences(h, n) # {},
           NEW m \in Nat, NEW d, d = [i \in 1..m |-> Candidate(h, n, i - 1)]
    PROVE  /\ d \in Seq(T) /\ Len(d) = m
           /\ Len(h) - (Newest(h, n) + n) \in 1..(Len(h) - n)
           /\ Repeats(h \o d, Len(h) - n, Len(h) - (Newest(h, n) + n), (Len(h) + Len(d)) - 1)
<1> DEFINE s == Newest(h, n)
           a == Available(h, n)
           len == Len(h)
           gap == len - (s + n)
<1>0. n \in Nat /\ len \in Nat
  BY DEF MaxMatch
<1>1. /\ n \in Nat /\ len \in Nat /\ s \in Nat /\ s + n < len /\ a \in Nat \ {0}
      /\ \A i \in 0..(n - 1) : At(h, s + i) = At(h, (len - n) + i)
  <2>1. /\ s \in Nat /\ s + n < Len(h) /\ a \in Nat \ {0}
        /\ \A i \in 0..(n - 1) : At(h, s + i) = At(h, (Len(h) - n) + i)
    BY OccurrencesAre
  <2> QED  BY <1>0, <2>1
<1>2. a = gap
  BY <1>1 DEF Available
<1>3. \A i : Candidate(h, n, i) = At(h, (s + n) + (i % a))
  BY DEF Candidate
<1>4. \A i \in Nat : i % a \in 0..(a - 1)
  BY <1>1, Division
<1> HIDE DEF s, a
<1>5. \A i \in 1..m : d[i] \in T
  <2> SUFFICES ASSUME NEW i \in 1..m  PROVE d[i] \in T
    OBVIOUS
  <2>1. i - 1 \in Nat
    OBVIOUS
  <2> DEFINE r == (i - 1) % a
  <2>2. d[i] = At(h, (s + n) + r)
    BY <1>3
  <2>3. r \in 0..(a - 1)
    BY <1>4, <2>1
  <2> HIDE DEF r
  <2>4. ((s + n) + r) + 1 \in 1..len
    BY <1>1, <1>2, <2>3
  <2> QED  BY <2>2, <2>4 DEF At
<1>6. d \in Seq(T) /\ Len(d) = m
  BY <1>5
<1>7. gap \in 1..(len - n)
  BY <1>1
<1> DEFINE w == h \o d
<1>8. /\ \A i \in 0..(len - 1) : At(w, i) = At(h, i)
      /\ \A i \in 0..(m - 1) : At(w, len + i) = Candidate(h, n, i)
  <2>1. /\ \A i \in 1..len : w[i] = h[i]
        /\ \A i \in 1..Len(d) : w[len + i] = d[i]
    BY <1>6, PartsOfConcat
  <2> HIDE DEF w
  <2>2. ASSUME NEW i \in 0..(len - 1)  PROVE At(w, i) = At(h, i)
    <3>1. i + 1 \in 1..len
      BY <1>1
    <3> QED  BY <2>1, <3>1 DEF At
  <2>3. ASSUME NEW i \in 0..(m - 1)  PROVE At(w, len + i) = Candidate(h, n, i)
    <3>1. i + 1 \in 1..m /\ (len + i) + 1 = len + (i + 1) /\ (i + 1) - 1 = i
      BY <1>1
    <3>2. w[len + (i + 1)] = d[i + 1]
      BY <1>6, <2>1, <3>1
    <3>3. d[i + 1] = Candidate(h, n, (i + 1) - 1)
      BY <3>1
    <3> QED  BY <3>1, <3>2, <3>3 DEF At
  <2> QED  BY <2>2, <2>3
<1> HIDE DEF w
<1>9. ASSUME NEW x \in (len - n)..((len + m) - 1)  PROVE At(w, x) = At(w, x - gap)
  <2>1. CASE x < len
    <3> DEFINE i == x - (len - n)
    <3>1. i \in 0..(n - 1) /\ x = (len - n) + i /\ x - gap = s + i
      BY <1>1, <2>1
    <3>2. x \in 0..(len - 1) /\ x - gap \in 0..(len - 1)
      BY <1>1, <2>1
    <3> HIDE DEF i, gap
    <3>3. At(h, s + i) = At(h, (len - n) + i)
      BY <1>1, <3>1
    <3> QED  BY <1>8, <3>1, <3>2, <3>3
  <2>2. CASE x >= len
    <3> DEFINE i == x - len
    <3>1. i \in 0..(m - 1) /\ x = len + i /\ x - gap = (s + n) + i /\ i \in Nat
      BY <1>1, <2>2
    <3>2. At(w, x) = At(h, (s + n) + (i % a))
      <4> HIDE DEF i
      <4> QED  BY <1>3, <1>8, <3>1
    <3>3. CASE i < a
      <4>1. i % a = i
        <5> HIDE DEF i
        <5>1. i \in 0..(a - 1)
          BY <1>1, <3>1, <3>3
        <5> QED  BY <1>1, <5>1, SmallRemainder
      <4>2. x - gap \in 0..(len - 1)
        BY <1>1, <1>2, <3>1, <3>3
      <4> HIDE DEF i, gap
      <4> QED  BY <1>8, <3>1, <3>2, <4>1, <4>2
    <3>4. CASE i >= a
      <4> DEFINE j == i - a
      <4>1. j \in Nat /\ j \in 0..(m - 1) /\ x - gap = len + j
        BY <1>1, <1>2, <3>1, <3>4
      <4>2. j % a = i % a
        <5> DEFINE k == j \div a
                   r == j % a
        <5>1. k \in Nat /\ r \in 0..(a - 1) /\ j = k * a + r
          BY <1>1, <4>1, Division
        <5>2. i = j + a
          BY <1>1, <3>1
        <5> HIDE DEF k, r, i, j
        <5>3. i = (k + 1) * a + r /\ k + 1 \in Nat /\ i \in Nat
          BY <1>1, <3>1, <5>1, <5>2
        <5>4. i % a = r
          BY <1>1, <5>1, <5>3, DivisionIs
        <5> QED  BY <5>4 DEF r
      <4>3. At(w, x - gap) = At(h, (s + n) + (j % a))
        <5> HIDE DEF i, j, gap
        <5> QED  BY <1>3, <1>8, <4>1
      <4> HIDE DEF i, j, gap
      <4> QED  BY <3>2, <4>2, <4>3
    <3>5. i < a \/ i >= a
      BY <1>1, <3>1
    <3> QED  BY <3>3, <3>4, <3>5
  <2>3. x \in Int
    BY <1>1
  <2> QED  BY <1>1, <2>1, <2>2, <2>3
<1>10. Repeats(w, len - n, gap, (len + m) - 1)
  <2> HIDE DEF len, gap
  <2> QED  BY <1>9 DEF Repeats
<1> QED  BY <1>6, <1>7, <1>10 DEF s, w
(* As far as the text behind the newest occurrence goes, the one before it  *)
(* went on alike.                                                           *)
LEMMA DraftAgrees ==
    ASSUME NEW T, NEW h \in Seq(T), NEW n \in 1..MaxMatch, Occurrences(h, n) # {},
           NEW cap \in Nat, NEW overlap, NEW periodic,
           NEW m, m = Drafted(h, n, cap, overlap, periodic),
           NEW d, d = [i \in 1..m |-> Candidate(h, n, i - 1)]
    PROVE  \A i \in 0..(Min({m, Available(h, n)}) - 1) :
              \A s \in {Newest(h, n)} \cup (IF Older(h, n) = {} THEN {} ELSE {Max(Older(h, n))}) :
                 At(h, s + n + i) = At(d, i)
<1> DEFINE a == Available(h, n)
<1>1. a \in Nat \ {0} /\ m \in Nat
  BY OccurrencesAre, DraftedIs
<1>2. \A i \in 0..(m - 1) : Continues(h, n, i, overlap, periodic)
  BY DraftedIs
<1>3. ASSUME NEW i \in 0..(Min({m, a}) - 1)
      PROVE  i \in 0..(m - 1) /\ i \in 0..(a - 1)
  <2> HIDE DEF a
  <2>1. Min({m, a}) = IF m <= a THEN m ELSE a
    BY <1>1, MinOfTwo
  <2> QED  BY <1>1, <2>1
<1> SUFFICES ASSUME NEW i \in 0..(Min({m, a}) - 1),
                    NEW s \in {Newest(h, n)} \cup
                              (IF Older(h, n) = {} THEN {} ELSE {Max(Older(h, n))})
             PROVE  At(h, s + n + i) = At(d, i)
  OBVIOUS
<1>4. i \in 0..(m - 1) /\ i \in 0..(a - 1) /\ i \in Nat
  <2>1. i \in 0..(m - 1) /\ i \in 0..(a - 1)
    BY <1>3
  <2> HIDE DEF a
  <2> QED  BY <2>1
<1>5. i % a = i
  <2> HIDE DEF a
  <2> QED  BY <1>1, <1>4, SmallRemainder
<1>6. At(d, i) = Candidate(h, n, i)
  <2>1. i + 1 \in 1..m /\ (i + 1) - 1 = i
    BY <1>1, <1>4
  <2>2. d[i + 1] = Candidate(h, n, (i + 1) - 1)
    BY <2>1
  <2> QED  BY <2>1, <2>2 DEF At
<1>7. CASE s = Newest(h, n)
  <2>1. Candidate(h, n, i) = At(h, Newest(h, n) + n + (i % a))
    BY DEF Candidate
  <2> QED  BY <1>5, <1>6, <1>7, <2>1
<1>8. CASE Older(h, n) # {} /\ s = Max(Older(h, n))
  <2>1. At(h, Max(Older(h, n)) + n + (i % a)) = Candidate(h, n, i)
    BY <1>2, <1>4, <1>8, Zenon DEF Continues
  <2> QED  BY <1>5, <1>6, <1>8, <2>1
<1> QED  BY <1>7, <1>8

(* A draft of the history is short enough, resumes it, and is unambiguous. *)
LEMMA NgramPromises ==
    ASSUME NEW T, NEW h \in Seq(T), NEW cap \in Nat, NEW minMatch \in 1..MaxMatch,
           NEW overlap, NEW periodic, NEW d, d = NgramDraftOf(h, cap, minMatch, overlap, periodic)
    PROVE  /\ d \in Seq(T) /\ Len(d) <= cap
           /\ d # <<>> => Resumes(h, d, minMatch) /\ Unambiguous(h, d, minMatch)
<1> DEFINE useful == Useful(h, cap, minMatch, overlap, periodic)
           n == Max(useful)
           m == Drafted(h, n, cap, overlap, periodic)
<1>1. CASE useful = {}
  <2>1. d = <<>>
    BY <1>1 DEF NgramDraftOf
  <2>2. <<>> \in Seq(T) /\ Len(<<>>) = 0
    OBVIOUS
  <2> QED  BY <2>1, <2>2
<1>2. CASE useful # {}
  <2>1. d = [i \in 1..m |-> Candidate(h, n, i - 1)]
    BY <1>2 DEF NgramDraftOf
  <2>2. useful \in SUBSET Nat /\ \A x \in useful : x <= MaxMatch
    BY DEF Useful, MaxMatch
  <2>3. n \in useful
    <3> HIDE DEF useful
    <3> QED  BY <1>2, <2>2, GreatestExists DEF MaxMatch
  <2> HIDE DEF n
  <2>4. n \in minMatch..MaxMatch /\ n \in 1..MaxMatch /\ Occurrences(h, n) # {}
    BY <2>3 DEF Useful, MaxMatch
  <2> HIDE DEF useful
  <2>5. m \in 0..cap /\ m \in Nat
    BY DraftedIs
  <2> DEFINE gap == Len(h) - (Newest(h, n) + n)
  <2>6. /\ d \in Seq(T) /\ Len(d) = m /\ gap \in 1..(Len(h) - n)
        /\ Repeats(h \o d, Len(h) - n, gap, (Len(h) + Len(d)) - 1)
    <3>1. /\ n \in 1..MaxMatch /\ Occurrences(h, n) # {} /\ m \in Nat
          /\ d = [i \in 1..m |-> Candidate(h, n, i - 1)]
      BY <2>1, <2>4, <2>5
    <3> HIDE DEF m
    <3>2. /\ d \in Seq(T) /\ Len(d) = m
          /\ Len(h) - (Newest(h, n) + n) \in 1..(Len(h) - n)
          /\ Repeats(h \o d, Len(h) - n, Len(h) - (Newest(h, n) + n), (Len(h) + Len(d)) - 1)
      BY <3>1, DraftResumes
    <3> QED  BY <3>2
  <2>7. Resumes(h, d, minMatch)
    <3> HIDE DEF gap
    <3>1. Repeats(h \o d, Len(h) - n, gap, Len(h) + Len(d) - 1)
      BY <2>6 DEF Repeats
    <3> QED  BY <2>4, <2>6, <3>1 DEF Resumes
  <2>8. Unambiguous(h, d, minMatch)
    <3> DEFINE k == Min({m, Available(h, n)}) - 1
    <3>1. \A i \in 0..k :
             \A s \in {Newest(h, n)} \cup (IF Older(h, n) = {} THEN {} ELSE {Max(Older(h, n))}) :
                At(h, s + n + i) = At(d, i)
      BY <2>1, <2>4, DraftAgrees
    <3>2. k = Min({Len(d), Available(h, n)}) - 1
      BY <2>6
    <3> HIDE DEF k, m
    <3> QED  BY <2>4, <3>1, <3>2, Zenon DEF Unambiguous
  <2> QED  BY <2>5, <2>6, <2>7, <2>8
<1> QED  BY <1>1, <1>2

(* What ngram_draft proposes in the loop is a draft the round may make, and  *)
(* the conversation has seen it before: it repeats what stands a fixed       *)
(* distance behind, and the two latest occurrences of the suffix agree on it *)
(* (NgramIsContinuation).                                                    *)
THEOREM SpecNgramContinues == ASSUME AnswersAreTokens PROVE SafetySpec => []NgramIsContinuation
<1>1. IInv => NgramIsContinuation
  <2> SUFFICES ASSUME IInv, InLoop, setup.drafter = "ngram", MayDraft(1)
               PROVE  NgramIsContinuation
    BY DEF NgramIsContinuation
  <2> SUFFICES ASSUME NEW cap \in {Cap, MaxAlone + 2}, NEW minMatch \in {1, 3},
                      NEW overlap \in BOOLEAN, NEW periodic \in BOOLEAN
               PROVE  Promised(NgramDraftOf(history, cap, minMatch, overlap, periodic),
                               cap, minMatch)
    BY Zenon DEF NgramIsContinuation
  <2> DEFINE d == NgramDraftOf(history, cap, minMatch, overlap, periodic)
  <2>1. /\ history \in Seq(Token) /\ text \in Seq(Token)
        /\ gen \in Nat /\ limit \in Nat /\ Len(text) \in Nat
    BY LenProperties DEF IInv, Typed
  <2>2. Cap \in Int
    <3>1. /\ limit - gen - 1 \in Int /\ Context - Len(text) - 1 \in Int
          /\ Block \in Int
      BY <2>1, DecodeAssumption
    <3> QED  BY <3>1, MinOfThree DEF Cap, committed
  <2>3. /\ cooldown = 0 /\ limit - gen >= 2 /\ committed < Context - 1 /\ 1 <= Cap
    BY DEF MayDraft
  <2>4. cap \in Nat
    BY <2>2, <2>3 DEF MaxAlone
  <2>5. minMatch \in 1..MaxMatch
    BY DEF MaxMatch
  <2>6. /\ d \in Seq(Token) /\ Len(d) <= cap
        /\ d # <<>> => Resumes(history, d, minMatch) /\ Unambiguous(history, d, minMatch)
    BY <2>1, <2>4, <2>5, NgramPromises
  <2> HIDE DEF d
  <2>7. cap = Cap => MayDraft(Len(d))
    BY <2>3, <2>6 DEF MayDraft
  <2> QED  BY <2>6, <2>7 DEF d, Promised
<1> QED  BY <1>1, SpecInvariant, PTL

-------------------------------------------------------------------------------
(* What the DSpark drafter keeps of the target. *)

OnSlot(p, s) == p % Window = s
PositionsOf(n, s) == {p \in 0..(n - 1) : OnSlot(p, s)}
RowOf(t, s) == LET ps == PositionsOf(Len(t), s)
               IN  IF ps = {} THEN NoRow ELSE <<Max(ps), t[Max(ps) + 1]>>
RowsOf(t) == [s \in Slot |-> RowOf(t, s)]

(* The rows of a text are rows. *)
LEMMA RowsTyped ==
    ASSUME NEW t \in Seq(Token)
    PROVE  RowsOf(t) \in [Slot -> RowType]
<1> SUFFICES ASSUME NEW s \in Slot  PROVE RowOf(t, s) \in RowType
  BY DEF RowsOf
<1> DEFINE ps == PositionsOf(Len(t), s)
<1>1. CASE ps = {}
  BY <1>1 DEF RowOf, RowType
<1>2. CASE ps # {}
  <2>1. Len(t) \in Nat /\ ps \in SUBSET 0..(Len(t) - 1)
    BY LenProperties DEF PositionsOf
  <2>2. ps \in SUBSET Nat /\ \A x \in ps : x <= Len(t)
    BY <2>1
  <2> HIDE DEF ps
  <2>3. Max(ps) \in ps
    BY <1>2, <2>1, <2>2, GreatestExists
  <2>4. Max(ps) \in Nat /\ Max(ps) + 1 \in 1..Len(t)
    <3>1. Max(ps) \in 0..(Len(t) - 1)
      BY <2>1, <2>3
    <3> QED  BY <2>1, <3>1
  <2>5. t[Max(ps) + 1] \in Token
    BY <2>4, ElementOfSeq
  <2> QED  BY <1>2, <2>4, <2>5 DEF RowOf, RowType, ps
<1> QED  BY <1>1, <1>2

LEMMA NoRowsYet == RowsOf(<<>>) = NoTarget
<1>1. \A s \in Slot : PositionsOf(Len(<<>>), s) = {}
  BY DEF PositionsOf
<1> QED  BY <1>1 DEF RowsOf, RowOf, NoTarget

(* Rows of the text stay, those of what is committed behind it replace the  *)
(* older ones in their slots, the last of each slot counts.                 *)
LEMMA RowsGrow ==
    ASSUME NEW ts \in Seq(Token), text \in Seq(Token), target = RowsOf(text)
    PROVE  TargetWith(ts, committed) = RowsOf(text \o ts)
<1> DEFINE c == committed
           n == Len(ts)
           u == text \o ts
<1>1. c \in Nat /\ n \in Nat /\ c = Len(text)
  BY LenProperties DEF committed
<1>2. /\ u \in Seq(Token) /\ Len(u) = c + n
      /\ \A i \in 1..(c + n) : u[i] = IF i <= c THEN text[i] ELSE ts[i - c]
  BY <1>1, ConcatProperties
<1> DEFINE steps(s) == {i \in 1..n : (c + i - 1) % Window = s}
<1>3. TargetWith(ts, c) = [s \in Slot |->
          IF steps(s) = {} THEN RowOf(text, s)
          ELSE <<c + Max(steps(s)) - 1, ts[Max(steps(s))]>>]
  BY DEF TargetWith, RowsOf
<1>4. \A s : steps(s) = {i \in 1..n : OnSlot(c + i - 1, s)}
  BY DEF OnSlot
<1> HIDE DEF steps, c, n, u
<1>5. ASSUME NEW s \in Slot
      PROVE  RowOf(u, s) = IF steps(s) = {} THEN RowOf(text, s)
                           ELSE <<c + Max(steps(s)) - 1, ts[Max(steps(s))]>>
  <2> DEFINE ps == PositionsOf(c, s)
             qs == PositionsOf(c + n, s)
             st == steps(s)
  <2>1. st = {i \in 1..n : OnSlot(c + i - 1, s)}
    BY <1>4
  <2>2. /\ ps = {p \in 0..(c - 1) : OnSlot(p, s)}
        /\ qs = {p \in 0..((c + n) - 1) : OnSlot(p, s)}
    BY Zenon DEF PositionsOf
  <2>3. RowOf(text, s) = IF ps = {} THEN NoRow ELSE <<Max(ps), text[Max(ps) + 1]>>
    BY <1>1 DEF RowOf
  <2>4. RowOf(u, s) = IF qs = {} THEN NoRow ELSE <<Max(qs), u[Max(qs) + 1]>>
    BY <1>2 DEF RowOf
  <2> HIDE DEF ps, qs, st
  <2>5. CASE st = {}
    <3>1. \A p \in qs : p \in ps
      <4> SUFFICES ASSUME NEW p \in qs, p \notin ps  PROVE FALSE
        OBVIOUS
      <4>1. p \in 0..(c + n - 1) /\ OnSlot(p, s) /\ p >= c
        BY <1>1, <2>2
      <4>2. p - c + 1 \in 1..n /\ c + (p - c + 1) - 1 = p
        BY <1>1, <4>1
      <4>3. p - c + 1 \in st
        BY <2>1, <4>1, <4>2
      <4> QED  BY <2>5, <4>3
    <3>2. \A p \in ps : p \in qs
      BY <1>1, <2>2
    <3>3. qs = ps
      BY <3>1, <3>2
    <3>4. CASE ps = {}
      BY <2>3, <2>4, <2>5, <3>3, <3>4 DEF st
    <3>5. CASE ps # {}
      <4>1. ps \in SUBSET Nat /\ \A x \in ps : x <= c
        BY <1>1, <2>2
      <4>2. Max(ps) \in ps
        BY <1>1, <3>5, <4>1, GreatestExists
      <4>3. Max(ps) \in 0..(c - 1)
        BY <2>2, <4>2
      <4>4. Max(ps) + 1 \in 1..(c + n) /\ Max(ps) + 1 <= c
        BY <1>1, <4>3
      <4>5. u[Max(ps) + 1] = text[Max(ps) + 1]
        BY <1>2, <4>4
      <4> QED  BY <2>3, <2>4, <2>5, <3>3, <3>5, <4>5 DEF st
    <3> QED  BY <3>4, <3>5
  <2>6. CASE st # {}
    <3> DEFINE m == Max(st)
    <3>1. st \in SUBSET Nat /\ \A x \in st : x <= n
      BY <1>1, <2>1
    <3>2. m \in st /\ \A x \in st : x <= m
      BY <1>1, <2>6, <3>1, GreatestExists
    <3> HIDE DEF m
    <3>3. m \in 1..n /\ OnSlot(c + m - 1, s)
      BY <2>1, <3>2
    <3>4. c + m - 1 \in 0..((c + n) - 1)
      BY <1>1, <3>3
    <3>5. c + m - 1 \in qs
      BY <2>2, <3>3, <3>4
    <3>6. \A p \in qs : p <= c + m - 1
      <4> SUFFICES ASSUME NEW p \in qs, p > c + m - 1  PROVE FALSE
        BY <1>1, <2>2, <3>3
      <4>1. p \in 0..(c + n - 1) /\ OnSlot(p, s) /\ p >= c
        BY <1>1, <2>2, <3>3
      <4>2. p - c + 1 \in 1..n /\ c + (p - c + 1) - 1 = p /\ p - c + 1 > m
        BY <1>1, <3>3, <4>1
      <4>3. p - c + 1 \in st
        BY <2>1, <4>1, <4>2
      <4> QED  BY <3>2, <3>3, <4>2, <4>3
    <3>7. Max(qs) = c + m - 1
      <4>1. qs \in SUBSET Nat
        BY <1>1, <2>2
      <4> QED  BY <3>5, <3>6, <4>1, GreatestIs
    <3>8. u[c + m] = ts[m]
      <4>1. c + m \in 1..(c + n) /\ ~(c + m <= c) /\ (c + m) - c = m
        BY <1>1, <3>3
      <4>2. u[c + m] = IF c + m <= c THEN text[c + m] ELSE ts[(c + m) - c]
        BY <1>2, <4>1, Zenon
      <4> QED  BY <4>1, <4>2, Zenon
    <3>9. qs # {} /\ c + m - 1 + 1 = c + m
      BY <1>1, <3>3, <3>5
    <3> QED  BY <2>4, <2>6, <3>7, <3>8, <3>9 DEF st, m
  <2> QED  BY <2>5, <2>6
<1> QED  BY <1>3, <1>5 DEF RowsOf, u, c

(* What is kept beside the conversation: its types, and the drafter's rows. *)
KeptInv ==
    /\ pending \in Token \cup {NoToken}
    /\ cooldown \in Nat
    /\ expanded \in BOOLEAN /\ layout \in {"ordinary", "wide"} /\ stop \in BOOLEAN
    /\ target = IF setup.drafter = "dspark" THEN RowsOf(text) ELSE NoTarget

(* Committing tokens behind the text. *)
LEMMA CommitKeepsRows ==
    ASSUME KeptInv, text \in Seq(Token), NEW ts \in Seq(Token), TargetCommitted(ts),
           text' = text \o ts, setup' = setup
    PROVE  target' = IF setup.drafter = "dspark" THEN RowsOf(text)' ELSE NoTarget
<1>1. CASE setup.drafter = "dspark"
  <2>1. target = RowsOf(text) /\ target' = TargetWith(ts, committed)
    BY <1>1 DEF KeptInv, TargetCommitted
  <2>2. target' = RowsOf(text \o ts)
    BY <2>1, RowsGrow
  <2>3. RowsOf(text)' = RowsOf(text \o ts)
    BY DEF RowsOf, RowOf
  <2> QED  BY <1>1, <2>2, <2>3
<1>2. CASE setup.drafter # "dspark"
  BY <1>2 DEF KeptInv, TargetCommitted
<1> QED  BY <1>1, <1>2

(* A step that leaves the text alone leaves the rows alone. *)
LEMMA RowsStay ==
    ASSUME KeptInv, UNCHANGED <<setup, text, target>>
    PROVE  target' = IF setup.drafter = "dspark" THEN RowsOf(text)' ELSE NoTarget
<1>1. RowsOf(text)' = RowsOf(text)
  BY DEF RowsOf, RowOf
<1> QED  BY <1>1 DEF KeptInv

(* How many of the tokens fed a round commits. *)
LEMMA RoundKeepsRows ==
    ASSUME IInv, KeptInv, NEW k \in Nat, NEW tokens, NEW drawn, EndRound(k, tokens, drawn)
    PROVE  KeptInv'
<1>1. /\ k <= Len(tail) /\ text' = text \o SubSeq(tail, 1, k)
      /\ TargetCommitted(SubSeq(tail, 1, k))
      /\ cooldown' = IF CoolsDown THEN RejectCooldown ELSE cooldown
      /\ UNCHANGED <<setup, pending, expanded, layout, stop>>
  BY DEF EndRound, CommitPrefix
<1>2. text \in Seq(Token) /\ tail \in Seq(Token)
  BY DEF IInv, Typed
<1>3. k \in 0..Len(tail)
  BY <1>1, <1>2, LenProperties
<1>4. SubSeq(tail, 1, k) \in Seq(Token)
  BY <1>2, <1>3, SubSeqOf
<1>5. target' = IF setup.drafter = "dspark" THEN RowsOf(text)' ELSE NoTarget
  BY <1>1, <1>2, <1>4, CommitKeepsRows
<1>6. cooldown' \in Nat
  BY <1>1, DecodeAssumption DEF KeptInv
<1> QED  BY <1>1, <1>5, <1>6 DEF KeptInv

LEMMA KeptStep ==
    ASSUME AnswersAreTokens, IInv, KeptInv, [Next]_vars
    PROVE  KeptInv'
<1>1. /\ setup \in Setup /\ text \in Seq(Token) /\ accepted \in Nat /\ rng \in Nat
      /\ Answer(setup, text, rng) \in Token
  BY DEF IInv, Typed, AnswersAreTokens
<1>2. ASSUME NEW line \in Turn, NextTurn(line)  PROVE KeptInv'
  <2> DEFINE turn == Carried \o line
  <2>1. /\ pc = "listening" /\ text' = text \o turn /\ TargetCommitted(turn)
        /\ pending' = NoToken /\ cooldown' = 0 /\ expanded' = FALSE /\ stop' = FALSE
        /\ UNCHANGED <<setup, layout>>
    BY <1>2 DEF NextTurn
  <2>2. turn \in Seq(Token)
    BY <2>1, TurnFacts DEF IInv
  <2> HIDE DEF turn
  <2>3. target' = IF setup.drafter = "dspark" THEN RowsOf(text)' ELSE NoTarget
    BY <1>1, <2>1, <2>2, CommitKeepsRows
  <2> QED  BY <2>1, <2>3 DEF KeptInv
<1>3. CASE FirstToken
  <2>1. /\ pending' = Answer(setup, text, rng)
        /\ UNCHANGED <<setup, text, target, cooldown, expanded, layout, stop>>
    BY <1>3 DEF FirstToken, Deliver
  <2> QED  BY <1>1, <2>1, RowsStay DEF KeptInv
<1>4. CASE \E n \in 1..Block : \E draft \in [1..n -> Token] : Propose(draft)
  <2>1. /\ expanded' = (expanded \/ setup.resizable)
        /\ layout' = IF setup.resizable THEN "wide" ELSE layout
        /\ UNCHANGED <<setup, text, target, pending, cooldown, stop>>
    BY <1>4 DEF Propose
  <2>2. expanded' \in BOOLEAN /\ layout' \in {"ordinary", "wide"}
    BY <2>1 DEF KeptInv
  <2> QED  BY <2>1, <2>2, RowsStay DEF KeptInv
<1>5. CASE CommitEos
  <2>1. EndRound(EosAt, SubSeq(tail, 2, EosAt + 1), 0) /\ SawEos
    BY <1>5 DEF CommitEos
  <2>2. EosAt \in Nat
    <3> DEFINE S == {i \in 1..accepted : Draft(i) = Eos}
    <3>1. S \in SUBSET Nat /\ S # {}
      BY <1>1, <2>1 DEF SawEos
    <3> HIDE DEF S
    <3>2. Min(S) \in Nat
      BY <3>1, LeastIs
    <3> QED  BY <3>2 DEF EosAt, S
  <2> QED  BY <2>1, <2>2, RoundKeepsRows
<1>6. CASE CommitCorrection \/ CommitBonus
  <2>1. \E tokens : EndRound(accepted + 1, tokens, Draw)
    BY <1>6 DEF CommitCorrection, CommitBonus
  <2>2. accepted + 1 \in Nat
    BY <1>1
  <2> QED  BY <2>1, <2>2, RoundKeepsRows
<1>7. CASE Emit
  <2>1. /\ pending' = Head(todo)
        /\ UNCHANGED <<setup, text, target, cooldown, expanded, layout, stop>>
    BY <1>7 DEF Emit, Deliver
  <2>2. Head(todo) \in Token
    BY <1>7, EmitFacts
  <2> QED  BY <2>1, <2>2, RowsStay DEF KeptInv
<1>8. CASE Scalar
  <2>1. /\ InLoop /\ text' = Append(text, pending) /\ TargetCommitted(<<pending>>)
        /\ pending' = Answer(setup, text', rng) /\ cooldown' = Cooled
        /\ UNCHANGED <<setup, expanded, layout, stop>>
    BY <1>8 DEF Scalar, Deliver
  <2>2. pending \in Token
    BY <2>1 DEF InLoop, IInv, Typed
  <2>3. text' = text \o <<pending>> /\ <<pending>> \in Seq(Token) /\ text' \in Seq(Token)
    BY <1>1, <2>1, <2>2, AppendIsConcat, AppendProperties
  <2>4. target' = IF setup.drafter = "dspark" THEN RowsOf(text)' ELSE NoTarget
    BY <1>1, <2>1, <2>3, CommitKeepsRows
  <2>5. pending' \in Token
    BY <1>1, <2>1, <2>3 DEF AnswersAreTokens
  <2>6. cooldown' \in Nat
    BY <2>1 DEF Cooled, KeptInv
  <2> QED  BY <2>1, <2>4, <2>5, <2>6 DEF KeptInv
<1>9. CASE EndTurn
  <2>1. layout' \in {"ordinary", "wide"}
    BY <1>9 DEF EndTurn, LayoutAfterTurn, KeptInv
  <2> QED  BY <1>9, <2>1, RowsStay DEF EndTurn, KeptInv
<1>10. CASE Reset
  <2>1. /\ text' = <<>> /\ target' = NoTarget /\ pending' = NoToken
        /\ UNCHANGED <<setup, cooldown, expanded, layout, stop>>
    BY <1>10 DEF Reset, turnVars
  <2>2. RowsOf(text)' = NoTarget
    BY <2>1, NoRowsYet DEF RowsOf, RowOf
  <2> QED  BY <2>1, <2>2 DEF KeptInv
<1>11. CASE AcceptDraft \/ Interrupt \/ Quit \/ UNCHANGED vars
  <2>1. /\ UNCHANGED <<setup, text, target, pending, cooldown, expanded, layout>>
        /\ stop' \in {stop, TRUE}
    BY <1>11 DEF AcceptDraft, Interrupt, Quit, vars, turnVars
  <2> QED  BY <2>1, RowsStay DEF KeptInv
<1> QED
  BY <1>2, <1>3, <1>4, <1>5, <1>6, <1>7, <1>8, <1>9, <1>10, <1>11 DEF Next, Decode

(* The DSpark drafter keeps the rows of the committed text alone, whatever  *)
(* was drafted, refused, reset or interrupted, and every variable its type  *)
(* (TargetIsOfText).                                                        *)
THEOREM SpecTargetIsOfText == ASSUME AnswersAreTokens PROVE SafetySpec => []TargetIsOfText
<1>1. Init => IInv /\ KeptInv
  <2>1. ASSUME Init  PROVE KeptInv
    <3>1. text = <<>> /\ target = NoTarget
      BY <2>1 DEF Init
    <3>2. RowsOf(text) = NoTarget
      BY <3>1, NoRowsYet, Zenon
    <3> QED  BY <2>1, <3>1, <3>2 DEF Init, KeptInv
  <2> QED  BY <2>1, InitIInv
<1>2. IInv /\ KeptInv /\ [Next]_vars => IInv' /\ KeptInv'
  BY NextKeeps, KeptStep
<1>3. IInv /\ KeptInv => TargetIsOfText
  <2> SUFFICES ASSUME IInv, KeptInv  PROVE TargetIsOfText
    OBVIOUS
  <2>1. NoTarget \in [Slot -> RowType]
    BY DEF NoTarget, RowType
  <2>2. target \in [Slot -> RowType]
    BY <2>1, RowsTyped DEF KeptInv, IInv, Typed
  <2>3. TypeOK
    BY <2>2 DEF TypeOK, KeptInv, IInv, Typed
  <2>4. ASSUME setup.drafter = "dspark", NEW s \in Slot
        PROVE  LET ps == {p \in 0..(committed - 1) : p % Window = s}
               IN  target[s] = IF ps = {} THEN NoRow ELSE <<Max(ps), text[Max(ps) + 1]>>
    <3>1. target[s] = RowOf(text, s)
      BY <2>4 DEF KeptInv, RowsOf
    <3> QED  BY <3>1 DEF RowOf, PositionsOf, OnSlot, committed
  <2> QED  BY <2>3, <2>4 DEF TargetIsOfText
<1> QED  BY <1>1, <1>2, <1>3, PTL DEF SafetySpec

-------------------------------------------------------------------------------
(* The conversation is that of plain decoding: every step maps to a step of *)
(* PlainDecode or to a stutter.                                             *)

LEMMA InitIsPlain == Init => Plain!Init
BY DEF Init, Plain!Init, PlainMode

LEMMA PairOf ==
    ASSUME NEW S, NEW a \in S, NEW b \in S
    PROVE  <<a>> \o <<b>> = <<a, b>>
<1> DEFINE u == <<a>> \o <<b>>
<1>1. <<a>> \in Seq(S) /\ <<b>> \in Seq(S) /\ <<a, b>> \in Seq(S)
  OBVIOUS
<1>2. /\ u \in Seq(S) /\ Len(u) = 2
      /\ u[1] = a /\ u[2] = b
  BY <1>1, ConcatProperties
<1> HIDE DEF u
<1>3. \A i \in 1..Len(u) : u[i] = <<a, b>>[i]
  BY <1>2
<1>4. u = <<a, b>>
  BY <1>1, <1>2, <1>3, SeqEqual
<1> QED  BY <1>4 DEF u

LEMMA NextTurnAsks ==
    ASSUME IInv, IInv', NEW line \in Turn, NextTurn(line)
    PROVE  Plain!Ask(line)
<1>1. /\ pc = "listening" /\ pc' = "first"
      /\ committed + Len(Carried \o line) < Context
      /\ history' = SubSeq(history, 1, committed) \o (Carried \o line)
      /\ gen' = 0 /\ limit' = Min({Context - (committed + Len(Carried \o line)), MaxTokens})
      /\ stop' = FALSE /\ UNCHANGED <<setup, spoken>>
  BY DEF NextTurn
<1>2. /\ Carried \in Seq(Token) /\ line \in Seq(Token)
      /\ Carried \o line \in Seq(Token)
      /\ SubSeq(history, 1, committed) = text
  BY <1>1, TurnFacts DEF IInv
<1>3. text \in Seq(Token) /\ Eos \in Token /\ limit' \in Nat
  BY DecodeAssumption DEF IInv, Typed
<1>4. text \o Carried = Plain!Closed(history)
  <2>1. CASE text = <<>>
    <3>1. history = <<>> /\ Carried = <<>>
      BY <2>1, <1>1 DEF IInv, InStep, Carried
    <3> QED  BY <3>1, <2>1, <1>3, ConcatEmptySeq DEF Plain!Closed
  <2>2. CASE text # <<>>
    <3>1. history = Append(text, pending) /\ pending \in Token
      BY <2>2, <1>1 DEF IInv, InStep, Typed
    <3>2. history \in Seq(Token) /\ history # <<>> /\ history[Len(history)] = pending
      BY <3>1, <1>3, AppendProperties
    <3>3. CASE pending = Eos
      <4>1. Carried = <<pending>>
        BY <2>2, <3>3 DEF Carried
      <4>2. Plain!Closed(history) = history
        BY <3>2, <3>3 DEF Plain!Closed
      <4> QED  BY <4>1, <4>2, <3>1, <1>3, AppendIsConcat
    <3>4. CASE pending # Eos
      <4>1. Carried = <<pending, Eos>>
        BY <2>2, <3>4 DEF Carried
      <4>2. Plain!Closed(history) = Append(history, Eos)
        BY <3>2, <3>4 DEF Plain!Closed
      <4>3. Append(history, Eos) = (text \o <<pending>>) \o <<Eos>>
        BY <3>1, <3>2, <1>3, AppendIsConcat
      <4>4. (text \o <<pending>>) \o <<Eos>> = text \o (<<pending>> \o <<Eos>>)
        BY <3>1, <1>3, ConcatAssociative
      <4>5. <<pending>> \o <<Eos>> = <<pending, Eos>>
        BY <3>1, <1>3, PairOf
      <4> QED  BY <4>1, <4>2, <4>3, <4>4, <4>5
    <3> QED  BY <3>3, <3>4
  <2> QED  BY <2>1, <2>2
<1>5. history' = Plain!Closed(history) \o line
  <2>1. history' = text \o (Carried \o line)
    BY <1>1, <1>2
  <2>2. text \o (Carried \o line) = (text \o Carried) \o line
    BY <1>2, <1>3, ConcatAssociative
  <2> QED  BY <2>1, <2>2, <1>4
<1>6. Len(history') = committed + Len(Carried \o line)
  BY <1>1, <1>2, <1>3, ConcatProperties DEF committed
<1>7. limit' - gen' = Plain!Min({Context - Len(history'), MaxTokens})
  <2>1. limit' = Min({Context - Len(history'), MaxTokens})
    BY <1>1, <1>6
  <2>2. limit' - gen' = limit'
    BY <1>1, <1>3
  <2> QED  BY <2>1, <2>2 DEF Min, Plain!Min
<1>8. PlainMode = "listening" /\ PlainMode' = "asked"
  BY <1>1 DEF PlainMode
<1> QED  BY <1>1, <1>5, <1>6, <1>7, <1>8 DEF Plain!Ask

(* A token delivered is a token said. *)
LEMMA DeliverSays ==
    ASSUME IInv, NEW t \in Token, Deliver(t), t = Answer(setup, history, spoken),
           gen < limit, limit' = limit, setup' = setup, stop' = stop,
           PlainMode = "asked" \/ (PlainMode = "answering" /\ history[Len(history)] # Eos),
           PlainMode' = "answering"
    PROVE  Plain!Say
<1>1. gen \in Nat /\ limit \in Nat
  BY DEF IInv, Typed
<1>2. history' = Append(history, t) /\ gen' = gen + 1 /\ spoken' = spoken + Draw
  BY DEF Deliver
<1>3. limit' - gen' = limit - gen - 1 /\ limit - gen # 0
  BY <1>1, <1>2
<1> QED  BY <1>2, <1>3 DEF Plain!Say, Plain!Over, Draw

LEMMA FirstTokenSays ==
    ASSUME AnswersAreTokens, IInv, FirstToken
    PROVE  Plain!Say
<1> DEFINE t == Answer(setup, text, rng)
<1>1. /\ pc = "first" /\ pc' = "loop" /\ limit > 0 /\ Deliver(t)
      /\ setup' = setup /\ limit' = limit /\ stop' = stop
  BY DEF FirstToken
<1>2. /\ t \in Token /\ history = text /\ rng = spoken /\ gen = 0 /\ limit \in Nat
  BY <1>1 DEF AnswersAreTokens, IInv, Typed, InStep, RoomInv
<1>3. t = Answer(setup, history, spoken) /\ gen < limit
  BY <1>1, <1>2
<1>4. PlainMode = "asked" /\ PlainMode' = "answering"
  BY <1>1 DEF PlainMode
<1> HIDE DEF t
<1> QED  BY <1>1, <1>2, <1>3, <1>4, DeliverSays

LEMMA ScalarSays ==
    ASSUME AnswersAreTokens, IInv, Scalar
    PROVE  Plain!Say
<1> DEFINE t == Answer(setup, text', rng)
<1>1. /\ pc = "loop" /\ pc' = "loop" /\ gen < limit /\ pending # Eos
      /\ text' = Append(text, pending) /\ Deliver(t)
      /\ setup' = setup /\ limit' = limit /\ stop' = stop
  BY DEF Scalar, InLoop, Running
<1>2. /\ history = Append(text, pending) /\ rng = spoken /\ pending \in Token
      /\ text \in Seq(Token) /\ history \in Seq(Token)
      /\ setup \in Setup /\ rng \in Nat
  BY <1>1 DEF IInv, Typed, InStep
<1>3. t = Answer(setup, history, spoken) /\ t \in Token
  BY <1>1, <1>2 DEF AnswersAreTokens
<1>4. history[Len(history)] # Eos
  BY <1>1, <1>2, AppendProperties
<1>5. PlainMode = "answering" /\ PlainMode' = "answering"
  BY <1>1 DEF PlainMode
<1> HIDE DEF t
<1> QED  BY <1>1, <1>3, <1>4, <1>5, DeliverSays

LEMMA EmitSays ==
    ASSUME IInv, Emit
    PROVE  Plain!Say
<1>1. /\ pc = "emitting" /\ pc' \in {"loop", "emitting"}
      /\ setup' = setup /\ limit' = limit /\ stop' = stop
  BY DEF Emit
<1>2. /\ todo[1] \in Token /\ gen < limit /\ Deliver(todo[1])
      /\ todo[1] = Answer(setup, history, spoken)
  BY EmitFacts
<1>3. history[Len(history)] # Eos
  BY <1>1 DEF IInv, EmittingInv
<1>4. PlainMode = "answering" /\ PlainMode' = "answering"
  BY <1>1 DEF PlainMode
<1> QED  BY <1>1, <1>2, <1>3, <1>4, DeliverSays

LEMMA EndTurnFinishes ==
    ASSUME IInv, EndTurn
    PROVE  Plain!Finish
<1>1. /\ pc = "loop" /\ pc' = "listening" /\ ~Running
      /\ UNCHANGED <<setup, history, gen, limit, spoken, stop>>
  BY DEF EndTurn
<1>2. PlainMode = "answering" /\ PlainMode' = "listening"
  BY <1>1 DEF PlainMode
<1>3. /\ history = Append(text, pending) /\ text \in Seq(Token) /\ pending \in Token
      /\ gen \in Nat /\ limit \in Nat /\ gen <= limit
  BY <1>1 DEF IInv, Typed, InStep, RoomInv
<1>4. history[Len(history)] = pending
  BY <1>3, AppendProperties
<1>5. limit - gen = 0 \/ pending = Eos \/ stop
  BY <1>1, <1>3 DEF Running
<1> QED  BY <1>1, <1>2, <1>4, <1>5 DEF Plain!Finish, Plain!Over

(* Drafting, comparing and committing are not seen. *)
LEMMA RoundStutters ==
    ASSUME pc \in {"loop", "judging", "emitting"}, pc' \in {"loop", "judging", "emitting"},
           UNCHANGED <<setup, history, gen, limit, spoken, stop>>
    PROVE  UNCHANGED Plain!vars
BY DEF Plain!vars, PlainMode

LEMMA NextIsPlain ==
    ASSUME AnswersAreTokens, IInv, IInv', [Next]_vars
    PROVE  [Plain!Next]_(Plain!vars)
<1>1. CASE \E line \in Turn : NextTurn(line)
  BY <1>1, NextTurnAsks DEF Plain!Next
<1>2. CASE FirstToken
  BY <1>2, FirstTokenSays DEF Plain!Next
<1>3. CASE \E n \in 1..Block : \E draft \in [1..n -> Token] : Propose(draft)
  BY <1>3, RoundStutters DEF Propose, InLoop
<1>4. CASE AcceptDraft
  BY <1>4, RoundStutters DEF AcceptDraft, turnVars
<1>5. CASE CommitEos \/ CommitCorrection \/ CommitBonus
  BY <1>5, RoundStutters DEF CommitEos, CommitCorrection, CommitBonus, EndRound
<1>6. CASE Emit
  BY <1>6, EmitSays DEF Plain!Next
<1>7. CASE Scalar
  BY <1>7, ScalarSays DEF Plain!Next
<1>8. CASE EndTurn
  BY <1>8, EndTurnFinishes DEF Plain!Next
<1>9. CASE Reset
  BY <1>9 DEF Reset, turnVars, PlainMode, Plain!Next, Plain!Forget
<1>10. CASE Interrupt
  BY <1>10 DEF Interrupt, turnVars, PlainMode, Plain!Next, Plain!Interrupt
<1>11. CASE Quit
  BY <1>11 DEF Quit, turnVars, PlainMode, Plain!Next, Plain!Quit
<1>12. CASE UNCHANGED vars
  BY <1>12 DEF vars, turnVars, PlainMode, Plain!vars
<1> QED
  BY <1>1, <1>2, <1>3, <1>4, <1>5, <1>6, <1>7, <1>8, <1>9, <1>10, <1>11, <1>12
  DEF Next, Decode

(* Whatever is drafted, verified and committed, the program says what plain *)
(* decoding says, token for token and draw for draw (ImplementsPlainSafety).*)
THEOREM SpecImplementsPlain ==
    ASSUME AnswersAreTokens PROVE SafetySpec => ImplementsPlainSafety
<1>1. Init => Plain!Init
  BY InitIsPlain
<1>2. IInv /\ IInv' /\ [Next]_vars => [Plain!Next]_(Plain!vars)
  BY NextIsPlain
<1> QED
  BY <1>1, <1>2, SpecInvariant, PTL DEF SafetySpec, ImplementsPlainSafety, Plain!SafetySpec

===============================================================================
