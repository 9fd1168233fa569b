------------------------------ MODULE SpecDecode -------------------------------
(***************************************************************************)
(* The turns of a conversation and its decoding loop, with the two kinds   *)
(* of speculation: a drafter proposes tokens, the pending token and the    *)
(* proposal are fed as one batch behind a snapshot of the context, the     *)
(* tokens the target answers to each row are compared with the proposal,   *)
(* and the context is committed up to the part that plain decoding would   *)
(* have fed.                                                               *)
(*                                                                         *)
(* The context is what ContextSnapshot promises: the text it was fed.      *)
(* `text' is the committed part, `tail' what a batch under verification    *)
(* has added.  A row of logits stands for the text it was computed after.  *)
(* Drafts are hints: a drafter may propose anything of a legal length, or  *)
(* nothing.                                                                *)
(***************************************************************************)
EXTENDS NgramDraft

CONSTANTS Token, Eos,
          NoToken,         \* pending is -1
          Turn,            \* the encoded lines a user may type
          Context,         \* positions of the model
          Window,          \* positions the DSpark drafter keeps
          MaxTokens,       \* --max-tokens, Context if not set
          Block,           \* ngram_block or spec_block: drafts of a round
          RejectCooldown,  \* ngram_reject_cooldown or spec_reject_cooldown
          Setup,           \* [drafter, sampling, resizable, weights]
          Answer(_, _, _), \* argmax_logits or sample_top_p of a setup and text
          MaxDrawn         \* bound: no turn begins after so many draws

ASSUME DecodeAssumption ==
    /\ Eos \in Token /\ NoToken \notin Token
    /\ Turn \subseteq Seq(Token) \ {<<>>}
    /\ Context \in Nat /\ Window \in Nat \ {0} /\ MaxTokens \in Nat \ {0}
    /\ Block \in Nat \ {0} /\ RejectCooldown \in Nat /\ MaxDrawn \in Nat

(* DSpark is only used at temperature 0. *)
ASSUME SetupAssumption ==
    \A s \in Setup :
        /\ s.drafter \in {"none", "ngram", "dspark"}
        /\ s.sampling \in BOOLEAN /\ s.resizable \in BOOLEAN
        /\ s.drafter = "dspark" => ~s.sampling

VARIABLES
    setup,     \* options and weights: fixed
    pc,        \* "listening", "first", "loop", "judging", "emitting", "done"
    text,      \* the tokens committed to the context; committed is its length
    tail,      \* the tokens fed behind an open snapshot
    target,    \* target_position and target_kv, by slot
    history,   \* history[0 .. history_len)
    pending,   \* delivered, not yet committed
    gen,       \* tokens of this response
    limit,     \* response_limit
    accepted,  \* drafts accepted so far in this round
    todo,      \* tokens the round delivers, in order
    cooldown,  \* ngram_cooldown or spec_cooldown
    expanded,  \* ngram_cache_expanded or spec_cache_expanded
    layout,    \* of the expert cache: "ordinary" or "wide"
    rng,       \* draws of the generator
    stop,      \* stop_generation
    spoken     \* history: the draws plain decoding would have made

roundVars == <<tail, accepted, todo>>
turnVars == <<gen, limit, cooldown, expanded, layout>>
vars == <<setup, pc, text, target, history, pending, rng, stop, spoken,
          roundVars, turnVars>>

committed == Len(text)
Draw == IF setup.sampling THEN 1 ELSE 0
Slot == 0..(Window - 1)
NoRow == <<>>
NoTarget == [s \in Slot |-> NoRow]

Init ==
    /\ setup \in Setup
    /\ pc = "listening"
    /\ text = <<>> /\ target = NoTarget
    /\ history = <<>> /\ pending = NoToken
    /\ gen = 0 /\ limit = 0 /\ cooldown = 0
    /\ expanded = FALSE /\ layout = "ordinary"
    /\ tail = <<>> /\ accepted = 0 /\ todo = <<>>
    /\ rng = 0 /\ spoken = 0 /\ stop = FALSE

-------------------------------------------------------------------------------
(* dsv4_dspark_commit_target_hidden for tokens fed at position `first'. *)
TargetWith(ts, first) ==
    [s \in Slot |->
        LET steps == {i \in 1..Len(ts) : (first + i - 1) % Window = s}
        IN  IF steps = {} THEN target[s]
            ELSE <<first + Max(steps) - 1, ts[Max(steps)]>>]

TargetCommitted(ts) ==
    target' = IF setup.drafter = "dspark" THEN TargetWith(ts, committed) ELSE target

(* The end of the response is the end of its tokens, so that the next turn  *)
(* feeds the pending token and closes the answer if it was cut short.       *)
Carried ==
    IF text = <<>> THEN <<>>
    ELSE IF pending = Eos THEN <<pending>> ELSE <<pending, Eos>>

NextTurn(line) ==
    LET turn == Carried \o line IN
    /\ pc = "listening" /\ pc' = "first"
    /\ committed + Len(turn) < Context
    /\ rng <= MaxDrawn
    /\ stop' = FALSE
    /\ text' = text \o turn
    /\ TargetCommitted(turn)
    /\ history' = SubSeq(history, 1, committed) \o turn
    /\ pending' = NoToken
    /\ gen' = 0 /\ limit' = Min({Context - (committed + Len(turn)), MaxTokens})
    /\ cooldown' = 0 /\ expanded' = FALSE
    /\ UNCHANGED <<setup, layout, rng, spoken, roundVars>>

Deliver(t) ==
    /\ history' = Append(history, t)
    /\ pending' = t
    /\ gen' = gen + 1
    /\ spoken' = spoken + Draw

(* The first token, from the logits of the prefill. *)
FirstToken ==
    /\ pc = "first" /\ pc' = "loop"
    /\ limit > 0
    /\ Deliver(Answer(setup, text, rng))
    /\ rng' = rng + Draw
    /\ UNCHANGED <<setup, text, target, limit, cooldown, expanded, layout, stop, roundVars>>

(* The head of the decoding loop, and its check of the history. *)
Running == gen < limit /\ pending # Eos /\ ~stop
InLoop == pc = "loop" /\ Running /\ Len(history) = committed + 1

(* Mutant: the token after the last draft is not counted. *)
CapOfAll == Min({limit - gen, Context - committed - 1, Block})

Cap == Min({limit - gen - 1, Context - committed - 1, Block})

MayDraft(n) ==
    \/ /\ setup.drafter = "ngram" /\ cooldown = 0
       /\ limit - gen >= 2 /\ committed < Context - 1
       /\ n <= Cap
    \/ /\ setup.drafter = "dspark" /\ cooldown = 0
       /\ limit - gen >= Block + 1 /\ committed + Block + 1 <= Context
       /\ n = Block

(* A proposal: the cache is laid out for a batch, the context saved, and   *)
(* the batch fed.                                                          *)
Propose(draft) ==
    /\ InLoop /\ pc' = "judging"
    /\ MayDraft(Len(draft))
    /\ committed + Len(draft) + 1 <= Context
    /\ expanded' = (expanded \/ setup.resizable)
    /\ layout' = IF setup.resizable THEN "wide" ELSE layout
    /\ tail' = <<pending>> \o draft
    /\ accepted' = 0
    /\ UNCHANGED <<setup, text, target, history, pending, gen, limit, todo, cooldown,
                   rng, stop, spoken>>

Drafts == Len(tail) - 1
Draft(i) == tail[i + 1]

(* Mutant: the token is taken from the row before. *)
VerdictBefore == Answer(setup, text \o SubSeq(tail, 1, accepted), rng)

(* The logits row of the i-th token fed, and the target's token for it. *)
Row(i) == text \o SubSeq(tail, 1, i + 1)
Verdict == Answer(setup, Row(accepted), rng)

SawEos == \E i \in 1..accepted : Draft(i) = Eos

(* Prompt lookup leaves the comparison at an accepted end of sequence,     *)
(* DSpark looks on.                                                        *)
Comparing == accepted < Drafts /\ ~(setup.drafter = "ngram" /\ SawEos)
Agrees == Draft(accepted + 1) = Verdict

AcceptDraft ==
    /\ pc = "judging" /\ Comparing /\ Agrees
    /\ accepted' = accepted + 1
    /\ rng' = rng + Draw
    /\ UNCHANGED <<setup, pc, text, target, history, pending, stop, spoken, tail, todo,
                   turnVars>>

(* Mutant: the drafter keeps what it saw of the refused tokens. *)
CommitPrefixAllSeen(k) ==
    /\ k <= Len(tail)
    /\ text' = text \o SubSeq(tail, 1, k)
    /\ TargetCommitted(tail)
    /\ tail' = <<>>

(* Mutant: the pending token is not counted. *)
CommitPrefixOfDrafts(k) ==
    /\ k <= Len(tail)
    /\ text' = text \o SubSeq(tail, 1, k - 1)
    /\ TargetCommitted(SubSeq(tail, 1, k))
    /\ tail' = <<>>

(* dspark_commit_verified_prefix, or dsv4_context_snapshot_commit_prefix:   *)
(* the first k tokens fed stay.  Restoring and feeding them again           *)
(* (DSV4_DSPARK_FORCE_REPLAY) leaves the same context.                      *)
CommitPrefix(k) ==
    /\ k <= Len(tail)
    /\ text' = text \o SubSeq(tail, 1, k)
    /\ TargetCommitted(SubSeq(tail, 1, k))
    /\ tail' = <<>>

CoolsDown ==
    IF setup.drafter = "ngram" THEN accepted = 0 ELSE accepted * 2 <= Drafts

EndRound(k, tokens, drawn) ==
    /\ pc = "judging" /\ pc' = "emitting"
    /\ CommitPrefix(k)
    /\ todo' = tokens
    /\ accepted' = 0
    /\ rng' = rng + drawn
    /\ cooldown' = IF CoolsDown THEN RejectCooldown ELSE cooldown
    /\ UNCHANGED <<setup, history, pending, gen, limit, expanded, layout, stop, spoken>>

(* An end of sequence among the accepted drafts stays pending, and all that *)
(* is behind it is dropped.                                                 *)
EosAt == Min({i \in 1..accepted : Draft(i) = Eos})

(* Mutant: the end of sequence is only looked for in a block accepted whole. *)
CommitEosOfBlock ==
    /\ SawEos /\ accepted = Drafts
    /\ EndRound(EosAt, SubSeq(tail, 2, EosAt + 1), 0)

CommitEos ==
    /\ SawEos /\ (Comparing => ~Agrees)
    /\ EndRound(EosAt, SubSeq(tail, 2, EosAt + 1), 0)

(* The first draft refused is replaced by the target's token. *)
CommitCorrection ==
    /\ ~SawEos /\ Comparing /\ ~Agrees
    /\ EndRound(accepted + 1, Append(SubSeq(tail, 2, accepted + 1), Verdict), Draw)

(* A block accepted whole gives one token more. *)
CommitBonus ==
    /\ ~SawEos /\ accepted = Drafts
    /\ EndRound(accepted + 1, Append(SubSeq(tail, 2, accepted + 1), Verdict), Draw)

Emit ==
    /\ pc = "emitting"
    /\ Deliver(Head(todo))
    /\ todo' = Tail(todo)
    /\ pc' = IF Tail(todo) = <<>> THEN "loop" ELSE "emitting"
    /\ UNCHANGED <<setup, text, target, limit, cooldown, expanded, layout, rng, stop,
                   tail, accepted>>

Cooled == IF cooldown > 0 THEN cooldown - 1 ELSE 0

(* The exact fallback: one token fed, one delivered. *)
Scalar ==
    /\ InLoop
    /\ committed + 1 <= Context
    /\ text' = Append(text, pending)
    /\ TargetCommitted(<<pending>>)
    /\ Deliver(Answer(setup, text', rng))
    /\ rng' = rng + Draw
    /\ cooldown' = Cooled
    /\ UNCHANGED <<setup, pc, limit, expanded, layout, stop, roundVars>>

(* Mutant: an interrupted response leaves the layout as it is. *)
LayoutAfterTurnUncut == IF expanded /\ ~stop THEN "ordinary" ELSE layout

LayoutAfterTurn == IF expanded THEN "ordinary" ELSE layout

EndTurn ==
    /\ pc = "loop" /\ ~Running
    /\ pc' = "listening"
    /\ layout' = LayoutAfterTurn
    /\ UNCHANGED <<setup, text, target, history, pending, gen, limit, cooldown, expanded,
                   rng, stop, spoken, roundVars>>

(* The line /reset. *)
Reset ==
    /\ pc = "listening"
    /\ text' = <<>> /\ target' = NoTarget
    /\ history' = <<>> /\ pending' = NoToken
    /\ UNCHANGED <<setup, pc, rng, stop, spoken, roundVars, turnVars>>

(* handle_sigint, at any moment and any number of times. *)
Interrupt ==
    /\ stop' = TRUE
    /\ UNCHANGED <<setup, pc, text, target, history, pending, rng, spoken, roundVars,
                   turnVars>>

Quit ==
    /\ pc = "listening" /\ pc' = "done"
    /\ UNCHANGED <<setup, text, target, history, pending, rng, stop, spoken, roundVars,
                   turnVars>>

Decode ==
    \/ FirstToken
    \/ \E n \in 1..Block : \E draft \in [1..n -> Token] : Propose(draft)
    \/ AcceptDraft
    \/ CommitEos \/ CommitCorrection \/ CommitBonus
    \/ Emit
    \/ Scalar
    \/ EndTurn

Next ==
    \/ \E line \in Turn : NextTurn(line)
    \/ Decode
    \/ Reset \/ Interrupt \/ Quit

SafetySpec == Init /\ [][Next]_vars

(* A single thread, whose calls return. *)
Spec == SafetySpec /\ WF_vars(Decode)

-------------------------------------------------------------------------------
RowType == {NoRow} \cup (Nat \X Token)

TypeOK ==
    /\ setup \in Setup
    /\ pc \in {"listening", "first", "loop", "judging", "emitting", "done"}
    /\ text \in Seq(Token) /\ tail \in Seq(Token)
    /\ history \in Seq(Token) /\ todo \in Seq(Token)
    /\ target \in [Slot -> RowType]
    /\ pending \in Token \cup {NoToken}
    /\ gen \in Nat /\ limit \in Nat /\ accepted \in Nat /\ cooldown \in Nat
    /\ expanded \in BOOLEAN /\ layout \in {"ordinary", "wide"}
    /\ rng \in Nat /\ spoken \in Nat /\ stop \in BOOLEAN

(* Between two rounds, and between two turns, exactly one token was         *)
(* delivered that is not committed: the history is the text and the pending *)
(* token, and the generator is where plain decoding would have left it.     *)
(* The loop compares the lengths only.                                      *)
InStep ==
    /\ pc = "loop" \/ (pc = "listening" /\ text # <<>>) => history = Append(text, pending)
    /\ pc = "first" \/ (pc = "listening" /\ text = <<>>) => history = text
    /\ pc \in {"listening", "first", "loop"} => rng = spoken

(* The arrays are never overrun: `generated' holds Context tokens,          *)
(* `history' Context + 1, and a round delivers no more than the response    *)
(* has room for.                                                            *)
WithinArrays ==
    /\ gen + Len(todo) <= limit /\ limit <= Context
    /\ Len(history) + Len(todo) <= Context + 1

(* Whatever the text and the switches, what ngram_draft proposes is a draft  *)
(* the round may make, and a continuation the history shows for the longest *)
(* suffix that has one, the two latest occurrences agreeing; a longer one   *)
(* than the rounds here have room for is asked for too.                     *)
Promised(d, cap, minMatch) ==
    /\ Len(d) <= cap
    /\ d # <<>> => /\ cap = Cap => MayDraft(Len(d))
                   /\ Resumes(history, d, minMatch)
                   /\ Unambiguous(history, d, minMatch)

NgramIsContinuation ==
    InLoop /\ setup.drafter = "ngram" /\ MayDraft(1) =>
        \A cap \in {Cap, MaxAlone + 2}, minMatch \in {1, 3}, overlap, periodic \in BOOLEAN :
            (periodic => overlap) =>
                Promised(NgramDraftOf(history, cap, minMatch, overlap, periodic), cap, minMatch)

(* Every turn begins with the cache laid out for single tokens. *)
LayoutRestored == pc \in {"listening", "first"} => layout = "ordinary"

(* The DSpark drafter has seen exactly the committed text: the last Window  *)
(* positions of it, none of a refused draft, none of another conversation;  *)
(* every other variable keeps to its type on the way.                       *)
TargetIsOfText ==
    /\ TypeOK
    /\ setup.drafter = "dspark" =>
          \A s \in Slot :
            LET ps == {p \in 0..(committed - 1) : p % Window = s}
            IN  target[s] = IF ps = {} THEN NoRow ELSE <<Max(ps), text[Max(ps) + 1]>>

(* Every response ends and the program listens again. *)
TurnsEnd == pc = "first" ~> pc \in {"listening", "done"}

PlainMode ==
    CASE pc = "first" -> "asked"
      [] pc \in {"loop", "judging", "emitting"} -> "answering"
      [] OTHER -> pc

Plain == INSTANCE PlainDecode WITH
    mode <- PlainMode,
    said <- history,
    room <- limit - gen,
    drawn <- spoken,
    interrupted <- stop

(* The conversation is that of plain decoding, token for token and draw for *)
(* draw, whatever was drafted: speculation changes when a token is known,   *)
(* never which.                                                             *)
ImplementsPlain == Plain!Spec
ImplementsPlainSafety == Plain!SafetySpec
===============================================================================
