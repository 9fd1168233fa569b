------------------------------ MODULE PlainDecode ------------------------------
(***************************************************************************)
(* What the program promises of a conversation, whatever is drafted and    *)
(* verified behind it: a turn is read, then it is answered one token at a  *)
(* time, each the answer of the weights to all that was said before it     *)
(* (and, when sampling, to one more draw of the generator), until the end  *)
(* of sequence, the limit of the response, or an interrupt.                *)
(***************************************************************************)
EXTENDS Integers, Sequences, FiniteSetsExt

CONSTANTS Token, Eos,      \* Eos ends an answer
          Turn,            \* the encoded lines a user may type
          Context,         \* positions of the model
          MaxTokens,       \* the limit of a response
          Setup,           \* the weights and options the program starts with
          Answer(_, _, _)  \* the token a setup answers to a text and a draw

VARIABLES setup,
          mode,            \* "listening", "asked", "answering" or "done"
          said,            \* the conversation
          room,            \* tokens the response may still have
          drawn,           \* draws of the generator so far
          interrupted

vars == <<setup, mode, said, room, drawn, interrupted>>

Init ==
    /\ setup \in Setup
    /\ mode = "listening" /\ said = <<>> /\ room = 0 /\ drawn = 0
    /\ interrupted = FALSE

(* An answer that was cut short is closed before the next turn. *)
Closed(s) == IF s = <<>> \/ s[Len(s)] = Eos THEN s ELSE Append(s, Eos)

Ask(ts) ==
    /\ mode = "listening" /\ mode' = "asked"
    /\ said' = Closed(said) \o ts
    /\ Len(said') < Context
    /\ room' = Min({Context - Len(said'), MaxTokens})
    /\ interrupted' = FALSE
    /\ UNCHANGED <<setup, drawn>>

Over == room = 0 \/ said[Len(said)] = Eos

Say ==
    /\ mode = "asked" \/ (mode = "answering" /\ ~Over)
    /\ mode' = "answering"
    /\ said' = Append(said, Answer(setup, said, drawn))
    /\ room' = room - 1
    /\ drawn' = drawn + (IF setup.sampling THEN 1 ELSE 0)
    /\ UNCHANGED <<setup, interrupted>>

(* An interrupt may find more of the answer already known. *)
Finish ==
    /\ mode = "answering" /\ mode' = "listening"
    /\ Over \/ interrupted
    /\ UNCHANGED <<setup, said, room, drawn, interrupted>>

Forget ==
    /\ mode = "listening"
    /\ said' = <<>>
    /\ UNCHANGED <<setup, mode, room, drawn, interrupted>>

Interrupt ==
    /\ interrupted' = TRUE
    /\ UNCHANGED <<setup, mode, said, room, drawn>>

Quit ==
    /\ mode = "listening" /\ mode' = "done"
    /\ UNCHANGED <<setup, said, room, drawn, interrupted>>

Next ==
    \/ \E ts \in Turn : Ask(ts)
    \/ Say \/ Finish \/ Forget \/ Interrupt \/ Quit

SafetySpec == Init /\ [][Next]_vars
Spec == SafetySpec /\ WF_vars(Say \/ Finish)
===============================================================================
