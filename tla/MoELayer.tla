------------------------------- MODULE MoELayer -------------------------------
(***************************************************************************)
(* What the mixture-of-experts evaluation of a layer promises, whatever    *)
(* the cache and the reads do: every expert the call needs is evaluated    *)
(* exactly once, with its own weights, and the call returns when all are.  *)
(* The only other way out is the end of the process over a short read.     *)
(***************************************************************************)
EXTENDS Naturals

CONSTANTS Layer, Expert,
          NotComputed

VARIABLES mode,         \* "idle", "busy" or "failed"
          layer, want,  \* the call: which experts of which layer
          answer        \* the weights each expert was evaluated with

vars == <<mode, layer, want, answer>>

Init ==
    /\ mode = "idle"
    /\ layer \in Layer
    /\ want = {}
    /\ answer = [e \in Expert |-> NotComputed]

Call ==
    /\ mode = "idle" /\ mode' = "busy"
    /\ layer' \in Layer
    /\ want' \in (SUBSET Expert) \ {{}}
    /\ UNCHANGED answer

Waiting == {e \in want : answer[e] = NotComputed}

Evaluate ==
    /\ mode = "busy"
    /\ \E S \in (SUBSET Waiting) \ {{}} :
          answer' = [e \in Expert |-> IF e \in S THEN <<layer, e>> ELSE answer[e]]
    /\ UNCHANGED <<mode, layer, want>>

Return ==
    /\ mode = "busy" /\ mode' = "idle"
    /\ Waiting = {}
    /\ want' = {}
    /\ answer' = [e \in Expert |-> NotComputed]
    /\ UNCHANGED layer

Fail ==
    /\ mode = "busy" /\ mode' = "failed"
    /\ UNCHANGED <<layer, want, answer>>

Next == Call \/ Evaluate \/ Return \/ Fail

SafetySpec == Init /\ [][Next]_vars
Spec == SafetySpec /\ WF_vars(Evaluate \/ Return)
===============================================================================
