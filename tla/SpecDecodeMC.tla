----------------------------- MODULE SpecDecodeMC ------------------------------
(***************************************************************************)
(* SpecDecode for TLC: the weights answer by the last token and, without   *)
(* sampling, by the parity of the length, with it by the parity of the     *)
(* draw, so that a wrong row, a lost draw or a lost position is noticed.   *)
(***************************************************************************)
EXTENDS SpecDecode

CONSTANTS A, B

MCToken == {Eos, A, B}

MCAnswer(s, t, d) == s.weights[t[Len(t)]][(IF s.sampling THEN d ELSE Len(t)) % 2]

(* Weights that go on and on, that end, and that change their mind. *)
Law == {<<A, B>>, <<B, A>>, <<B, Eos>>, <<A, A>>, <<Eos, A>>}

MCWeights ==
    {[x \in MCToken |-> [i \in 0..1 |-> IF x = A THEN f[i + 1] ELSE g[i + 1]]]
        : f \in Law, g \in Law}

MCSetup ==
    [drafter : {"ngram"}, sampling : BOOLEAN, resizable : BOOLEAN, weights : MCWeights]
    \cup
    [drafter : {"dspark"}, sampling : {FALSE}, resizable : BOOLEAN, weights : MCWeights]

MCTurn == {<<A>>, <<A, B>>}
===============================================================================
