------------------------------ MODULE NgramDraft ------------------------------
(***************************************************************************)
(* The drafter of prompt lookup (ngram_draft): when the last tokens of the *)
(* history occurred before, it proposes what followed them then.  Offsets  *)
(* into the history count from 0, as in the code.                          *)
(***************************************************************************)
EXTENDS Integers, Sequences, FiniteSetsExt

MaxMatch == 4       \* the longest suffix looked for
MaxAlone == 4       \* the longest draft on the word of one occurrence

At(h, i) == h[i + 1]

(* Where the last n tokens of h occurred before. *)
Occurrences(h, n) ==
    {s \in 0..(Len(h) - n - 1) :
        \A i \in 0..(n - 1) : At(h, s + i) = At(h, Len(h) - n + i)}

Newest(h, n) == Max(Occurrences(h, n))
Older(h, n) == {s \in Occurrences(h, n) : s < Newest(h, n)}

(* The tokens that followed the newest occurrence; a longer draft starts    *)
(* over with the first of them.                                             *)
Available(h, n) == Len(h) - Newest(h, n) - n
Candidate(h, n, i) == At(h, Newest(h, n) + n + (i % Available(h, n)))

(* Mutant: the occurrence before the newest one is not asked. *)
ContinuesAlone(h, n, i, overlap, periodic) ==
    i < Available(h, n) \/ (periodic /\ Older(h, n) # {})

(* The loop does not stop at token i of the draft. *)
Continues(h, n, i, overlap, periodic) ==
    LET previous == Max(Older(h, n)) + n + (i % Available(h, n)) IN
    /\ i < Available(h, n) \/ (periodic /\ Older(h, n) # {})
    /\ Older(h, n) # {} =>
          /\ overlap \/ previous < Newest(h, n)
          /\ At(h, previous) = Candidate(h, n, i)

DraftCap(h, n, cap) == IF Older(h, n) = {} THEN Min({cap, MaxAlone}) ELSE cap

Drafted(h, n, cap, overlap, periodic) ==
    Max({k \in 0..DraftCap(h, n, cap) :
            \A i \in 0..(k - 1) : Continues(h, n, i, overlap, periodic)})

(* The suffixes that give a draft; the longest is used. *)
Useful(h, cap, minMatch, overlap, periodic) ==
    {n \in minMatch..MaxMatch :
        Occurrences(h, n) # {} /\ Drafted(h, n, cap, overlap, periodic) > 0}

NgramDraftOf(h, cap, minMatch, overlap, periodic) ==
    LET useful == Useful(h, cap, minMatch, overlap, periodic)
        n == Max(useful)
    IN IF useful = {} THEN <<>>
       ELSE [i \in 1..Drafted(h, n, cap, overlap, periodic) |-> Candidate(h, n, i - 1)]

-------------------------------------------------------------------------------
(* What the draft promises.                                                 *)

Repeats(text, from, n, to) == \A i \in from..to : At(text, i) = At(text, i - n)

(* The draft d of h goes on as the history once went on: read together, the *)
(* suffix and the draft repeat what stands a fixed distance before them.    *)
Resumes(h, d, minMatch) ==
    \E n \in minMatch..MaxMatch :
        \E gap \in 1..(Len(h) - n) :
            Repeats(h \o d, Len(h) - n, gap, Len(h) + Len(d) - 1)

(* When the suffix occurred more than once before, the two most recent      *)
(* occurrences went on alike for as long as the draft follows them.         *)
Unambiguous(h, d, minMatch) ==
    d # <<>> =>
        \E n \in minMatch..MaxMatch :
            /\ Occurrences(h, n) # {}
            /\ \A i \in 0..(Min({Len(d), Available(h, n)}) - 1) :
                  \A s \in {Newest(h, n)} \cup (IF Older(h, n) = {} THEN {} ELSE {Max(Older(h, n))}) :
                     At(h, s + n + i) = At(d, i)
===============================================================================
