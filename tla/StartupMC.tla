------------------------------- MODULE StartupMC -------------------------------
(***************************************************************************)
(* Startup for TLC: a GiB is 6 units, an expert slot 2.  The                *)
(* configurations have hash-routed layers, draft stages, a native context   *)
(* shorter or longer than what follows, or a mistake; the budgets go from   *)
(* too little for one token to more slots than the planner hands out.       *)
(***************************************************************************)
EXTENDS Startup

Plain ==
    [complete |-> TRUE, layers |-> 2, hash |-> 1, experts |-> 3, topk |-> 1, window |-> 1,
     ratios |-> <<2, 4>>, stages |-> 0, block |-> 0, targets |-> <<>>,
     original |-> 8, longest |-> 16, woa |-> 3, packed |-> 2]
Long == [Plain EXCEPT !.layers = 1, !.hash = 0, !.ratios = <<4>>, !.original = 64, !.longest = 48]
Drafting ==
    [Plain EXCEPT !.layers = 4, !.topk = 2, !.ratios = <<0, 2, 4, 2>>,
                  !.stages = 1, !.block = 3, !.targets = <<1>>]
TwoStages ==
    [Plain EXCEPT !.hash = 0, !.original = 0, !.longest = 5,
                  !.stages = 2, !.block = 2, !.targets = <<0, 1>>]
Wrong == [Plain EXCEPT !.topk = 4]
Backwards == [TwoStages EXCEPT !.targets = <<1, 0>>]

MCConfig == {Plain, Long, Drafting, TwoStages, Wrong, Backwards,
             [Plain EXCEPT !.original = 0, !.longest = 0]}

MCEnvironment == [dspark : BOOLEAN, packed : BOOLEAN, drafts : {0, 1, 9}]

Amounts ==
    ({"memory"} \X {0, 10, 14, 21, 27, 36, 49, 60, 74, 83, 120, 121})
    \cup ({"cache"} \X {0, 3, 6, 9, 17, 50, 95, 121})
    \cup ({"auto", "both", "library"} \X {0})
Manner ==
    [greedy : {TRUE}, lookup : BOOLEAN, validate : {FALSE}]
    \cup [greedy : {FALSE}, lookup : {TRUE}, validate : BOOLEAN]

ContextOption ==
    {[set |-> FALSE, tokens |-> 0]} \cup [set : {TRUE}, tokens : {0, 3, 9, 20}]

MCCommand ==
    {[mode |-> a[1], amount |-> a[2], contextSet |-> c.set, context |-> c.tokens,
      greedy |-> x.greedy, lookup |-> x.lookup, validate |-> x.validate]
        : a \in Amounts, c \in ContextOption, x \in Manner}

MCRam == [visible : {0, 5, 16, 31}, available : {0, 4, 9}]
===============================================================================
