-------------------------------- MODULE Startup --------------------------------
(***************************************************************************)
(* From the command line to the first prefill: the arguments and the       *)
(* environment are read, a budget and a context are chosen, the memory is  *)
(* planned, the model is opened with what was planned, and the workspace   *)
(* of the drafter is made.  A program that embeds the library opens the    *)
(* model without a plan (mode "library").                                  *)
(*                                                                         *)
(* Each test that ends the process is an action to "exit"; the loops of    *)
(* dsv4_auto_context are actions too.  What the environment says in one    *)
(* place only is chosen where it is read.                                  *)
(***************************************************************************)
EXTENDS MemoryPlan

CONSTANTS Config,       \* the configuration files there may be
          Environment,  \* the environments
          Command,      \* command lines: [mode, amount, contextSet, context, greedy,
                        \* lookup, validate]
          Ram,          \* what the system may report: [visible, available] in GiB
          Gib,          \* a GiB
          LeastGib,     \* the least automatic budget
          MostGib,      \* the greatest plausible one
          BaseContext,  \* 4096
          MaxLayers, MaxStages, MaxTopk, MaxBlock, \* bounds of the configuration
          NgramBlocks,  \* the sizes DSV4_NGRAM_DRAFTS may ask for
          Prompt        \* lengths of the prompt

(* What the program does not test of its configuration, the model takes for *)
(* plausible: the projections have a size.                                  *)
ASSUME StartupAssumption ==
    /\ \A c \in Config : /\ ConfigType(c) /\ c.woa > 0 /\ c.packed > 0
                         /\ c.original \in Int /\ c.longest \in Int
    /\ \A k \in Command : k.amount \in Nat /\ k.contextSet \in BOOLEAN /\ k.context \in Int
    /\ \A e \in Environment : e.drafts \in Int
    /\ \A r \in Ram : r.visible \in Nat /\ r.available \in Nat
    /\ Gib \in Nat /\ LeastGib \in Nat /\ MostGib \in Nat
    /\ BaseContext \in Nat \ {0}
    /\ NgramBlocks \subseteq Nat

VARIABLES pc,
          policySet,    \* OMP_WAIT_POLICY is set
          cmd, env, cfg,
          memory,       \* the total budget, for modes "memory" and "auto"
          base, best,   \* dsv4_auto_context: the context to keep pace with, the best so far
          context,
          budget,
          model,        \* [main, draft, woa, perLayer, hashMin, hashSlots]
          drafter,      \* "none", "ngram" or "dspark"
          block, positions \* drafts of a round, positions of the snapshot

given == <<cmd, env, cfg>>
search == <<base, best>>
session == <<model, drafter, block, positions>>
vars == <<pc, policySet, given, memory, search, context, budget, session>>

NoModel == [main |-> 0, draft |-> 0, woa |-> 0,
            perLayer |-> FALSE, hashMin |-> FALSE, hashSlots |-> 0]

TypeOK ==
    /\ pc \in {"arguments", "memory", "config", "context", "halve", "grow", "limits",
               "plan", "prompt", "open", "drafter", "workspace", "running", "exit"}
    /\ policySet \in BOOLEAN
    /\ cmd \in Command /\ env \in Environment /\ cfg \in Config
    /\ memory \in Nat /\ base \in Nat /\ best \in Nat
    /\ context \in Int /\ budget \in Nat
    /\ DOMAIN model = DOMAIN NoModel
    /\ model.main \in Nat /\ model.draft \in Nat /\ model.woa \in Nat
    /\ drafter \in {"none", "ngram", "dspark"}
    /\ block \in Nat /\ positions \in Nat

Init ==
    /\ pc = "arguments" /\ policySet \in BOOLEAN
    /\ cmd \in Command /\ env \in Environment /\ cfg \in Config
    /\ memory = 0 /\ base = 0 /\ best = 0 /\ context = 0 /\ budget = 0
    /\ model = NoModel /\ drafter = "none" /\ block = 0 /\ positions = 0

(* From one stage to another, or out. *)
Stage(from, to) == pc = from /\ pc' = to
Exits(from) ==
    /\ Stage(from, "exit")
    /\ UNCHANGED <<policySet, given, memory, search, context, budget, session>>

-------------------------------------------------------------------------------
(* The arguments. *)

Plausible == cmd.mode # "both" /\ (cmd.mode = "cache" => cmd.amount \in 1..(MostGib * Gib))

RefuseArguments == cmd.mode # "library" /\ ~Plausible /\ Exits("arguments")

(* The process starts again with the wait policy its OpenMP runtime reads,  *)
(* and parses its arguments again; or it cannot.                            *)
Restarts == cmd.mode # "library" /\ ~cmd.validate /\ ~policySet

Restart ==
    /\ pc = "arguments" /\ Plausible /\ Restarts
    /\ policySet' = TRUE
    /\ UNCHANGED <<pc, given, memory, search, context, budget, session>>

RestartFails == Plausible /\ Restarts /\ Exits("arguments")

AcceptArguments ==
    /\ Plausible /\ ~Restarts
    /\ Stage("arguments", IF cmd.mode = "library" THEN "open" ELSE "memory")
    /\ context' = IF cmd.mode # "library" THEN context
                  ELSE IF cmd.context > 0 THEN cmd.context ELSE BaseContext
    /\ UNCHANGED <<policySet, given, memory, search, budget, session>>

(* Two thirds of what is visible and three quarters of what is available,   *)
(* in whole GiB and within reason.                                          *)
AutomaticGib(ram) ==
    LET part == (ram.visible * 2) \div 3
        free == (ram.available * 3) \div 4
        gib == IF ram.available > 0 THEN AtMost(free, part) ELSE part
    IN IF ram.visible = 0 \/ gib < LeastGib THEN LeastGib ELSE AtMost(gib, MostGib)

ChooseMemory ==
    /\ Stage("memory", "config")
    /\ \/ cmd.mode = "auto" /\ \E ram \in Ram : memory' = AutomaticGib(ram) * Gib
       \/ cmd.mode = "memory" /\ cmd.amount \in 1..(MostGib * Gib) /\ memory' = cmd.amount
       \/ cmd.mode = "cache" /\ UNCHANGED memory
    /\ UNCHANGED <<policySet, given, search, context, budget, session>>

ImplausibleMemory ==
    cmd.mode = "memory" /\ cmd.amount \notin 1..(MostGib * Gib) /\ Exits("memory")

(* dsv4_config_load_file: a half-read configuration is refused, and so is   *)
(* one the arrays of the program were not made for.                         *)
ValidConfig ==
    /\ cfg.complete
    /\ cfg.layers \in 1..MaxLayers
    /\ cfg.topk \in 1..MaxTopk /\ cfg.topk <= cfg.experts
    /\ cfg.window > 0
    /\ cfg.stages <= MaxStages
    /\ cfg.stages > 0 =>
          /\ cfg.block \in 2..MaxBlock
          /\ Len(cfg.targets) = cfg.stages
          /\ \A i \in 1..cfg.stages :
                /\ cfg.targets[i] \in 0..(cfg.layers - 1)
                /\ i > 1 => cfg.targets[i - 1] < cfg.targets[i]

LoadConfig ==
    /\ Stage("config", "context") /\ ValidConfig
    /\ UNCHANGED <<policySet, given, memory, search, context, budget, session>>

RefuseConfig == ~ValidConfig /\ Exits("config")

-------------------------------------------------------------------------------
(* The context. *)

Native == IF cfg.original > 0 THEN cfg.original ELSE cfg.longest
Ceiling == AtMost(Native, cfg.longest)

(* A context that was given is taken as it is, 0 too, which the limits refuse. *)
GivenContext ==
    /\ Stage("context", "limits")
    /\ cmd.contextSet \/ cmd.mode = "cache"
    /\ context' = IF cmd.contextSet THEN cmd.context ELSE AtMost(cfg.original, BaseContext)
    /\ UNCHANGED <<policySet, given, memory, search, budget, session>>

(* dsv4_auto_context looks for a context that fits, by halves, *)
Searches == ~cmd.contextSet /\ cmd.mode # "cache"

BeginSearch ==
    /\ Stage("context", "halve")
    /\ Searches
    /\ Ceiling >= 1
    /\ base' = AtMost(Ceiling, BaseContext)
    /\ UNCHANGED <<policySet, given, memory, best, context, budget, session>>

NoCeiling ==
    /\ Searches /\ Ceiling < 1
    /\ Exits("context")

Halve ==
    /\ pc = "halve" /\ base > 1 /\ ~Fits(cfg, env, base, memory)
    /\ base' = base \div 2
    /\ UNCHANGED <<pc, policySet, given, memory, best, context, budget, session>>

BaseFits ==
    /\ Stage("halve", "grow") /\ Fits(cfg, env, base, memory)
    /\ best' = base
    /\ UNCHANGED <<policySet, given, memory, base, context, budget, session>>

NothingFits == base <= 1 /\ ~Fits(cfg, env, base, memory) /\ Exits("halve")

(* then for a longer one, as long as decoding does not become slower: as    *)
(* many resident wo_a layers, and nine tenths of the slots.                 *)
Candidate == IF best <= Ceiling \div 2 THEN best * 2 ELSE Ceiling

(* Mutant: the pace to keep is that of the last context accepted. *)
KeepsPaceOfLast(c) ==
    /\ Fits(cfg, env, c, memory)
    /\ PlanWoa(cfg, env, c, memory) = PlanWoa(cfg, env, best, memory)
    /\ PlanSlots(cfg, env, c, memory) * 10 >= PlanSlots(cfg, env, best, memory) * 9

KeepsPace(c) ==
    /\ Fits(cfg, env, c, memory)
    /\ PlanWoa(cfg, env, c, memory) = PlanWoa(cfg, env, base, memory)
    /\ PlanSlots(cfg, env, c, memory) * 10 >= PlanSlots(cfg, env, base, memory) * 9

Grow ==
    /\ pc = "grow" /\ best < Ceiling /\ KeepsPace(Candidate)
    /\ best' = Candidate
    /\ UNCHANGED <<pc, policySet, given, memory, base, context, budget, session>>

EndSearch ==
    /\ Stage("grow", "limits")
    /\ best >= Ceiling \/ ~KeepsPace(Candidate)
    /\ context' = best
    /\ UNCHANGED <<policySet, given, memory, search, budget, session>>

WithinLimits == context \in 1..cfg.longest

(* Mutant: with --cache-gib the draft stages are paid for by the cache. *)
CacheBudgetWithoutDrafts ==
    RuntimeReserve + ContextBytes(cfg, context)
    + cfg.layers * WoaLayer(cfg, env) + cmd.amount

(* --cache-gib asks for a cache beside all the rest. *)
CacheBudget ==
    RuntimeReserve + ContextBytes(cfg, context)
    + cfg.layers * WoaLayer(cfg, env) + DSparkBytes(cfg, env) + cmd.amount

CheckLimits ==
    /\ Stage("limits", "plan") /\ WithinLimits
    /\ budget' = IF cmd.mode = "cache" THEN CacheBudget ELSE memory
    /\ UNCHANGED <<policySet, given, memory, search, context, session>>

PastLimits == ~WithinLimits /\ Exits("limits")

-------------------------------------------------------------------------------
(* The plan, the prompt and the model. *)

Plan(c) == [woa |-> PlanWoa(cfg, env, c, budget), slots |-> PlanSlots(cfg, env, c, budget)]

PlanMemory ==
    /\ Stage("plan", IF cmd.validate THEN "open" ELSE "prompt")
    /\ Fits(cfg, env, context, budget)
    /\ UNCHANGED <<policySet, given, memory, search, context, budget, session>>

RefusePlan == ~Fits(cfg, env, context, budget) /\ Exits("plan")

(* The prompt must leave room to answer. *)
ReadPrompt ==
    /\ Stage("prompt", "open")
    /\ \E n \in Prompt : 0 < n /\ n < context
    /\ UNCHANGED <<policySet, given, memory, search, context, budget, session>>

RefusePrompt == (\E n \in Prompt : n = 0 \/ n >= context) /\ Exits("prompt")

(* What dsv4_model_open is given: the plan, or nothing by a caller that     *)
(* leaves the choice to it, whose wo_a is not kept.                         *)
GivenSlots ==
    IF cmd.mode # "library" THEN Plan(context).slots
    ELSE LET room == LeastGib * Gib - Fixed(cfg, env, context)
         IN IF room >= ExpertSlot THEN room \div ExpertSlot ELSE 1
GivenWoa == IF cmd.mode = "library" THEN 0 ELSE AtMost(Plan(context).woa, cfg.layers)

(* The cache: draft slots at its end, and the slots of the layers before.   *)
(* The environment may ask for a common cache, equal shares, or so many     *)
(* slots for a hash-routed layer.                                           *)
Opened(global, equal, draft, asked) ==
    LET main == GivenSlots - draft
        split == ~global /\ PerLayer(cfg, main)
        hashed == split /\ ~equal /\ HashMin(cfg, main)
    IN [main |-> main, draft |-> draft, woa |-> GivenWoa,
        perLayer |-> split, hashMin |-> hashed,
        hashSlots |-> IF hashed THEN HashSlots(cfg, main, asked) ELSE 0]

(* DSV4_DSPARK_VERIFY_DRAFTS, where it makes sense. *)
VerifyDrafts == IF env.drafts \in 1..cfg.block THEN env.drafts ELSE cfg.block

OpenModel ==
    /\ Stage("open", IF cmd.mode = "library" THEN "running"
                     ELSE IF cmd.validate THEN "exit" ELSE "drafter")
    /\ cmd.mode = "library" => ValidConfig
    /\ \E global, equal \in BOOLEAN,
          kept \in (1..cfg.block) \cup {DraftPositions(cfg, VerifyDrafts)},
          asked \in cfg.topk..cfg.experts :
          model' = Opened(global, equal, DraftSlots(cfg, env, GivenSlots, kept), asked)
    /\ UNCHANGED <<policySet, given, memory, search, context, budget, drafter, block, positions>>

(* Out of memory, or a configuration only now seen. *)
OpenFails == Exits("open")

(* DSpark decodes greedily and needs its draft slots; drafts from the       *)
(* history are the default, and give way to it.                             *)
UseDSpark == cmd.greedy /\ model.draft > 0 /\ env.dspark

ChooseDrafter ==
    /\ Stage("drafter", "workspace")
    /\ \/ /\ UseDSpark
          /\ drafter' = "dspark" /\ block' = VerifyDrafts
       \/ /\ ~UseDSpark /\ cmd.lookup
          /\ drafter' = "ngram" /\ block' \in NgramBlocks
       \/ /\ ~UseDSpark /\ ~cmd.lookup
          /\ drafter' = "none" /\ block' = 0
    /\ UNCHANGED <<policySet, given, memory, search, context, budget, model, positions>>

(* The snapshot of a round: the drafts and the token they follow.  DSpark   *)
(* makes room for its whole block.                                          *)
Workspace == IF drafter = "dspark" THEN cfg.block + 1 ELSE block + 1

MakeWorkspace ==
    /\ Stage("workspace", "running") /\ drafter # "none"
    /\ Workspace <= context
    /\ positions' = Workspace
    /\ UNCHANGED <<policySet, given, memory, search, context, budget, model, drafter, block>>

(* Longer than the context, or out of memory: exact single-token decode.    *)
NoWorkspace ==
    /\ Stage("workspace", "running")
    /\ drafter' = "none" /\ block' = 0
    /\ UNCHANGED <<policySet, given, memory, search, context, budget, model, positions>>

-------------------------------------------------------------------------------
Arguments == RefuseArguments \/ Restart \/ RestartFails \/ AcceptArguments
Resources == ChooseMemory \/ ImplausibleMemory \/ LoadConfig \/ RefuseConfig
Contexts == GivenContext \/ BeginSearch \/ NoCeiling \/ Halve \/ BaseFits \/ NothingFits
            \/ Grow \/ EndSearch \/ CheckLimits \/ PastLimits
Opening == PlanMemory \/ RefusePlan \/ ReadPrompt \/ RefusePrompt \/ OpenModel \/ OpenFails
           \/ ChooseDrafter \/ MakeWorkspace \/ NoWorkspace

Started == pc \in {"running", "exit"} /\ UNCHANGED vars

Next == Arguments \/ Resources \/ Contexts \/ Opening \/ Started

Spec == Init /\ [][Next]_vars

-------------------------------------------------------------------------------
(* Properties *)

Layers == 0..(cfg.layers - 1)
Stages == {cfg.layers + i : i \in 0..(cfg.stages - 1)}
SlotsOf(l) == LET b == Bounds(cfg, model, l) IN b[1]..(b[2] - 1)
Apart(S) == \A k, l \in S : k # l => SlotsOf(k) \cap SlotsOf(l) = {}

(* A model that is opened has as many slots as were planned for it, within  *)
(* the budget.  When its cache is divided, the shares of the layers, and    *)
(* those of the draft stages behind them, are apart, leave no slot unused,  *)
(* and each can pin the experts of a token: the fixed pieces, remainders    *)
(* and slots asked for hash-routed layers add up, whatever the environment  *)
(* says.  A verification round fits its snapshot, and that the context.     *)
ReadyToServe ==
    /\ TypeOK
    /\ pc \in {"drafter", "workspace", "running"} =>
          /\ model.main + model.draft = GivenSlots
          /\ cmd.mode # "library" => Planned(cfg, env, context, budget) <= budget
          /\ model.perLayer =>
                /\ Apart(Layers)
                /\ UNION {SlotsOf(l) : l \in Layers} = 0..(model.main - 1)
                /\ \A l \in Layers : Cardinality(SlotsOf(l)) >= cfg.topk
          /\ model.draft > 0 =>
                /\ Apart(Stages)
                /\ UNION {SlotsOf(l) : l \in Stages} = model.main..(GivenSlots - 1)
                /\ \A l \in Stages : Cardinality(SlotsOf(l)) >= cfg.topk
    /\ pc = "running" /\ drafter # "none" => block + 1 <= positions /\ positions <= context

(* dsv4.h: the automatic context keeps the resident wo_a layers of the      *)
(* context it starts from and at least nine tenths of its slots, so a       *)
(* longer chat window does not slow decoding down; and the search gives up  *)
(* only when no context at all would fit, though it looked at few of them.  *)
LongContextKeepsPace ==
    /\ pc = "limits" /\ Searches =>
          /\ context \in base..Ceiling
          /\ PlanWoa(cfg, env, context, memory) = PlanWoa(cfg, env, base, memory)
          /\ 10 * PlanSlots(cfg, env, context, memory) >= 9 * PlanSlots(cfg, env, base, memory)
    /\ pc = "halve" /\ base <= 1 /\ ~Fits(cfg, env, base, memory) =>
          \A n \in 1..cfg.longest : ~Fits(cfg, env, n, memory)

(* --cache-gib sizes the expert cache, beside everything else: from the     *)
(* least cache the planner keeps, the plan of the budget made up for it has *)
(* exactly the slots asked for and keeps every decoded wo_a layer.          *)
CacheAsAsked ==
    pc \in {"prompt", "open", "drafter", "workspace", "running"} /\ cmd.mode = "cache"
        /\ cmd.amount >= MinExpertCache =>
            /\ Plan(context).slots = AtMost(cmd.amount \div ExpertSlot, MostSlots)
            /\ Plan(context).woa = cfg.layers
===============================================================================
