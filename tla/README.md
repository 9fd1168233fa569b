# A TLA+ model of the DeepSeek-V4-Flash engine

The program under `src/` runs a 43-layer mixture-of-experts language model on a
CPU whose memory holds only part of it. Three mechanisms make that possible and
carry most of what can go wrong: the weights of the experts a token is routed to
are streamed from disk through a bounded cache while other experts are being
evaluated; the tokens of a speculative batch are evaluated together, then taken
back down to the prefix that plain decoding would have produced; and memory is
planned before anything is opened, and what was planned is cut into pieces for
layers and draft stages. This directory models all three, checks them with TLC on
small instances, and proves with TLAPS, for every value of the constants, what
each of them promises: of the first, the reads (by the pool or by the ring), the
evaluation of a layer through the cache, and the walk through the layers with its
prefetches; of the second, the memory of every layer under any mix of feeding,
taking back and committing, and the conversation; and the whole of the third, from
the command line to the opened model. Liveness stays with TLC.

Paths of the repository are given from its root: `src/dsv4/dsv4_model.c` is
`dsv4_model.c` below, `src/cli/dsv4_run.c` is `dsv4_run.c`.

## 1. Inventory

### The system's parts

| part | state it keeps | operations | talks to |
|---|---|---|---|
| expert read pool (`dsv4_model.c` 3941-4397) | circular array of jobs, `stop`, the record of each job (`phase`, `ok`, `done`), two condition variables | `expert_pool_submit`, `_submit_many`, `_wait`, `expert_pool_worker`, `_close` | worker threads and the inference thread, through one mutex |
| expert batches (4403-4855) | the experts of a group, their slots, which are missing, the records of their reads; two batches in turn | `expert_batch_begin_pinned`, `_wait_one`, `_next_ready`, `_finish` | cache below, pool beside, evaluation above |
| expert cache (2478-2529, 3141-3783) | per slot a tag (layer, expert), a buffer, a segment and a stamp; per layer a count of protected slots; the size of the hash-routed partitions | `cache_find`, `cache_touch`, `cache_publish`, `expert_get_many`, `expert_get`, `dsv4_expert_cache_set_hash_slots` | the inference thread only; reads write its buffers |
| mixture-of-experts evaluation (6486-7117) | the routes of one or several tokens, partial outputs | `moe_forward`, `moe_forward_batch` | the three above |
| route prediction and prefetch (5910-6237) | the predicted experts of the next layer, reads started early | `route_prefetch_*` | cache and pool |
| io_uring ring (3784-4086, 4691-4730) | the submission and completion queues, per job the parts pending and whether one failed | submit both parts, reap, fall back to a thread | replaces the workers behind the same records |
| context of a layer (2400-2442, 5073-5435, 5685-5760) | ring of the last rows, running state of the compressor and of the indexer's, compressed rows and their counts | `attention_forward_impl`, `compressor_update`, `indexer_forward`, `window_topk`, `dsv4_model_reset_context` | fed by the forward calls |
| context snapshot (2714-3056) | what take saved, what was captured after each position, `captured_positions`, `ready`, the model's `active_snapshot` | `dsv4_context_snapshot_take`, `_restore`, `_commit_prefix`, two capture functions | reads and writes the context of every layer |
| layer weights (4869-4926, 8388-8432) | the weights of the current layer, a loader thread for the next | `layer_load_begin`, `layer_load_finish` | forward calls |
| speculative decoding (4953-5033, 8277-8368, `dsv4_run.c` 905-1200) | `history`, `committed`, `pending`, cooldowns | n-gram and DSpark drafts, verification, commit of a prefix | snapshot, forward calls, resize of the cache |
| turn loop (`dsv4_run.c` 820-1310) | committed tokens, pending token, history | prefill, decode, next turn, `/reset` | everything above |
| memory plan (`dsv4_tensor.c` 38-168) | none | bytes of the context, cache slots and resident layers of a budget, automatic context | start |
| start and opening (`dsv4_run.c` 417-838, `dsv4_config.c` 162-225, `dsv4_model.c` 2240-2529) | arguments, budget, context; the slots of the cache, of the draft stages, of the hash-routed layers | parse, validate, plan, open, choose the drafter, make its workspace | plan, cache, speculation |
| prompt, kernels, safetensors, scripts, tokenizer | set-up or none | parsing, reading, arithmetic | - |

### What is hard about it

*Concurrency.* The inference thread and the workers share the queue and the job
records; a read writes into the buffer of a slot whose old tag is still in place
while the inference thread looks up, evicts and evaluates others. The next group
of experts is prepared while the current one is evaluated, and the records of a
group are used again two groups later. A prefetch reads into temporary slots
beside the attention, and its buffers change places with those of the cache a
moment after they were read into. A thread loads the next layer while this one is
evaluated and then freed. The ring completes the parts of two groups in any order.

*Limits.* The queue is a fixed array and a two-phase job is put back into it
without a test for room. The cache may be as small as a group, or smaller than a
token needs. The ring wraps and the compressed rows fill up exactly at the end of
the context.

*Failure.* Any read may come short; most paths end the process, one does not look.
A failed `io_uring_enter` leaves the entry it was for in the queue, and a later
call enters that one in place of its own: the read it stands for may be carried out
when its group is over, into a slot and a record that others use by then.

*Arithmetic.* The plan is made twice, from the same sums in two files, and taken
apart again; the slots it yields are cut by two functions; a draft longer than
what it repeats is read at an offset taken modulo its length.

*Long sequences of calls.* Tags, segments, counters and buffers of the cache are
moved when a partition is resized. A snapshot saves only what the next positions
will overwrite, so it is right only as long as everything that writes keeps to
them.

`PROJECT.json` lists each of these at its line under "hazards", with the
property that watches it or the reason why none does yet.

### What makes each part correct

- pool and ring: a job submitted and not done is in one place; the array never
  overflows; a done job's verdict is true; nobody sleeps through work; closing
  ends; a read that could not be submitted, or only by half, is never taken for
  good; no read outlives its group or is counted for another, as long as no entry
  was left to the ring whose job a thread then read (afterwards both happen, section 3).
- batches and cache: an expert is evaluated with its own, completely read
  weights; the tag of a slot that is not being refilled is true; groups that
  overlap in time do not overlap in slots; counters and buffers survive resizes;
  a call returns or the process gives up over a short read.
- walk over the layers: a layer is evaluated with its own weights; whatever was
  predicted and adopted, its experts are their own, and none it needs is evicted.
- context and snapshot: the memory of every layer is a function of the tokens it
  stands for, whatever was fed and taken back in between; attention reads the
  last positions and nothing else; no position is lost between ring and
  compressor; the compressor gives up for no position of the context.
- speculation and turns: the conversation is the one plain decoding would have
  had, token for token and draw for draw; history, context and pending token stay
  in step; a response ends, within its limit, and leaves the cache as it found it;
  a draft from the history goes on as the history once did.
- plan and opening: a plan keeps to its budget and wastes none of it; what is
  opened is what was planned; the pieces of layers and stages are apart, leave no
  slot over and can each pin a token's experts; a longer automatic context does
  not slow decoding down.

## 2. Modules

```
ReadService  <--implements--  ExpertPool    <-- ExpertPoolProofs
             <--implements--  IoRing        <-- IoRingProofs
MoELayer     <--implements--  ExpertStream  <-- ExpertStreamProofs
PlainDecode  <--implements--  SpecDecode    <-- SpecDecodeProofs
                              ForwardPass   <-- ForwardPassProofs
                              ContextSnapshot <-- ContextSnapshotProofs
                              Startup       <-- StartupProofs

ExpertStream, ForwardPass  --extends--> ExpertCache
ContextSnapshot            --extends--> LayerContext
SpecDecode                 --extends--> NgramDraft
Startup                    --extends--> MemoryPlan
every ...Proofs but the last --extends--> CommonLemmas
ForwardPassMC, ContextSnapshotMC, SpecDecodeMC, StartupMC: constants for TLC
```

**ReadService** says what the evaluation expects of asynchronous reads: a read
that was started is reported once, a record is cleared only when its read was
reported, the service closes when nothing is being read, and the process gives up
only over a short read.

**ExpertPool** is the pool and the one thread that uses it. A critical section of
`pool->mutex` is one action, so is a read outside of it; a thread in
`pthread_cond_wait` is `"waiting"` until a signal, a broadcast or a spurious
wakeup. Workers: `WorkerWait`, `WorkerExit`, `Dequeue`, then `ReadBoth` or the
two phases `ReadScales`, `Requeue`, `ReadWeights`, and `FinishJob`. The inference
thread is the double-buffered loop of `moe_forward_batch` reduced to what it does
with the pool: `BeginFirst`/`BeginNext`/`NoNext`, `Submit`, `SubmitMany`,
`WaitSpace`, `Compute`, `WaitDone`, `FinishGroup`, `Close`, `Joined`. The circular
array is a sequence, which is the same thing as long as it is no longer than the
array: that is the invariant `QueueFits`. How many misses a group has is chosen
freely; `exit(1)` over a short read is the state `"failed"`.

**IoRing** is the other implementation of ReadService: the same double-buffered
loop over an io_uring ring. `sq` holds the entries written and not entered,
`inKernel` the reads the kernel has taken; `io_uring_enter` takes the oldest entry,
or fails and leaves the new one behind, whichever part it was for (`EnterFails`). A
job is two reads (scales, weights): `SubmitBoth`, `SubmitScalesOnly` when the second
could not be entered, `SubmitThread` for the fallback thread. When it was the first,
the thread reads the job and its entry stays: it is entered by a later call, and may
be completed in a later group. The program knows a read by the address of its record
only; in the model an entry carries the ordinal of its group besides, so that `Old`
tells the reads of groups that are over. `Reap` is one completion, of whichever
group: an old one is counted for the job that has the record now, or, when that
record names no job (`owner`), is a failed wait (`ReapOwnerless`). `LateWrite` is an
old read carried out over the slot of a job that may have it by then (`MayShareSlot`:
the group begun beside its own took other slots, any later one may have the same).
The kernel's part of any other read and its reaping are one step, since nobody else
looks at the completion queue, and so are the end of a fallback thread and its
`Join`. `WaitFailed` leaves the evaluation loop for `Drain`, and a second failure
ends the process. There are no locks: the inference thread alone uses the ring. Two
history variables let the properties say what a failed call has damaged and what
not: `abandoned`, that an entry was left whose job a thread read, and `disturbed`,
the jobs an old read was counted for or wrote into.

**ExpertCache** holds the policy as operators: which slots a layer owns
(`RangeOf`), promotion and demotion (`Touch`), `Publish`, the eviction order
(`EvictBefore`, `EvictionPlan`). Stamps are ranks, since the code only compares
them.

**ExpertStream** is the evaluation of one layer through the cache, with one
action per step of the code: `CallToken`, `CallBatch`; the asynchronous batch
`BeginReads`; `expert_get_many` as `BeginGetMany` and then `GetManyResident`,
`GetManyLoad`, or the serial fallback `GetManySerial`, `GetSerial`; the reads
`StartRead`, `EndRead` in any order beside everything else; `ComputeHits`,
`ComputeMiss`, `ComputeResident`; `FinishGroup`, which publishes, touches and
exchanges the two batches; `Return`; and `Resize` between calls. Weights are the
name of the expert they belong to, or `NoKey` for a buffer that is partly written,
so that an evaluation with the wrong weights is seen in `result`. Its reads are
those of a ReadService: any number of them may be under way.

**MoELayer** is the promise: each expert the call wants is evaluated once, with
its own weights, then the call returns.

**ForwardPass** is the walk of a token or of the chunks of a prompt through the
layers: `LoadLayer`, the thread that loads the next one (`StartLoader`,
`SkipLoader`, `LoaderEnds`, `JoinLoader`, after `Release` has freed the layer it
follows), and for each chunk the prefetch (`Predict`, the reads `ReadEnds`,
`FinishFetch` with its adoptions, `FetchShort`) and the evaluation, one step here
(`Evaluate`), whose steps are ExpertStream. A prediction is any set of experts the
layer does not have, in any order for a prompt, so that what holds does not depend
on how good predictions are. Buffers are values of their own, exchanged between
cache slots and temporary slots as in the code.

**LayerContext** is the memory of a layer and of a compressor under one more
position (`Written`, `Compressed`, `Overflows`, `WindowTopk`), and, independently
and in closed form, what the memory of a text is (`RingOf`, `CompOf`). The window is
the list of slots `window_topk` writes, in its order and with its padding (`NoSlot`),
which attention skips. A row is
the position and token it was computed from; a compressed row is the rows it was
made from. Layers of one ratio go through the same states, so a layer is its
ratio. That a row also depends on what the lower layers remember is not lost:
if every layer's memory is that of the text, so is everything attention reads,
and the row with it.

**ContextSnapshot** feeds tokens to it, one by one (`FeedToken`) or in
layer-major batches (`FeedBatch`), position by position and layer by layer
(`Attend`, `EndCall`), with the compressor's `exit(1)` as `Exit`; and has
`Take`, `Restore`, `Commit`, `Reset`. Its caller is any caller that keeps to the
contract stated at the head of the module. The arrays of captured states start
as `Junk` and become `Junk` again at take, so that a value used before it was
captured would show.

The contract has one clause the code does not check. `commit_prefix` looks at
`ready` and `captured_positions` only; after a `restore` it returns 0 and leaves
compressed rows of the prefix rolled back, because it relies on the batch's own
writes for them. TLC showed this within one block when the model's caller was
allowed to do it. No caller in the repository does, and the field
`active_snapshot` is described as a transaction, so the model commits only while
the snapshot is open; the hazard list names the line.

**PlainDecode** is what a user may rely on: a turn is read (`Ask`), answered one
token at a time, each the answer of the weights to all that was said before it
(`Say`), until the end of sequence, the limit or an interrupt (`Finish`); an
answer that was cut short is closed before the next turn (`Closed`).

**SpecDecode** is the conversation in `main` of `dsv4_run.c`, lines 840 to 1310: `NextTurn`
(prefill of the carried-over tokens and the new line, with a full context
refused), `FirstToken`, then the decoding loop. A round is `Propose` (widened
cache, snapshot, the pending token and the draft fed as one batch), one
`AcceptDraft` per agreement, one of `CommitEos`, `CommitCorrection` and
`CommitBonus`, and one `Emit` per token delivered; `Scalar` is the exact fallback,
`EndTurn` restores the layout, `Reset`, `Quit` and `Interrupt` are the user's. Both
drafters share these actions and differ where the code does: the cap of a draft,
whether the comparison stops at an accepted end of sequence, the cooldown, and the
rows of the target's hidden state DSpark keeps (`target`, a ring of `Window` slots;
a row is its position and token). The context is its text, which is what
ContextSnapshot shows of it: `text` is the committed part and `tail` what the open
batch has added, and commit keeps a prefix of the batch. A draft may be anything
of a legal length, more than `ngram_draft` or the network would ever propose, so
whatever holds does not depend on how good drafts are. `Answer` is the weights
with `argmax` or `sample_top_p`: any function of the setup, the text and the
number of the draw. Everything is one thread, so a step may be as large as a call;
comparisons and deliveries are steps of their own because `handle_sigint` may come
between any two of them. `spoken` is a history variable, the draws plain decoding
would have made.

The module takes what a snapshot does as a fact about the text, and
ContextSnapshot the caller's contract as its guards; the contract's clauses
(commit only an open snapshot, at most as many tokens as were fed, restore or
commit before the next one) are the guards of `Propose` and `CommitPrefix`.

**NgramDraft** is the search of `ngram_draft` as operators: the occurrences of the
last tokens in the history, the newest and the one before it, how far they agree,
where the draft stops. What it promises is stated apart from the search
(`Resumes`: suffix and draft repeat what stands a fixed distance before them;
`Unambiguous`: the two latest occurrences went on alike while their texts last,
which is the comment at `dsv4_run.c` 259) and checked on every history
the conversations of SpecDecode come to.

**MemoryPlan** is the arithmetic of the plan (`dsv4_tensor.c`) and of the division
of the cache that is opened from it (`dsv4_model_open`, `cache_bounds`): bytes of a
context, layers of decoded `wo_a` and slots a budget buys, slots of the draft
stages, slots of hash-routed layers, the interval of each layer.

**Startup** is the program from the command line to the first prefill, with every
test that ends the process: arguments (`RefuseArguments`, `Restart` for the wait
policy, `AcceptArguments`), memory and configuration (`ChooseMemory`, `LoadConfig`),
the loops of `dsv4_auto_context` (`BeginSearch`, `Halve`, `BaseFits`, `Grow`,
`EndSearch`), `CheckLimits`, `PlanMemory`, `ReadPrompt`, `OpenModel`, the drafter and
its workspace (`ChooseDrafter`, `MakeWorkspace`, `NoWorkspace`). Mode `"library"` is a
program that opens the model without a plan. What the environment says in one
place only is chosen where it is read.

## 3. Runs

| run | instance | shows |
|---|---|---|
| `pool_phased` | 2 workers, groups of at most 2, array of 4, two-phase reads | no overflow although jobs are put back unasked, down to the last place of the array, jobs conserved, true verdicts, no idle reader, closing ends, implements ReadService |
| `pool_direct` | array of 1, one-phase reads | waiting for room as well as for reads: every group begun is consumed |
| `ring` | two groups of at most 2, a submission queue of 2, the entry of either part and the wait may fail | records tell the truth whichever part completes first and whichever call fails, but for the jobs an abandoned entry disturbs; every group begun is consumed, or the process ends, or waits for an entry that an abandoned one keeps in the queue; implements ReadService |
| `ring_dispatch` | the same, only the scales' entry may fail | **violated**: see below |
| `stream_slru` | 1 layer, 4 experts, 3 slots, token needs 2, short reads | own weights, disjoint groups, a token's experts resident when its call returns |
| `stream_resize` | a hash-routed and a learned layer, 3 slots | buffers, tags and counters survive every resize; implements MoELayer |
| `stream_small` | 2 slots for tokens of 3 experts, short reads | the serial fallback returns or fails, tags stay true, batches never need it |
| `stream_undersized` | the same without short reads | **violated**: see below |
| `forward_pass` | 2 layers, 3 experts routed to in the first and 1 in the second, 4 slots and 2 temporary ones, prompts of 2 chunks | buffers stay apart and tags true through every exchange, own weights, nothing needed is evicted or read twice, no read outlives its layer, layers loaded in order |
| `snapshot` | ring of 2, ratios 0, 2 (overlapping) and 3, context 4 and four tokens past it, two symmetric tokens, batches and snapshots of up to 3 | memory is that of the text after any mix of feeding, restore, commit and reset; what attention reads and in which order, nothing forgotten, where the compressor gives up |
| `spec_decode` | context 9, responses of 5, drafts of up to 3, ring of 3, cooldown 2, two lines, 25 weights, prompt lookup greedy and sampled, DSpark | the conversation is that of plain decoding, history and context in step, arrays large enough, layout restored, rows of DSpark those of the text, drafts continue the history, every response ends |
| `startup` | 7 configurations (hash-routed layers, 1 and 2 draft stages, native contexts below and above the longest, three mistakes), 23 amounts and modes, contexts given (0 too, which is refused) and automatic; a GiB is 6 units, a slot 2 | what is opened is what was planned, cut without overlap or gap; the automatic context keeps its pace; `--cache-gib` buys what it names |

*Bounds.* Two workers and two buffers give every race of the pool: one worker
against the other, each against the client; groups of two let a group be half
submitted, half done and half consumed, and fill the array of four when a worker
puts the last job back. A submission queue of two is full once two entries have
stayed behind, which one group can bring about; the second group is begun beside the
first, or after it in the same records while an entry of the first is still in the
queue. A cache of three
slots with groups of one or two has hits, misses, evictions, a pinned slot that
would be a victim and a pinned slot that would be a hit, and both segments; the
runs differ in the edges (odd share, share of one, cache below a token). In
`forward_pass` the first layer has one expert more than it has slots, so
adoptions evict; two temporary slots make one of them right and the other wrong or
late; two chunks reuse them within a layer and two layers across. A ring of two
with batches of three wraps inside a batch, before it and not at all; ratios 2
and 3 put block ends at different positions of the batch; four positions and
four beyond complete several overlapping blocks, fill the compressors of the
context and then their spare rows. Two tokens are needed where a refused token
must differ from the right one; the model only copies and compares them, so they
are symmetric. A context of nine positions holds two or three turns, so that
responses end by the end of sequence, by their limit of five and by the end of
the context, with room for a whole draft, for a shorter one and for none; a
cooldown of two lets the fallback run more than once between rounds; the weights
answer by the last token and by the parity of the position (or of the draw), so
that a wrong row, a lost position or a lost draw changes the text. The budgets of
`startup` lie around its thresholds: nothing fits, one slot, the least cache, one
`wo_a` layer and all of them, the ceiling of slots, the ceiling of the budget; the
pieces of the cache have remainders.

`MaxBatch` and `Beyond` of ContextSnapshot, `MaxTokens` of ExpertStream (tokens
of a call), `MaxDrawn` of SpecDecode (no turn begins after so many draws),
`MaxGroups` of IoRing (no group begins after so many), `MaxChunks` and `Routes` of
ForwardPass, and the sets of Startup are
bounds of the models; `MaxTopk`, `QueueCap`, `SqEntries`, `MaxPositions`, `Block`,
`MaxTokens` of SpecDecode are constants or parameters of the code.

*Fairness.* `ExpertPool` assumes weak fairness of each worker and of the
inference thread: the operating system runs every thread that can run, and every
`pread` returns. Nothing is assumed of condition variables beyond what the code's
signals do; beginning another group or closing is never forced. `IoRing` assumes
weak fairness of the inference thread's progress, of which reaping the reads the
kernel has taken is a part: the kernel completes them; that a call fails, that a group begins
or that the ring is closed is never forced. `ExpertStream`
assumes that the inference thread runs and that each read ends, which is what the
pool and ring runs show. `SpecDecode` assumes weak fairness of `Decode`, the
program's own steps: it is one thread and its calls return; the user's steps are
never forced. The snapshot, forward-pass and startup models have no liveness
property.

*Deadlock* is checked everywhere but in `snapshot`, where the process may really
end over a full compressor, and in `ring_dispatch`, where it may wait for ever (in
`ring` that wait may fail); the ends of the other models are explicit
(`Finished`, `Failed`, `Over`, `Started`). In `spec_decode` a signal is possible in
every state, so a program that is stuck shows as a violation of `TurnsEnd` and not
as a deadlock.

*The violated runs.* `stream_undersized`: with fewer slots than a token needs experts, `expert_get_many`
falls back to one `expert_get` per expert, and a later load may overwrite a slot
whose pointer was already handed out: the token is evaluated with another
expert's weights. The comment in `expert_get` (`dsv4_model.c` 3632) calls this
case impossible and `docs/VALIDATION.md` (line 23) promises the same tokens at
any memory budget, while the memory plan and `dsv4_model_open` accept a budget of
one slot. The run's trace has nine states.

`ring_dispatch`: `io_ring_submit` writes its entry and moves the
tail before it calls `io_uring_enter` (`dsv4_model.c` 3904-3909), and a caller that
gets 0 for the scales gives the job to a worker or a thread. The entry stays, and
from then on every call enters the entry before its own. The read is carried out in a
later group; its completion is counted by the address of its record (4070-4075) for
the job that has it now, which is reported with a part still to come, and its expert
is evaluated, against "dispatch each miss when its read completes"
(`docs/OPTIMIZATIONS.md` 54). In the run's trace that part, the weights of the second
group, is still in the queue; had it been waited for, nothing would ever enter it,
since the wait enters nothing (3924): that is the state `Hung` excepted in
`GroupsComplete`. What still holds then is in `ring`: nothing of it reaches a job that
no such read was counted for or wrote into, and without an abandoned entry it does
not happen. The weights' entry does no such harm: its job
stays with the ring, is marked as failed, and ends the process.

Every property of a run that passes has a mutant in `PROJECT.json`: a small error in a modelled
definition (`AllConsumedEarly`, `HitsDespitePins`, `HashSlotsGreedy`, ...) that makes
TLC report that property. They stand beside the definition they alter, marked
"Mutant".

## 4. Proofs

`ExpertPoolProofs` proves, for any finite non-empty set of workers, any
`MaxTopk`, either kind of reads and any array that is at least `2 * MaxTopk` long
when reads are two-phase (the code's array is; `QueueCapAssumption`):

| theorem | statement |
|---|---|
| `PoolTypeOK` | `SafetySpec => []TypeOK` |
| `PoolConservesJobs` | `SafetySpec => []JobsConserved` |
| `PoolQueueFits` | `SafetySpec => []QueueFits` |
| `PoolReportsTrueReads` | `SafetySpec => []DoneMeansLoaded` |
| `PoolNoIdleReader` | `SafetySpec => []NoIdleReader` |
| `PoolImplementsReadService` | `SafetySpec => ImplementsServiceSafety` |

The inductive invariant is `IInv`: the type invariant, `JobsConserved`, what the
inference thread knows (`ClientInv`: which buffers are live in which of its
states, that `sent` counts the jobs submitted, that what it consumed is done),
how far each read has come (`ReadInv`), and the bound of the queue for one-phase
reads. `JobsConserved` alone is not inductive: that a job put back or finished
was submitted needs to know in which buffer the client is submitting, and that a
group may end needs to know that what it consumed is done. `QueueFits` for
two-phase reads is not carried along at all: a sequence without repetition over
`2 * MaxTopk` jobs has no more entries than that, which is the real reason why
the missing test for room is harmless. `NoIdleReader` needs the types only: the
workers that are awake are at least as many as the jobs queued, or nobody sleeps;
a job submitted or put back adds one to each side unless nobody was left to wake, a
group's broadcast wakes all. TLC checked `IInv` as an invariant of both
pool configurations before it was proved. The refinement maps each step to
`Start`, `Finish`, `Recycle`, `Close`, `Abort` or a stutter from the same
invariant.

`IoRingProofs` proves the same two things of the ring, for groups and submission
queues of any size, any number of groups, and whichever calls fail:

| theorem | statement |
|---|---|
| `RingRecordsTrue` | `SafetySpec => []RecordsTrue` |
| `RingImplementsReadService` | `SafetySpec => ImplementsServiceSafety` |

Neither has a hypothesis. `RecordsTrue` excepts the jobs that are `disturbed`, and
says in its last conjunct when there are none: before an entry was abandoned no read
outlives its group. ReadService is implemented even afterwards, since it speaks of
what the thread is told of a read (once, and before its record is cleared) and not
of what is in the slot. The invariant says that an entry is in one place, once
(`QueueInv`); what a record says of its job (`RecordInv`: the count is that of the
parts in flight, or one less when the second could not be entered, and then the job
has failed; no part is lost before something failed); where the reads of earlier
groups are (`PastInv`: none has a later ordinal than its buffer, and without an
abandoned entry there are none and every read in flight is of a job on the ring);
and which records are still fresh and that what was consumed was read (`ClientInv`).
That the count may be one too small is what makes `RecordsTrue` alone not
inductive: such a job is reported while its weights may be in flight, and only
because it has failed is its slot never published: its group never ends, the process
does, so such a failure leaves no read behind.

`SpecDecodeProofs` proves, for any vocabulary, lines, context, limits, block,
cooldown and ring, any set of setups and any `Answer` that answers tokens
(`AnswersAreTokens`, the hypothesis of the theorems; it speaks of every text, so
TLC cannot evaluate it as an assumption):

| theorem | statement |
|---|---|
| `SpecInStep` | `SafetySpec => []InStep` |
| `SpecWithinArrays` | `SafetySpec => []WithinArrays` |
| `SpecTargetIsOfText` | `SafetySpec => []TargetIsOfText` |
| `SpecNgramContinues` | `SafetySpec => []NgramIsContinuation` |
| `SpecImplementsPlain` | `SafetySpec => ImplementsPlainSafety` |
| `SpecLayoutRestored` | `SafetySpec => []LayoutRestored`, without the hypothesis |

`InStep` speaks of the moments between rounds and is not inductive. Its
strengthening (`IInv` there) says what a round knows: while drafts are compared,
each one accepted is what the target answers to the prefix before it, with the draw
plain decoding would have used (`JudgingInv`); while they are delivered, the history
is a prefix of the committed text, each token still to come is the next one of
that text, the last one the answer to all of it, and the generator is ahead of what
was delivered by exactly what is still to come (`EmittingInv`). The three ways to
end a round share one lemma, `EndRoundKeeps`: they commit k of the tokens fed and
deliver k tokens. The end of sequence is the one that needs an argument: prompt
lookup stops at the first one, so nothing behind it was drawn for; DSpark looks
on, which costs no draws because it never samples (`SetupAssumption`). With `IInv`,
`Emit`, `Scalar` and `FirstToken` are `Say`, `NextTurn` is `Ask`, and everything
else a round does is a stutter.

`TargetIsOfText` has an invariant of its own beside it (`KeptInv`): the rows kept are,
slot by slot, the last position of that slot in the committed text (`RowOf`), which
feeding a batch leaves alone and a commit of k tokens moves on by k. The n-gram
search is first proved about the operators, for histories of any length
(`OccurrencesAre`, `DraftedIs`, `DraftResumes`, `DraftAgrees`, put together in
`NgramPromises`). `DraftResumes` is the one with an argument: a draft longer than
what followed the newest occurrence starts over, at an offset taken modulo what is
available, and that is the same as repeating the text at a fixed distance, the
draft's own beginning included, because a step back by the distance leaves the
remainder as it is. The theorem adds that the cap of the round is one the round may
make (`MayDraft`).

`ExpertStreamProofs` proves, for any numbers of layers, hash-routed layers, experts,
slots and tokens, either policy, and reads that end in any order:

| theorem | statement | hypothesis |
|---|---|---|
| `StreamInvariant` | `SafetySpec => []IInv` | `CacheHoldsToken` |
| `StreamOwnWeights` | `SafetySpec => []OwnWeights` | both |
| `StreamTagsTrue` | `SafetySpec => []TagsTrue` | both |
| `StreamGroupsDisjoint` | `SafetySpec => []GroupsDisjoint` | `CacheHoldsToken` |
| `StreamNoDuplicate` | `SafetySpec => []NoDuplicate` | `CacheHoldsToken` |
| `StreamTokenResident` | `SafetySpec => []TokenResident` | none |
| `StreamBuffersDistinct` | `SafetySpec => []BuffersDistinct` | none |
| `StreamBatchNeverSerial` | `SafetySpec => []BatchNeverSerial` | none |
| `StreamProtectedCounted` | `SafetySpec => []ProtectedCounted` | `CacheHoldsToken` |
| `StreamImplementsLayer` | `SafetySpec => ImplementsLayerSafety` | both |

`CacheHoldsToken` is `NSlots >= Topk`, without which `OwnWeights` is false
(`stream_undersized`); `ShortReadsSeen` says that where reads may come short, groups
are halved and a token has two experts or more, since `expert_get_many`, which does
not look at how much was read, is reached by a batch otherwise. The invariant says
where every expert of the two groups is, and that its slots belong to the layer and
are its own (`PlaceInv`); that tags name experts of the layer that owns the slot, no
expert twice (`TagInv`); that a read is under way for the misses of a group and
nobody else, into the slot they were given (`ReadInv`); what is in each buffer by
the state of its read (`ContentInv`); and what was evaluated so far (`ResultInv`).
No property alone is inductive: that a tag is true needs to know that the slot a
read overwrites was free when the read began, hence which slots the other group
reads, hence where its experts are. The step that needs counting is the beginning of
a group: its misses never outnumber the slots the other group leaves, because a
group is at most half of what the layer owns, so `expert_get_many` never runs beside
pinned slots. The refinement maps `ComputeHits`, `ComputeMiss` and
`ComputeResident` to evaluations of MoELayer, call and return to call and return,
everything else to a stutter.

`ProtectedCounted` has an invariant of its own beside it (`PolicyInv`), about every
step of the folds that touch and publish a group (`TouchAllKeeps`,
`PublishAllCounted`). A publication takes a slot from the layer its *old* tag names,
so the policy is counted by the old tags while the misses are published and by the
new ones while the hits are touched; the two agree because no published slot stays
protected. A hit on a layer that protects all it may demotes another slot of the
layer's range and leaves the counter alone: there is such a slot because the counter
is the number of protected slots, and it is the layer's because no slot is in the
ranges of two layers (`RangesApart`), at any size of the hash-routed partitions.

`ForwardPassProofs` proves, for any number of layers, experts, slots, temporary slots
and chunks, any routing and any prediction:

| theorem | statement |
|---|---|
| `ForwardInvariant` | `Spec => []IInv` |
| `ForwardSlotsTrue` | `Spec => []SlotsTrue` |
| `ForwardOwnWeights` | `Spec => []OwnWeights` |
| `ForwardReadsEnd` | `Spec => []ReadsEndInTheirLayer` |
| `ForwardLayerWeights` | `Spec => []LayerWeights` |
| `ForwardNeededKept` | `CacheHoldsToken => (Spec => NeededKept)` |

An adoption is a fold over the prefetched experts, each visit exchanging the buffer of
a temporary slot with that of the slot it evicts, so that the next visit sees other
buffers and another recency. The proof carries what is true between visits
(`CommonLemmas`: `FoldRuns`): slots and temporary slots together have each buffer
once, a tag is true, the experts still to come keep their weights. The victim of a
visit is the slot that goes before all others in the eviction order; that there is
one, and that it is none of those the layer needs, is because touching and publishing
never give two slots the same recency (`RefreshRanked`) and because a cache that
holds a token has more slots than needed experts are resident. Only `NeededKept`
needs that last fact: in a smaller cache there is no room to adopt them all.

`ContextSnapshotProofs` proves, for any ratios, window, context, batch and tokens:

| theorem | statement |
|---|---|
| `ContextInvariant` | `Spec => []Inv` |
| `MemoryIsOfText` | `Spec => []ContextIsOfText` |
| `AttentionSeesTheWindow` | `Spec => []WindowIsRecent` |
| `NoPositionLost` | `WindowCoversBlocks => (Spec => []NothingForgotten)` |
| `ExitPastContext` | `Spec => []ExitOnlyPastContext` |

`ContextIsOfText` speaks of the context at rest. The invariant says what ring, states
and compressed rows are in the middle of a batch, layer by layer, including the rows
already overwritten by positions that may be taken back (`MemoryInv`), and that the
snapshot together with what was captured suffices to rebuild the memory of every
prefix of the batch (`SnapInv`). A commit of k tokens then has three cases to get
right at once: ring slots the batch did not reach, those it overwrote behind the
prefix, which come from the snapshot, and those it wrote within it. That a row of
the ring is overwritten by nothing but the position a window later, and the
compressor's state by nothing but the position two blocks later, is arithmetic about the
last position of a remainder (`LastRowIs`, `CongruentBelow`); that the slots behind
the newest one, around the ring, are those of the positions from the oldest on, is
`RingOrder`.
`WindowCoversBlocks` asks that a block be no longer than the window and one position:
the released ratios 4 and 128 and window 128 (`dsv4.h` 18-20) satisfy it,
`dsv4_config.c` does not check it. `BlankAssumption` only says that a row never
written is not one that was.

`CommonLemmas` holds what these proofs share: quotient and remainder, least and
greatest elements of sets of numbers, intervals and the pieces a range is divided
into, sequences without repetition, concatenation, induction up to a number, folds
run visit by visit, and the sorted listing of a finite set.

`StartupProofs` begins with facts about the operators of MemoryPlan, for every configuration,
context, budget and number of slots (`PlanAssumption`, of which the one that
matters is that the least cache holds a slot; the configuration has the types of
`DSV4Config`):

| theorem | statement |
|---|---|
| `PlanWithinBudget` | a plan that is not refused fits its budget, and leaves less than a slot of it over unless the ceiling of slots is reached |
| `PlanKeepsFloor` | decoded `wo_a` layers never take a slot of the least cache |
| `ShorterContextsFit` | a budget that holds a context holds every shorter one |
| `CacheBudgetBuysTheCache` | the sum made up for `--cache-gib` is taken apart into that cache and every layer |
| `LayersDivideTheCache` | the intervals of the layers follow each other, use every slot, and hold a token's experts |
| `StagesDivideTheDraftSlots` | so do those of the draft stages |

The plan is not monotone: a shorter context may buy another `wo_a` layer and end
with fewer slots. `ShorterContextsFit` holds because layers are bought only from
what is left above the floor, and the floor holds a slot. The intervals are shown
to tile their range by naming, for each slot, the share it falls into as a
quotient; hash-routed shares need besides that what is asked for never eats into
what the learned layers must keep (`HashSlots`).

It then carries them to the program, for every set of configurations,
command lines, environments and memories (`StartupAssumption`: their types, and
that the projections have a size):

| theorem | statement |
|---|---|
| `StartupReadyToServe` | `Spec => []ReadyToServe` |
| `StartupKeepsPace` | `Spec => []LongContextKeepsPace` |
| `StartupCacheAsAsked` | `Spec => []CacheAsAsked` |

`ReadyToServe` speaks of the end of the way, so the invariant (`IInv`,
`StartupInvariant`) says stage by stage what is known by then: that the
configuration was validated (`ConfigInv`), that the search stays between one token
and the ceiling and that the best context so far keeps the pace of the base
(`SearchInv`), what the budget is and that it fits (`BudgetInv`), how the opened
model was cut (`ModelInv`), that the drafter's block fits (`DrafterInv`). That the
search leaves nothing out when it gives up is `ShorterContextsFit`.

Every inductive invariant was checked by TLC on the runs' instances before it was
proved. All safety properties of the runs that pass are theorems. Model-checked only
is liveness (`GroupsComplete`, `CloseTerminates`, `CallReturns`, `TurnsEnd`, the fair parts of
`ImplementsService`, `ImplementsLayer` and `ImplementsPlain`): fairness and ENABLED
are out of the prover's reach.

## 5. Not modelled

Arithmetic, quantisation, SIMD and sampling; how a route is predicted and what
DSpark's network proposes (the models take any prediction, any draft); the
indexer's choice of compressed rows (the model says which rows it may choose from);
binding and decoding tensors; prompt building, tokenizer, JSON, the safetensors
reader, scripts. The ARC, frequency and locality policies and the scatter and
staged (l1) reads, all of them switched on by environment variables. Failed
allocations, which end the process or refuse the call before any state changes
(Startup has them: `OpenFails`, `NoWorkspace`).

Modelled, and not claimed:

- Once the entry of the *scales* could not be entered and a thread has read the
  expert, nothing is claimed of the jobs that the late read is counted for or
  writes into (`disturbed`): `ring_dispatch` shows what happens to them. Not
  modelled is what a late read does to a slot after its group was published; it is
  the same hazard seen from the cache.
- After a failed wait on the ring the experts of the group that were not evaluated
  yet are drained and published without being evaluated (`Drain`); `RecordsTrue`
  speaks of the reads, and nothing is claimed of such a call.
- `docs/PERFORMANCE_AUDIT.md` (line 317) and `docs/DSV4_ARCHITECTURE.md` (line 218)
  say that the wide partitions of the hash layers are restored before a token is
  decoded alone. The code restores them once, when the response has ended
  (`dsv4_run.c` 1229-1232), so `Scalar` after a refused round finds them wide in
  SpecDecode too. Nothing but speed depends on it: `stream_resize` shows that tags
  and weights survive a resize, and `LayoutRestored` that the next turn finds the
  ordinary layout.
- With less than the planner's least cache, `--cache-gib` gives up decoded layers
  for slots; `CacheAsAsked` begins at that least cache.
- `commit_prefix` after a `restore`, above.

The products of the plan stay far below 64 bits for any configuration the arrays
accept with tensors that exist; wrap-around would need sizes no file has, so the
models compute in integers.

## 6. Plan

Done: ExpertPool with its abstract service, IoRing as its second implementation,
ExpertCache and ExpertStream with MoELayer, ForwardPass, LayerContext and
ContextSnapshot, NgramDraft and SpecDecode with PlainDecode, MemoryPlan and Startup;
proofs about each of them.

Next, in this order:

1. ContextSnapshot as the implementation of an abstract context (a text with an
   open batch), which SpecDecode then uses by INSTANCE instead of restating it;
   ForwardPass composed with ExpertStream.
2. Staged reads: early report of the first part and what the batches make of it.
3. The resumable download script.
