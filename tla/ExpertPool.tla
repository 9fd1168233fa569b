------------------------------ MODULE ExpertPool ------------------------------
(***************************************************************************)
(* The pool of expert read workers (DSV4ExpertPool) and the one thread     *)
(* that uses it, the inference thread running the double-buffered loop of  *)
(* moe_forward_batch: it starts the reads of the next group of experts     *)
(* before it consumes those of the current one, and reuses the records of  *)
(* a group two groups later.                                               *)
(*                                                                         *)
(* A critical section of the pool's mutex is one step.  A thread blocked   *)
(* in pthread_cond_wait is in a "waiting" state until a signal, a          *)
(* broadcast or a spurious wakeup sends it back to test its condition.     *)
(* The circular array is a sequence: the two agree as long as the          *)
(* sequence is no longer than the array, which is what QueueFits says.     *)
(***************************************************************************)
EXTENDS Naturals, Sequences, FiniteSets, Functions

CONSTANTS Workers,      \* the worker threads pthread_create made
          MaxTopk,      \* DSV4_MAX_TOPK, the largest group of experts
          QueueCap,     \* length of the array, 2 * DSV4_MAX_TOPK in the code
          Phased,       \* DSV4_EXPERT_PHASED_READS is set
          NoJob

Buffer == {0, 1}                        \* batches[2]
Job == Buffer \X (1..MaxTopk)           \* batches[b].job[i]

ASSUME WorkersAssumption == Workers # {} /\ IsFiniteSet(Workers)
ASSUME MaxTopkAssumption == MaxTopk \in Nat \ {0}
ASSUME PhasedAssumption == Phased \in BOOLEAN
(* A phased read goes back to the queue without waiting for room in it.    *)
ASSUME QueueCapAssumption ==
    /\ QueueCap \in Nat \ {0}
    /\ Phased => QueueCap >= 2 * MaxTopk
ASSUME NoJobAssumption == NoJob \notin Job

VARIABLES
    queue,      \* the jobs in the circular array, oldest first
    stop,       \* expert_pool_close has been called
    record,     \* phase, ok and done of every job
    loaded,     \* the parts of the expert its slot has received
    wpc, wjob,  \* where each worker is and the job in its hands
    cpc,        \* where the inference thread is
    cur,        \* the buffer it consumes, or is about to
    live,       \* the buffers holding a group that was begun
    size,       \* the number of misses of the group in each buffer
    sent,       \* how many jobs of the group being begun it has submitted
    computed    \* the jobs of the current group it has consumed

clientVars == <<cur, live, size, sent, computed>>
vars == <<queue, stop, record, loaded, wpc, wjob, cpc, clientVars>>

Part == {"scales", "weights"}
WorkerState == {"ready", "waiting", "reading", "requeueing", "finishing", "exited"}
ClientState == {"idle", "next", "submit", "waitSpace", "compute", "waitDone",
                "joining", "closed", "failed"}
Record == [phase : {0, 1}, ok : BOOLEAN, done : BOOLEAN]

Other(b) == 1 - b
Group(b) == {j \in Job : j[1] = b /\ j[2] <= size[b]}
Holding == {"reading", "requeueing", "finishing"}
Queued == Range(queue)
Held == {wjob[w] : w \in {x \in Workers : wpc[x] \in Holding}}
InFlight == Queued \cup Held

TypeOK ==
    /\ queue \in Seq(Job)
    /\ stop \in BOOLEAN
    /\ record \in [Job -> Record]
    /\ loaded \in [Job -> SUBSET Part]
    /\ wpc \in [Workers -> WorkerState]
    /\ wjob \in [Workers -> Job \cup {NoJob}]
    /\ cpc \in ClientState
    /\ cur \in Buffer
    /\ live \subseteq Buffer
    /\ size \in [Buffer -> 0..MaxTopk]
    /\ sent \in 0..MaxTopk
    /\ computed \subseteq Job

FreshRecord == [phase |-> 0, ok |-> FALSE, done |-> FALSE]

Init ==
    /\ queue = <<>>
    /\ stop = FALSE
    /\ record = [j \in Job |-> FreshRecord]
    /\ loaded = [j \in Job |-> {}]
    /\ wpc = [w \in Workers |-> "ready"]
    /\ wjob = [w \in Workers |-> NoJob]
    /\ cpc = "idle"
    /\ cur = 0
    /\ live = {}
    /\ size = [b \in Buffer |-> 0]
    /\ sent = 0
    /\ computed = {}

-------------------------------------------------------------------------------
(* Condition variables: work_ready is waited on by workers, state_changed   *)
(* by the inference thread alone.                                           *)

SignalWork(pcs) ==
    LET sleeping == {w \in Workers : pcs[w] = "waiting"} IN
    IF sleeping = {} THEN wpc' = pcs
    ELSE \E w \in sleeping : wpc' = [pcs EXCEPT ![w] = "ready"]

BroadcastWork ==
    wpc' = [w \in Workers |-> IF wpc[w] = "waiting" THEN "ready" ELSE wpc[w]]

BroadcastState ==
    cpc' = CASE cpc = "waitSpace" -> "submit"
             [] cpc = "waitDone" -> "compute"
             [] OTHER -> cpc

-------------------------------------------------------------------------------
(* The workers: expert_pool_worker.                                         *)

WorkerWait(w) ==
    /\ wpc[w] = "ready"
    /\ queue = <<>> /\ ~stop
    /\ wpc' = [wpc EXCEPT ![w] = "waiting"]
    /\ UNCHANGED <<queue, stop, record, loaded, wjob, cpc, clientVars>>

WorkerExit(w) ==
    /\ wpc[w] = "ready"
    /\ queue = <<>> /\ stop
    /\ wpc' = [wpc EXCEPT ![w] = "exited"]
    /\ UNCHANGED <<queue, stop, record, loaded, wjob, cpc, clientVars>>

Dequeue(w) ==
    /\ wpc[w] = "ready"
    /\ queue # <<>>
    /\ wjob' = [wjob EXCEPT ![w] = Head(queue)]
    /\ queue' = Tail(queue)
    /\ wpc' = [wpc EXCEPT ![w] = "reading"]
    /\ BroadcastState
    /\ UNCHANGED <<stop, record, loaded, clientVars>>

(* Outside the mutex: the first phase reads the scales and asks for another *)
(* turn, the second the weights.                                            *)
ReadScales(w) ==
    LET j == wjob[w] IN
    /\ wpc[w] = "reading"
    /\ Phased /\ record[j].phase = 0
    /\ \/ /\ record' = [record EXCEPT ![j].phase = 1]
          /\ loaded' = [loaded EXCEPT ![j] = @ \cup {"scales"}]
          /\ wpc' = [wpc EXCEPT ![w] = "requeueing"]
       \/ /\ record' = [record EXCEPT ![j].ok = FALSE]
          /\ wpc' = [wpc EXCEPT ![w] = "finishing"]
          /\ UNCHANGED loaded
    /\ UNCHANGED <<queue, stop, wjob, cpc, clientVars>>

(* Mutant: the length of the second read is not looked at. *)
ReadWeightsUnchecked(w) ==
    LET j == wjob[w] IN
    /\ wpc[w] = "reading"
    /\ Phased /\ record[j].phase = 1
    /\ record' = [record EXCEPT ![j].ok = TRUE]
    /\ \E ok \in BOOLEAN :
          loaded' = [loaded EXCEPT ![j] = IF ok THEN @ \cup {"weights"} ELSE @]
    /\ wpc' = [wpc EXCEPT ![w] = "finishing"]
    /\ UNCHANGED <<queue, stop, wjob, cpc, clientVars>>

ReadWeights(w) ==
    LET j == wjob[w] IN
    /\ wpc[w] = "reading"
    /\ Phased /\ record[j].phase = 1
    /\ \E ok \in BOOLEAN :
          /\ record' = [record EXCEPT ![j].ok = ok]
          /\ loaded' = [loaded EXCEPT ![j] = IF ok THEN @ \cup {"weights"} ELSE @]
    /\ wpc' = [wpc EXCEPT ![w] = "finishing"]
    /\ UNCHANGED <<queue, stop, wjob, cpc, clientVars>>

(* expert_read_job_run reads both parts in one turn and stops at the first  *)
(* that comes short.                                                        *)
ReadBoth(w) ==
    LET j == wjob[w] IN
    /\ wpc[w] = "reading"
    /\ ~Phased
    /\ \E got \in {{}, {"scales"}, Part} :
          /\ loaded' = [loaded EXCEPT ![j] = @ \cup got]
          /\ record' = [record EXCEPT ![j].ok = (got = Part)]
    /\ wpc' = [wpc EXCEPT ![w] = "finishing"]
    /\ UNCHANGED <<queue, stop, wjob, cpc, clientVars>>

Requeue(w) ==
    /\ wpc[w] = "requeueing"
    /\ queue' = Append(queue, wjob[w])
    /\ wjob' = [wjob EXCEPT ![w] = NoJob]
    /\ SignalWork([wpc EXCEPT ![w] = "ready"])
    /\ BroadcastState
    /\ UNCHANGED <<stop, record, loaded, clientVars>>

(* Mutant: done is set without the broadcast of state_changed. *)
FinishJobSilently(w) ==
    /\ wpc[w] = "finishing"
    /\ record' = [record EXCEPT ![wjob[w]].done = TRUE]
    /\ wjob' = [wjob EXCEPT ![w] = NoJob]
    /\ wpc' = [wpc EXCEPT ![w] = "ready"]
    /\ UNCHANGED <<queue, stop, loaded, cpc, clientVars>>

FinishJob(w) ==
    /\ wpc[w] = "finishing"
    /\ record' = [record EXCEPT ![wjob[w]].done = TRUE]
    /\ wjob' = [wjob EXCEPT ![w] = NoJob]
    /\ wpc' = [wpc EXCEPT ![w] = "ready"]
    /\ BroadcastState
    /\ UNCHANGED <<queue, stop, loaded, clientVars>>

WorkerStep(w) ==
    \/ WorkerWait(w) \/ WorkerExit(w) \/ Dequeue(w)
    \/ ReadScales(w) \/ ReadWeights(w) \/ ReadBoth(w)
    \/ Requeue(w) \/ FinishJob(w)

-------------------------------------------------------------------------------
(* The inference thread.                                                    *)

AfterBegin(b) == IF b = cur THEN "next" ELSE "compute"

(* expert_batch_begin_pinned: clears the batch's records and submits one    *)
(* read per miss; a group whose experts are all resident has none.          *)
Begin(b, misses) ==
    /\ record' = [j \in Job |-> IF j[1] = b THEN FreshRecord ELSE record[j]]
    /\ loaded' = [j \in Job |-> IF j[1] = b THEN {} ELSE loaded[j]]
    /\ live' = live \cup {b}
    /\ size' = [size EXCEPT ![b] = misses]
    /\ sent' = 0
    /\ cpc' = IF misses = 0 THEN AfterBegin(b) ELSE "submit"
    /\ UNCHANGED <<queue, stop, wpc, wjob, cur, computed>>

BeginFirst ==
    /\ cpc = "idle"
    /\ \E misses \in 0..MaxTopk : Begin(cur, misses)

BeginNext ==
    /\ cpc = "next"
    /\ \E misses \in 0..MaxTopk : Begin(Other(cur), misses)

(* The last group of the layer has no successor to prefetch.                *)
NoNext ==
    /\ cpc = "next"
    /\ cpc' = "compute"
    /\ UNCHANGED <<queue, stop, record, loaded, wpc, wjob, clientVars>>

Filling == IF Other(cur) \in live THEN Other(cur) ELSE cur
Batch == IF Phased THEN size[Filling] ELSE 1    \* jobs submitted at a time

(* Mutant: the index of the jobs is off by one. *)
JobsShifted(b, n) == [i \in 1..n |-> <<b, i + 1>>]

HasRoom(n) == Len(queue) + n <= QueueCap
Jobs(b, n) == [i \in 1..n |-> <<b, i>>]

(* expert_pool_submit and expert_pool_submit_many. *)
Submit ==
    /\ cpc = "submit" /\ ~Phased
    /\ HasRoom(1)
    /\ queue' = Append(queue, <<Filling, sent + 1>>)
    /\ sent' = sent + 1
    /\ cpc' = IF sent + 1 = size[Filling] THEN AfterBegin(Filling) ELSE "submit"
    /\ SignalWork(wpc)
    /\ UNCHANGED <<stop, record, loaded, wjob, cur, live, size, computed>>

(* Mutant: one signal for the whole group. *)
SubmitManySignal ==
    /\ cpc = "submit" /\ Phased
    /\ HasRoom(Batch)
    /\ queue' = queue \o Jobs(Filling, Batch)
    /\ sent' = Batch
    /\ cpc' = AfterBegin(Filling)
    /\ SignalWork(wpc)
    /\ UNCHANGED <<stop, record, loaded, wjob, cur, live, size, computed>>

SubmitMany ==
    /\ cpc = "submit" /\ Phased
    /\ HasRoom(Batch)
    /\ queue' = queue \o Jobs(Filling, Batch)
    /\ sent' = Batch
    /\ cpc' = AfterBegin(Filling)
    /\ BroadcastWork
    /\ UNCHANGED <<stop, record, loaded, wjob, cur, live, size, computed>>

WaitSpace ==
    /\ cpc = "submit"
    /\ ~HasRoom(Batch)
    /\ cpc' = "waitSpace"
    /\ UNCHANGED <<queue, stop, record, loaded, wpc, wjob, clientVars>>

(* expert_batch_next_ready and expert_batch_wait_one: consume a read that   *)
(* is done; a short one ends the process.                                   *)
Compute(j) ==
    /\ cpc = "compute"
    /\ j \in Group(cur) \ computed
    /\ record[j].done
    /\ IF record[j].ok
       THEN computed' = computed \cup {j} /\ UNCHANGED cpc
       ELSE cpc' = "failed" /\ UNCHANGED computed
    /\ UNCHANGED <<queue, stop, record, loaded, wpc, wjob, cur, live, size, sent>>

WaitDone ==
    /\ cpc = "compute"
    /\ Group(cur) \ computed # {}
    /\ \A j \in Group(cur) \ computed : ~record[j].done
    /\ cpc' = "waitDone"
    /\ UNCHANGED <<queue, stop, record, loaded, wpc, wjob, clientVars>>

(* Mutant: the group ends before all of its reads were waited for. *)
AllConsumedEarly == TRUE

AllConsumed == Group(cur) \subseteq computed

(* expert_batch_finish, and the exchange of the two buffers. *)
FinishGroup ==
    /\ cpc = "compute"
    /\ AllConsumed
    /\ live' = live \ {cur}
    /\ size' = [size EXCEPT ![cur] = 0]
    /\ computed' = {}
    /\ IF Other(cur) \in live
       THEN cur' = Other(cur) /\ cpc' = "next"
       ELSE cur' = 0 /\ cpc' = "idle"
    /\ UNCHANGED <<queue, stop, record, loaded, wpc, wjob, sent>>

(* Mutant: one worker is told to stop, not all. *)
CloseWithSignal ==
    /\ cpc = "idle"
    /\ stop' = TRUE
    /\ SignalWork(wpc)
    /\ cpc' = "joining"
    /\ UNCHANGED <<queue, record, loaded, wjob, clientVars>>

(* expert_pool_close, up to the joins. *)
Close ==
    /\ cpc = "idle"
    /\ stop' = TRUE
    /\ BroadcastWork
    /\ cpc' = "joining"
    /\ UNCHANGED <<queue, record, loaded, wjob, clientVars>>

Joined ==
    /\ cpc = "joining"
    /\ \A w \in Workers : wpc[w] = "exited"
    /\ cpc' = "closed"
    /\ UNCHANGED <<queue, stop, record, loaded, wpc, wjob, clientVars>>

ClientProgress ==
    \/ NoNext \/ Submit \/ SubmitMany \/ WaitSpace
    \/ (\E j \in Job : Compute(j)) \/ WaitDone \/ FinishGroup \/ Joined

-------------------------------------------------------------------------------
(* POSIX lets a condition wait return without a signal. *)
SpuriousWake ==
    \/ /\ \E w \in Workers : wpc[w] = "waiting" /\ wpc' = [wpc EXCEPT ![w] = "ready"]
       /\ UNCHANGED <<queue, stop, record, loaded, wjob, cpc, clientVars>>
    \/ /\ cpc \in {"waitSpace", "waitDone"}
       /\ BroadcastState
       /\ UNCHANGED <<queue, stop, record, loaded, wpc, wjob, clientVars>>

Over == cpc \in {"closed", "failed"}
Finished == Over /\ UNCHANGED vars

Next ==
    \/ /\ ~Over
       /\ \/ \E w \in Workers : WorkerStep(w)
          \/ BeginFirst \/ BeginNext \/ ClientProgress \/ Close
          \/ SpuriousWake
    \/ Finished

(* The operating system runs every thread that can run, and every read      *)
(* returns; whether another group is begun or the pool closed is up to the  *)
(* caller.                                                                  *)
Fairness ==
    /\ \A w \in Workers : WF_vars(~Over /\ WorkerStep(w))
    /\ WF_vars(ClientProgress)

SafetySpec == Init /\ [][Next]_vars
Spec == SafetySpec /\ Fairness

-------------------------------------------------------------------------------
(* Properties *)

(* The circular array never holds more jobs than it has room for, though a  *)
(* worker puts a job back without looking at the count.  The test before a  *)
(* group is submitted keeps no room for the jobs in the workers' hands:     *)
(* what does is that a group's records are free only when each of its reads *)
(* was waited for, so that the jobs of two groups at most are anywhere.     *)
QueueFits == Len(queue) <= QueueCap

(* Nothing is twice in the queue, in two workers' hands or in both. *)
OnePlace ==
    /\ IsInjective(queue)
    /\ \A v, w \in Workers :
          wpc[v] \in Holding /\ wpc[w] \in Holding /\ wjob[v] = wjob[w] => v = w
    /\ Queued \cap Held = {}

Submitted(j) ==
    /\ j[1] \in live
    /\ j[2] <= IF cpc \in {"submit", "waitSpace"} /\ j[1] = Filling
               THEN sent ELSE size[j[1]]

(* A job that was submitted and is not done is in exactly one place, the    *)
(* queue or one worker's hands, and no other job is anywhere: no read is    *)
(* lost, run twice or left to write into a record that was reused.          *)
JobsConserved ==
    /\ OnePlace
    /\ InFlight = {j \in Job : Submitted(j) /\ ~record[j].done}

(* A job reported as read has both its parts in the slot. *)
DoneMeansLoaded ==
    \A j \in Job : record[j].done => (record[j].ok <=> loaded[j] = Part)

(* Work conservation: a worker sleeps only while every queued job has an    *)
(* awake worker on its way to take it, so no signal is sent too few.        *)
NoIdleReader ==
    (\E w \in Workers : wpc[w] = "waiting") =>
        Cardinality({w \in Workers : wpc[w] = "ready"}) >= Len(queue)

(* Every group that is begun is consumed and its records freed, or the      *)
(* process gave up over a short read: no lost wakeup leaves the inference   *)
(* thread waiting for a read that is done.                                  *)
GroupsComplete == \A b \in Buffer : b \in live ~> (b \notin live \/ cpc = "failed")

(* Closing the pool ends: every worker sees stop and exits. *)
CloseTerminates == stop ~> cpc = "closed"

(* What the inference thread can learn of each read, and of the pool.       *)
ReadStatus == [j \in Job |->
    IF record[j].done THEN IF record[j].ok THEN "ok" ELSE "short"
    ELSE IF j \in InFlight THEN "reading" ELSE "idle"]
ServiceMode == IF cpc = "failed" THEN "aborted" ELSE IF stop THEN "closed" ELSE "open"

(* The pool and its client are a read service. *)
Service == INSTANCE ReadService WITH status <- ReadStatus, mode <- ServiceMode

ImplementsService == Service!Spec
ImplementsServiceSafety == Service!SafetySpec
===============================================================================
