-------------------------------- MODULE IoRing --------------------------------
(***************************************************************************)
(* Expert reads through an io_uring ring (DSV4IoRing) instead of the pool, *)
(* and the inference thread running the double-buffered loop of            *)
(* moe_forward_batch over it.  There is no lock and no other reader of the *)
(* ring: the thread that waits for one group reaps, in whatever order the  *)
(* kernel posts them, the completions of both groups.                      *)
(*                                                                         *)
(* A read is a part of a job: the scales, then the weights, of an expert.  *)
(* The submission queue holds what was written and not yet entered; one    *)
(* io_uring_enter hands the kernel the oldest entry, which after a failed  *)
(* call is not the one just written.  An entry carries the address of its  *)
(* record and that of a slot, and outlives them when a thread reads the    *)
(* job instead: it is told from a later read of the same record by the     *)
(* ordinal of the group it was written for, which the program cannot see.  *)
(* (The records are on the stack of a call; those of a later call lie      *)
(* where those of an earlier one did.)                                     *)
(*                                                                         *)
(* Nobody but the thread that reaps looks at the completion queue, so a    *)
(* completion posted and not reaped is not told apart from a read under    *)
(* way: the kernel's part of a read, its result and its reaping are one    *)
(* step.  A job that cannot be put on the ring is read by a thread of its  *)
(* own, or by the caller when none can be made; the end of that read is    *)
(* likewise one step with its being waited for.                            *)
(***************************************************************************)
EXTENDS Integers, Sequences, FiniteSets, Functions

CONSTANTS MaxTopk,      \* DSV4_MAX_TOPK, the largest group of experts
          SqEntries,    \* entries of the submission queue, 64 in the code
          EnterFails,   \* the parts whose io_uring_enter may fail
          WaitFails,    \* the io_uring_enter that waits may fail
          MaxGroups     \* bound: groups begun

Part == {"scales", "weights"}
Buffer == {0, 1}                        \* batches[2]
Job == Buffer \X (1..MaxTopk)           \* batches[b].job[i]
Read == Job \X Part \X (1..MaxGroups)   \* job.ring_read[phase], for one group

ASSUME MaxTopkAssumption == MaxTopk \in Nat \ {0}
ASSUME SqEntriesAssumption == SqEntries \in Nat \ {0}
ASSUME FaultsAssumption == EnterFails \subseteq Part /\ WaitFails \in BOOLEAN
ASSUME MaxGroupsAssumption == MaxGroups \in Nat

VARIABLES
    sq,         \* the entries written and not entered, oldest first
    inKernel,   \* the reads the kernel has accepted and nobody has reaped
    record,     \* ring_pending, ring_failed, ok and done of every job, who
                \* reads it (ringed, started), the ring_reads that name it
    loaded,     \* the parts of the expert its slot has received
    cpc,        \* where the inference thread is
    cur,        \* the buffer it consumes, or is about to
    live,       \* the buffers holding a group that was begun
    ordinal,    \* which of the groups begun each buffer holds, or held last
    size,       \* the number of misses of the group in each buffer
    sent,       \* how many jobs of the group being begun it has submitted
    joined,     \* the jobs of the current group it has waited for
    computed,   \* the experts of the current group it has evaluated
    disturbed,  \* history: the jobs of the groups begun that a read of an
                \* earlier group was counted for, or whose slot it wrote
    abandoned   \* history: an entry was left to the ring, its job to a thread

ringVars == <<sq, inKernel>>
clientVars == <<cur, live, ordinal, size, sent, joined, computed>>
historyVars == <<disturbed, abandoned>>
vars == <<ringVars, record, loaded, cpc, clientVars, historyVars>>

ClientState == {"idle", "next", "submit", "compute", "drain", "closed",
                "short", "lost"}
Record == [pending : {n \in Int : n <= 2}, failed : BOOLEAN, ok : BOOLEAN,
           done : BOOLEAN, by : {"none", "ring", "thread"}, owner : SUBSET Part]

Other(b) == 1 - b
Group(b) == {j \in Job : j[1] = b /\ j[2] <= size[b]}
First(S) == CHOOSE j \in S : \A i \in S : j[2] <= i[2]

TypeOK ==
    /\ sq \in Seq(Read)
    /\ Len(sq) <= SqEntries
    /\ inKernel \subseteq Read
    /\ record \in [Job -> Record]
    /\ loaded \in [Job -> SUBSET Part]
    /\ cpc \in ClientState
    /\ cur \in Buffer
    /\ live \subseteq Buffer
    /\ ordinal \in [Buffer -> 0..MaxGroups]
    /\ size \in [Buffer -> 0..MaxTopk]
    /\ sent \in 0..MaxTopk
    /\ joined \subseteq Job
    /\ computed \subseteq Job
    /\ disturbed \subseteq Job
    /\ abandoned \in BOOLEAN

FreshRecord == [pending |-> 0, failed |-> FALSE, ok |-> FALSE,
                done |-> FALSE, by |-> "none", owner |-> {}]

Init ==
    /\ sq = <<>> /\ inKernel = {}
    /\ record = [j \in Job |-> FreshRecord]
    /\ loaded = [j \in Job |-> {}]
    /\ cpc = "idle"
    /\ cur = 0
    /\ live = {}
    /\ ordinal = [b \in Buffer |-> 0]
    /\ size = [b \in Buffer |-> 0]
    /\ sent = 0
    /\ joined = {} /\ computed = {}
    /\ disturbed = {} /\ abandoned = FALSE

-------------------------------------------------------------------------------
(* Beginning a group: expert_batch_begin_pinned.                            *)

Cleared(f, b, v) == [j \in Job |-> IF j[1] = b THEN v ELSE f[j]]

Begun == IF ordinal[0] < ordinal[1] THEN ordinal[1] ELSE ordinal[0]

Begin(b, n) ==
    /\ Begun < MaxGroups
    /\ ordinal' = [ordinal EXCEPT ![b] = Begun + 1]
    /\ record' = Cleared(record, b, FreshRecord)
    /\ loaded' = Cleared(loaded, b, {})
    /\ disturbed' = {j \in disturbed : j[1] # b}
    /\ size' = [size EXCEPT ![b] = n]
    /\ live' = live \cup {b}
    /\ sent' = 0
    /\ cpc' = "submit"
    /\ UNCHANGED <<ringVars, cur, joined, computed, abandoned>>

BeginFirst == cpc = "idle" /\ \E n \in 1..MaxTopk : Begin(cur, n)

(* Mutant: the next group takes the records of the group under way. *)
BeginNextInPlace ==
    cpc = "next" /\ live = {cur} /\ \E n \in 1..MaxTopk : Begin(cur, n)

BeginNext ==
    cpc = "next" /\ live = {cur} /\ \E n \in 1..MaxTopk : Begin(Other(cur), n)

NoNext ==
    /\ cpc = "next"
    /\ cpc' = "compute"
    /\ UNCHANGED <<ringVars, record, loaded, clientVars, historyVars>>

(* The buffer being filled: the first group of a call, or the next one. *)
Filling == IF live = {cur} THEN cur ELSE Other(cur)
Current == <<Filling, sent + 1>>
NewRead(p) == <<Current, p, ordinal[Filling]>>

AfterSubmit ==
    /\ sent' = sent + 1
    /\ cpc' = IF sent + 1 < size[Filling] THEN "submit"
              ELSE IF live = {cur} THEN "next" ELSE "compute"
    /\ UNCHANGED <<loaded, cur, live, ordinal, size, joined, computed, disturbed>>

Room(q) == Len(q) < SqEntries

(* Entry r is written into the queue q with the reads k in the kernel, and  *)
(* io_uring_enter takes the oldest entry or fails.                          *)
Entered(q, k, r) == [sq |-> Tail(Append(q, r)), inKernel |-> k \cup {Head(Append(q, r))}]
NotEntered(q, k, r) == [sq |-> Append(q, r), inKernel |-> k]

Ring(s) == sq' = s.sq /\ inKernel' = s.inKernel

(* Both parts are on the ring.  When there was room for the first there is  *)
(* for the second: an entry was taken out for the one written.              *)
SubmitBoth ==
    /\ cpc = "submit" /\ Room(sq)
    /\ LET s == Entered(sq, inKernel, NewRead("scales"))
       IN Ring(Entered(s.sq, s.inKernel, NewRead("weights")))
    /\ record' = [record EXCEPT ![Current] =
                      [@ EXCEPT !.by = "ring", !.owner = Part, !.pending = 2]]
    /\ AfterSubmit
    /\ UNCHANGED abandoned

(* Mutant: the job is not marked as failed. *)
SubmitScalesUnmarked ==
    /\ cpc = "submit" /\ Room(sq)
    /\ "weights" \in EnterFails
    /\ LET s == Entered(sq, inKernel, NewRead("scales"))
       IN Ring(NotEntered(s.sq, s.inKernel, NewRead("weights")))
    /\ record' = [record EXCEPT ![Current] =
                      [@ EXCEPT !.by = "ring", !.owner = Part, !.pending = 1]]
    /\ AfterSubmit
    /\ UNCHANGED abandoned

(* The scales are on the ring and the weights are not: their entry was      *)
(* written and could not be entered.                                        *)
SubmitScalesOnly ==
    /\ cpc = "submit" /\ Room(sq)
    /\ "weights" \in EnterFails
    /\ LET s == Entered(sq, inKernel, NewRead("scales"))
       IN Ring(NotEntered(s.sq, s.inKernel, NewRead("weights")))
    /\ record' = [record EXCEPT ![Current] =
                      [@ EXCEPT !.by = "ring", !.owner = Part, !.pending = 1,
                                !.failed = TRUE]]
    /\ AfterSubmit
    /\ UNCHANGED abandoned

(* A thread, or the caller, reads the job: its shard has no direct file     *)
(* descriptor, or the queue is full, or the scales' entry could not be      *)
(* entered.  That entry stays written, and a later call enters it.          *)
SubmitThread ==
    /\ cpc = "submit"
    /\ \E owner \in {{}, {"scales"}} :
          /\ \/ owner = {} /\ UNCHANGED <<ringVars, abandoned>>
             \/ owner # {} /\ ~Room(sq) /\ UNCHANGED <<ringVars, abandoned>>
             \/ /\ owner # {} /\ Room(sq) /\ "scales" \in EnterFails
                /\ Ring(NotEntered(sq, inKernel, NewRead("scales")))
                /\ abandoned' = TRUE
          /\ record' = [record EXCEPT ![Current] =
                            [@ EXCEPT !.by = "thread", !.owner = owner]]
    /\ AfterSubmit

-------------------------------------------------------------------------------
(* Consuming a group: expert_batch_next_ready, expert_batch_wait_one and    *)
(* expert_ring_reap_one.                                                    *)

Left == Group(cur) \ joined
OnRing(S) == {j \in S : record[j].by = "ring"}
Done(S) == {j \in S : record[j].done}

(* Mutant: a completion of the other group is thrown away. *)
ReapedOwn(j, full) ==
    LET failed == record[j].failed \/ ~full
        last == record[j].pending = 1
    IN IF j[1] # cur THEN record[j]
       ELSE [record[j] EXCEPT !.pending = @ - 1, !.failed = failed,
                              !.done = @ \/ last, !.ok = IF last THEN ~failed ELSE @]

(* What the completion of one of its parts makes of a job's record. *)
Reaped(j, full) ==
    LET failed == record[j].failed \/ ~full
        last == record[j].pending = 1
    IN [record[j] EXCEPT !.pending = @ - 1, !.failed = failed,
                         !.done = @ \/ last, !.ok = IF last THEN ~failed ELSE @]

(* The jobs it is blocked on: any of the group, or the next to be joined. *)
Awaited == IF cpc = "compute" THEN OnRing(Left)
           ELSE IF cpc = "drain" /\ Left # {} THEN OnRing({First(Left)}) ELSE {}

Waiting == Awaited # {} /\ Done(Awaited) = {}

(* The read of a group that is over. *)
Old(r) == r[1][1] \notin live \/ r[3] # ordinal[r[1][1]]

(* A completion, of this group or of the other: the part is in its slot, or *)
(* was read short.  An old read is counted for what its record is used for  *)
(* now; what it is counted for when no group uses it is never looked at.    *)
Reap ==
    /\ Waiting
    /\ \E r \in inKernel, full \in BOOLEAN :
          /\ r[1][1] \in live => r[2] \in record[r[1]].owner
          /\ inKernel' = inKernel \ {r}
          /\ record' = IF r[1][1] \in live
                       THEN [record EXCEPT ![r[1]] = Reaped(r[1], full)] ELSE record
          /\ loaded' = IF full /\ ~Old(r)
                       THEN [loaded EXCEPT ![r[1]] = @ \cup {r[2]}] ELSE loaded
          /\ disturbed' = IF Old(r) /\ r[1][1] \in live
                          THEN disturbed \cup {r[1]} ELSE disturbed
    /\ UNCHANGED <<sq, cpc, clientVars, abandoned>>

(* The slot of an old read may be that of a job of any group begun since    *)
(* its own was over; the group begun beside its own has slots of its own.   *)
MayShareSlot(r, j) ==
    /\ j[1] \in live
    /\ IF j[1] = r[1][1] THEN r[3] < ordinal[j[1]] ELSE r[3] + 1 < ordinal[j[1]]

(* The kernel carries out an old read over what another job has read. *)
LateWrite ==
    /\ \E r \in inKernel, j \in Job :
          /\ Old(r) /\ MayShareSlot(r, j)
          /\ r[2] \in loaded[j]
          /\ loaded' = [loaded EXCEPT ![j] = @ \ {r[2]}]
          /\ disturbed' = disturbed \cup {j}
    /\ UNCHANGED <<ringVars, record, cpc, clientVars, abandoned>>

(* pthread_join: the thread's read is over, with both parts or short.       *)
Join ==
    /\ Left # {}
    /\ cpc = "compute" => OnRing(Left) = {}
    /\ cpc \in {"compute", "drain"}
    /\ LET j == First(Left) IN
       /\ record[j].by = "thread" /\ ~record[j].done
       /\ \E full \in BOOLEAN :
             /\ loaded' = [loaded EXCEPT ![j] = IF full THEN Part ELSE {}]
             /\ record' = [record EXCEPT ![j].done = TRUE, ![j].ok = full]
    /\ UNCHANGED <<ringVars, cpc, clientVars, historyVars>>

(* The wait fails: the evaluation loop is left, and expert_batch_finish     *)
(* waits for each of the remaining jobs; a second failure ends the process. *)
GiveUpWait == cpc' = IF cpc = "compute" THEN "drain" ELSE "lost"

WaitFailed ==
    /\ WaitFails /\ Waiting
    /\ GiveUpWait
    /\ UNCHANGED <<ringVars, record, loaded, clientVars, historyVars>>

(* A completion whose record was cleared and names no job is a failed wait. *)
ReapOwnerless ==
    /\ Waiting
    /\ \E r \in inKernel :
          /\ r[1][1] \in live => r[2] \notin record[r[1]].owner
          /\ inKernel' = inKernel \ {r}
    /\ GiveUpWait
    /\ UNCHANGED <<sq, record, loaded, clientVars, historyVars>>

(* The job next_ready returns: one that is done on the ring, and only when  *)
(* none is on the ring the first of the others.                             *)
NextReady(j) ==
    LET ready == IF OnRing(Left) # {} THEN Done(OnRing(Left)) ELSE Left
    IN ready # {} /\ j = First(ready)

(* An expert is evaluated once its reads are done and complete. *)
Compute ==
    /\ cpc = "compute"
    /\ \E j \in Left :
          /\ NextReady(j)
          /\ record[j].done
          /\ IF record[j].ok
             THEN /\ joined' = joined \cup {j}
                  /\ computed' = computed \cup {j}
                  /\ UNCHANGED cpc
             ELSE cpc' = "short" /\ UNCHANGED <<joined, computed>>
    /\ UNCHANGED <<ringVars, record, loaded, cur, live, ordinal, size, sent, historyVars>>

(* expert_batch_finish after a failed wait: the jobs in order, evaluated    *)
(* or not.                                                                  *)
Drain ==
    /\ cpc = "drain" /\ Left # {}
    /\ LET j == First(Left) IN
       /\ record[j].done
       /\ IF record[j].ok THEN joined' = joined \cup {j} /\ UNCHANGED cpc
          ELSE cpc' = "short" /\ UNCHANGED joined
    /\ UNCHANGED <<ringVars, record, loaded, cur, live, ordinal, size, sent, computed,
                   historyVars>>

(* The experts are published, and the buffers change places.  Nothing looks *)
(* at the records of the group again: what memset does to them when they    *)
(* are reused is done here already, which leaves fewer states to tell apart. *)
FinishGroup ==
    /\ cpc \in {"compute", "drain"}
    /\ Left = {}
    /\ live' = live \ {cur}
    /\ size' = [size EXCEPT ![cur] = 0]
    /\ joined' = {} /\ computed' = {}
    /\ IF Other(cur) \in live
       THEN cur' = Other(cur) /\ cpc' = "next"
       ELSE cur' = 0 /\ cpc' = "idle"
    /\ record' = Cleared(record, cur, FreshRecord)
    /\ loaded' = Cleared(loaded, cur, {})
    /\ disturbed' = {j \in disturbed : j[1] # cur}
    /\ UNCHANGED <<ringVars, ordinal, sent, abandoned>>

(* expert_ring_close, when the model is closed. *)
Close ==
    /\ cpc = "idle"
    /\ cpc' = "closed"
    /\ UNCHANGED <<ringVars, record, loaded, clientVars, historyVars>>

-------------------------------------------------------------------------------
Over == cpc \in {"closed", "short", "lost"}

ClientProgress ==
    \/ NoNext \/ SubmitBoth \/ SubmitScalesOnly \/ SubmitThread
    \/ Reap \/ ReapOwnerless \/ Join \/ Compute \/ Drain \/ FinishGroup

Next ==
    \/ /\ ~Over
       /\ \/ BeginFirst \/ BeginNext \/ ClientProgress \/ LateWrite \/ WaitFailed \/ Close
    \/ Over /\ UNCHANGED vars

(* Every read returns and the thread runs; whether another group is begun   *)
(* or the model closed is up to the caller, and no wait needs to fail.      *)
Fairness == WF_vars(ClientProgress)

SafetySpec == Init /\ [][Next]_vars
Spec == SafetySpec /\ Fairness

-------------------------------------------------------------------------------
(* Properties *)

InFlight == Range(sq) \cup inKernel

(* The parts of a job of a group under way that the ring has yet to read. *)
PendingParts(j) ==
    {p \in Part : j[1] \in live /\ <<j, p, ordinal[j[1]]>> \in InFlight}

(* The records tell the truth, whichever part of whichever group completes  *)
(* first and whichever calls fail.  A job reported as read has both its     *)
(* parts in its slot: a part that could not be submitted, was read short or *)
(* is still under way never passes for read.  A job with no failure so far  *)
(* waits for exactly the parts not yet reaped, and none is left when it is  *)
(* reported as read.  The exceptions are the jobs that a read of an earlier *)
(* group was counted for or wrote into; and there is no such job, nor a     *)
(* read left of a group that is over, unless the ring was left an entry of  *)
(* a job that a thread then read.                                           *)
RecordsTrue ==
    /\ TypeOK
    /\ \A j \in Job \ disturbed :
          /\ record[j].done /\ record[j].ok => loaded[j] = Part
          /\ record[j].by = "ring" /\ ~record[j].failed
                => record[j].pending = Cardinality(PendingParts(j))
          /\ record[j].by = "ring" /\ record[j].ok => PendingParts(j) = {}
    /\ ~abandoned => disturbed = {} /\ \A r \in InFlight : ~Old(r)

(* The wait for a completion when the kernel has nothing to complete. *)
Hung == Waiting /\ inKernel = {}

(* Every group that is begun is consumed, or the process ends over a short  *)
(* read or a wait that fails twice: the entry a failed call left in the     *)
(* queue delays no read for ever, unless it is that of a job which a thread *)
(* then read, behind which the last entry written is never entered.         *)
GroupsComplete ==
    \A b \in Buffer :
       b \in live ~> b \notin live \/ cpc \in {"short", "lost"} \/ (abandoned /\ Hung)

(* "Dispatch each miss when its read completes" (OPTIMIZATIONS.md:54): an   *)
(* expert is evaluated only with both its parts in its slot.                *)
DispatchedWhenRead == [][\A j \in computed' \ computed : loaded[j] = Part]_vars

(* What the inference thread can learn of each read.  A failed wait ends    *)
(* the process with reads under way, which the service knows nothing of:    *)
(* for it they stay under way.                                              *)
ReadStatus == [j \in Job |->
    IF record[j].done THEN IF record[j].ok THEN "ok" ELSE "short"
    ELSE IF record[j].by = "none" THEN "idle" ELSE "reading"]
ServiceMode == CASE cpc = "short" -> "aborted"
                 [] cpc = "closed" -> "closed"
                 [] OTHER -> "open"

(* The ring and its fallback threads are the same service to the caller as  *)
(* the pool.                                                                *)
Service == INSTANCE ReadService WITH status <- ReadStatus, mode <- ServiceMode

ImplementsServiceSafety == Service!SafetySpec
===============================================================================
