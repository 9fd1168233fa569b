--------------------------- MODULE ExpertPoolProofs ---------------------------
(***************************************************************************)
(* Proofs about ExpertPool, for any number of workers, any group size and  *)
(* either kind of reads: its invariants, through one inductive invariant.  *)
(***************************************************************************)
EXTENDS ExpertPool, CommonLemmas

-------------------------------------------------------------------------------
(* The length of a queue. *)

(* A queue without repetition has no more entries than there are jobs. *)
LEMMA QueueBound ==
    ASSUME NEW q \in Seq(Job), IsInjective(q)
    PROVE  Len(q) <= 2 * MaxTopk
<1>1. IsFiniteSet(Buffer) /\ Cardinality(Buffer) = 2
  <2>1. Buffer = 0..1
    BY DEF Buffer
  <2>2. 0 \in Int /\ 1 \in Int
    OBVIOUS
  <2>3. IsFiniteSet(0..1) /\ Cardinality(0..1) = IF 0 > 1 THEN 0 ELSE 1 - 0 + 1
    BY <2>2, FS_Interval, Zenon
  <2> QED  BY <2>1, <2>3
<1>2. IsFiniteSet(1..MaxTopk) /\ Cardinality(1..MaxTopk) = MaxTopk
  BY MaxTopkAssumption, UpTo
<1>3. IsFiniteSet(Job) /\ Cardinality(Job) = 2 * MaxTopk
  <2> DEFINE p == Buffer \X (1..MaxTopk)
  <2>1. IsFiniteSet(p) /\ Cardinality(p) = Cardinality(Buffer) * Cardinality(1..MaxTopk)
    BY <1>1, <1>2, FS_Product, Zenon
  <2>2. Cardinality(p) = 2 * MaxTopk
    BY <2>1, <1>1, <1>2
  <2> QED  BY <2>1, <2>2, Zenon DEF Job
<1>4. Len(q) \in Nat /\ DOMAIN q = 1..Len(q) /\ q \in [1..Len(q) -> Job]
  BY LenProperties
<1>5. IsFiniteSet(1..Len(q)) /\ Cardinality(1..Len(q)) = Len(q)
  BY <1>4, UpTo
<1>6. q \in Injection(1..Len(q), Job)
  BY <1>4 DEF Injection, IsInjective
<1>7. Cardinality(1..Len(q)) <= Cardinality(Job)
  BY <1>3, <1>6, FS_Injection
<1> QED  BY <1>3, <1>5, <1>7

-------------------------------------------------------------------------------
(* The inductive invariant. *)

Submitting == cpc \in {"submit", "waitSpace"}

(* What the inference thread knows of its two buffers. *)
ClientInv ==
    /\ cpc \in {"idle", "joining", "closed"} => live = {}
    /\ cpc = "next" => live = {cur}
    /\ Submitting \/ cpc \in {"compute", "waitDone"} => cur \in live
    /\ Submitting => sent < size[Filling] /\ (Phased => sent = 0)
    /\ Submitting => \A j \in Job : j[1] = Filling /\ j[2] > sent =>
                         record[j] = FreshRecord /\ loaded[j] = {}
    /\ Submitting \/ cpc \in {"idle", "next", "joining", "closed"} => computed = {}
    /\ \A j \in computed : record[j].done
    /\ stop => cpc \in {"joining", "closed"}

(* How far the read of a job has come, by where the job is.                *)
Progress(j) == loaded[j] = IF record[j].phase = 1 THEN {"scales"} ELSE {}
ReadInv ==
    /\ ~Phased => \A j \in Job : record[j].phase = 0
    /\ \A j \in Queued : Progress(j)
    /\ \A w \in Workers :
          /\ wpc[w] \in {"reading", "requeueing"} => Progress(wjob[w])
          /\ wpc[w] = "requeueing" => Phased
          /\ wpc[w] = "finishing" =>
                (record[wjob[w]].ok <=> loaded[wjob[w]] = Part)
    /\ DoneMeansLoaded

IInv ==
    /\ TypeOK
    /\ JobsConserved
    /\ ClientInv
    /\ ReadInv
    /\ ~Phased => QueueFits

LEMMA InitIInv == Init => IInv
<1> SUFFICES ASSUME Init  PROVE IInv
  OBVIOUS
<1> USE DEF Init
<1>1. queue \in Seq(Job) /\ Queued = {} /\ IsInjective(queue) /\ Len(queue) = 0
  BY DEF Queued, Range, IsInjective
<1>2. TypeOK
  <2>1. record \in [Job -> Record]
    BY DEF Record, FreshRecord
  <2>2. /\ loaded \in [Job -> SUBSET Part]
        /\ wpc \in [Workers -> WorkerState] /\ wjob \in [Workers -> Job \cup {NoJob}]
    BY DEF WorkerState
  <2>3. size \in [Buffer -> 0..MaxTopk] /\ sent \in 0..MaxTopk /\ cur \in Buffer
    BY MaxTopkAssumption DEF Buffer
  <2> QED  BY <1>1, <2>1, <2>2, <2>3 DEF TypeOK, ClientState
<1>3. Held = {}
  BY DEF Held, Holding
<1>4. JobsConserved
  BY <1>1, <1>3 DEF JobsConserved, OnePlace, InFlight, Submitted, Holding
<1>5. ClientInv
  BY DEF ClientInv, Submitting
<1>6. ReadInv
  BY <1>1 DEF ReadInv, DoneMeansLoaded, FreshRecord
<1>7. QueueFits
  BY <1>1, QueueCapAssumption DEF QueueFits
<1> QED  BY <1>2, <1>4, <1>5, <1>6, <1>7 DEF IInv

-------------------------------------------------------------------------------
(* Who holds what after a step of one worker or of none. *)

SameHands(pcs) == \A v \in Workers :
    wpc'[v] = pcs[v] \/ (wpc'[v] \notin Holding /\ pcs[v] \notin Holding)

LEMMA SignalWorkHands ==
    ASSUME NEW pcs \in [Workers -> WorkerState], SignalWork(pcs)
    PROVE  wpc' \in [Workers -> WorkerState] /\ SameHands(pcs)
BY DEF SignalWork, SameHands, WorkerState, Holding

LEMMA BroadcastWorkHands ==
    ASSUME TypeOK, BroadcastWork
    PROVE  wpc' \in [Workers -> WorkerState] /\ SameHands(wpc)
BY DEF TypeOK, BroadcastWork, SameHands, WorkerState, Holding

(* The inference thread is where it was, give or take a wait. *)
SameClient ==
    /\ Submitting' <=> Submitting
    /\ cpc' \in {"compute", "waitDone"} <=> cpc \in {"compute", "waitDone"}
    /\ cpc' \in {"joining", "closed"} <=> cpc \in {"joining", "closed"}
    /\ cpc' = "idle" <=> cpc = "idle"
    /\ cpc' = "next" <=> cpc = "next"

LEMMA BroadcastStateClient ==
    ASSUME TypeOK, BroadcastState
    PROVE  cpc' \in ClientState /\ SameClient
BY DEF TypeOK, BroadcastState, ClientState, Submitting, SameClient

LEMMA HeldKept ==
    ASSUME SameHands(wpc), wjob' = wjob
    PROVE  Held' = Held
BY DEF SameHands, Held, Holding

LEMMA HeldTaken ==
    ASSUME TypeOK, NEW w \in Workers, wpc[w] \notin Holding, NEW p \in Holding, NEW j,
           wpc' = [wpc EXCEPT ![w] = p], wjob' = [wjob EXCEPT ![w] = j]
    PROVE  Held' = Held \cup {j}
<1>1. /\ wpc'[w] = p /\ wjob'[w] = j
      /\ \A v \in Workers \ {w} : wpc'[v] = wpc[v] /\ wjob'[v] = wjob[v]
  BY DEF TypeOK
<1> QED  BY <1>1 DEF Held

LEMMA HeldReleased ==
    ASSUME TypeOK, OnePlace, NEW w \in Workers, wpc[w] \in Holding,
           SameHands([wpc EXCEPT ![w] = "ready"]), NEW x, wjob' = [wjob EXCEPT ![w] = x]
    PROVE  Held' = Held \ {wjob[w]}
<1>1. /\ wpc'[w] \notin Holding
      /\ \A v \in Workers \ {w} :
            /\ wjob'[v] = wjob[v]
            /\ wpc'[v] \in Holding <=> wpc[v] \in Holding
  BY DEF TypeOK, SameHands, Holding
<1>2. \A v \in Workers \ {w} : wpc[v] \in Holding => wjob[v] # wjob[w]
  BY DEF OnePlace
<1> QED  BY <1>1, <1>2 DEF Held

-------------------------------------------------------------------------------
(* Steps that move no job: the inference thread or a worker only goes from  *)
(* one waiting or running state to another, or a job that is done is        *)
(* consumed.                                                                *)
LEMMA QuietStep ==
    ASSUME IInv,
           UNCHANGED <<queue, record, loaded, wjob, cur, live, size, sent>>,
           computed' \subseteq {j \in Job : record[j].done},
           wpc' \in [Workers -> WorkerState], SameHands(wpc),
           stop' \in BOOLEAN, cpc' \in ClientState, Submitting' <=> Submitting,
           cpc' \in {"idle", "joining", "closed"} => live = {},
           cpc' = "next" => live = {cur},
           cpc' \in {"compute", "waitDone"} => cur \in live,
           Submitting' \/ cpc' \in {"idle", "next", "joining", "closed"} => computed' = {},
           stop' => cpc' \in {"joining", "closed"}
    PROVE  IInv'
<1>1. TypeOK'
  BY DEF IInv, TypeOK
<1>2. Held' = Held /\ Queued' = Queued /\ Filling' = Filling
  BY HeldKept DEF Queued, Filling
<1>3. \A j \in Job : Submitted(j)' <=> Submitted(j)
  BY <1>2 DEF Submitted, Submitting
<1>4. JobsConserved'
  <2>1. OnePlace'
    BY <1>2 DEF IInv, JobsConserved, OnePlace, SameHands
  <2> QED  BY <2>1, <1>2, <1>3 DEF IInv, JobsConserved, InFlight
<1>5. ClientInv'
  BY <1>2 DEF IInv, ClientInv, Submitting
<1>6. ReadInv'
  BY <1>2 DEF IInv, ReadInv, SameHands, Holding, Progress, DoneMeansLoaded
<1> QED  BY <1>1, <1>4, <1>5, <1>6 DEF IInv, QueueFits

-------------------------------------------------------------------------------
(* The steps of a worker that move or change a job. *)

LEMMA HandsAreJobs ==
    ASSUME IInv, NEW w \in Workers, wpc[w] \in Holding
    PROVE  /\ wjob[w] \in Job /\ wjob[w] \in Held
           /\ Submitted(wjob[w]) /\ ~record[wjob[w]].done
           /\ wjob[w] \notin Queued
<1>1. wjob[w] \in Held
  BY DEF Held
<1>2. wjob[w] \in InFlight
  BY <1>1 DEF InFlight
<1> QED  BY <1>1, <1>2 DEF IInv, JobsConserved, OnePlace

LEMMA ReadingJob ==
    ASSUME IInv, NEW w \in Workers, wpc[w] = "reading"
    PROVE  LET j == wjob[w]
           IN  /\ j \in Job /\ record[j] \in Record /\ ~record[j].done
               /\ loaded[j] = IF record[j].phase = 1 THEN {"scales"} ELSE {}
               /\ ~Phased => record[j].phase = 0
<1>1. wjob[w] \in Job /\ ~record[wjob[w]].done
  BY HandsAreJobs DEF Holding
<1>2. record[wjob[w]] \in Record
  BY <1>1 DEF IInv, TypeOK
<1>3. ReadInv
  BY DEF IInv
<1>4. Progress(wjob[w])
  BY <1>3 DEF ReadInv
<1>5. ~Phased => record[wjob[w]].phase = 0
  BY <1>1, <1>3 DEF ReadInv
<1> QED  BY <1>1, <1>2, <1>4, <1>5 DEF Progress

LEMMA DequeueStep ==
    ASSUME IInv, NEW w \in Workers, Dequeue(w)
    PROVE  IInv'
<1> DEFINE j == Head(queue)
<1> USE DEF Dequeue
<1>1. queue \in Seq(Job) /\ queue # <<>> /\ IsInjective(queue)
  BY DEF IInv, TypeOK, JobsConserved, OnePlace
<1>2. /\ j \in Job /\ queue' \in Seq(Job)
      /\ IsInjective(queue')
      /\ Queued = Queued' \cup {j} /\ j \notin Queued'
      /\ Len(queue') <= Len(queue)
  BY <1>1, TailOfInjective DEF Queued
<1>3. /\ wpc' = [wpc EXCEPT ![w] = "reading"] /\ wjob' = [wjob EXCEPT ![w] = j]
      /\ wpc[w] \notin Holding /\ "reading" \in Holding
      /\ UNCHANGED <<stop, record, loaded, cur, live, size, sent, computed>>
  BY DEF Holding, clientVars
<1>4. Held' = Held \cup {j}
  BY <1>3, HeldTaken DEF IInv
<1> HIDE DEF j, Dequeue
<1>5. BroadcastState
  BY DEF Dequeue
<1>6. cpc' \in ClientState /\ SameClient
  BY <1>5, BroadcastStateClient DEF IInv
<1>7. /\ wpc'[w] = "reading" /\ wjob'[w] = j
      /\ \A v \in Workers \ {w} : wpc'[v] = wpc[v] /\ wjob'[v] = wjob[v]
  BY <1>3 DEF IInv, TypeOK
<1>8. TypeOK'
  <2>1. wpc' \in [Workers -> WorkerState] /\ wjob' \in [Workers -> Job \cup {NoJob}]
    BY <1>2, <1>3 DEF IInv, TypeOK, WorkerState
  <2> QED  BY <2>1, <1>2, <1>3, <1>6 DEF IInv, TypeOK
<1>9. Filling' = Filling /\ (\A k \in Job : Submitted(k)' <=> Submitted(k))
  <2>1. Filling' = Filling
    BY <1>3 DEF Filling
  <2> QED  BY <2>1, <1>3, <1>6 DEF SameClient, Submitted, Submitting
<1>10. JobsConserved'
  <2>1. j \notin Held
    BY <1>2 DEF IInv, JobsConserved, OnePlace
  <2>2. \A v \in Workers \ {w} : wpc[v] \in Holding => wjob[v] # j
    BY <2>1 DEF Held
  <2>3. OnePlace'
    BY <1>2, <1>4, <1>7, <2>2 DEF IInv, JobsConserved, OnePlace
  <2>4. InFlight' = InFlight
    BY <1>2, <1>4 DEF InFlight
  <2> QED  BY <2>3, <2>4, <1>3, <1>9 DEF IInv, JobsConserved
<1>11. ClientInv'
  BY <1>3, <1>6, <1>9 DEF IInv, ClientInv, SameClient
<1>12. ReadInv'
  BY <1>2, <1>3, <1>7 DEF IInv, ReadInv, Progress, DoneMeansLoaded
<1>13. Len(queue) \in Nat /\ Len(queue') \in Nat
  BY <1>1, <1>2, LenProperties
<1> QED  BY <1>2, <1>8, <1>10, <1>11, <1>12, <1>13, QueueCapAssumption DEF IInv, QueueFits

(* A read step changes the record of the job in the worker's hands only.    *)
LEMMA ReadStep ==
    ASSUME IInv, NEW w \in Workers, wpc[w] = "reading",
           NEW p \in {"requeueing", "finishing"},
           NEW r \in Record, NEW l \in SUBSET Part,
           wpc' = [wpc EXCEPT ![w] = p],
           record' = [record EXCEPT ![wjob[w]] = r],
           loaded' = [loaded EXCEPT ![wjob[w]] = l],
           UNCHANGED <<queue, stop, wjob, cpc, clientVars>>,
           ~r.done,
           ~Phased => r.phase = 0,
           p = "requeueing" => Phased /\ (l = IF r.phase = 1 THEN {"scales"} ELSE {}),
           p = "finishing" => (r.ok <=> l = Part)
    PROVE  IInv'
<1> DEFINE j == wjob[w]
<1>1. j \in Job /\ Submitted(j) /\ ~record[j].done /\ j \notin Queued
  BY HandsAreJobs DEF Holding
<1> HIDE DEF j
<1>2. /\ wpc'[w] = p
      /\ \A v \in Workers \ {w} : wpc'[v] = wpc[v]
      /\ record'[j] = r /\ loaded'[j] = l
      /\ \A k \in Job \ {j} : record'[k] = record[k] /\ loaded'[k] = loaded[k]
  BY <1>1 DEF IInv, TypeOK, j
<1>3. TypeOK'
  BY DEF IInv, TypeOK, WorkerState, clientVars
<1>4. /\ \A v \in Workers : wpc'[v] \in Holding <=> wpc[v] \in Holding
      /\ UNCHANGED <<queue, stop, wjob, cpc, cur, live, size, sent, computed>>
  BY <1>2 DEF Holding, clientVars
<1>5. Held' = Held /\ Queued' = Queued /\ Filling' = Filling
  BY <1>4 DEF Held, Queued, Filling
<1>6. \A k \in Job : /\ Submitted(k)' <=> Submitted(k)
                     /\ record'[k].done <=> record[k].done
  BY <1>1, <1>2, <1>4, <1>5 DEF Submitted
<1>7. JobsConserved'
  <2>1. OnePlace'
    BY <1>4, <1>5 DEF IInv, JobsConserved, OnePlace
  <2> QED  BY <2>1, <1>5, <1>6 DEF IInv, JobsConserved, InFlight
<1>8. ClientInv'
  <2>1. Submitting => ~(j[1] = Filling /\ j[2] > sent)
    BY <1>1 DEF Submitted, Submitting, IInv, TypeOK, Job
  <2>2. \A k \in computed : record'[k].done
    BY <1>6 DEF IInv, ClientInv, TypeOK
  <2> QED  BY <2>1, <2>2, <1>2, <1>4, <1>5 DEF IInv, ClientInv, Submitting
<1>9. ReadInv'
  <2>1. \A v \in Workers \ {w} : wpc[v] \in Holding => wjob[v] \in Job \ {j}
    BY <1>1, HandsAreJobs DEF IInv, JobsConserved, OnePlace, Holding, j
  <2>2. \A k \in Queued : k \in Job \ {j}
    BY <1>1 DEF IInv, JobsConserved, InFlight
  <2>3. \A k \in Job : ~Phased => record'[k].phase = 0
    BY <1>2 DEF IInv, ReadInv
  <2>4. \A k \in Queued' : Progress(k)'
    BY <2>2, <1>2, <1>5 DEF IInv, ReadInv, Progress
  <2>5. ASSUME NEW v \in Workers
        PROVE  /\ wpc'[v] \in {"reading", "requeueing"} => Progress(wjob[v])'
               /\ wpc'[v] = "requeueing" => Phased
               /\ wpc'[v] = "finishing" =>
                     (record'[wjob'[v]].ok <=> loaded'[wjob'[v]] = Part)
    <3>1. CASE v = w
      BY <3>1, <1>2, <1>4 DEF Progress, j
    <3>2. CASE v # w
      BY <3>2, <2>1, <1>2, <1>4 DEF IInv, ReadInv, Progress, Holding
    <3> QED  BY <3>1, <3>2
  <2>6. DoneMeansLoaded'
    BY <1>1, <1>2, <1>6 DEF IInv, ReadInv, DoneMeansLoaded
  <2> QED  BY <2>3, <2>4, <2>5, <2>6, <1>4 DEF ReadInv, Progress
<1> QED  BY <1>3, <1>4, <1>7, <1>8, <1>9 DEF IInv, QueueFits

LEMMA RequeueStep ==
    ASSUME IInv, NEW w \in Workers, Requeue(w)
    PROVE  IInv'
<1> DEFINE j == wjob[w]
<1>1. j \in Job /\ Submitted(j) /\ ~record[j].done /\ j \notin Queued
  BY HandsAreJobs DEF Requeue, Holding
<1> HIDE DEF j
<1>2. /\ queue' = Append(queue, j) /\ wjob' = [wjob EXCEPT ![w] = NoJob]
      /\ UNCHANGED <<stop, record, loaded, cur, live, size, sent, computed>>
  BY DEF Requeue, clientVars, j
<1>3. wpc' \in [Workers -> WorkerState] /\ SameHands([wpc EXCEPT ![w] = "ready"])
  <2>1. [wpc EXCEPT ![w] = "ready"] \in [Workers -> WorkerState]
    BY DEF IInv, TypeOK, WorkerState
  <2> QED  BY <2>1, SignalWorkHands DEF Requeue
<1>4. /\ wpc[w] = "requeueing" /\ wpc'[w] \notin Holding
      /\ \A v \in Workers \ {w} :
            /\ wjob'[v] = wjob[v]
            /\ wpc'[v] = wpc[v] \/ (wpc'[v] \notin Holding /\ wpc[v] \notin Holding)
  BY <1>2, <1>3 DEF Requeue, IInv, TypeOK, SameHands, Holding
<1>5. cpc' \in ClientState /\ SameClient
  BY BroadcastStateClient DEF IInv, Requeue
<1>6. /\ queue' \in Seq(Job) /\ IsInjective(queue')
      /\ Queued' = Queued \cup {j}
  BY <1>1, <1>2, AppendOfInjective DEF IInv, TypeOK, JobsConserved, OnePlace, Queued
<1>7. Held' = Held \ {j}
  BY <1>2, <1>3, <1>4, HeldReleased DEF IInv, JobsConserved, Holding, j
<1>8. TypeOK'
  <2>1. wjob' \in [Workers -> Job \cup {NoJob}]
    BY <1>2 DEF IInv, TypeOK
  <2> QED  BY <2>1, <1>2, <1>3, <1>5, <1>6 DEF IInv, TypeOK
<1>9. Filling' = Filling /\ (\A k \in Job : Submitted(k)' <=> Submitted(k))
  <2>1. Filling' = Filling
    BY <1>2 DEF Filling
  <2> QED  BY <2>1, <1>2, <1>5 DEF SameClient, Submitted, Submitting
<1>10. JobsConserved'
  <2>1. OnePlace'
    BY <1>4, <1>6, <1>7 DEF IInv, JobsConserved, OnePlace
  <2>2. InFlight' = InFlight
    BY <1>4, <1>6, <1>7 DEF InFlight, Held, Holding, j
  <2> QED  BY <2>1, <2>2, <1>2, <1>9 DEF IInv, JobsConserved
<1>11. ClientInv'
  BY <1>2, <1>5, <1>9 DEF IInv, ClientInv, SameClient
<1>12. ReadInv'
  BY <1>2, <1>4, <1>6 DEF IInv, ReadInv, Progress, DoneMeansLoaded, Holding, j
<1>13. Phased
  BY <1>4 DEF IInv, ReadInv
<1> QED  BY <1>8, <1>10, <1>11, <1>12, <1>13 DEF IInv

LEMMA FinishJobStep ==
    ASSUME IInv, NEW w \in Workers, FinishJob(w)
    PROVE  IInv'
<1> DEFINE j == wjob[w]
<1>1. j \in Job /\ Submitted(j) /\ ~record[j].done /\ j \notin Queued
  BY HandsAreJobs DEF FinishJob, Holding
<1> HIDE DEF j
<1>2. /\ record' = [record EXCEPT ![j].done = TRUE] /\ wjob' = [wjob EXCEPT ![w] = NoJob]
      /\ wpc' = [wpc EXCEPT ![w] = "ready"]
      /\ UNCHANGED <<queue, stop, loaded, cur, live, size, sent, computed>>
  BY DEF FinishJob, clientVars, j
<1>3. wpc' \in [Workers -> WorkerState] /\ SameHands([wpc EXCEPT ![w] = "ready"])
  BY <1>2 DEF IInv, TypeOK, WorkerState, SameHands
<1>4. /\ wpc[w] = "finishing" /\ wpc'[w] \notin Holding
      /\ \A v \in Workers \ {w} : wjob'[v] = wjob[v] /\ wpc'[v] = wpc[v]
      /\ record'[j] = [record[j] EXCEPT !.done = TRUE]
      /\ \A k \in Job \ {j} : record'[k] = record[k]
  BY <1>1, <1>2 DEF FinishJob, IInv, TypeOK, Holding
<1>5. cpc' \in ClientState /\ SameClient
  BY BroadcastStateClient DEF IInv, FinishJob
<1>6. Held' = Held \ {j} /\ Queued' = Queued
  BY <1>2, <1>3, <1>4, HeldReleased DEF IInv, JobsConserved, Holding, j, Queued
<1>7. /\ record'[j] \in Record /\ record'[j].done
      /\ record'[j].phase = record[j].phase /\ record'[j].ok = record[j].ok
  <2>1. record[j] \in Record
    BY <1>1 DEF IInv, TypeOK
  <2> DEFINE r == [record[j] EXCEPT !.done = TRUE]
  <2>2. r \in Record /\ r.done /\ r.phase = record[j].phase /\ r.ok = record[j].ok
    BY <2>1 DEF Record
  <2> QED  BY <2>2, <1>4
<1>8. TypeOK'
  <2>1. wjob' \in [Workers -> Job \cup {NoJob}] /\ record' \in [Job -> Record]
    BY <1>1, <1>2, <1>4, <1>7 DEF IInv, TypeOK
  <2> QED  BY <2>1, <1>2, <1>3, <1>5 DEF IInv, TypeOK
<1>9. Filling' = Filling /\ (\A k \in Job : Submitted(k)' <=> Submitted(k))
  <2>1. Filling' = Filling
    BY <1>2 DEF Filling
  <2> QED  BY <2>1, <1>2, <1>5 DEF SameClient, Submitted, Submitting
<1>10. JobsConserved'
  <2>1. OnePlace'
    BY <1>2, <1>4, <1>6 DEF IInv, JobsConserved, OnePlace
  <2>2. InFlight' = InFlight \ {j}
    BY <1>1, <1>6 DEF InFlight
  <2> QED  BY <2>1, <2>2, <1>1, <1>4, <1>7, <1>9 DEF IInv, JobsConserved
<1>11. ClientInv'
  <2>1. Submitting => ~(j[1] = Filling /\ j[2] > sent)
    BY <1>1 DEF Submitted, Submitting, IInv, TypeOK, Job
  <2>2. \A k \in computed : record'[k].done
    BY <1>4, <1>7 DEF IInv, ClientInv, TypeOK
  <2>3. Submitting => \A k \in Job : k[1] = Filling /\ k[2] > sent =>
                         record'[k] = FreshRecord /\ loaded[k] = {}
    BY <2>1, <1>4 DEF IInv, ClientInv
  <2> QED  BY <2>2, <2>3, <1>2, <1>5, <1>9 DEF IInv, ClientInv, SameClient
<1>12. ReadInv'
  <2>1. \A v \in Workers \ {w} : wpc[v] \in Holding => wjob[v] \in Job \ {j}
    BY <1>1, <1>4, HandsAreJobs DEF IInv, JobsConserved, OnePlace, Holding, j
  <2>2. \A k \in Queued : k \in Job \ {j}
    BY <1>1 DEF IInv, JobsConserved, InFlight
  <2>3. ASSUME NEW k \in Job, ~Phased  PROVE record'[k].phase = 0
    <3>1. record[k].phase = 0
      BY <2>3 DEF IInv, ReadInv
    <3>2. CASE k = j
      BY <3>1, <3>2, <1>7
    <3>3. CASE k # j
      BY <3>1, <3>3, <1>4
    <3> QED  BY <3>2, <3>3
  <2>4. \A k \in Queued' : Progress(k)'
    BY <2>2, <1>2, <1>4, <1>6 DEF IInv, ReadInv, Progress
  <2>5. ASSUME NEW v \in Workers
        PROVE  /\ wpc'[v] \in {"reading", "requeueing"} => Progress(wjob[v])'
               /\ wpc'[v] = "requeueing" => Phased
               /\ wpc'[v] = "finishing" =>
                     (record'[wjob'[v]].ok <=> loaded'[wjob'[v]] = Part)
    <3>1. CASE v = w
      BY <3>1, <1>4 DEF Holding
    <3>2. CASE v # w
      BY <3>2, <2>1, <1>2, <1>4 DEF IInv, ReadInv, Progress, Holding
    <3> QED  BY <3>1, <3>2
  <2>6. DoneMeansLoaded'
    <3>1. record[j].ok <=> loaded[j] = Part
      BY <1>4 DEF IInv, ReadInv, j
    <3> QED  BY <3>1, <1>2, <1>4, <1>7 DEF IInv, ReadInv, DoneMeansLoaded
  <2> QED  BY <2>3, <2>4, <2>5, <2>6 DEF ReadInv, Progress
<1> QED  BY <1>2, <1>8, <1>10, <1>11, <1>12 DEF IInv, QueueFits

LEMMA WorkerKeepsIInv ==
    ASSUME IInv, NEW w \in Workers, WorkerStep(w)
    PROVE  IInv'
<1>1. CASE WorkerWait(w) \/ WorkerExit(w)
  <2>1. wpc' \in [Workers -> WorkerState] /\ SameHands(wpc)
    BY <1>1 DEF WorkerWait, WorkerExit, IInv, TypeOK, WorkerState, SameHands, Holding
  <2>2. UNCHANGED <<queue, stop, record, loaded, wjob, cpc, cur, live, size, sent, computed>>
    BY <1>1 DEF WorkerWait, WorkerExit, clientVars
  <2>3. stop' \in BOOLEAN /\ cpc' \in ClientState /\ (Submitting' <=> Submitting)
    BY <2>2 DEF IInv, TypeOK, Submitting
  <2>4. computed' \subseteq {j \in Job : record[j].done}
    BY <2>2 DEF IInv, TypeOK, ClientInv
  <2> QED  BY <2>1, <2>2, <2>3, <2>4, QuietStep DEF IInv, ClientInv
<1>2. CASE Dequeue(w)
  BY <1>2, DequeueStep
<1>3. CASE ReadScales(w)
  <2> DEFINE j == wjob[w]
  <2>1. /\ j \in Job /\ ~record[j].done /\ record[j] \in Record
        /\ record[j].phase = 0 /\ loaded[j] = {}
    BY <1>3, ReadingJob DEF ReadScales
  <2>2. CASE /\ record' = [record EXCEPT ![j].phase = 1]
             /\ loaded' = [loaded EXCEPT ![j] = @ \cup {"scales"}]
             /\ wpc' = [wpc EXCEPT ![w] = "requeueing"]
    <3> DEFINE r == [record[j] EXCEPT !.phase = 1]
    <3>1. r \in Record /\ ~r.done /\ r.phase = 1
      BY <2>1 DEF Record
    <3>2. record' = [record EXCEPT ![j] = r] /\ loaded' = [loaded EXCEPT ![j] = {"scales"}]
      BY <2>1, <2>2 DEF IInv, TypeOK
    <3>3. {"scales"} \in SUBSET Part
      BY DEF Part
    <3> HIDE DEF r
    <3> QED  BY <3>1, <3>2, <3>3, <2>2, <1>3, ReadStep DEF ReadScales
  <2>3. CASE /\ record' = [record EXCEPT ![j].ok = FALSE]
             /\ wpc' = [wpc EXCEPT ![w] = "finishing"]
             /\ UNCHANGED loaded
    <3> DEFINE r == [record[j] EXCEPT !.ok = FALSE]
    <3>1. r \in Record /\ ~r.done /\ r.phase = 0 /\ ~r.ok
      BY <2>1 DEF Record
    <3>2. record' = [record EXCEPT ![j] = r] /\ loaded' = [loaded EXCEPT ![j] = {}]
      BY <2>1, <2>3 DEF IInv, TypeOK
    <3>3. {} \in SUBSET Part /\ {} # Part
      BY DEF Part
    <3> HIDE DEF r
    <3> QED  BY <3>1, <3>2, <3>3, <2>3, <1>3, ReadStep DEF ReadScales
  <2> QED  BY <2>2, <2>3, <1>3 DEF ReadScales
<1>4. CASE ReadWeights(w)
  <2> DEFINE j == wjob[w]
  <2>1. /\ j \in Job /\ ~record[j].done /\ record[j] \in Record
        /\ record[j].phase = 1 /\ loaded[j] = {"scales"} /\ Phased
    BY <1>4, ReadingJob DEF ReadWeights
  <2>2. PICK ok \in BOOLEAN :
          /\ record' = [record EXCEPT ![j].ok = ok]
          /\ loaded' = [loaded EXCEPT ![j] = IF ok THEN @ \cup {"weights"} ELSE @]
    BY <1>4 DEF ReadWeights
  <2> DEFINE r == [record[j] EXCEPT !.ok = ok]
             l == IF ok THEN Part ELSE {"scales"}
  <2>3. r \in Record /\ ~r.done /\ r.ok = ok
    BY <2>1 DEF Record
  <2>4. record' = [record EXCEPT ![j] = r] /\ loaded' = [loaded EXCEPT ![j] = l]
    BY <2>1, <2>2 DEF IInv, TypeOK, Part
  <2>5. l \in SUBSET Part /\ (ok <=> l = Part)
    BY DEF Part
  <2> HIDE DEF r, l
  <2> QED  BY <2>1, <2>3, <2>4, <2>5, <1>4, ReadStep DEF ReadWeights
<1>5. CASE ReadBoth(w)
  <2> DEFINE j == wjob[w]
  <2>1. /\ j \in Job /\ ~record[j].done /\ record[j] \in Record
        /\ ~Phased /\ record[j].phase = 0 /\ loaded[j] = {}
    BY <1>5, ReadingJob DEF ReadBoth
  <2>2. PICK got \in {{}, {"scales"}, Part} :
          /\ loaded' = [loaded EXCEPT ![j] = @ \cup got]
          /\ record' = [record EXCEPT ![j].ok = (got = Part)]
    BY <1>5 DEF ReadBoth
  <2> DEFINE r == [record[j] EXCEPT !.ok = (got = Part)]
  <2>3. r \in Record /\ ~r.done /\ r.phase = 0 /\ (r.ok <=> got = Part)
    BY <2>1 DEF Record
  <2>4. record' = [record EXCEPT ![j] = r] /\ loaded' = [loaded EXCEPT ![j] = got]
    BY <2>1, <2>2 DEF IInv, TypeOK
  <2>5. got \in SUBSET Part
    BY DEF Part
  <2> HIDE DEF r
  <2> QED  BY <2>1, <2>3, <2>4, <2>5, <1>5, ReadStep DEF ReadBoth
<1>6. CASE Requeue(w)
  BY <1>6, RequeueStep
<1>7. CASE FinishJob(w)
  BY <1>7, FinishJobStep
<1> QED  BY <1>1, <1>2, <1>3, <1>4, <1>5, <1>6, <1>7 DEF WorkerStep

-------------------------------------------------------------------------------
(* The steps of the inference thread. *)

LEMMA BeginStep ==
    ASSUME IInv, NEW b \in Buffer, NEW misses \in 0..MaxTopk, Begin(b, misses),
           (cpc = "idle" /\ b = cur) \/ (cpc = "next" /\ b = Other(cur))
    PROVE  IInv'
<1> USE DEF Begin
<1>1. /\ cur \in Buffer /\ Other(cur) \in Buffer /\ Other(cur) # cur
      /\ cpc = "idle" => live = {}
      /\ cpc = "next" => live = {cur}
      /\ ~Submitting /\ computed = {} /\ b \notin live /\ ~stop
  BY DEF IInv, TypeOK, ClientInv, Submitting, Buffer, Other
<1>2. Filling' = b /\ cur \in live'
  BY <1>1 DEF Filling, Other
<1>3. /\ misses = 0 => cpc' = IF b = cur THEN "next" ELSE "compute"
      /\ misses # 0 => cpc' = "submit"
      /\ b = cur => live' = {cur}
  BY <1>1 DEF AfterBegin
<1>4. /\ \A k \in Job : k[1] = b => record'[k] = FreshRecord /\ loaded'[k] = {}
      /\ \A k \in Job : k[1] # b => record'[k] = record[k] /\ loaded'[k] = loaded[k]
      /\ size'[b] = misses /\ (\A c \in Buffer \ {b} : size'[c] = size[c])
  BY DEF IInv, TypeOK
<1>5. TypeOK'
  <2>1. record' \in [Job -> Record]
    BY DEF IInv, TypeOK, FreshRecord, Record
  <2>2. loaded' \in [Job -> SUBSET Part] /\ size' \in [Buffer -> 0..MaxTopk]
    BY DEF IInv, TypeOK
  <2>3. sent' \in 0..MaxTopk /\ cpc' \in ClientState
    BY <1>3, MaxTopkAssumption DEF ClientState
  <2> QED  BY <2>1, <2>2, <2>3 DEF IInv, TypeOK
<1>6. Held' = Held /\ Queued' = Queued
  BY DEF Held, Queued
<1>7. \A k \in InFlight : k \in Job /\ k[1] # b
  BY <1>1 DEF IInv, JobsConserved, Submitted
<1>8. \A k \in Job : Submitted(k)' <=> k[1] # b /\ Submitted(k)
  <2> SUFFICES ASSUME NEW k \in Job  PROVE Submitted(k)' <=> k[1] # b /\ Submitted(k)
    OBVIOUS
  <2>1. k[1] \in Buffer /\ k[2] \in Nat /\ k[2] >= 1
    BY DEF Job
  <2>2. CASE k[1] = b
    <3>1. ~(k[2] <= IF cpc' \in {"submit", "waitSpace"} THEN 0 ELSE misses)
      BY <1>3, <2>1
    <3> QED  BY <3>1, <2>2, <1>2, <1>4 DEF Submitted
  <2>3. CASE k[1] # b
    BY <2>1, <2>3, <1>1, <1>2, <1>4 DEF Submitted, Submitting
  <2> QED  BY <2>2, <2>3
<1>9. JobsConserved'
  <2>1. OnePlace'
    BY <1>6 DEF IInv, JobsConserved, OnePlace
  <2>2. InFlight' = InFlight
    BY <1>6 DEF InFlight
  <2> QED  BY <2>1, <2>2, <1>4, <1>7, <1>8 DEF IInv, JobsConserved
<1>10. ClientInv'
  <2>1. Submitting' => sent' < size'[Filling'] /\ sent' = 0
    BY <1>2, <1>3, <1>4 DEF Submitting
  <2> QED  BY <2>1, <1>1, <1>2, <1>3, <1>4 DEF ClientInv, Submitting
<1>11. ReadInv'
  <2>1. ~Phased => \A k \in Job : record'[k].phase = 0
    BY <1>4 DEF IInv, ReadInv, FreshRecord
  <2>2. \A k \in Queued : Progress(k)'
    BY <1>4, <1>7 DEF IInv, ReadInv, Progress, InFlight
  <2>3. \A v \in Workers : wpc[v] \in Holding => wjob[v] \in Job /\ wjob[v][1] # b
    BY <1>7 DEF InFlight, Held
  <2>4. ASSUME NEW v \in Workers
        PROVE  /\ wpc[v] \in {"reading", "requeueing"} => Progress(wjob[v])'
               /\ wpc[v] = "requeueing" => Phased
               /\ wpc[v] = "finishing" =>
                     (record'[wjob[v]].ok <=> loaded'[wjob[v]] = Part)
    BY <2>3, <1>4 DEF IInv, ReadInv, Progress, Holding
  <2>5. DoneMeansLoaded'
    BY <1>4 DEF IInv, ReadInv, DoneMeansLoaded, FreshRecord
  <2> QED  BY <2>1, <2>2, <2>4, <2>5, <1>6 DEF ReadInv, Progress
<1> QED  BY <1>5, <1>9, <1>10, <1>11 DEF IInv, QueueFits

(* One or all of the jobs still to be submitted enter the queue.            *)
LEMMA SubmitStep ==
    ASSUME IInv, cpc = "submit", NEW n \in Nat \ {0}, sent + n <= size[Filling],
           Phased => sent + n = size[Filling],
           queue' \in Seq(Job), IsInjective(queue'),
           Queued' = Queued \cup
               {k \in Job : k[1] = Filling /\ k[2] > sent /\ k[2] <= sent + n},
           sent' = sent + n,
           cpc' = IF sent + n = size[Filling] THEN AfterBegin(Filling) ELSE "submit",
           wpc' \in [Workers -> WorkerState], SameHands(wpc),
           UNCHANGED <<stop, record, loaded, wjob, cur, live, size, computed>>,
           ~Phased => QueueFits'
    PROVE  IInv'
<1> DEFINE new == {k \in Job : k[1] = Filling /\ k[2] > sent /\ k[2] <= sent + n}
<1>1. /\ cur \in Buffer /\ Other(cur) \in Buffer /\ Other(cur) # cur
      /\ cur \in live /\ live \subseteq Buffer
      /\ Filling \in live
      /\ Submitting /\ computed = {} /\ sent \in Nat /\ size[Filling] \in 0..MaxTopk
  BY DEF IInv, TypeOK, ClientInv, Submitting, Buffer, Other, Filling
<1>2. Filling' = Filling
  BY DEF Filling
<1>3. /\ AfterBegin(Filling) = "next" => live = {cur}
      /\ AfterBegin(Filling) \in {"next", "compute"}
  BY <1>1 DEF AfterBegin, Filling, Buffer, Other
<1>4. TypeOK'
  <2>1. sent' \in 0..MaxTopk
    BY <1>1, MaxTopkAssumption
  <2>2. cpc' \in ClientState
    BY <1>3 DEF ClientState
  <2> QED  BY <2>1, <2>2 DEF IInv, TypeOK
<1>5. Held' = Held
  BY HeldKept
<1>6. \A k \in Job : Submitted(k)' <=> Submitted(k) \/ k \in new
  <2> SUFFICES ASSUME NEW k \in Job
               PROVE  Submitted(k)' <=> Submitted(k) \/ k \in new
    OBVIOUS
  <2>1. k[2] \in Nat
    BY DEF Job
  <2>2. CASE k[1] = Filling
    <3>1. Submitted(k) <=> k[2] <= sent
      BY <2>2, <1>1 DEF Submitted, Submitting
    <3>2. Submitted(k)' <=> k[2] <= sent + n
      BY <2>2, <1>1, <1>2, <1>3 DEF Submitted
    <3> QED  BY <3>1, <3>2, <2>1, <2>2, <1>1
  <2>3. CASE k[1] # Filling
    BY <2>3, <1>2 DEF Submitted
  <2> QED  BY <2>2, <2>3
<1>7. \A k \in new : record[k] = FreshRecord /\ loaded[k] = {} /\ ~Submitted(k)
  <2> SUFFICES ASSUME NEW k \in new
               PROVE  record[k] = FreshRecord /\ loaded[k] = {} /\ ~Submitted(k)
    OBVIOUS
  <2>1. record[k] = FreshRecord /\ loaded[k] = {}
    BY <1>1 DEF IInv, ClientInv
  <2>2. ~Submitted(k)
    BY <1>1 DEF Submitted, Submitting, Job
  <2> QED  BY <2>1, <2>2
<1>8. JobsConserved'
  <2>1. new \cap Held = {}
    BY <1>7 DEF IInv, JobsConserved, InFlight
  <2>2. OnePlace'
    BY <2>1, <1>5 DEF IInv, JobsConserved, OnePlace, SameHands
  <2>3. InFlight' = InFlight \cup new
    BY <1>5 DEF InFlight
  <2>4. \A k \in new : ~record[k].done
    BY <1>7 DEF FreshRecord
  <2> HIDE DEF new
  <2>5. new \subseteq Job
    BY DEF new
  <2> QED  BY <2>2, <2>3, <2>4, <2>5, <1>6 DEF IInv, JobsConserved
<1>9. ClientInv'
  <2>1. Submitting' => cpc' = "submit" /\ sent' < size[Filling] /\ ~Phased
    BY <1>1, <1>3 DEF Submitting
  <2>2. ASSUME NEW k \in Job, k[1] = Filling, k[2] > sent'
        PROVE  record[k] = FreshRecord /\ loaded[k] = {}
    <3>1. k[2] > sent
      BY <2>2, <1>1 DEF Job
    <3> QED  BY <3>1, <2>2, <1>1 DEF IInv, ClientInv
  <2> QED  BY <2>1, <2>2, <1>1, <1>2, <1>3 DEF IInv, ClientInv, Submitting
<1>10. ReadInv'
  <2>1. \A k \in Queued' : Progress(k)
    <3>1. ASSUME NEW k \in new  PROVE Progress(k)
      <4>1. record[k] = FreshRecord /\ loaded[k] = {}
        BY <1>7
      <4>2. FreshRecord.phase = 0
        BY DEF FreshRecord
      <4>3. record[k].phase # 1
        BY <4>1, <4>2
      <4> QED  BY <4>1, <4>3 DEF Progress
    <3>2. \A k \in Queued : Progress(k)
      BY DEF IInv, ReadInv
    <3> QED  BY <3>1, <3>2
  <2>2. \A k \in Queued' : Progress(k)'
    BY <2>1 DEF Progress
  <2>3. \A v \in Workers :
          /\ wpc'[v] \in {"reading", "requeueing"} => Progress(wjob[v])'
          /\ wpc'[v] = "requeueing" => Phased
          /\ wpc'[v] = "finishing" =>
                (record'[wjob'[v]].ok <=> loaded'[wjob'[v]] = Part)
    BY DEF IInv, ReadInv, SameHands, Holding, Progress
  <2>4. (~Phased => \A k \in Job : record'[k].phase = 0) /\ DoneMeansLoaded'
    BY DEF IInv, ReadInv, DoneMeansLoaded
  <2> QED  BY <2>2, <2>3, <2>4 DEF ReadInv, Progress
<1> QED  BY <1>4, <1>8, <1>9, <1>10 DEF IInv

LEMMA FinishGroupStep ==
    ASSUME IInv, FinishGroup
    PROVE  IInv'
<1> USE DEF FinishGroup
<1>1. /\ cur \in Buffer /\ Other(cur) \in Buffer /\ Other(cur) # cur
      /\ Buffer = {cur, Other(cur)}
      /\ live \subseteq Buffer /\ ~Submitting /\ ~stop
      /\ \A k \in Group(cur) : record[k].done
  BY DEF IInv, TypeOK, ClientInv, Submitting, Buffer, Other, AllConsumed
<1>2. /\ size'[cur] = 0 /\ size'[Other(cur)] = size[Other(cur)]
      /\ live' = live \ {cur} /\ computed' = {}
      /\ cpc' \in {"next", "idle"} /\ cur' \in Buffer
      /\ cpc' = "next" => live' = {cur'}
      /\ cpc' = "idle" => live' = {}
  <2>1. size'[cur] = 0 /\ size'[Other(cur)] = size[Other(cur)]
    BY <1>1 DEF IInv, TypeOK
  <2>2. CASE Other(cur) \in live
    BY <2>1, <2>2, <1>1
  <2>3. CASE Other(cur) \notin live
    BY <2>1, <2>3, <1>1 DEF Buffer
  <2> QED  BY <2>2, <2>3
<1>3. TypeOK'
  <2>1. size' \in [Buffer -> 0..MaxTopk]
    BY MaxTopkAssumption DEF IInv, TypeOK
  <2> QED  BY <2>1, <1>1, <1>2 DEF IInv, TypeOK, ClientState
<1>4. Held' = Held /\ Queued' = Queued
  BY DEF Held, Queued
<1>5. \A k \in Job : Submitted(k)' /\ ~record[k].done <=> Submitted(k) /\ ~record[k].done
  <2> SUFFICES ASSUME NEW k \in Job, ~record[k].done
               PROVE  Submitted(k)' <=> Submitted(k)
    OBVIOUS
  <2>1. k[1] \in Buffer
    BY DEF Job
  <2>2. CASE k[1] = cur
    <3>1. ~Submitted(k)
      BY <2>2, <1>1 DEF Submitted, Submitting, Group
    <3>2. ~Submitted(k)'
      BY <2>2, <1>2 DEF Submitted
    <3> QED  BY <3>1, <3>2
  <2>3. CASE k[1] = Other(cur)
    BY <2>3, <1>1, <1>2 DEF Submitted, Submitting
  <2> QED  BY <2>1, <2>2, <2>3, <1>1
<1>6. JobsConserved'
  <2>1. OnePlace'
    BY <1>4 DEF IInv, JobsConserved, OnePlace
  <2>2. InFlight' = InFlight
    BY <1>4 DEF InFlight
  <2> QED  BY <2>1, <2>2, <1>5 DEF IInv, JobsConserved
<1>7. ClientInv'
  BY <1>1, <1>2 DEF ClientInv, Submitting
<1>8. ReadInv'
  BY <1>4 DEF IInv, ReadInv, Progress, DoneMeansLoaded
<1> QED  BY <1>3, <1>6, <1>7, <1>8 DEF IInv, QueueFits

LEMMA ClientKeepsIInv ==
    ASSUME IInv, ClientProgress \/ BeginFirst \/ BeginNext \/ Close \/ SpuriousWake
    PROVE  IInv'
<1> DEFINE Data == <<queue, record, loaded, wjob, cur, live, size, sent>>
<1>0. computed \subseteq {j \in Job : record[j].done}
  BY DEF IInv, TypeOK, ClientInv
<1>1. CASE BeginFirst
  <2>1. cur \in Buffer
    BY DEF IInv, TypeOK
  <2> QED  BY <1>1, <2>1, BeginStep DEF BeginFirst
<1>2. CASE BeginNext
  <2>1. Other(cur) \in Buffer
    BY DEF IInv, TypeOK, Buffer, Other
  <2> QED  BY <1>2, <2>1, BeginStep DEF BeginNext
<1>3. CASE Submit
  <2> DEFINE x == <<Filling, sent + 1>>
  <2>1. /\ Filling \in Buffer /\ sent \in Nat /\ sent < size[Filling]
        /\ size[Filling] \in 0..MaxTopk /\ Submitting
    BY <1>3 DEF Submit, IInv, TypeOK, ClientInv, Submitting, Filling, Buffer, Other
  <2>2. x \in Job /\ x[1] = Filling /\ x[2] = sent + 1
    BY <2>1, MaxTopkAssumption DEF Job
  <2>3. x \notin Queued
    BY <2>1, <2>2 DEF IInv, JobsConserved, InFlight, Submitted, Submitting
  <2>4. queue \in Seq(Job) /\ IsInjective(queue)
    BY DEF IInv, TypeOK, JobsConserved, OnePlace
  <2>5. {k \in Job : k[1] = Filling /\ k[2] > sent /\ k[2] <= sent + 1} = {x}
    BY <2>1, <2>2 DEF Job
  <2> HIDE DEF x
  <2>6. /\ Append(queue, x) \in Seq(Job)
        /\ IsInjective(Append(queue, x))
        /\ Range(Append(queue, x)) = Queued \cup {x}
    BY <2>2, <2>3, <2>4, AppendOfInjective DEF Queued
  <2>7. queue' = Append(queue, x) /\ Queued' = Queued \cup {x}
    BY <2>6, <1>3 DEF Submit, x, Queued
  <2>8. wpc' \in [Workers -> WorkerState] /\ SameHands(wpc)
    BY <1>3, SignalWorkHands DEF Submit, IInv, TypeOK
  <2>9. QueueFits'
    <3>1. Len(Append(queue, x)) = Len(queue) + 1
      BY <2>2, <2>4, AppendProperties
    <3> QED  BY <3>1, <2>7, <1>3 DEF Submit, HasRoom, QueueFits
  <2>10. /\ 1 \in Nat \ {0} /\ sent + 1 <= size[Filling] /\ ~Phased
         /\ cpc = "submit" /\ sent' = sent + 1
         /\ cpc' = IF sent + 1 = size[Filling] THEN AfterBegin(Filling) ELSE "submit"
         /\ UNCHANGED <<stop, record, loaded, wjob, cur, live, size, computed>>
    BY <1>3, <2>1 DEF Submit
  <2> QED  BY <2>5, <2>6, <2>7, <2>8, <2>9, <2>10, SubmitStep
<1>4. CASE SubmitMany
  <2> DEFINE n == size[Filling]
             t == Jobs(Filling, n)
  <2>1. /\ Filling \in Buffer /\ sent = 0 /\ n \in 1..MaxTopk /\ Submitting
        /\ Batch = n
    BY <1>4, MaxTopkAssumption
       DEF SubmitMany, IInv, TypeOK, ClientInv, Submitting, Filling, Buffer, Other, Batch
  <2>2. /\ DOMAIN t = 1..n /\ t \in [1..n -> Job]
        /\ \A i \in 1..n : t[i] = <<Filling, i>>
    BY <2>1, MaxTopkAssumption DEF Jobs, Job
  <2>3. t \in Seq(Job) /\ IsInjective(t)
    <3>1. n \in Nat
      BY <2>1, MaxTopkAssumption
    <3> QED  BY <3>1, <2>2 DEF IsInjective
  <2>4. Range(t) = {k \in Job : k[1] = Filling /\ k[2] > sent /\ k[2] <= sent + n}
    <3> DEFINE new == {k \in Job : k[1] = Filling /\ k[2] > sent /\ k[2] <= sent + n}
    <3>1. Range(t) \subseteq new
      BY <2>1, <2>2, MaxTopkAssumption DEF Range
    <3>2. ASSUME NEW k \in new  PROVE k \in Range(t)
      <4>1. k = <<Filling, k[2]>> /\ k[2] \in 1..n
        BY <2>1 DEF Job
      <4> QED  BY <4>1, <2>2 DEF Range
    <3> QED  BY <3>1, <3>2
  <2>5. queue \in Seq(Job) /\ IsInjective(queue)
    BY DEF IInv, TypeOK, JobsConserved, OnePlace
  <2>6. Queued \cap Range(t) = {}
    <3>1. \A k \in Queued : Submitted(k)
      BY DEF IInv, JobsConserved, InFlight
    <3>2. \A k \in Range(t) : ~Submitted(k)
      BY <2>1, <2>4 DEF Submitted, Submitting, Job
    <3> QED  BY <3>1, <3>2
  <2>7. /\ n \in Nat \ {0} /\ sent + n = size[Filling] /\ Phased
        /\ cpc = "submit" /\ queue' = queue \o t /\ sent' = sent + n
        /\ cpc' = AfterBegin(Filling)
        /\ UNCHANGED <<stop, record, loaded, wjob, cur, live, size, computed>>
    BY <1>4, <2>1, MaxTopkAssumption DEF SubmitMany
  <2>8. wpc' \in [Workers -> WorkerState] /\ SameHands(wpc)
    BY <1>4, BroadcastWorkHands DEF SubmitMany, IInv
  <2> HIDE DEF t, n
  <2>9. /\ queue' \in Seq(Job) /\ IsInjective(queue')
        /\ Queued' = Queued \cup Range(t)
    BY <2>3, <2>5, <2>6, <2>7, ConcatOfInjective DEF Queued
  <2> QED  BY <2>4, <2>7, <2>8, <2>9, SubmitStep
<1>5. CASE NoNext \/ WaitSpace \/ WaitDone \/ Joined
  <2>1. UNCHANGED Data /\ UNCHANGED <<stop, wpc, computed>>
    BY <1>5 DEF NoNext, WaitSpace, WaitDone, Joined, clientVars
  <2>2. /\ cpc' \in ClientState /\ (Submitting' <=> Submitting)
        /\ cpc' \in {"idle", "joining", "closed"} => live = {}
        /\ cpc' = "next" => live = {cur}
        /\ cpc' \in {"compute", "waitDone"} => cur \in live
        /\ Submitting' \/ cpc' \in {"idle", "next", "joining", "closed"} => computed = {}
        /\ stop => cpc' \in {"joining", "closed"}
    BY <1>5 DEF NoNext, WaitSpace, WaitDone, Joined, IInv, ClientInv, ClientState, Submitting
  <2>3. wpc' \in [Workers -> WorkerState] /\ SameHands(wpc) /\ stop' \in BOOLEAN
    BY <2>1 DEF IInv, TypeOK, SameHands
  <2> QED  BY <1>0, <2>1, <2>2, <2>3, QuietStep
<1>6. CASE \E j \in Job : Compute(j)
  <2>1. PICK j \in Job : Compute(j)
    BY <1>6
  <2>2. UNCHANGED Data /\ UNCHANGED <<stop, wpc>>
    BY <2>1 DEF Compute
  <2>3. /\ computed' \subseteq {k \in Job : record[k].done}
        /\ cpc = "compute" /\ cpc' \in {"compute", "failed"}
    BY <1>0, <2>1 DEF Compute
  <2>4. cpc' \in ClientState /\ ~Submitting /\ ~Submitting' /\ cur \in live /\ ~stop
    BY <2>3 DEF ClientState, Submitting, IInv, ClientInv
  <2>5. wpc' \in [Workers -> WorkerState] /\ SameHands(wpc) /\ stop' \in BOOLEAN
    BY <2>2 DEF IInv, TypeOK, SameHands
  <2> QED  BY <2>2, <2>3, <2>4, <2>5, QuietStep
<1>7. CASE FinishGroup
  BY <1>7, FinishGroupStep
<1>8. CASE Close
  <2>1. UNCHANGED Data /\ UNCHANGED computed
    BY <1>8 DEF Close, clientVars
  <2>2. wpc' \in [Workers -> WorkerState] /\ SameHands(wpc) /\ stop' \in BOOLEAN
    BY <1>8, BroadcastWorkHands DEF Close, IInv
  <2>3. /\ cpc' = "joining" /\ cpc' \in ClientState /\ ~Submitting /\ ~Submitting'
        /\ live = {} /\ computed = {}
    BY <1>8 DEF Close, ClientState, Submitting, IInv, ClientInv
  <2> QED  BY <1>0, <2>1, <2>2, <2>3, QuietStep
<1>9. CASE SpuriousWake
  <2>1. UNCHANGED Data /\ UNCHANGED <<stop, computed>>
    BY <1>9 DEF SpuriousWake, clientVars
  <2>2. wpc' \in [Workers -> WorkerState] /\ SameHands(wpc) /\ stop' \in BOOLEAN
    BY <1>9, <2>1 DEF SpuriousWake, IInv, TypeOK, WorkerState, SameHands, Holding
  <2>3. cpc' \in ClientState /\ SameClient
    <3>1. CASE BroadcastState
      BY <3>1, BroadcastStateClient DEF IInv
    <3>2. CASE UNCHANGED cpc
      BY <3>2 DEF IInv, TypeOK, SameClient, Submitting
    <3> QED  BY <3>1, <3>2, <1>9 DEF SpuriousWake
  <2> QED  BY <1>0, <2>1, <2>2, <2>3, QuietStep DEF SameClient, IInv, ClientInv
<1> QED  BY <1>1, <1>2, <1>3, <1>4, <1>5, <1>6, <1>7, <1>8, <1>9 DEF ClientProgress

LEMMA NextIInv == IInv /\ [Next]_vars => IInv'
<1> SUFFICES ASSUME IInv, [Next]_vars  PROVE IInv'
  OBVIOUS
<1>1. CASE UNCHANGED vars
  BY <1>1 DEF vars, clientVars, IInv, TypeOK, JobsConserved, OnePlace, InFlight, Queued, Held,
     Submitted, Filling, ClientInv, Submitting, ReadInv, Progress, DoneMeansLoaded, QueueFits
<1>2. CASE \E w \in Workers : WorkerStep(w)
  BY <1>2, WorkerKeepsIInv
<1>3. CASE ClientProgress \/ BeginFirst \/ BeginNext \/ Close \/ SpuriousWake
  BY <1>3, ClientKeepsIInv
<1> QED  BY <1>1, <1>2, <1>3 DEF Next, Finished

-------------------------------------------------------------------------------
(* The invariants of every behaviour. *)

LEMMA SpecIInv == SafetySpec => []IInv
<1> QED  BY InitIInv, NextIInv, PTL DEF SafetySpec

(* Every variable keeps to its type, for any number of workers and any      *)
(* group size.                                                              *)
THEOREM PoolTypeOK == SafetySpec => []TypeOK
<1>1. IInv => TypeOK
  BY DEF IInv
<1> QED  BY <1>1, SpecIInv, PTL

(* No read is lost, run twice or left behind: at every moment the submitted *)
(* jobs that are not done are those in the queue or in one worker's hands,  *)
(* each in one place (expert_pool_submit, expert_pool_worker and the reuse  *)
(* of a DSV4ExpertBatch two groups later).                                  *)
THEOREM PoolConservesJobs == SafetySpec => []JobsConserved
<1>1. IInv => JobsConserved
  BY DEF IInv
<1> QED  BY <1>1, SpecIInv, PTL

(* The circular array never overflows, though a worker that puts a phased   *)
(* job back does not look for room: no job is in it twice and there are     *)
(* only 2 * MaxTopk of them.                                                *)
THEOREM PoolQueueFits == SafetySpec => []QueueFits
<1>1. IInv => QueueFits
  <2> SUFFICES ASSUME IInv  PROVE QueueFits
    OBVIOUS
  <2>1. CASE Phased
    <3>1. Len(queue) <= 2 * MaxTopk
      BY QueueBound DEF IInv, TypeOK, JobsConserved, OnePlace
    <3>2. Len(queue) \in Nat
      BY LenProperties DEF IInv, TypeOK
    <3> QED  BY <2>1, <3>1, <3>2, QueueCapAssumption, MaxTopkAssumption DEF QueueFits
  <2>2. CASE ~Phased
    BY <2>2 DEF IInv
  <2> QED  BY <2>1, <2>2
<1> QED  BY <1>1, SpecIInv, PTL

(* A read is reported good exactly when both its parts are in the slot, for *)
(* one-phase and two-phase reads alike.                                     *)
THEOREM PoolReportsTrueReads == SafetySpec => []DoneMeansLoaded
<1>1. IInv => DoneMeansLoaded
  BY DEF IInv, ReadInv
<1> QED  BY <1>1, SpecIInv, PTL

-------------------------------------------------------------------------------
(* Workers do not sleep beside queued jobs. *)

ReadyWorkers(pcs) == {w \in Workers : pcs[w] = "ready"}

LEMMA ReadySize ==
    ASSUME NEW S \in SUBSET Workers, NEW T \in SUBSET Workers, S \in SUBSET T
    PROVE  /\ Cardinality(S) \in Nat /\ Cardinality(T) \in Nat
           /\ Cardinality(S) <= Cardinality(T)
           /\ \A x \in T \ S : Cardinality(S) + 1 <= Cardinality(T)
<1>1. IsFiniteSet(S) /\ IsFiniteSet(T)
  BY WorkersAssumption, FS_Subset
<1>2. Cardinality(S) \in Nat /\ Cardinality(T) \in Nat /\ Cardinality(S) <= Cardinality(T)
  BY <1>1, FS_Subset, FS_CardinalityType
<1>3. ASSUME NEW x \in T \ S  PROVE Cardinality(S) + 1 <= Cardinality(T)
  <2>1. Cardinality(S \cup {x}) = Cardinality(S) + 1
    BY <1>1, FS_AddElement
  <2>2. S \cup {x} \in SUBSET T
    OBVIOUS
  <2> QED  BY <1>1, <2>1, <2>2, FS_Subset
<1> QED  BY <1>2, <1>3

(* A step that sends nobody to sleep and takes no worker off the queue; it  *)
(* may add one job if it has woken somebody for it.                         *)
LEMMA StaysAwake ==
    ASSUME TypeOK, NoIdleReader,
           \A w \in Workers : /\ wpc[w] = "ready" => wpc'[w] = "ready"
                              /\ wpc'[w] = "waiting" => wpc[w] = "waiting",
           \/ queue' = queue
           \/ /\ Len(queue') = Len(queue) + 1
              /\ \E w \in Workers : wpc[w] # "ready" /\ wpc'[w] = "ready"
    PROVE  NoIdleReader'
<1> SUFFICES ASSUME NEW v \in Workers, wpc'[v] = "waiting"
             PROVE  Cardinality(ReadyWorkers(wpc')) >= Len(queue')
  BY DEF NoIdleReader, ReadyWorkers
<1>1. /\ ReadyWorkers(wpc) \in SUBSET Workers /\ ReadyWorkers(wpc') \in SUBSET Workers
      /\ ReadyWorkers(wpc) \in SUBSET ReadyWorkers(wpc')
  BY DEF ReadyWorkers
<1>2. Cardinality(ReadyWorkers(wpc)) >= Len(queue) /\ Len(queue) \in Nat
  BY LenProperties DEF NoIdleReader, ReadyWorkers, TypeOK
<1>3. CASE queue' = queue
  BY <1>1, <1>2, <1>3, ReadySize
<1>4. CASE /\ Len(queue') = Len(queue) + 1
           /\ \E w \in Workers : wpc[w] # "ready" /\ wpc'[w] = "ready"
  <2>1. PICK w \in Workers : wpc[w] # "ready" /\ wpc'[w] = "ready"
    BY <1>4
  <2>2. w \in ReadyWorkers(wpc') \ ReadyWorkers(wpc)
    BY <2>1 DEF ReadyWorkers
  <2>3. Cardinality(ReadyWorkers(wpc)) + 1 <= Cardinality(ReadyWorkers(wpc'))
        /\ Cardinality(ReadyWorkers(wpc)) \in Nat /\ Cardinality(ReadyWorkers(wpc')) \in Nat
    BY <1>1, <2>2, ReadySize
  <2> QED  BY <1>2, <1>4, <2>3
<1> QED  BY <1>3, <1>4

(* A signal wakes one of the sleeping, if there are any. *)
LEMMA SignalWakes ==
    ASSUME NEW pcs \in [Workers -> WorkerState], SignalWork(pcs)
    PROVE  \/ \A w \in Workers : wpc'[w] # "waiting"
           \/ \E v \in Workers : pcs[v] = "waiting" /\ wpc' = [pcs EXCEPT ![v] = "ready"]
  BY DEF SignalWork

LEMMA WorkersAwake ==
    ASSUME TypeOK, NoIdleReader, NEW w \in Workers, WorkerStep(w)
    PROVE  NoIdleReader'
<1>1. wpc \in [Workers -> WorkerState] /\ queue \in Seq(Job)
  BY DEF TypeOK
<1>2. CASE WorkerWait(w) \/ WorkerExit(w)
  <2>1. queue' = <<>> /\ Len(queue') = 0
    BY <1>2 DEF WorkerWait, WorkerExit
  <2>2. Cardinality(ReadyWorkers(wpc')) \in Nat
    BY ReadySize DEF ReadyWorkers
  <2> QED  BY <2>1, <2>2 DEF NoIdleReader, ReadyWorkers
<1>3. CASE Dequeue(w)
  <2>1. /\ wpc[w] = "ready" /\ queue # <<>> /\ queue' = Tail(queue)
        /\ wpc' = [wpc EXCEPT ![w] = "reading"]
    BY <1>3 DEF Dequeue
  <2>2. Len(queue) \in Nat /\ Len(queue') = Len(queue) - 1
    BY <1>1, <2>1, LenProperties
  <2>3. /\ \A x \in Workers : wpc'[x] = IF x = w THEN "reading" ELSE wpc[x]
        /\ ReadyWorkers(wpc') = ReadyWorkers(wpc) \ {w} /\ w \in ReadyWorkers(wpc)
    BY <1>1, <2>1 DEF ReadyWorkers
  <2>4. IsFiniteSet(ReadyWorkers(wpc))
    BY WorkersAssumption, FS_Subset DEF ReadyWorkers
  <2>5. /\ Cardinality(ReadyWorkers(wpc')) = Cardinality(ReadyWorkers(wpc)) - 1
        /\ Cardinality(ReadyWorkers(wpc)) \in Nat
    BY <2>3, <2>4, FS_RemoveElement, FS_CardinalityType
  <2> SUFFICES ASSUME NEW v \in Workers, wpc'[v] = "waiting"
               PROVE  Cardinality(ReadyWorkers(wpc')) >= Len(queue')
    BY DEF NoIdleReader, ReadyWorkers
  <2>6. wpc[v] = "waiting"
    BY <2>3
  <2>7. Cardinality(ReadyWorkers(wpc)) >= Len(queue)
    BY <2>6 DEF NoIdleReader, ReadyWorkers
  <2> QED  BY <2>2, <2>5, <2>7
<1>4. CASE ReadScales(w) \/ ReadWeights(w) \/ ReadBoth(w) \/ FinishJob(w)
  <2>1. queue' = queue /\ \E x \in {"requeueing", "finishing", "ready"} : wpc' = [wpc EXCEPT ![w] = x]
    BY <1>4 DEF ReadScales, ReadWeights, ReadBoth, FinishJob
  <2>2. wpc[w] \in {"reading", "finishing"}
    BY <1>4 DEF ReadScales, ReadWeights, ReadBoth, FinishJob
  <2>3. \A x \in Workers : /\ wpc[x] = "ready" => wpc'[x] = "ready"
                           /\ wpc'[x] = "waiting" => wpc[x] = "waiting"
    BY <1>1, <2>1, <2>2
  <2> QED  BY <2>1, <2>3, StaysAwake
<1>5. CASE Requeue(w)
  <2> DEFINE pcs == [wpc EXCEPT ![w] = "ready"]
  <2>1. wpc[w] = "requeueing" /\ queue' = Append(queue, wjob[w]) /\ SignalWork(pcs)
    BY <1>5 DEF Requeue
  <2>2. pcs \in [Workers -> WorkerState] /\ \A x \in Workers : pcs[x] = IF x = w THEN "ready" ELSE wpc[x]
    BY <1>1 DEF WorkerState
  <2>3. Len(queue') = Len(queue) + 1
    BY <1>1, <2>1
  <2> HIDE DEF pcs
  <2>4. CASE \A x \in Workers : wpc'[x] # "waiting"
    BY <2>4 DEF NoIdleReader
  <2>5. CASE \E v \in Workers : pcs[v] = "waiting" /\ wpc' = [pcs EXCEPT ![v] = "ready"]
    <3>1. PICK v \in Workers : pcs[v] = "waiting" /\ wpc' = [pcs EXCEPT ![v] = "ready"]
      BY <2>5
    <3>2. \A x \in Workers : wpc'[x] = IF x = v \/ x = w THEN "ready" ELSE wpc[x]
      BY <2>2, <3>1
    <3>3. \A x \in Workers : /\ wpc[x] = "ready" => wpc'[x] = "ready"
                             /\ wpc'[x] = "waiting" => wpc[x] = "waiting"
      BY <3>2
    <3>4. wpc[w] # "ready" /\ wpc'[w] = "ready"
      BY <2>1, <3>2
    <3> QED  BY <2>3, <3>3, <3>4, StaysAwake
  <2> QED  BY <2>1, <2>2, <2>4, <2>5, SignalWakes
<1> QED  BY <1>2, <1>3, <1>4, <1>5 DEF WorkerStep

LEMMA ClientLeavesAwake ==
    ASSUME TypeOK, NoIdleReader, BeginFirst \/ BeginNext \/ ClientProgress \/ Close \/ SpuriousWake
    PROVE  NoIdleReader'
<1>1. wpc \in [Workers -> WorkerState] /\ queue \in Seq(Job)
  BY DEF TypeOK
<1>2. CASE Submit
  <2>1. queue' = Append(queue, <<Filling, sent + 1>>) /\ SignalWork(wpc)
    BY <1>2 DEF Submit
  <2>2. Len(queue') = Len(queue) + 1
    BY <1>1, <2>1
  <2>3. CASE \A x \in Workers : wpc'[x] # "waiting"
    BY <2>3 DEF NoIdleReader
  <2>4. CASE \E v \in Workers : wpc[v] = "waiting" /\ wpc' = [wpc EXCEPT ![v] = "ready"]
    <3>1. PICK v \in Workers : wpc[v] = "waiting" /\ wpc' = [wpc EXCEPT ![v] = "ready"]
      BY <2>4
    <3>2. \A x \in Workers : wpc'[x] = IF x = v THEN "ready" ELSE wpc[x]
      BY <1>1, <3>1
    <3>3. /\ \A x \in Workers : /\ wpc[x] = "ready" => wpc'[x] = "ready"
                                /\ wpc'[x] = "waiting" => wpc[x] = "waiting"
          /\ wpc[v] # "ready" /\ wpc'[v] = "ready"
      BY <3>1, <3>2
    <3> QED  BY <2>2, <3>3, StaysAwake
  <2> QED  BY <1>1, <2>1, <2>3, <2>4, SignalWakes
<1>3. CASE SubmitMany \/ Close
  <2>1. \A x \in Workers : wpc'[x] # "waiting"
    BY <1>3 DEF SubmitMany, Close, BroadcastWork
  <2> QED  BY <2>1 DEF NoIdleReader
<1>4. CASE SpuriousWake
  <2>1. queue' = queue /\ (wpc' = wpc \/ \E x \in Workers : wpc' = [wpc EXCEPT ![x] = "ready"])
    BY <1>4 DEF SpuriousWake
  <2>2. \A x \in Workers : /\ wpc[x] = "ready" => wpc'[x] = "ready"
                           /\ wpc'[x] = "waiting" => wpc[x] = "waiting"
    BY <1>1, <2>1
  <2> QED  BY <2>1, <2>2, StaysAwake
<1>5. CASE BeginFirst \/ BeginNext \/ NoNext \/ WaitSpace \/ (\E j \in Job : Compute(j))
           \/ WaitDone \/ FinishGroup \/ Joined
  <2>1. queue' = queue /\ wpc' = wpc
    BY <1>5 DEF BeginFirst, BeginNext, Begin, NoNext, WaitSpace, Compute, WaitDone, FinishGroup, Joined
  <2> QED  BY <2>1 DEF NoIdleReader
<1> QED  BY <1>2, <1>3, <1>4, <1>5 DEF ClientProgress

(* A worker sleeps only while every queued job has an awake worker on its   *)
(* way: one signal for each job that is queued, a broadcast for a group, is *)
(* enough, for any number of workers and of sleepers woken for nothing.     *)
THEOREM PoolNoIdleReader == SafetySpec => []NoIdleReader
<1>1. Init => NoIdleReader
  BY DEF Init, NoIdleReader
<1>2. TypeOK /\ NoIdleReader /\ [Next]_vars => NoIdleReader'
  <2> SUFFICES ASSUME TypeOK, NoIdleReader, [Next]_vars  PROVE NoIdleReader'
    OBVIOUS
  <2>1. CASE UNCHANGED vars
    BY <2>1 DEF vars, NoIdleReader
  <2>2. CASE Finished
    BY <2>1, <2>2 DEF Finished
  <2>3. CASE \E w \in Workers : WorkerStep(w)
    BY <2>3, WorkersAwake
  <2>4. CASE BeginFirst \/ BeginNext \/ ClientProgress \/ Close \/ SpuriousWake
    BY <2>4, ClientLeavesAwake
  <2> QED  BY <2>1, <2>2, <2>3, <2>4 DEF Next
<1> QED  BY <1>1, <1>2, PoolTypeOK, PTL DEF SafetySpec

-------------------------------------------------------------------------------
(* The pool and its client implement ReadService. *)

LEMMA StatusKept ==
    ASSUME InFlight' = InFlight, UNCHANGED record
    PROVE  UNCHANGED ReadStatus
BY DEF ReadStatus

(* A step of a worker before the last one of its job. *)
LEMMA WorkerStutters ==
    ASSUME IInv, IInv', SameClient, UNCHANGED <<cur, live, size, sent, stop>>,
           cpc # "failed", cpc' # "failed",
           \A j \in Job : /\ record'[j].done <=> record[j].done
                          /\ record[j].done => record'[j].ok = record[j].ok
    PROVE  UNCHANGED <<ReadStatus, ServiceMode>>
<1>1. \A j \in Job : Submitted(j)' <=> Submitted(j)
  BY DEF SameClient, Submitted, Submitting, Filling
<1>2. InFlight' = InFlight
  BY <1>1 DEF IInv, JobsConserved
<1>3. UNCHANGED ReadStatus
  BY <1>2 DEF ReadStatus
<1> QED  BY <1>3 DEF ServiceMode

LEMMA WorkerServes ==
    ASSUME IInv, IInv', NEW w \in Workers, WorkerStep(w), ~Over
    PROVE  Service!Next \/ UNCHANGED <<ReadStatus, ServiceMode>>
<1>1. /\ cpc \in ClientState /\ cpc # "failed"
      /\ record \in [Job -> Record]
      /\ wpc[w] \in Holding => wjob[w] \in Job /\ ~record[wjob[w]].done
  BY HandsAreJobs DEF IInv, TypeOK, Over
<1>2. UNCHANGED cpc => SameClient
  BY DEF SameClient, Submitting
<1>3. SameClient /\ cpc' # "failed" /\ UNCHANGED <<cur, live, size, sent, stop>>
  <2>1. UNCHANGED cpc \/ BroadcastState
    BY DEF WorkerStep, WorkerWait, WorkerExit, Dequeue, ReadScales, ReadWeights, ReadBoth,
           Requeue, FinishJob
  <2>2. UNCHANGED <<cur, live, size, sent, stop>>
    BY DEF WorkerStep, WorkerWait, WorkerExit, Dequeue, ReadScales, ReadWeights, ReadBoth,
           Requeue, FinishJob, clientVars
  <2>3. CASE BroadcastState
    <3>1. SameClient
      BY <2>3, BroadcastStateClient DEF IInv
    <3>2. cpc' # "failed"
      BY <2>3, <1>1 DEF BroadcastState
    <3> QED  BY <3>1, <3>2, <2>2
  <2> QED  BY <1>1, <1>2, <2>1, <2>2, <2>3
<1>4. CASE FinishJob(w)
  <2> DEFINE j == wjob[w]
  <2>1. /\ j \in Job /\ ~record[j].done /\ j \in InFlight
        /\ record' = [record EXCEPT ![j].done = TRUE]
    BY <1>1, <1>4 DEF FinishJob, Holding, InFlight, Held
  <2> HIDE DEF j
  <2>2. \A k \in Job : Submitted(k)' <=> Submitted(k)
    BY <1>3 DEF SameClient, Submitted, Submitting, Filling
  <2>3. /\ record'[j].done /\ record'[j].ok = record[j].ok
        /\ \A k \in Job \ {j} : record'[k] = record[k]
    BY <1>1, <2>1 DEF Record
  <2>4. \A k \in Job \ {j} : k \in InFlight' <=> k \in InFlight
    BY <2>2, <2>3 DEF IInv, JobsConserved
  <2> DEFINE result == IF record[j].ok THEN "ok" ELSE "short"
  <2>5. ReadStatus' = [ReadStatus EXCEPT ![j] = result]
    <3>1. ASSUME NEW k \in Job
          PROVE  ReadStatus'[k] = IF k = j THEN result ELSE ReadStatus[k]
      BY <2>3, <2>4 DEF ReadStatus
    <3> QED  BY <3>1 DEF ReadStatus
  <2>6. ReadStatus[j] = "reading" /\ ServiceMode # "aborted" /\ UNCHANGED ServiceMode
    BY <1>1, <1>3, <2>1 DEF ReadStatus, ServiceMode
  <2>7. result \in {"ok", "short"}
    OBVIOUS
  <2> HIDE DEF result
  <2> QED  BY <2>1, <2>5, <2>6, <2>7 DEF Service!Next, Service!Finish
<1>5. CASE ~FinishJob(w)
  <2>1. \A k \in Job : /\ record'[k].done <=> record[k].done
                       /\ record[k].done => record'[k].ok = record[k].ok
    <3>1. CASE UNCHANGED record
      BY <3>1
    <3>2. CASE ReadScales(w) \/ ReadWeights(w) \/ ReadBoth(w)
      <4> DEFINE j == wjob[w]
      <4>1. j \in Job /\ ~record[j].done
        BY <1>1, <3>2 DEF ReadScales, ReadWeights, ReadBoth, Holding
      <4>2. \/ record' = [record EXCEPT ![j].phase = 1]
            \/ \E ok \in BOOLEAN : record' = [record EXCEPT ![j].ok = ok]
        BY <3>2 DEF ReadScales, ReadWeights, ReadBoth
      <4> HIDE DEF j
      <4>3. record'[j].done = record[j].done
        BY <1>1, <4>1, <4>2 DEF Record
      <4>4. \A k \in Job \ {j} : record'[k] = record[k]
        BY <1>1, <4>1, <4>2
      <4> QED  BY <4>1, <4>3, <4>4
    <3> QED  BY <1>5, <3>1, <3>2
             DEF WorkerStep, WorkerWait, WorkerExit, Dequeue, Requeue
  <2> QED  BY <1>1, <1>3, <2>1, WorkerStutters
<1> QED  BY <1>4, <1>5

LEMMA BeginServes ==
    ASSUME IInv, NEW b \in Buffer, b \notin live, NEW misses \in 0..MaxTopk,
           Begin(b, misses), cpc \in {"idle", "next"}
    PROVE  Service!Next
<1> DEFINE S == {k \in Job : k[1] = b}
<1>1. InFlight' = InFlight
  BY DEF Begin, InFlight, Queued, Held
<1>2. \A k \in InFlight : k \in Job \ S /\ ~record[k].done
  BY DEF IInv, JobsConserved, Submitted
<1>3. S \cap Service!Reading = {}
  BY <1>2 DEF Service!Reading, ReadStatus
<1>4. ReadStatus' = [k \in Job |-> IF k \in S THEN "idle" ELSE ReadStatus[k]]
  <2>1. \A k \in S : ~record'[k].done /\ k \notin InFlight'
    BY <1>1, <1>2 DEF Begin, FreshRecord
  <2>2. \A k \in Job \ S : record'[k] = record[k]
    BY DEF Begin
  <2> QED  BY <1>1, <2>1, <2>2 DEF ReadStatus
<1>5. ServiceMode = "open" /\ ServiceMode' = "open"
  BY DEF ServiceMode, Begin, AfterBegin, IInv, ClientInv
<1>6. S \in SUBSET Job
  OBVIOUS
<1> QED  BY <1>3, <1>4, <1>5, <1>6 DEF Service!Next, Service!Recycle

LEMMA SubmitServes ==
    ASSUME IInv, IInv', cpc = "submit", cpc' # "failed", InFlight \subseteq InFlight',
           UNCHANGED <<stop, record>>
    PROVE  Service!Next
<1> DEFINE S == InFlight' \ InFlight
<1>1. S \subseteq Job /\ \A k \in S : ~record[k].done
  BY DEF IInv, JobsConserved
<1>2. \A k \in S : ReadStatus[k] = "idle"
  BY <1>1 DEF ReadStatus
<1>3. ReadStatus' = [k \in Job |-> IF k \in S THEN "reading" ELSE ReadStatus[k]]
  BY <1>1 DEF ReadStatus
<1>4. ServiceMode = "open" /\ UNCHANGED ServiceMode
  BY DEF ServiceMode, IInv, ClientInv
<1> HIDE DEF S
<1> QED  BY <1>1, <1>2, <1>3, <1>4 DEF Service!Next, Service!Start

LEMMA ClientServes ==
    ASSUME IInv, IInv', ClientProgress \/ BeginFirst \/ BeginNext \/ Close \/ SpuriousWake
    PROVE  Service!Next \/ UNCHANGED <<ReadStatus, ServiceMode>>
<1>1. CASE BeginFirst \/ BeginNext
  <2>1. cur \in Buffer /\ Other(cur) \in Buffer /\ Other(cur) # cur
    BY DEF IInv, TypeOK, Buffer, Other
  <2> QED  BY <1>1, <2>1, BeginServes DEF BeginFirst, BeginNext, IInv, ClientInv
<1>2. CASE Submit \/ SubmitMany
  <2>1. SameHands(wpc) /\ UNCHANGED wjob
    BY <1>2, SignalWorkHands, BroadcastWorkHands DEF Submit, SubmitMany, IInv, TypeOK
  <2>2. Held' = Held
    BY <2>1, HeldKept
  <2>3. Queued \subseteq Queued'
    <3>1. queue \in Seq(Job) /\ queue' \in Seq(Job)
      BY DEF IInv, TypeOK
    <3>2. CASE Submit
      BY <3>1, <3>2, AppendProperties, LenProperties DEF Submit, Queued, Range
    <3>3. CASE SubmitMany
      <4> DEFINE t == Jobs(Filling, Batch)
      <4>1. t \in Seq(Job) /\ queue' = queue \o t
        <5>1. Filling \in Buffer /\ Batch \in 0..MaxTopk
          BY <3>3 DEF SubmitMany, Filling, Batch, IInv, TypeOK, Buffer, Other
        <5> QED  BY <5>1, <3>3, MaxTopkAssumption DEF SubmitMany, Jobs, Job
      <4> HIDE DEF t
      <4> QED  BY <3>1, <4>1, RangeConcatenation DEF Queued
    <3> QED  BY <1>2, <3>2, <3>3
  <2>4. /\ cpc = "submit" /\ cpc' # "failed"
        /\ UNCHANGED <<stop, record>>
    BY <1>2 DEF Submit, SubmitMany, AfterBegin
  <2> QED  BY <2>2, <2>3, <2>4, SubmitServes DEF InFlight
<1>3. CASE NoNext \/ WaitSpace \/ WaitDone \/ Joined \/ FinishGroup
  <2>1. UNCHANGED <<queue, record, wpc, wjob, stop>> /\ cpc # "failed" /\ cpc' # "failed"
    BY <1>3 DEF NoNext, WaitSpace, WaitDone, Joined, FinishGroup
  <2>2. InFlight' = InFlight
    BY <2>1 DEF InFlight, Queued, Held
  <2> QED  BY <2>1, <2>2, StatusKept DEF ServiceMode
<1>4. CASE \E j \in Job : Compute(j)
  <2>1. PICK j \in Job : Compute(j)
    BY <1>4
  <2>2. UNCHANGED <<queue, record, wpc, wjob, stop>> /\ cpc = "compute" /\ record[j].done
    BY <2>1 DEF Compute
  <2>3. UNCHANGED ReadStatus
    <3>1. InFlight' = InFlight
      BY <2>2 DEF InFlight, Queued, Held
    <3> QED  BY <2>2, <3>1, StatusKept
  <2>4. CASE record[j].ok
    BY <2>1, <2>2, <2>3, <2>4 DEF Compute, ServiceMode
  <2>5. CASE ~record[j].ok
    <3>1. ServiceMode = "open" /\ ServiceMode' = "aborted"
      BY <2>1, <2>2, <2>5 DEF Compute, ServiceMode, IInv, ClientInv
    <3>2. ReadStatus[j] = "short"
      BY <2>2, <2>5 DEF ReadStatus
    <3> QED  BY <2>3, <3>1, <3>2 DEF Service!Next, Service!Abort
  <2> QED  BY <2>4, <2>5
<1>5. CASE Close
  <2>1. cpc = "idle" /\ cpc' = "joining" /\ stop' /\ ~stop /\ live = {} /\ ~stop
    BY <1>5 DEF Close, IInv, ClientInv
  <2>2. UNCHANGED <<queue, record, wjob>> /\ SameHands(wpc)
    BY <1>5, BroadcastWorkHands DEF Close, IInv
  <2>3. UNCHANGED ReadStatus
    <3>1. InFlight' = InFlight
      BY <2>2, HeldKept DEF InFlight, Queued
    <3> QED  BY <2>2, <3>1, StatusKept
  <2>4. Service!Reading = {}
    <3>1. InFlight = {}
      BY <2>1 DEF IInv, JobsConserved, Submitted
    <3> QED  BY <3>1 DEF Service!Reading, ReadStatus
  <2> QED  BY <2>1, <2>3, <2>4 DEF ServiceMode, Service!Next, Service!Close
<1>6. CASE SpuriousWake
  <2>1. UNCHANGED <<queue, record, wjob, stop>> /\ SameHands(wpc)
    BY <1>6 DEF SpuriousWake, SameHands, IInv, TypeOK, Holding
  <2>2. cpc' = "failed" <=> cpc = "failed"
    BY <1>6 DEF SpuriousWake, BroadcastState
  <2>3. InFlight' = InFlight
    BY <2>1, HeldKept DEF InFlight, Queued
  <2> QED  BY <2>1, <2>2, <2>3, StatusKept DEF ServiceMode
<1> QED  BY <1>1, <1>2, <1>3, <1>4, <1>5, <1>6 DEF ClientProgress

(* Seen from the mixture-of-experts code, queue, workers, mutex and         *)
(* condition variables are a read service: a read that was started is       *)
(* reported once, a record is cleared only when its read was reported, the  *)
(* pool closes only when nothing is being read, and the process gives up    *)
(* only over a short read.                                                  *)
THEOREM PoolImplementsReadService == SafetySpec => ImplementsServiceSafety
<1>1. Init => Service!Init
  <2> SUFFICES ASSUME Init  PROVE Service!Init
    OBVIOUS
  <2>1. InFlight = {}
    BY DEF Init, InFlight, Queued, Held, Holding, Range
  <2> QED  BY <2>1 DEF Init, FreshRecord, Service!Init, ReadStatus, ServiceMode
<1>2. IInv /\ IInv' /\ [Next]_vars => [Service!Next]_(Service!vars)
  <2> SUFFICES ASSUME IInv, IInv', [Next]_vars
               PROVE  Service!Next \/ UNCHANGED <<ReadStatus, ServiceMode>>
    BY DEF Service!vars
  <2>1. CASE UNCHANGED vars
    <3>1. InFlight' = InFlight
      BY <2>1 DEF vars, InFlight, Queued, Held
    <3> QED  BY <2>1, <3>1, StatusKept DEF vars, ServiceMode
  <2>2. CASE ~Over /\ \E w \in Workers : WorkerStep(w)
    BY <2>2, WorkerServes
  <2>3. CASE ClientProgress \/ BeginFirst \/ BeginNext \/ Close \/ SpuriousWake
    BY <2>3, ClientServes
  <2> QED  BY <2>1, <2>2, <2>3 DEF Next, Finished
<1> QED  BY <1>1, <1>2, SpecIInv, PTL DEF SafetySpec, ImplementsServiceSafety, Service!SafetySpec

===============================================================================
