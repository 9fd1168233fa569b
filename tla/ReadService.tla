----------------------------- MODULE ReadService -----------------------------
(***************************************************************************)
(* What the mixture-of-experts code expects of the asynchronous expert     *)
(* reads it starts, whatever carries them out: a read that was started is  *)
(* reported exactly once, a read record is reused only after its read was  *)
(* reported, the service shuts down only when nothing is being read, and   *)
(* the process gives up only over a short read.                            *)
(***************************************************************************)

CONSTANT Job            \* the read records (DSV4ExpertReadJob) of the caller

VARIABLES status,       \* what the caller can learn about each record
          mode          \* whether the service is open, closed or gone

Status == {"idle", "reading", "ok", "short"}
Mode == {"open", "closed", "aborted"}

vars == <<status, mode>>

TypeOK ==
    /\ status \in [Job -> Status]
    /\ mode \in Mode

Reading == {j \in Job : status[j] = "reading"}

Init ==
    /\ status = [j \in Job |-> "idle"]
    /\ mode = "open"

(* The caller clears records whose reads are not under way. *)
Recycle(S) ==
    /\ mode = "open"
    /\ S \cap Reading = {}
    /\ status' = [j \in Job |-> IF j \in S THEN "idle" ELSE status[j]]
    /\ UNCHANGED mode

(* The caller starts the reads of cleared records. *)
Start(S) ==
    /\ mode = "open"
    /\ \A j \in S : status[j] = "idle"
    /\ status' = [j \in Job |-> IF j \in S THEN "reading" ELSE status[j]]
    /\ UNCHANGED mode

(* One read ends, with everything it asked for or short of it. *)
Finish(j) ==
    /\ mode # "aborted"
    /\ status[j] = "reading"
    /\ \E result \in {"ok", "short"} : status' = [status EXCEPT ![j] = result]
    /\ UNCHANGED mode

Close ==
    /\ mode = "open"
    /\ Reading = {}
    /\ mode' = "closed"
    /\ UNCHANGED status

(* exit(1): the caller met a short read. *)
Abort ==
    /\ mode = "open"
    /\ \E j \in Job : status[j] = "short"
    /\ mode' = "aborted"
    /\ UNCHANGED status

Next ==
    \/ \E S \in SUBSET Job : Recycle(S) \/ Start(S)
    \/ \E j \in Job : Finish(j)
    \/ Close
    \/ Abort

Fairness == \A j \in Job : WF_vars(Finish(j))

SafetySpec == Init /\ [][Next]_vars
Spec == SafetySpec /\ Fairness
==============================================================================
