--------------------------- MODULE SubmissionQueue ---------------------------
(***************************************************************************)
(* The aggregator's in-memory queue (aggregator/src/queue/index.ts): a map *)
(* of job records that only grows, and the FIFO list of the ids to work on.*)
(* Every method runs within one turn of the event loop: one action each.   *)
(*                                                                         *)
(* The methods themselves check nothing about a record's status.  Next is  *)
(* what any client does that settles only jobs it has claimed; the worker  *)
(* of module Aggregator is shown to be such a client.                      *)
(***************************************************************************)
EXTENDS Integers, Sequences

CONSTANTS
    JobIds,       (* session keys, the ids of jobs                         *)
    MaxAttempts,  (* the default of fail's maxAttempts                     *)
    Codes,        (* error codes a job can be settled with                 *)
    NoError       (* an absent error field                                 *)

ASSUME QueueAssumption ==
    /\ MaxAttempts \in Nat \ {0}
    /\ NoError \notin Codes

VARIABLES
    records,      (* records[id]; status "absent" when the map has no id   *)
    pending       (* ids waiting to be claimed                             *)

qvars == <<records, pending>>

Terminal == {"complete", "failed", "quarantined"}
JobStatus == {"pending", "processing"} \cup Terminal

Record == [status : JobStatus \cup {"absent"}, attempts : Nat,
           error : Codes \cup {NoError}]

Absent == [status |-> "absent", attempts |-> 0, error |-> NoError]

QueueTypeOK ==
    /\ records \in [JobIds -> Record]
    /\ pending \in Seq(JobIds)

QueueInit ==
    /\ records = [id \in JobIds |-> Absent]
    /\ pending = <<>>

(* The record as enqueue creates it, and as claim leaves it.  (Names with  *)
(* an underscore are wrong variants, which the properties tell apart.)     *)
Enqueued == [status |-> "pending", attempts |-> 0, error |-> NoError]
Claimed_NoCount(record) == [record EXCEPT !.status = "processing"]
Claimed(record) ==
    [record EXCEPT !.status = "processing", !.attempts = @ + 1]

enqueue(id) ==
    /\ records[id].status = "absent"
    /\ records' = [records EXCEPT ![id] = Enqueued]
    /\ pending' = Append(pending, id)

claim_NoShift(id) ==  \* looks at the first id without taking it out
    /\ pending # <<>>
    /\ id = Head(pending)
    /\ records' = [records EXCEPT ![id] = Claimed(@)]
    /\ UNCHANGED pending

claim(id) ==
    /\ pending # <<>>
    /\ id = Head(pending)
    /\ records' = [records EXCEPT ![id] = Claimed(@)]
    /\ pending' = Tail(pending)

(* enqueue emits "enqueued" before it returns, and an idle worker's        *)
(* listener claims at once: nothing comes between.                         *)
enqueueAndClaim(id, first) ==
    /\ records[id].status = "absent"
    /\ first = Head(Append(pending, id))
    /\ records' = LET added == [records EXCEPT ![id] = Enqueued]
                  IN  [added EXCEPT ![first] = Claimed(@)]
    /\ pending' = Tail(Append(pending, id))

complete(id) ==
    /\ records' = [records EXCEPT ![id].status = "complete"]
    /\ UNCHANGED pending

fail_OneMore(id, code) ==  \* <= where the code has <
    IF records[id].attempts <= MaxAttempts
    THEN /\ records' = [records EXCEPT ![id].status = "pending", ![id].error = code]
         /\ pending' = Append(pending, id)
    ELSE /\ records' = [records EXCEPT ![id].status = "failed", ![id].error = code]
         /\ UNCHANGED pending

fail_OneLess(id, code) ==  \* counts the attempt that comes next
    IF records[id].attempts + 1 < MaxAttempts
    THEN /\ records' = [records EXCEPT ![id].status = "pending", ![id].error = code]
         /\ pending' = Append(pending, id)
    ELSE /\ records' = [records EXCEPT ![id].status = "failed", ![id].error = code]
         /\ UNCHANGED pending

fail(id, code) ==
    IF records[id].attempts < MaxAttempts
    THEN /\ records' = [records EXCEPT ![id].status = "pending", ![id].error = code]
         /\ pending' = Append(pending, id)
    ELSE /\ records' = [records EXCEPT ![id].status = "failed", ![id].error = code]
         /\ UNCHANGED pending

quarantine(id, code) ==
    /\ records' = [records EXCEPT ![id].status = "quarantined", ![id].error = code]
    /\ UNCHANGED pending

(* The process ends and a new one starts with an empty queue.              *)
lose ==
    /\ records' = [id \in JobIds |-> Absent]
    /\ pending' = <<>>

Settle(id) ==
    /\ records[id].status = "processing"
    /\ \/ complete(id)
       \/ \E code \in Codes : fail(id, code) \/ quarantine(id, code)

QueueNext ==
    \/ \E id \in JobIds :
          \/ enqueue(id)
          \/ claim(id)
          \/ \E first \in JobIds : enqueueAndClaim(id, first)
          \/ Settle(id)
    \/ lose

QueueSpec == QueueInit /\ [][QueueNext]_qvars

-----------------------------------------------------------------------------
(***************************************************************************)
(* Properties.                                                             *)
(***************************************************************************)

(* The list and the map agree: the list holds exactly the jobs whose       *)
(* status is "pending", each once, so no job is worked on twice at a time  *)
(* and none that waits is forgotten.                                       *)
PendingMatchesStatus ==
    /\ \A i, j \in DOMAIN pending : pending[i] = pending[j] => i = j
    /\ \A id \in JobIds :
          records[id].status = "pending" <=> \E i \in DOMAIN pending : pending[i] = id

(* Attempts are counted and bounded: a waiting job has one left, a settled *)
(* or running one has made at least one, none makes more than MaxAttempts, *)
(* and a failed one says why.                                              *)
AttemptsBounded ==
    \A id \in JobIds :
        LET r == records[id]
        IN  /\ r.status = "absent"  => r.attempts = 0
            /\ r.status = "pending" => r.attempts < MaxAttempts
            /\ r.status \in Terminal \cup {"processing"} =>
                   r.attempts \in 1..MaxAttempts
            /\ r.status = "failed" => r.error # NoError
=============================================================================
