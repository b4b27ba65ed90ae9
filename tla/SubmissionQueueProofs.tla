------------------------- MODULE SubmissionQueueProofs -------------------------
(***************************************************************************)
(* Proofs about SubmissionQueue, for any set of jobs and any MaxAttempts:  *)
(* the records keep their types, the pending list and the statuses agree,  *)
(* and attempts stay bounded.                                              *)
(*                                                                         *)
(* The invariant is inductive as a whole: the agreement of list and map    *)
(* needs a list without repetitions, and AttemptsBounded needs the         *)
(* agreement, for claim counts an attempt of the list's head and is safe   *)
(* only because that job has status "pending", hence an attempt left.      *)
(***************************************************************************)
EXTENDS SubmissionQueue, TLAPS

Waits(p, id) == \E i \in DOMAIN p : p[i] = id

Distinct(p) == \A i, j \in DOMAIN p : p[i] = p[j] => i = j

(* Appending an element that is not there keeps a list free of repetitions *)
(* and adds just that element (the push of enqueue and fail).              *)
LEMMA AppendNew ==
    ASSUME NEW S, NEW p \in Seq(S), NEW x \in S, Distinct(p), ~Waits(p, x)
    PROVE  /\ Append(p, x) \in Seq(S)
           /\ Append(p, x) # <<>>
           /\ Distinct(Append(p, x))
           /\ \A y \in S : Waits(Append(p, x), y) <=> Waits(p, y) \/ y = x
<1> DEFINE q == Append(p, x)
<1>1. /\ q \in Seq(S)
      /\ q # <<>>
      /\ DOMAIN q = 1..(Len(p) + 1)
      /\ DOMAIN p = 1..Len(p)
      /\ Len(p) \in Nat
      /\ \A i \in 1..Len(p) : q[i] = p[i]
      /\ q[Len(p) + 1] = x
  OBVIOUS
<1>2. Distinct(q)
  <2> SUFFICES ASSUME NEW i \in DOMAIN q, NEW j \in DOMAIN q, q[i] = q[j]
               PROVE  i = j
    BY DEF Distinct
  <2>1. CASE i \in DOMAIN p /\ j \in DOMAIN p
    BY <1>1, <2>1 DEF Distinct
  <2>2. CASE i \notin DOMAIN p \/ j \notin DOMAIN p
    BY <1>1, <2>2 DEF Waits
  <2> QED
    BY <2>1, <2>2
<1>3. \A y \in S : Waits(q, y) <=> Waits(p, y) \/ y = x
  <2> SUFFICES ASSUME NEW y \in S
               PROVE  Waits(q, y) <=> Waits(p, y) \/ y = x
    OBVIOUS
  <2>1. Waits(p, y) \/ y = x => Waits(q, y)
    BY <1>1 DEF Waits
  <2>2. Waits(q, y) => Waits(p, y) \/ y = x
    BY <1>1 DEF Waits
  <2> QED
    BY <2>1, <2>2
<1> QED
  BY <1>1, <1>2, <1>3

(* Taking the head off a list without repetitions removes just that        *)
(* element (the shift of claim).                                           *)
LEMMA TailRemovesHead ==
    ASSUME NEW S, NEW p \in Seq(S), p # <<>>, Distinct(p)
    PROVE  /\ Head(p) \in S
           /\ Waits(p, Head(p))
           /\ Tail(p) \in Seq(S)
           /\ Distinct(Tail(p))
           /\ \A y \in S : Waits(Tail(p), y) <=> Waits(p, y) /\ y # Head(p)
<1> DEFINE t == Tail(p)
<1>1. /\ t \in Seq(S)
      /\ Len(p) \in Nat \ {0}
      /\ DOMAIN p = 1..Len(p)
      /\ DOMAIN t = 1..(Len(p) - 1)
      /\ \A i \in DOMAIN t : t[i] = p[i + 1]
      /\ Head(p) = p[1]
      /\ Head(p) \in S
  OBVIOUS
<1>2. Waits(p, Head(p))
  BY <1>1 DEF Waits
<1>3. Distinct(t)
  BY <1>1 DEF Distinct
<1>4. ASSUME NEW y \in S
      PROVE  Waits(t, y) <=> Waits(p, y) /\ y # Head(p)
  <2>1. ASSUME NEW i \in DOMAIN t, t[i] = y
        PROVE  Waits(p, y) /\ y # Head(p)
    BY <1>1, <2>1 DEF Waits, Distinct
  <2>2. ASSUME NEW i \in DOMAIN p, p[i] = y, y # Head(p)
        PROVE  Waits(t, y)
    <3>1. i - 1 \in DOMAIN t /\ t[i - 1] = y
      BY <1>1, <2>2
    <3> QED
      BY <3>1 DEF Waits
  <2> QED
    BY <2>1, <2>2 DEF Waits
<1> QED
  BY <1>1, <1>2, <1>3, <1>4

-----------------------------------------------------------------------------
(* What AttemptsBounded asks of one record, and that only the last attempt *)
(* ends in "failed".                                                       *)
Sound(r) ==
    /\ r.status = "absent"  => r.attempts = 0
    /\ r.status = "pending" => r.attempts < MaxAttempts
    /\ r.status \in Terminal \cup {"processing"} => r.attempts \in 1..MaxAttempts
    /\ r.status = "failed" => r.attempts = MaxAttempts /\ r.error # NoError

(* The inductive invariant, over any list and map of the right types.      *)
Consistent(p, r) ==
    /\ r \in [JobIds -> Record]
    /\ p \in Seq(JobIds)
    /\ Distinct(p)
    /\ \A id \in JobIds : r[id].status = "pending" <=> Waits(p, id)
    /\ \A id \in JobIds : Sound(r[id])

QInv == Consistent(pending, records)

(* A job that is new gets a fresh record and the last place of the list.   *)
LEMMA EnqueueAgrees ==
    ASSUME NEW p, NEW r, Consistent(p, r),
           NEW id \in JobIds, r[id].status = "absent"
    PROVE  /\ Append(p, id) # <<>>
           /\ Consistent(Append(p, id), [r EXCEPT ![id] = Enqueued])
<1>1. Enqueued \in Record /\ Sound(Enqueued) /\ Enqueued.status = "pending"
  BY QueueAssumption DEF Enqueued, Record, Sound, JobStatus, Terminal
<1>2. ~Waits(p, id) /\ p \in Seq(JobIds) /\ Distinct(p)
  BY DEF Consistent
<1>3. /\ Append(p, id) \in Seq(JobIds)
      /\ Append(p, id) # <<>>
      /\ Distinct(Append(p, id))
      /\ \A y \in JobIds : Waits(Append(p, id), y) <=> Waits(p, y) \/ y = id
  BY <1>2, AppendNew
<1> QED
  BY <1>1, <1>3 DEF Consistent

(* What claim writes into a record.                                        *)
LEMMA ClaimedRecord ==
    ASSUME NEW r \in Record
    PROVE  /\ Claimed(r) \in Record
           /\ Claimed(r).status = "processing"
           /\ Claimed(r).attempts = r.attempts + 1
<1>1. Claimed(r) \in Record
  <2>1. r.attempts \in Nat
    BY DEF Record
  <2>2. r.attempts + 1 \in Nat
    BY <2>1
  <2>3. "processing" \in JobStatus
    BY DEF JobStatus
  <2> QED
    BY <2>2, <2>3 DEF Claimed, Record
<1>2. Claimed(r).status = "processing"
  BY DEF Claimed, Record
<1>3. Claimed(r).attempts = r.attempts + 1
  BY DEF Claimed, Record
<1> QED
  BY <1>1, <1>2, <1>3

(* The first of the list is claimed: it leaves the list and counts one     *)
(* attempt, which it had left.                                             *)
LEMMA ClaimAgrees ==
    ASSUME NEW p, NEW r, Consistent(p, r), p # <<>>
    PROVE  /\ Head(p) \in JobIds
           /\ Consistent(Tail(p), [r EXCEPT ![Head(p)] = Claimed(@)])
<1> DEFINE h == Head(p)
<1>1. /\ h \in JobIds
      /\ Waits(p, h)
      /\ Tail(p) \in Seq(JobIds)
      /\ Distinct(Tail(p))
      /\ \A y \in JobIds : Waits(Tail(p), y) <=> Waits(p, y) /\ y # h
  BY TailRemovesHead DEF Consistent
<1>2. r[h] \in Record /\ Sound(r[h]) /\ r[h].status = "pending"
  BY <1>1 DEF Consistent
<1>3. /\ Claimed(r[h]) \in Record
      /\ Sound(Claimed(r[h]))
      /\ Claimed(r[h]).status = "processing"
  <2>1. /\ r[h].attempts \in Nat
        /\ r[h].attempts < MaxAttempts
        /\ MaxAttempts \in Nat
        /\ r[h].error \in Codes \cup {NoError}
    BY <1>2, QueueAssumption DEF Record, Sound
  <2>2. /\ Claimed(r[h]) \in Record
        /\ Claimed(r[h]).status = "processing"
        /\ Claimed(r[h]).attempts = r[h].attempts + 1
    BY <1>2, ClaimedRecord
  <2> QED
    BY <2>1, <2>2 DEF Sound, Terminal
<1> QED
  BY <1>1, <1>3 DEF Consistent

-----------------------------------------------------------------------------
(* The empty queue satisfies the invariant.                                *)
LEMMA InitAgrees == QueueInit => QInv
<1> SUFFICES ASSUME QueueInit PROVE QInv
  OBVIOUS
<1>1. Absent \in Record /\ Sound(Absent) /\ Absent.status # "pending"
  BY QueueAssumption DEF Absent, Record, Sound, JobStatus, Terminal
<1>2. pending \in Seq(JobIds) /\ DOMAIN pending = {}
  BY DEF QueueInit
<1> QED
  BY <1>1, <1>2 DEF QueueInit, QInv, Consistent, Distinct, Waits

(* Settling a claimed job keeps the invariant, whichever way it settles.   *)
LEMMA SettleAgrees ==
    ASSUME QInv, NEW id \in JobIds, Settle(id)
    PROVE  QInv'
<1>1. /\ records \in [JobIds -> Record]
      /\ pending \in Seq(JobIds)
      /\ Distinct(pending)
      /\ \A x \in JobIds : records[x].status = "pending" <=> Waits(pending, x)
      /\ \A x \in JobIds : Sound(records[x])
  BY DEF QInv, Consistent
<1>2. records[id].status = "processing"
  BY DEF Settle
<1>3. records[id] \in Record /\ Sound(records[id]) /\ ~Waits(pending, id)
  BY <1>1, <1>2
<1>4. ASSUME NEW record \in Record, Sound(record), record.status # "pending",
             records' = [records EXCEPT ![id] = record], pending' = pending
      PROVE  QInv'
  BY <1>1, <1>3, <1>4 DEF QInv, Consistent
<1>5. CASE complete(id)
  <2> DEFINE record == [records[id] EXCEPT !.status = "complete"]
  <2>1. record \in Record /\ Sound(record) /\ record.status # "pending"
    BY <1>2, <1>3, QueueAssumption DEF Record, Sound, JobStatus, Terminal
  <2>2. records' = [records EXCEPT ![id] = record] /\ pending' = pending
    BY <1>1, <1>5 DEF complete
  <2> QED
    BY <1>4, <2>1, <2>2
<1>6. ASSUME NEW code \in Codes, quarantine(id, code)
      PROVE  QInv'
  <2> DEFINE record == [records[id] EXCEPT !.status = "quarantined", !.error = code]
  <2>1. record \in Record /\ Sound(record) /\ record.status # "pending"
    BY <1>2, <1>3, QueueAssumption DEF Record, Sound, JobStatus, Terminal
  <2>2. records' = [records EXCEPT ![id] = record] /\ pending' = pending
    BY <1>1, <1>6 DEF quarantine
  <2> QED
    BY <1>4, <2>1, <2>2
<1>7. ASSUME NEW code \in Codes, fail(id, code)
      PROVE  QInv'
  <2>1. CASE ~(records[id].attempts < MaxAttempts)
    <3> DEFINE record == [records[id] EXCEPT !.status = "failed", !.error = code]
    <3>1. record \in Record /\ Sound(record) /\ record.status # "pending"
      <4>1. record \in Record
        BY <1>3 DEF Record, JobStatus, Terminal
      <4>2. /\ record.status = "failed"
            /\ record.error = code
            /\ record.attempts = records[id].attempts
        BY <1>3 DEF Record
      <4>3. records[id].attempts = MaxAttempts /\ MaxAttempts \in Nat \ {0}
        <5>1. /\ records[id].attempts \in 1..MaxAttempts
              /\ ~(records[id].attempts < MaxAttempts)
          BY <1>2, <1>3, <2>1 DEF Sound
        <5> QED
          BY <5>1, QueueAssumption
      <4>4. code # NoError
        BY QueueAssumption
      <4> QED
        BY <4>1, <4>2, <4>3, <4>4 DEF Sound, Terminal
    <3>2. records' = [records EXCEPT ![id] = record] /\ pending' = pending
      BY <1>1, <1>7, <2>1 DEF fail
    <3> QED
      BY <1>4, <3>1, <3>2
  <2>2. CASE records[id].attempts < MaxAttempts
    <3> DEFINE record == [records[id] EXCEPT !.status = "pending", !.error = code]
    <3>1. record \in Record /\ Sound(record) /\ record.status = "pending"
      BY <1>2, <1>3, <2>2, QueueAssumption DEF Record, Sound, JobStatus, Terminal
    <3>2. records' = [records EXCEPT ![id] = record] /\ pending' = Append(pending, id)
      BY <1>1, <1>7, <2>2 DEF fail
    <3>3. /\ pending' \in Seq(JobIds)
          /\ Distinct(pending')
          /\ \A y \in JobIds : Waits(pending', y) <=> Waits(pending, y) \/ y = id
      BY <1>1, <1>3, <3>2, AppendNew
    <3> QED
      BY <1>1, <3>1, <3>2, <3>3 DEF QInv, Consistent
  <2> QED
    BY <2>1, <2>2
<1> QED
  BY <1>5, <1>6, <1>7 DEF Settle

(* Every step of any disciplined client keeps the invariant.               *)
LEMMA StepAgrees == QInv /\ [QueueNext]_qvars => QInv'
<1> SUFFICES ASSUME QInv, [QueueNext]_qvars PROVE QInv'
  OBVIOUS
<1>1. ASSUME NEW id \in JobIds, enqueue(id)
      PROVE  QInv'
  BY <1>1, EnqueueAgrees DEF enqueue, QInv
<1>2. ASSUME NEW id \in JobIds, claim(id)
      PROVE  QInv'
  BY <1>2, ClaimAgrees DEF claim, QInv
<1>3. ASSUME NEW id \in JobIds, NEW first \in JobIds, enqueueAndClaim(id, first)
      PROVE  QInv'
  <2> DEFINE p == Append(pending, id)
             r == [records EXCEPT ![id] = Enqueued]
  <2>1. p # <<>> /\ Consistent(p, r)
    BY <1>3, EnqueueAgrees DEF enqueueAndClaim, QInv
  <2>2. Consistent(Tail(p), [r EXCEPT ![Head(p)] = Claimed(@)])
    BY <2>1, ClaimAgrees
  <2>3. pending' = Tail(p) /\ records' = [r EXCEPT ![Head(p)] = Claimed(@)]
    BY <1>3 DEF enqueueAndClaim
  <2> QED
    BY <2>2, <2>3 DEF QInv
<1>4. ASSUME NEW id \in JobIds, Settle(id)
      PROVE  QInv'
  BY <1>4, SettleAgrees
<1>5. CASE lose
  <2>1. Absent \in Record /\ Sound(Absent) /\ Absent.status # "pending"
    BY QueueAssumption DEF Absent, Record, Sound, JobStatus, Terminal
  <2>2. pending' \in Seq(JobIds) /\ DOMAIN pending' = {}
    BY <1>5 DEF lose
  <2> QED
    BY <1>5, <2>1, <2>2 DEF lose, QInv, Consistent, Distinct, Waits
<1>6. CASE UNCHANGED qvars
  BY <1>6 DEF qvars, QInv
<1> QED
  BY <1>1, <1>2, <1>3, <1>4, <1>5, <1>6 DEF QueueNext

(* The invariant says what the three properties say.                       *)
LEMMA InvariantIsEnough == QInv => QueueTypeOK /\ PendingMatchesStatus /\ AttemptsBounded
<1> SUFFICES ASSUME QInv PROVE QueueTypeOK /\ PendingMatchesStatus /\ AttemptsBounded
  OBVIOUS
<1>1. QueueTypeOK /\ PendingMatchesStatus
  BY DEF QInv, Consistent, QueueTypeOK, PendingMatchesStatus, Distinct, Waits
<1>2. AttemptsBounded
  BY DEF QInv, Consistent, AttemptsBounded, Sound
<1> QED
  BY <1>1, <1>2

(* Every behaviour of a disciplined client satisfies the invariant.        *)
LEMMA QueueInvariant == QueueSpec => []QInv
  BY InitAgrees, StepAgrees, PTL DEF QueueSpec

(* Records and list have their types (queue/index.ts, JobRecord).          *)
THEOREM QueueTypeCorrect == QueueSpec => []QueueTypeOK
  BY QueueInvariant, InvariantIsEnough, PTL

(* enqueue, claim, fail and quarantine keep the list and the statuses in   *)
(* agreement for any number of jobs and any order of calls.                *)
THEOREM QueueAgrees == QueueSpec => []PendingMatchesStatus
  BY QueueInvariant, InvariantIsEnough, PTL

(* fail's comparison with maxAttempts bounds the attempts of every job.    *)
THEOREM QueueRetriesBounded == QueueSpec => []AttemptsBounded
  BY QueueInvariant, InvariantIsEnough, PTL
=============================================================================
