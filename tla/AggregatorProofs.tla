--------------------------- MODULE AggregatorProofs ---------------------------
(***************************************************************************)
(* Proofs about Aggregator, for any devices, sessions, calls, kinds of     *)
(* faults, environments and number of attempts: what the composition of    *)
(* API, queue, worker, chain client and contract promises its clients.     *)
(*                                                                         *)
(* The invariant has two halves.  WorkerInv is about the process alone:    *)
(* its queue, the job its worker holds, and their agreement.  ChainInv     *)
(* relates what the process has sent, stored and said to the contract; it  *)
(* adds to the properties what the worker knows at each of its waits.      *)
(***************************************************************************)
EXTENDS Aggregator, SubmissionQueueProofs, EnergyProofRegistryV3Proofs

(* Every record's job has its data, under its own session key.             *)
DataMatchJobs ==
    \A id \in JobIds : records[id].status # "absent" =>
        data[id] \in Posted /\ SessionKey(data[id]) = id

WorkerInv ==
    /\ QInv
    /\ data \in [JobIds -> Posted \cup {NoJob}]
    /\ pc \in WorkerStates
    /\ job \in JobIds \cup {NoJob}
    /\ Busy <=> job # NoJob
    /\ DataMatchJobs
    /\ SingleFlight

(* Every transaction carries a call the API let in, of the session it is   *)
(* filed under; a worker that awaits a receipt has sent one.               *)
TxsMatchCalls ==
    /\ txs \in Seq(Tx)
    /\ \A i \in DOMAIN txs : txs[i].call \in Posted /\ SessionKey(txs[i].call) = txs[i].id
    /\ pc = "receipt" => \E i \in DOMAIN txs : txs[i].id = job

(* What the worker knows by where it is: it gets past the chain only with  *)
(* an accepted session, and to the insert only while there is no row.      *)
WorkerKnows ==
    /\ env \in Environments
    /\ pc \in {"simulate", "write", "receipt"} => ChainLive
    /\ ChainLive /\ pc \in {"validate", "finish"} => job \in usedSessionKeys
    /\ ChainLive /\ pc \in {"receipt", "validate"} => rows[job] = 0

(* The contract is past every epoch of a session.                          *)
Outdated(id) ==
    /\ id \notin usedSessionKeys
    /\ \A c \in Posted : SessionKey(c) = id =>
           /\ lastSubmissionTimestamp[c.deviceId] # 0
           /\ c.epochStartTs <= lastSubmissionTimestamp[c.deviceId]

(* What ErrorsAreFacts says of one code, with the reason why               *)
(* InvalidTimestamp stays true.                                            *)
ErrorHolds(id, code) ==
    /\ code = "SessionKeyAlreadyUsed" => id \in usedSessionKeys
    /\ code = "InvalidTimestamp" => Outdated(id)

ErrorsStayFacts ==
    OneEpochPerSession => \A id \in JobIds : ErrorHolds(id, records[id].error)

ChainInv ==
    /\ VInv
    /\ TxsMatchCalls
    /\ others \subseteq JobIds
    /\ ExactlyOneSuccess
    /\ rows \in [JobIds -> Nat]
    /\ WorkerKnows
    /\ CompleteMeansAccepted
    /\ RowsMatchChain
    /\ ErrorsStayFacts

AggInv == WorkerInv /\ ChainInv

-----------------------------------------------------------------------------
(***************************************************************************)
(* What a step of the composition is to the contract.                      *)
(***************************************************************************)
(* The worker's steps leave the contract alone: its calls are simulations, *)
(* and what it broadcasts waits to be mined.                               *)
LEMMA WorkerLeavesChain ==
    ASSUME WorkerStep \/ Validate
    PROVE  UNCHANGED <<chainVars, env, others>>
  BY DEF WorkerStep, Drain, ProcessLocally, Simulate, Write, AwaitReceipt, Finish, Validate,
         Goto, handleError, Leave

(* To the contract, every step is a transaction, a block, or nothing: what *)
(* was proved about EnergyProofRegistryV3 holds of it here.                *)
LEMMA ChainSteps ==
    ASSUME TxsMatchCalls, [AggNext]_allVars
    PROVE  [Next]_vars
<1>1. ASSUME NEW call \in Posted, PostSubmission(call)
      PROVE  UNCHANGED vars
  BY <1>1 DEF PostSubmission, chainVars
<1>2. WorkerStep \/ Validate => UNCHANGED vars
  BY WorkerLeavesChain DEF chainVars
<1>3. ASSUME NEW i \in DOMAIN txs, Mine(i)
      PROVE  [Next]_vars
  <2>1. txs[i].call \in Calls
    BY DEF TxsMatchCalls, Posted
  <2> QED
    BY <1>3, <2>1, AggregatorAssumption DEF Mine, Next, chainVars
<1>4. ASSUME NEW i \in DOMAIN txs, Drop(i)
      PROVE  UNCHANGED vars
  BY <1>4 DEF Drop, chainVars
<1>5. ChainChanges => [Next]_vars
  <2>1. Governance(Admin) => Next
    BY V3Assumption DEF Next
  <2>2. ASSUME \/ AC!GrantRole(Admin, "OPERATOR_ROLE", Operator)
               \/ AC!RevokeRole(Admin, "OPERATOR_ROLE", Operator),
               UNCHANGED <<paused, config, storage, environment>>
        PROVE  Next
    BY <2>2, V3Assumption, AggregatorAssumption
       DEF Next, RoleTransaction, AC!ChangeRoles, AC!ChangeRolesBy, Roles
  <2> QED
    BY <2>1, <2>2 DEF ChainChanges, Next
<1>6. OthersSubmit => Next
  BY DEF OthersSubmit, Next
<1>7. Restart => UNCHANGED vars
  BY DEF Restart, chainVars
<1>8. UNCHANGED allVars => UNCHANGED vars
  BY DEF allVars, chainVars
<1> QED
  BY <1>1, <1>2, <1>3, <1>4, <1>5, <1>6, <1>7, <1>8 DEF AggNext

-----------------------------------------------------------------------------
(***************************************************************************)
(* What a step of the composition is to the process.                       *)
(***************************************************************************)
BusyStates == WorkerStates \ {"idle", "drain"}

(* The worker goes on with its job.                                        *)
GoesOn ==
    /\ Busy
    /\ pc' \in BusyStates
    /\ UNCHANGED <<job, records, pending, data>>

(* The worker ends its job, one way or another.                            *)
Ends ==
    /\ Busy
    /\ Settle(job)
    /\ pc' = "drain"
    /\ job' = NoJob
    /\ UNCHANGED data

processView == <<records, pending, data, pc, job>>

(* The codes handleError is called with are codes of the queue.            *)
LEMMA CodesAreCodes ==
    /\ \A error : mapChainError(error) \in Codes
    /\ \A call : LocalError(call) # NoError => LocalError(call) \in Codes
    /\ {"WorkerError", "UNKNOWN", "TX_REVERTED"} \subseteq Codes
<1>1. Codes = AllCodes
  BY AggregatorAssumption
<1>2. \A error : mapChainError(error) \in Codes
  BY <1>1 DEF mapChainError, AllCodes, ChainErrorCode
<1>3. \A call : LocalError(call) # NoError => LocalError(call) \in Codes
  BY <1>1 DEF LocalError, AllCodes, ChainErrorCode, KNOWN_ERROR_NAMES, QUARANTINE_CODES
<1>4. {"WorkerError", "UNKNOWN", "TX_REVERTED"} \subseteq Codes
  BY <1>1 DEF AllCodes, ChainErrorCode
<1> QED
  BY <1>2, <1>3, <1>4

(* The job the worker holds is claimed and has its data.                   *)
LEMMA HeldJob ==
    ASSUME WorkerInv, Busy
    PROVE  /\ job \in JobIds
           /\ records[job].status = "processing"
           /\ data[job] \in Posted
           /\ SessionKey(data[job]) = job
<1>1. job \in JobIds
  BY DEF WorkerInv
<1>2. records[job].status = "processing"
  BY <1>1 DEF WorkerInv, SingleFlight
<1> QED
  BY <1>1, <1>2 DEF WorkerInv, DataMatchJobs

(* handleError settles the job and leaves.                                 *)
LEMMA ErrorEnds ==
    ASSUME WorkerInv, Busy, NEW code \in Codes, handleError(code)
    PROVE  Ends
  BY HeldJob DEF handleError, Leave, Ends, Settle

(* Whatever happens, the process sees one of seven kinds of step.          *)
LEMMA ProcessSteps ==
    ASSUME WorkerInv, [AggNext]_allVars
    PROVE  \/ \E call \in Posted : PostSubmission(call)
           \/ Drain
           \/ GoesOn
           \/ Ends
           \/ Restart
           \/ UNCHANGED processView
<1> DEFINE Goal == \/ \E call \in Posted : PostSubmission(call)
                   \/ Drain \/ GoesOn \/ Ends \/ Restart
                   \/ UNCHANGED processView
<1>1. AfterResult \in {"validate", "finish"}
  BY DEF AfterResult
<1>2. CASE ProcessLocally
  <2>1. Busy
    BY <1>2 DEF ProcessLocally, Busy
  <2>2. ASSUME Goto(IF ChainLive THEN "simulate" ELSE AfterResult)
        PROVE  GoesOn
    BY <1>1, <2>1, <2>2 DEF Goto, GoesOn, BusyStates, WorkerStates
  <2> QED
    BY <1>2, <2>1, <2>2, ErrorEnds, CodesAreCodes DEF ProcessLocally
<1>3. CASE Simulate
  <2>1. Busy
    BY <1>3 DEF Simulate, Busy
  <2>2. Goto("write") => GoesOn
    BY <2>1 DEF Goto, GoesOn, BusyStates, WorkerStates
  <2> QED
    BY <1>3, <2>1, <2>2, ErrorEnds, CodesAreCodes DEF Simulate
<1>4. CASE Write
  <2>1. Busy
    BY <1>4 DEF Write, Busy
  <2>2. Goto("receipt") => GoesOn
    BY <2>1 DEF Goto, GoesOn, BusyStates, WorkerStates
  <2> QED
    BY <1>4, <2>1, <2>2, ErrorEnds, CodesAreCodes DEF Write
<1>5. CASE AwaitReceipt
  <2>1. Busy
    BY <1>5 DEF AwaitReceipt, Busy
  <2>2. Goto(AfterResult) => GoesOn
    BY <1>1, <2>1 DEF Goto, GoesOn, BusyStates, WorkerStates
  <2> QED
    BY <1>5, <2>1, <2>2, ErrorEnds, CodesAreCodes DEF AwaitReceipt
<1>6. CASE Validate
  BY <1>6 DEF Validate, Busy, Goto, GoesOn, BusyStates, WorkerStates
<1>7. CASE Finish
  <2>1. Busy
    BY <1>7 DEF Finish, Busy
  <2> QED
    BY <1>7, <2>1, HeldJob DEF Finish, Leave, Ends, Settle
<1>8. ASSUME NEW i \in DOMAIN txs, Mine(i) \/ Drop(i)
      PROVE  UNCHANGED processView
  BY <1>8 DEF Mine, Drop, processView
<1>9. ChainChanges \/ OthersSubmit \/ UNCHANGED allVars => UNCHANGED processView
  BY DEF ChainChanges, OthersSubmit, allVars, aggVars, processVars, processView
<1> QED
  BY <1>2, <1>3, <1>4, <1>5, <1>6, <1>7, <1>8, <1>9 DEF AggNext, WorkerStep

-----------------------------------------------------------------------------
(***************************************************************************)
(* The worker and its queue.                                               *)
(***************************************************************************)
(* A submission that finds the worker idle finds an empty list: the job it *)
(* claims at once is the new one.                                          *)
LEMMA IdleClaimsItsOwn ==
    ASSUME WorkerInv, NEW id \in JobIds, pc = "idle"
    PROVE  Append(pending, id) = <<id>> /\ Head(Append(pending, id)) = id
                                        /\ Tail(Append(pending, id)) = <<>>
<1>1. pending = <<>>
  BY DEF WorkerInv, SingleFlight
<1> QED
  BY <1>1

(* A call's session key is a job id.                                       *)
LEMMA PostedIds ==
    ASSUME NEW call \in Posted
    PROVE  SessionKey(call) \in JobIds
  BY CallComponents, AggregatorAssumption DEF Posted

(* The process is a client of the queue that settles only what it claimed. *)
LEMMA StepIsDisciplined ==
    ASSUME WorkerInv, [AggNext]_allVars
    PROVE  [QueueNext]_qvars
<1>1. ASSUME NEW call \in Posted, PostSubmission(call)
      PROVE  QueueNext
  <2> DEFINE id == SessionKey(call)
  <2>1. id \in JobIds
    BY PostedIds
  <2>2. CASE pc = "idle"
    <3>1. enqueueAndClaim(id, id)
      BY <1>1, <2>1, <2>2, IdleClaimsItsOwn DEF PostSubmission, onEnqueued
    <3> QED
      BY <2>1, <3>1 DEF QueueNext
  <2>3. CASE pc # "idle"
    BY <1>1, <2>1, <2>3 DEF PostSubmission, onEnqueued, QueueNext
  <2> QED
    BY <2>2, <2>3
<1>2. ASSUME Drain
      PROVE  [QueueNext]_qvars
  <2>1. CASE pending = <<>>
    BY <1>2, <2>1 DEF Drain, qvars
  <2>2. CASE pending # <<>>
    <3>1. Head(pending) \in JobIds
      BY <2>2, ClaimAgrees DEF WorkerInv, QInv
    <3> QED
      BY <1>2, <2>2, <3>1 DEF Drain, QueueNext
  <2> QED
    BY <2>1, <2>2
<1>3. GoesOn => UNCHANGED qvars
  BY DEF GoesOn, qvars
<1>4. Ends => QueueNext
  BY HeldJob DEF Ends, QueueNext
<1>5. Restart => QueueNext
  BY DEF Restart, QueueNext
<1>6. UNCHANGED processView => UNCHANGED qvars
  BY DEF processView, qvars
<1> QED
  BY <1>1, <1>2, <1>3, <1>4, <1>5, <1>6, ProcessSteps

(* The process starts with an empty queue and an idle worker.              *)
LEMMA InitWorks == AggInit => WorkerInv
<1> SUFFICES ASSUME AggInit PROVE WorkerInv
  OBVIOUS
<1>1. QInv
  BY InitAgrees DEF AggInit
<1>2. \A id \in JobIds : records[id].status = "absent"
  BY DEF AggInit, QueueInit, Absent
<1>3. ~Busy /\ job = NoJob /\ pending = <<>> /\ pc \in WorkerStates
  BY DEF AggInit, Busy, QueueInit, WorkerStates
<1>4. DataMatchJobs /\ SingleFlight
  BY <1>2, <1>3 DEF DataMatchJobs, SingleFlight
<1> QED
  BY <1>1, <1>3, <1>4 DEF WorkerInv, AggInit

(* A new submission.                                                       *)
LEMMA PostWorks ==
    ASSUME WorkerInv, NEW call \in Posted, PostSubmission(call), QInv'
    PROVE  WorkerInv'
<1> DEFINE id == SessionKey(call)
<1>1. id \in JobIds
  BY PostedIds
<1>2. /\ records \in [JobIds -> Record]
      /\ data \in [JobIds -> Posted \cup {NoJob}]
  BY DEF WorkerInv, QInv, Consistent
<1>3. data' = [data EXCEPT ![id] = call]
  BY DEF PostSubmission
<1>4. data' \in [JobIds -> Posted \cup {NoJob}]
  BY <1>1, <1>2, <1>3
<1>5. ASSUME \A x \in JobIds : x # id => records'[x].status = records[x].status
      PROVE  DataMatchJobs'
  BY <1>1, <1>2, <1>3, <1>5 DEF WorkerInv, DataMatchJobs, SessionKey
<1>6. CASE pc = "idle"
  <2>1. /\ records' = [[records EXCEPT ![id] = Enqueued] EXCEPT ![id] = Claimed(@)]
        /\ pending' = <<>>
        /\ pc' = "local"
        /\ job' = id
    BY <1>1, <1>6, IdleClaimsItsOwn DEF PostSubmission, onEnqueued, enqueueAndClaim
  <2>2. records'[id].status = "processing"
    <3>1. records'[id] = Claimed(Enqueued)
      BY <1>1, <1>2, <2>1
    <3> QED
      BY <3>1 DEF Claimed, Enqueued
  <2>3. \A x \in JobIds : x # id => records'[x].status = records[x].status
    BY <1>1, <1>2, <2>1
  <2>4. \A x \in JobIds : records[x].status # "processing"
    BY <1>6 DEF WorkerInv, SingleFlight, Busy
  <2>5. Busy' /\ pc' \in WorkerStates /\ pc' # "idle"
    BY <2>1 DEF Busy, WorkerStates
  <2>6. SingleFlight'
    BY <2>1, <2>2, <2>3, <2>4, <2>5 DEF SingleFlight
  <2>7. job' # NoJob
    BY <1>1, <2>1, AggregatorAssumption
  <2> QED
    BY <1>1, <1>4, <1>5, <2>1, <2>3, <2>5, <2>6, <2>7 DEF WorkerInv
<1>7. CASE pc # "idle"
  <2>1. /\ records[id].status = "absent"
        /\ records' = [records EXCEPT ![id] = Enqueued]
        /\ UNCHANGED workerVars
    BY <1>7 DEF PostSubmission, onEnqueued, enqueue
  <2>2. records'[id].status = "pending"
    BY <1>1, <1>2, <2>1 DEF Enqueued
  <2>3. \A x \in JobIds : x # id => records'[x].status = records[x].status
    BY <1>1, <1>2, <2>1
  <2>4. SingleFlight'
    BY <1>7, <2>1, <2>2, <2>3 DEF WorkerInv, SingleFlight, Busy, workerVars
  <2> QED
    BY <1>4, <1>5, <2>1, <2>3, <2>4 DEF WorkerInv, Busy, workerVars
<1> QED
  BY <1>6, <1>7

(* The end of a pass, or the next job of it.                               *)
LEMMA DrainWorks ==
    ASSUME WorkerInv, Drain, QInv'
    PROVE  WorkerInv'
<1>1. /\ records \in [JobIds -> Record]
      /\ pc = "drain"
      /\ job = NoJob
      /\ UNCHANGED data
  BY DEF WorkerInv, QInv, Consistent, Drain, Busy
<1>2. \A x \in JobIds : records[x].status # "processing"
  BY <1>1 DEF WorkerInv, SingleFlight, Busy
<1>3. CASE pending = <<>>
  <2>1. pc' = "idle" /\ UNCHANGED <<job, records, pending>>
    BY <1>3 DEF Drain
  <2>2. SingleFlight'
    BY <1>2, <1>3, <2>1 DEF SingleFlight, Busy
  <2> QED
    BY <1>1, <2>1, <2>2 DEF WorkerInv, Busy, WorkerStates, DataMatchJobs, SessionKey
<1>4. CASE pending # <<>>
  <2> DEFINE h == Head(pending)
  <2>1. /\ pc' = "local"
        /\ job' = h
        /\ records' = [records EXCEPT ![h] = Claimed(@)]
    BY <1>4 DEF Drain, claim
  <2>2. h \in JobIds /\ records[h].status = "pending"
    <3>1. h \in JobIds
      BY <1>4, ClaimAgrees DEF WorkerInv, QInv
    <3>2. Waits(pending, h)
      BY <1>4, TailRemovesHead DEF WorkerInv, QInv, Consistent
    <3> QED
      BY <3>1, <3>2 DEF WorkerInv, QInv, Consistent
  <2> HIDE DEF h
  <2>3. records'[h].status = "processing"
    BY <1>1, <2>1, <2>2, ClaimedRecord
  <2>4. \A x \in JobIds : x # h => records'[x] = records[x]
    BY <1>1, <2>1, <2>2
  <2>5. Busy' /\ pc' \in WorkerStates /\ pc' # "idle" /\ job' # NoJob
    BY <2>1, <2>2, AggregatorAssumption DEF Busy, WorkerStates
  <2>6. SingleFlight'
    BY <1>2, <2>1, <2>3, <2>4, <2>5 DEF SingleFlight
  <2>7. DataMatchJobs'
    BY <1>1, <2>2, <2>3, <2>4 DEF WorkerInv, DataMatchJobs, SessionKey
  <2> QED
    BY <1>1, <2>1, <2>2, <2>5, <2>6, <2>7 DEF WorkerInv
<1> QED
  BY <1>3, <1>4

(* Settling a job takes it out of "processing" and touches no other.       *)
LEMMA SettledRecord ==
    ASSUME records \in [JobIds -> Record], NEW id \in JobIds, Settle(id)
    PROVE  /\ records'[id].status # "processing"
           /\ \A x \in JobIds : x # id => records'[x] = records[x]
<1>1. records[id] \in Record
  OBVIOUS
<1>2. ASSUME NEW record, record.status # "processing",
             records' = [records EXCEPT ![id] = record]
      PROVE  /\ records'[id].status # "processing"
             /\ \A x \in JobIds : x # id => records'[x] = records[x]
  BY <1>2
<1>3. CASE complete(id)
  <2> DEFINE record == [records[id] EXCEPT !.status = "complete"]
  <2>1. record.status # "processing" /\ records' = [records EXCEPT ![id] = record]
    BY <1>1, <1>3 DEF complete, Record
  <2> QED
    BY <1>2, <2>1
<1>4. ASSUME NEW code \in Codes, NEW status \in {"pending", "failed", "quarantined"},
             records' = [records EXCEPT ![id].status = status, ![id].error = code]
      PROVE  /\ records'[id].status # "processing"
             /\ \A x \in JobIds : x # id => records'[x] = records[x]
  <2> DEFINE record == [records[id] EXCEPT !.status = status, !.error = code]
  <2>1. record.status # "processing" /\ records' = [records EXCEPT ![id] = record]
    BY <1>1, <1>4 DEF Record
  <2> QED
    BY <1>2, <2>1
<1> QED
  BY <1>3, <1>4 DEF Settle, fail, quarantine

(* The end of a job.                                                       *)
LEMMA EndWorks ==
    ASSUME WorkerInv, Ends, QInv'
    PROVE  WorkerInv'
<1>1. /\ job \in JobIds
      /\ records \in [JobIds -> Record]
      /\ records' \in [JobIds -> Record]
      /\ pc' = "drain"
      /\ job' = NoJob
      /\ UNCHANGED data
  BY HeldJob DEF WorkerInv, QInv, Consistent, Ends
<1>2. /\ records'[job].status # "processing"
      /\ \A x \in JobIds : x # job => records'[x] = records[x]
  BY <1>1, SettledRecord DEF Ends
<1>3. \A x \in JobIds : records'[x].status # "processing"
  BY <1>1, <1>2 DEF WorkerInv, SingleFlight, Ends
<1>4. ~Busy' /\ pc' \in WorkerStates
  BY <1>1 DEF Busy, WorkerStates
<1>5. SingleFlight'
  BY <1>1, <1>3, <1>4 DEF SingleFlight
<1>6. DataMatchJobs'
  BY <1>1, <1>2, HeldJob DEF WorkerInv, DataMatchJobs, SessionKey, Ends
<1> QED
  BY <1>1, <1>4, <1>5, <1>6 DEF WorkerInv

(* Every step keeps the process's half of the invariant.                   *)
LEMMA StepWorks == WorkerInv /\ [AggNext]_allVars => WorkerInv'
<1> SUFFICES ASSUME WorkerInv, [AggNext]_allVars PROVE WorkerInv'
  OBVIOUS
<1>1. QInv'
  BY StepIsDisciplined, StepAgrees DEF WorkerInv
<1>2. ASSUME NEW call \in Posted, PostSubmission(call)
      PROVE  WorkerInv'
  BY <1>1, <1>2, PostWorks
<1>3. Drain => WorkerInv'
  BY <1>1, DrainWorks
<1>4. CASE GoesOn
  <2>1. Busy' /\ pc' \in WorkerStates /\ pc' # "idle"
    BY <1>4 DEF GoesOn, BusyStates, Busy
  <2>2. SingleFlight' /\ DataMatchJobs'
    BY <1>4, <2>1 DEF GoesOn, WorkerInv, SingleFlight, DataMatchJobs, SessionKey
  <2> QED
    BY <1>1, <1>4, <2>1, <2>2 DEF GoesOn, WorkerInv
<1>5. Ends => WorkerInv'
  BY <1>1, EndWorks
<1>6. CASE Restart
  <2>1. \A id \in JobIds : records'[id].status = "absent"
    BY <1>6 DEF Restart, lose, Absent
  <2>2. /\ data' = [id \in JobIds |-> NoJob]
        /\ pc' = "idle"
        /\ job' = NoJob
        /\ pending' = <<>>
    BY <1>6 DEF Restart, lose
  <2>3. SingleFlight' /\ DataMatchJobs' /\ ~Busy' /\ pc' \in WorkerStates
    BY <2>1, <2>2 DEF SingleFlight, DataMatchJobs, Busy, WorkerStates
  <2> QED
    BY <1>1, <2>2, <2>3 DEF WorkerInv
<1>7. CASE UNCHANGED processView
  BY <1>1, <1>7 DEF processView, WorkerInv, SingleFlight, DataMatchJobs, Busy, SessionKey
<1> QED
  BY <1>2, <1>3, <1>4, <1>5, <1>6, <1>7, ProcessSteps

(* Every behaviour of the composition keeps it.                            *)
LEMMA WorkerInvariant == AggSpec => []WorkerInv
  BY InitWorks, StepWorks, PTL DEF AggSpec

(* The worker never works on two jobs, and never sleeps while one waits    *)
(* (isProcessing in worker/index.ts; the "enqueued" events it ignores).    *)
THEOREM WorkerIsSingleFlight == AggSpec => []SingleFlight
  BY WorkerInvariant, PTL DEF WorkerInv

(* The composition implements the queue's specification: what was proved   *)
(* of any disciplined client is proved of the worker.                      *)
THEOREM WorkerIsDisciplined == AggSpec => DisciplinedClient
<1>1. AggInit => QueueInit
  BY DEF AggInit
<1>2. WorkerInv /\ [AggNext]_allVars => [QueueNext]_qvars
  BY StepIsDisciplined
<1> QED
  BY <1>1, <1>2, WorkerInvariant, PTL DEF AggSpec, DisciplinedClient, QueueSpec

(* No job waits without its record saying so, and attempts are bounded, in *)
(* the composition too (queue/index.ts as the worker drives it).           *)
THEOREM QueueStaysSound == AggSpec => [](PendingMatchesStatus /\ AttemptsBounded)
  BY WorkerIsDisciplined, QueueInvariant, InvariantIsEnough, PTL DEF DisciplinedClient

-----------------------------------------------------------------------------
(***************************************************************************)
(* The contract's answers, as codes.                                       *)
(***************************************************************************)
(* A nonempty set of indices has a least one.                              *)
LEMMA LeastIndex ==
    ASSUME NEW n \in Nat, NEW E, E \subseteq 1..n, E # {}
    PROVE  \E i \in E : \A j \in E : i <= j
<1> DEFINE F == {n + 1 - i : i \in E}
<1>1. F \subseteq 1..n /\ F # {}
  <2>1. \A i \in E : n + 1 - i \in 1..n
    OBVIOUS
  <2>2. PICK i \in E : TRUE
    OBVIOUS
  <2> QED
    BY <2>1, <2>2
<1> HIDE DEF F
<1>2. PICK k \in F : \A l \in F : l <= k
  BY <1>1, GreatestIndex
<1> USE DEF F
<1>3. PICK i \in E : k = n + 1 - i
  OBVIOUS
<1>4. ASSUME NEW j \in E
      PROVE  i <= j
  <2>1. n + 1 - j <= n + 1 - i
    BY <1>2, <1>3
  <2> QED
    BY <2>1
<1> QED
  BY <1>4

(* Two of the codes a revert maps to tell the client what the contract     *)
(* holds: check 5 and check 7a, each reached only past those before it.    *)
LEMMA RevertCodes ==
    ASSUME NEW caller, NEW call, ~Accepts(caller, call)
    PROVE  LET code == mapChainError(RevertReason(caller, call))
           IN  /\ code = "SessionKeyAlreadyUsed" => SessionKey(call) \in usedSessionKeys
               /\ code = "InvalidTimestamp" =>
                      /\ SessionKey(call) \notin usedSessionKeys
                      /\ lastSubmissionTimestamp[call.deviceId] # 0
                      /\ ~(call.epochStartTs > lastSubmissionTimestamp[call.deviceId])
<1> DEFINE checks == SubmitChecks(caller, call)
           fails == {i \in DOMAIN checks : ~checks[i].holds}
           first == CHOOSE i \in DOMAIN checks :
                        /\ ~checks[i].holds
                        /\ \A j \in 1..(i - 1) : checks[j].holds
<1>1. DOMAIN checks = 1..11
  BY DEF SubmitChecks
<1>2. \E i \in DOMAIN checks : /\ ~checks[i].holds
                               /\ \A j \in 1..(i - 1) : checks[j].holds
  <2>1. fails \subseteq 1..11 /\ fails # {}
    BY <1>1 DEF Accepts
  <2> HIDE DEF fails
  <2>2. PICK i \in fails : \A j \in fails : i <= j
    BY <2>1, LeastIndex
  <2> USE DEF fails
  <2>3. i \in 1..11 /\ ~checks[i].holds
    BY <1>1, <2>2
  <2> HIDE DEF checks
  <2>4. ASSUME NEW j \in 1..(i - 1)
        PROVE  checks[j].holds
    BY <1>1, <2>2, <2>3
  <2> QED
    BY <1>1, <2>3, <2>4
<1>3. /\ first \in 1..11
      /\ ~checks[first].holds
      /\ \A j \in 1..(first - 1) : checks[j].holds
  BY <1>1, <1>2
<1>4. RevertReason(caller, call) = checks[first].error
  BY DEF RevertReason
<1>5. /\ checks[1].error = "EnforcedPause"
      /\ checks[2].error = "AccessControlUnauthorizedAccount"
      /\ checks[3].error = "InvalidSignatureLength"
      /\ checks[4].error = "InvalidPubkeyLength"
      /\ checks[5].error = "EpochInFuture"
      /\ checks[6].error = "PayloadHashMismatch"
      /\ checks[7].error = "SessionKeyAlreadyUsed"
      /\ checks[8].error = "InvalidTimestamp"
      /\ checks[9].error = "DeviceNotActive"
      /\ checks[10].error = "InvalidP256Signature"
      /\ checks[11].error \in {"SumcheckFailed", "InvalidZKProof"}
  BY DEF SubmitChecks, Check, ProofError
<1>6. /\ checks[7].holds = (SessionKey(call) \notin usedSessionKeys)
      /\ checks[8].holds =
             (lastSubmissionTimestamp[call.deviceId] # 0 =>
                  call.epochStartTs > lastSubmissionTimestamp[call.deviceId])
  BY DEF SubmitChecks, Check
<1> HIDE DEF checks, first
<1>7. ASSUME NEW error \in {"SessionKeyAlreadyUsed", "InvalidTimestamp"},
             mapChainError(RevertReason(caller, call)) = error
      PROVE  checks[first].error = error
  BY <1>4, <1>7 DEF mapChainError
<1>8. mapChainError(RevertReason(caller, call)) = "SessionKeyAlreadyUsed" => first = 7
  BY <1>3, <1>5, <1>7
<1>9. mapChainError(RevertReason(caller, call)) = "InvalidTimestamp" => first = 8
  BY <1>3, <1>5, <1>7
<1>10. first = 8 => checks[7].holds
  BY <1>3
<1> QED
  BY <1>3, <1>6, <1>8, <1>9, <1>10

-----------------------------------------------------------------------------
(***************************************************************************)
(* The contract's storage and the process's transactions.                  *)
(***************************************************************************)
(* Only accepted submissions write the contract's storage: a transaction   *)
(* of the aggregator that is mined, or another operator's.                 *)
LEMMA StorageSteps ==
    ASSUME [AggNext]_allVars
    PROVE  \/ UNCHANGED storage
           \/ \E i \in DOMAIN txs : Mine(i) /\ submitProof(Operator, txs[i].call)
           \/ OthersSubmit
<1>1. ASSUME NEW call \in Posted, PostSubmission(call)
      PROVE  UNCHANGED storage
  BY <1>1 DEF PostSubmission, chainVars, vars
<1>2. WorkerStep \/ Validate => UNCHANGED storage
  BY WorkerLeavesChain DEF chainVars, vars
<1>3. ASSUME NEW i \in DOMAIN txs, Mine(i)
      PROVE  UNCHANGED storage \/ submitProof(Operator, txs[i].call)
  BY <1>3 DEF Mine, chainVars, vars
<1>4. ASSUME NEW i \in DOMAIN txs, Drop(i)
      PROVE  UNCHANGED storage
  BY <1>4 DEF Drop, chainVars, vars
<1>5. ChainChanges => UNCHANGED storage
  BY DEF ChainChanges, Governance, pause, unpause, setDeviceRegistry, setP256Verifier,
         setHonkVerifier, AuthorizationChanges, NewBlock
<1>6. Restart \/ UNCHANGED allVars => UNCHANGED storage
  BY DEF Restart, allVars, chainVars, vars
<1> QED
  BY <1>1, <1>2, <1>3, <1>4, <1>5, <1>6 DEF AggNext

(* What the contract accepts has the shape the request schema lets through *)
(* (checks 1, 2 and 4).                                                    *)
LEMMA AcceptedIsPosted ==
    ASSUME NEW caller, NEW call \in Calls, Accepts(caller, call)
    PROVE  call \in Posted
<1> DEFINE checks == SubmitChecks(caller, call)
<1>1. DOMAIN checks = 1..11
  BY DEF SubmitChecks
<1>2. checks[3].holds /\ checks[4].holds /\ checks[6].holds
  BY <1>1 DEF Accepts
<1>3. /\ checks[3].holds = call.signatureLengthOk
      /\ checks[4].holds = call.pubkeyLengthOk
      /\ checks[6].holds = call.hashesAgree
  BY DEF SubmitChecks, Check
<1> QED
  BY <1>2, <1>3 DEF Posted

(* Sessions stay accepted, and an outdated session is never accepted: the  *)
(* epochs of its calls only fall further behind.                           *)
LEMMA StorageOnlyGrows ==
    ASSUME VInv, TxsMatchCalls, [AggNext]_allVars
    PROVE  /\ usedSessionKeys \subseteq usedSessionKeys'
           /\ \A id \in JobIds : Outdated(id) => Outdated(id)'
<1>1. CASE UNCHANGED storage
  BY <1>1 DEF storage, Outdated, SessionKey
<1>2. ASSUME NEW caller, NEW mined \in Calls, submitProof(caller, mined)
      PROVE  /\ usedSessionKeys \subseteq usedSessionKeys'
             /\ \A id \in JobIds : Outdated(id) => Outdated(id)'
  <2>1. mined \in Posted
    BY <1>2, Submission, AcceptedIsPosted
  <2>2. /\ usedSessionKeys' = usedSessionKeys \cup {SessionKey(mined)}
        /\ lastSubmissionTimestamp' =
               [lastSubmissionTimestamp EXCEPT ![mined.deviceId] = mined.epochStartTs]
        /\ lastSubmissionTimestamp[mined.deviceId] # 0 =>
               mined.epochStartTs > lastSubmissionTimestamp[mined.deviceId]
    BY <1>2, Submission, AcceptedCalls
  <2>3. /\ mined.deviceId \in DeviceIds
        /\ mined.epochStartTs \in Nat
        /\ lastSubmissionTimestamp \in [DeviceIds -> Nat]
    BY <2>1, CallComponents DEF VInv, TypeOK
  <2>4. ASSUME NEW id \in JobIds, Outdated(id)
        PROVE  Outdated(id)'
    <3>1. SessionKey(mined) # id
      BY <2>1, <2>2, <2>3, <2>4 DEF Outdated
    <3>2. ASSUME NEW c \in Posted, SessionKey(c) = id
          PROVE  /\ lastSubmissionTimestamp'[c.deviceId] # 0
                 /\ c.epochStartTs <= lastSubmissionTimestamp'[c.deviceId]
      <4>1. c.deviceId \in DeviceIds /\ c.epochStartTs \in Nat
        BY CallComponents DEF Posted
      <4>2. /\ lastSubmissionTimestamp[c.deviceId] # 0
            /\ c.epochStartTs <= lastSubmissionTimestamp[c.deviceId]
        BY <2>4, <3>2 DEF Outdated
      <4> QED
        BY <2>2, <2>3, <4>1, <4>2
    <3> QED
      BY <2>2, <2>4, <3>1, <3>2 DEF Outdated, SessionKey
  <2> QED
    BY <2>2, <2>4
<1>3. ASSUME NEW i \in DOMAIN txs, submitProof(Operator, txs[i].call)
      PROVE  \E call \in Calls : submitProof(Operator, call)
  BY <1>3 DEF TxsMatchCalls, Posted
<1>4. OthersSubmit => \E caller \in Accounts, call \in Calls : submitProof(caller, call)
  BY DEF OthersSubmit
<1> QED
  BY <1>1, <1>2, <1>3, <1>4, StorageSteps

(* A change of one transaction's status.                                   *)
LEMMA StatusChange ==
    ASSUME txs \in Seq(Tx), NEW i \in DOMAIN txs, NEW s \in TxStatus, SetTxStatus(i, s)
    PROVE  /\ txs' \in Seq(Tx)
           /\ DOMAIN txs' = DOMAIN txs
           /\ \A j \in DOMAIN txs : txs'[j].id = txs[j].id /\ txs'[j].call = txs[j].call
           /\ \A j \in DOMAIN txs : txs'[j].status = IF j = i THEN s ELSE txs[j].status
<1> DEFINE tx == [txs[i] EXCEPT !.status = s]
<1>1. txs[i] \in Tx
  OBVIOUS
<1>2. /\ tx \in Tx
      /\ tx.id = txs[i].id
      /\ tx.call = txs[i].call
      /\ tx.status = s
  BY <1>1 DEF Tx
<1>3. txs' = [txs EXCEPT ![i] = tx]
  BY DEF SetTxStatus
<1> HIDE DEF tx
<1> QED
  BY <1>2, <1>3

(* The list of transactions grows at writeContract's call and changes      *)
(* status in the network; nothing else touches it.                         *)
LEMMA TxSteps ==
    ASSUME [AggNext]_allVars
    PROVE  \/ UNCHANGED txs
           \/ pc = "write" /\ Broadcast
           \/ \E i \in DOMAIN txs : Mine(i) \/ Drop(i)
<1>1. ASSUME NEW call \in Posted, PostSubmission(call)
      PROVE  UNCHANGED txs
  BY <1>1 DEF PostSubmission
<1>2. WorkerStep \/ Validate => UNCHANGED txs \/ (pc = "write" /\ Broadcast)
  BY DEF WorkerStep, Drain, ProcessLocally, Simulate, Write, AwaitReceipt, Validate, Finish
<1>3. ChainChanges \/ OthersSubmit \/ Restart \/ UNCHANGED allVars => UNCHANGED txs
  BY DEF ChainChanges, OthersSubmit, Restart, allVars, aggVars, processVars
<1> QED
  BY <1>1, <1>2, <1>3 DEF AggNext

(* What a broadcast adds.                                                  *)
LEMMA BroadcastAdds ==
    ASSUME WorkerInv, TxsMatchCalls, pc = "write", Broadcast
    PROVE  /\ txs' \in Seq(Tx)
           /\ DOMAIN txs' = 1..(Len(txs) + 1)
           /\ DOMAIN txs = 1..Len(txs)
           /\ Len(txs) \in Nat
           /\ \A i \in DOMAIN txs : txs'[i] = txs[i]
           /\ txs'[Len(txs) + 1] = [id |-> job, call |-> data[job], status |-> "pending"]
           /\ job \in JobIds
           /\ data[job] \in Posted
           /\ SessionKey(data[job]) = job
<1>1. Busy
  BY DEF Busy
<1>2. job \in JobIds /\ data[job] \in Posted /\ SessionKey(data[job]) = job
  BY <1>1, HeldJob
<1>3. [id |-> job, call |-> data[job], status |-> "pending"] \in Tx
  BY <1>2 DEF Tx, TxStatus, Posted
<1>4. txs \in Seq(Tx)
  BY DEF TxsMatchCalls
<1>5. txs' = Append(txs, [id |-> job, call |-> data[job], status |-> "pending"])
  BY DEF Broadcast
<1> QED
  BY <1>2, <1>3, <1>4, <1>5

(* When the worker comes to await a receipt, it has just sent something.   *)
LEMMA ReceiptFollowsWrite ==
    ASSUME WorkerInv, [AggNext]_allVars, pc' = "receipt"
    PROVE  job' = job /\ (pc = "receipt" \/ (pc = "write" /\ Broadcast))
<1>1. ASSUME NEW call \in Posted, PostSubmission(call)
      PROVE  pc = "receipt" /\ job' = job
  BY <1>1 DEF PostSubmission, onEnqueued, workerVars
<1>2. WorkerStep \/ Validate => pc = "write" /\ Broadcast /\ job' = job
  BY DEF WorkerStep, Drain, ProcessLocally, Simulate, Write, AwaitReceipt, Validate, Finish,
         Goto, handleError, Leave, AfterResult
<1>3. ASSUME NEW i \in DOMAIN txs, Mine(i) \/ Drop(i)
      PROVE  pc = "receipt" /\ job' = job
  BY <1>3 DEF Mine, Drop
<1>4. ChainChanges \/ OthersSubmit \/ UNCHANGED allVars => pc = "receipt" /\ job' = job
  BY DEF ChainChanges, OthersSubmit, allVars, aggVars, processVars
<1>5. ~Restart
  BY DEF Restart
<1> QED
  BY <1>1, <1>2, <1>3, <1>4, <1>5 DEF AggNext

(* A transaction that leaves the mempool goes from "pending" to some other *)
(* status.                                                                 *)
LEMMA MempoolSteps ==
    ASSUME TxsMatchCalls, NEW i \in DOMAIN txs, Mine(i) \/ Drop(i)
    PROVE  /\ txs[i].status = "pending"
           /\ \E s \in TxStatus \ {"pending"} :
                 /\ SetTxStatus(i, s)
                 /\ s = "success" => submitProof(Operator, txs[i].call)
                 /\ s # "success" => UNCHANGED vars
  BY DEF Mine, Drop, TxStatus, chainVars

(* Transactions keep to the calls they were made from.                     *)
LEMMA TxsStayMatched ==
    ASSUME WorkerInv, TxsMatchCalls, [AggNext]_allVars
    PROVE  TxsMatchCalls'
<1>1. CASE UNCHANGED txs
  <2>1. pc' = "receipt" =>
            \/ pc = "receipt" /\ job' = job
            \/ pc = "write" /\ Broadcast
    BY ReceiptFollowsWrite
  <2>2. ~(pc = "write" /\ Broadcast)
    <3> SUFFICES ASSUME pc = "write", Broadcast PROVE FALSE
      OBVIOUS
    <3>1. Len(txs) + 1 \in DOMAIN txs' /\ Len(txs) + 1 \notin DOMAIN txs
      BY BroadcastAdds
    <3> QED
      BY <1>1, <3>1
  <2> QED
    BY <1>1, <2>1, <2>2 DEF TxsMatchCalls, SessionKey
<1>2. CASE pc = "write" /\ Broadcast
  <2>1. pc' = "receipt" => job' = job
    BY ReceiptFollowsWrite
  <2> QED
    BY <1>2, <2>1, BroadcastAdds DEF TxsMatchCalls, SessionKey
<1>3. ASSUME NEW i \in DOMAIN txs, Mine(i) \/ Drop(i)
      PROVE  TxsMatchCalls'
  <2>1. PICK s \in TxStatus : SetTxStatus(i, s)
    BY <1>3, MempoolSteps
  <2>2. /\ txs' \in Seq(Tx)
        /\ DOMAIN txs' = DOMAIN txs
        /\ \A j \in DOMAIN txs : txs'[j].id = txs[j].id /\ txs'[j].call = txs[j].call
    BY <2>1, StatusChange DEF TxsMatchCalls
  <2>3. UNCHANGED <<pc, job>>
    BY <1>3 DEF Mine, Drop
  <2> QED
    BY <2>2, <2>3 DEF TxsMatchCalls, SessionKey
<1> QED
  BY <1>1, <1>2, <1>3, TxSteps

(* A session stays on chain exactly when one transaction of it succeeded   *)
(* or another operator has submitted it, and never both.                   *)
LEMMA OneSuccessStays ==
    ASSUME WorkerInv, TxsMatchCalls, others \subseteq JobIds, ExactlyOneSuccess,
           [AggNext]_allVars
    PROVE  others' \subseteq JobIds /\ ExactlyOneSuccess'
<1> DEFINE Won(i, id) == txs[i].id = id /\ txs[i].status = "success"
<1>1. ASSUME NEW id \in JobIds
      PROVE  /\ id \in usedSessionKeys <=>
                     (\E i \in DOMAIN txs : Won(i, id)) \/ id \in others
             /\ id \in others => \A i \in DOMAIN txs : ~Won(i, id)
             /\ \A i, j \in DOMAIN txs : Won(i, id) /\ Won(j, id) => i = j
  BY DEF ExactlyOneSuccess, Succeeded, TxsOf
<1>2. ASSUME \A id \in JobIds :
                 /\ id \in usedSessionKeys' <=>
                        (\E i \in DOMAIN txs' : Won(i, id)') \/ id \in others'
                 /\ id \in others' => \A i \in DOMAIN txs' : ~Won(i, id)'
                 /\ \A i, j \in DOMAIN txs' : Won(i, id)' /\ Won(j, id)' => i = j
      PROVE  ExactlyOneSuccess'
  BY <1>2 DEF ExactlyOneSuccess, Succeeded, TxsOf
<1>3. CASE UNCHANGED <<txs, storage, others>>
  BY <1>3 DEF ExactlyOneSuccess, Succeeded, TxsOf, storage
<1>4. CASE pc = "write" /\ Broadcast /\ UNCHANGED <<storage, others>>
  <2>1. usedSessionKeys' = usedSessionKeys
    BY <1>4 DEF storage
  <2>2. /\ DOMAIN txs \subseteq DOMAIN txs'
        /\ \A i \in DOMAIN txs : txs'[i] = txs[i]
        /\ \A i \in DOMAIN txs' : i \notin DOMAIN txs => txs'[i].status # "success"
    BY <1>4, BroadcastAdds
  <2> QED
    BY <1>1, <1>2, <1>4, <2>1, <2>2
<1>5. ASSUME NEW i \in DOMAIN txs, Mine(i) \/ Drop(i)
      PROVE  ExactlyOneSuccess' /\ UNCHANGED others
  <2>1. /\ txs[i].status = "pending"
        /\ txs[i].call \in Posted
        /\ txs[i].id = SessionKey(txs[i].call)
    BY <1>5, MempoolSteps DEF TxsMatchCalls
  <2>2. PICK s \in TxStatus \ {"pending"} :
            /\ SetTxStatus(i, s)
            /\ s = "success" => submitProof(Operator, txs[i].call)
            /\ s # "success" => UNCHANGED vars
    BY <1>5, MempoolSteps
  <2>3. /\ DOMAIN txs' = DOMAIN txs
        /\ \A j \in DOMAIN txs : txs'[j].id = txs[j].id
        /\ \A j \in DOMAIN txs : txs'[j].status = IF j = i THEN s ELSE txs[j].status
    BY <2>2, StatusChange DEF TxsMatchCalls
  <2>4. UNCHANGED others
    BY <1>5 DEF Mine, Drop
  <2>5. CASE s = "success"
    <3>1. /\ txs[i].id \notin usedSessionKeys
          /\ usedSessionKeys' = usedSessionKeys \cup {txs[i].id}
      BY <2>1, <2>2, <2>5, Submission, AcceptedCalls
    <3> QED
      BY <1>1, <1>2, <2>3, <2>4, <2>5, <3>1
  <2>6. CASE s # "success"
    <3>1. usedSessionKeys' = usedSessionKeys
      BY <2>2, <2>6 DEF vars, storage
    <3> QED
      BY <1>1, <1>2, <2>1, <2>3, <2>4, <2>6, <3>1
  <2> QED
    BY <2>4, <2>5, <2>6
<1>6. CASE OthersSubmit
  <2>1. PICK caller \in Accounts, call \in Calls :
            /\ submitProof(caller, call)
            /\ others' = others \cup {SessionKey(call)}
            /\ UNCHANGED txs
    BY <1>6 DEF OthersSubmit, processVars
  <2>2. /\ SessionKey(call) \in JobIds
        /\ SessionKey(call) \notin usedSessionKeys
        /\ usedSessionKeys' = usedSessionKeys \cup {SessionKey(call)}
    BY <2>1, Submission, AcceptedCalls, CallComponents, AggregatorAssumption
  <2> QED
    BY <1>1, <1>2, <2>1, <2>2
<1>7. \/ UNCHANGED <<storage, others>>
      \/ \E i \in DOMAIN txs : Mine(i)
      \/ OthersSubmit
  <2>1. ~OthersSubmit => UNCHANGED others
    BY WorkerLeavesChain
       DEF AggNext, PostSubmission, Mine, Drop, ChainChanges, Restart, allVars, aggVars
  <2> QED
    BY <2>1, StorageSteps
<1> QED
  BY <1>3, <1>4, <1>5, <1>6, <1>7, TxSteps

-----------------------------------------------------------------------------
(***************************************************************************)
(* What the worker knows, and what the client is told.                     *)
(***************************************************************************)
(* A receipt of success is the contract's acceptance: the transaction the  *)
(* worker waits for is of its job's session.                               *)
LEMMA SuccessIsAcceptance ==
    ASSUME TxsMatchCalls, ExactlyOneSuccess, job \in JobIds, pc = "receipt",
           CurrentTx.status = "success"
    PROVE  job \in usedSessionKeys
<1> DEFINE mine == {i \in DOMAIN txs : txs[i].id = job}
           current == CHOOSE i \in DOMAIN txs :
                          /\ txs[i].id = job
                          /\ \A j \in DOMAIN txs : txs[j].id = job => j <= i
<1>1. DOMAIN txs = 1..Len(txs) /\ Len(txs) \in Nat
  BY DEF TxsMatchCalls
<1>2. mine \subseteq 1..Len(txs) /\ mine # {}
  BY <1>1 DEF TxsMatchCalls
<1>3. \E i \in mine : \A j \in mine : j <= i
  BY <1>1, <1>2, GreatestIndex
<1>4. current \in DOMAIN txs /\ txs[current].id = job
  BY <1>3
<1>5. CurrentTx = txs[current]
  BY DEF CurrentTx
<1> HIDE DEF current
<1> QED
  BY <1>4, <1>5 DEF ExactlyOneSuccess, Succeeded, TxsOf

(* The contract's answer to the held job's call, as a code.                *)
LEMMA RevertHolds ==
    ASSUME WorkerInv, VInv, Busy, OneEpochPerSession, ~Accepts(Operator, data[job])
    PROVE  ErrorHolds(job, mapChainError(RevertReason(Operator, data[job])))
<1> DEFINE call == data[job]
           code == mapChainError(RevertReason(Operator, call))
<1>1. job \in JobIds /\ call \in Posted /\ SessionKey(call) = job
  BY HeldJob
<1>2. call.deviceId \in DeviceIds /\ call.epochStartTs \in Nat
  BY <1>1, CallComponents DEF Posted
<1>3. /\ code = "SessionKeyAlreadyUsed" => SessionKey(call) \in usedSessionKeys
      /\ code = "InvalidTimestamp" =>
             /\ SessionKey(call) \notin usedSessionKeys
             /\ lastSubmissionTimestamp[call.deviceId] # 0
             /\ ~(call.epochStartTs > lastSubmissionTimestamp[call.deviceId])
  BY RevertCodes
<1>4. lastSubmissionTimestamp[call.deviceId] \in Nat
  BY <1>2 DEF VInv, TypeOK
<1> HIDE DEF call, code
<1>5. ASSUME code = "InvalidTimestamp"
      PROVE  Outdated(job)
  <2>1. ASSUME NEW c \in Posted, SessionKey(c) = job
        PROVE  /\ lastSubmissionTimestamp[c.deviceId] # 0
               /\ c.epochStartTs <= lastSubmissionTimestamp[c.deviceId]
    <3>1. c.epochStartTs = call.epochStartTs
      BY <1>1, <2>1 DEF OneEpochPerSession
    <3>2. c.deviceId = call.deviceId
      BY <1>1, <2>1 DEF SessionKey
    <3> QED
      BY <1>2, <1>3, <1>4, <1>5, <3>1, <3>2
  <2> QED
    BY <1>1, <1>3, <1>5, <2>1 DEF Outdated
<1>6. code = "SessionKeyAlreadyUsed" => job \in usedSessionKeys
  BY <1>1, <1>3
<1> QED
  BY <1>5, <1>6 DEF ErrorHolds, code, call

(* At each of its waits the worker goes on, or gives the job up with a     *)
(* code that holds.                                                        *)
LEMMA WorkerOutcome ==
    ASSUME WorkerInv, VInv, ProcessLocally \/ Simulate \/ Write \/ AwaitReceipt
    PROVE  \/ UNCHANGED <<job, records, rows>> /\ pc' \in BusyStates
           \/ \E code \in Codes :
                 handleError(code) /\ (OneEpochPerSession => ErrorHolds(job, code))
<1>1. AfterResult \in {"validate", "finish"}
  BY DEF AfterResult
<1>2. ASSUME NEW to \in {"simulate", "write", "receipt", "validate", "finish"}, Goto(to),
             UNCHANGED rows
      PROVE  UNCHANGED <<job, records, rows>> /\ pc' \in BusyStates
  BY <1>2 DEF Goto, BusyStates, WorkerStates
<1>3. ASSUME NEW code \in {"WorkerError", "UNKNOWN", "TX_REVERTED"}
      PROVE  code \in Codes /\ ErrorHolds(job, code)
  BY CodesAreCodes DEF ErrorHolds
<1>4. CASE ProcessLocally
  <2>1. LocalError(data[job]) # NoError =>
            LocalError(data[job]) \in Codes /\ ErrorHolds(job, LocalError(data[job]))
    <3>1. NoError \notin {"InvalidP256Signature", "CircuitConstraintFailed", "InvalidZKProof"}
      BY AggregatorAssumption, QueueAssumption
         DEF AllCodes, ChainErrorCode, KNOWN_ERROR_NAMES, QUARANTINE_CODES
    <3> QED
      BY CodesAreCodes, <3>1 DEF LocalError, ErrorHolds
  <2>2. ASSUME Goto(IF ChainLive THEN "simulate" ELSE AfterResult), UNCHANGED rows
        PROVE  UNCHANGED <<job, records, rows>> /\ pc' \in BusyStates
    BY <1>1, <1>2, <2>2
  <2> QED
    BY <1>3, <1>4, <2>1, <2>2 DEF ProcessLocally
<1>5. CASE Simulate \/ Write
  <2>1. Busy
    BY <1>5 DEF Simulate, Write, Busy
  <2>2. ~Accepts(Operator, data[job]) /\ OneEpochPerSession =>
            ErrorHolds(job, mapChainError(RevertReason(Operator, data[job])))
    BY <2>1, RevertHolds
  <2>3. mapChainError(RevertReason(Operator, data[job])) \in Codes
    BY CodesAreCodes
  <2> QED
    BY <1>2, <1>3, <1>5, <2>2, <2>3 DEF Simulate, Write
<1>6. CASE AwaitReceipt
  BY <1>1, <1>2, <1>3, <1>6 DEF AwaitReceipt
<1> QED
  BY <1>4, <1>5, <1>6

(* A change of one record: the others stay what they were.                 *)
LEMMA ErrorRecord ==
    ASSUME WorkerInv, Busy, NEW code \in Codes, handleError(code)
    PROVE  /\ records'[job].error = code
           /\ records'[job].status # "complete"
           /\ \A x \in JobIds : x # job => records'[x] = records[x]
           /\ pc' = "drain"
           /\ UNCHANGED rows
<1>1. job \in JobIds /\ records \in [JobIds -> Record] /\ records[job] \in Record
  BY HeldJob DEF WorkerInv, QInv, Consistent
<1>2. ASSUME NEW status \in {"pending", "failed", "quarantined"},
             records' = [records EXCEPT ![job].status = status, ![job].error = code]
      PROVE  /\ records'[job].error = code
             /\ records'[job].status # "complete"
             /\ \A x \in JobIds : x # job => records'[x] = records[x]
  <2> DEFINE record == [records[job] EXCEPT !.status = status, !.error = code]
  <2>1. /\ record.status # "complete"
        /\ record.error = code
        /\ records' = [records EXCEPT ![job] = record]
    BY <1>1, <1>2 DEF Record
  <2> HIDE DEF record
  <2> QED
    BY <1>1, <2>1
<1>3. quarantine(job, code) \/ fail(job, code)
  BY DEF handleError
<1>4. pc' = "drain" /\ UNCHANGED rows
  BY DEF handleError, Leave
<1> QED
  BY <1>2, <1>3, <1>4 DEF quarantine, fail

(* What records say stays true as long as a step changes a record only to  *)
(* say what holds.                                                         *)
LEMMA RecordsStayTrue ==
    ASSUME VInv, TxsMatchCalls, CompleteMeansAccepted, ErrorsStayFacts,
           [AggNext]_allVars, UNCHANGED env,
           \A id \in JobIds :
               /\ records'[id].status = "complete" =>
                      records[id].status = "complete" \/ (ChainLive => id \in usedSessionKeys)
               /\ \/ records'[id].error = records[id].error
                  \/ OneEpochPerSession => ErrorHolds(id, records'[id].error)
    PROVE  CompleteMeansAccepted' /\ ErrorsStayFacts'
<1>1. /\ usedSessionKeys \subseteq usedSessionKeys'
      /\ \A id \in JobIds : Outdated(id) => Outdated(id)'
  BY StorageOnlyGrows
<1>2. CompleteMeansAccepted'
  BY <1>1 DEF CompleteMeansAccepted, ChainLive
<1>3. ASSUME OneEpochPerSession
      PROVE  \A id \in JobIds : ErrorHolds(id, records'[id].error)
  BY <1>3 DEF ErrorsStayFacts
<1>4. ASSUME OneEpochPerSession, NEW id \in JobIds, ErrorHolds(id, records'[id].error)
      PROVE  /\ records'[id].error = "SessionKeyAlreadyUsed" => id \in usedSessionKeys'
             /\ records'[id].error = "InvalidTimestamp" => Outdated(id)'
  BY <1>1, <1>4 DEF ErrorHolds
<1>5. ErrorsStayFacts'
  BY <1>3, <1>4 DEF ErrorsStayFacts, ErrorHolds, OneEpochPerSession, SessionKey
<1> QED
  BY <1>2, <1>5

(* What the worker knows, and the rows it has inserted, stay right in a    *)
(* step that leaves its place, job and rows alone.                         *)
LEMMA KnowledgeStays ==
    ASSUME VInv, TxsMatchCalls, WorkerKnows, RowsMatchChain, rows \in [JobIds -> Nat],
           [AggNext]_allVars, UNCHANGED <<env, rows>>,
           UNCHANGED <<pc, job>> \/ pc' \in {"idle", "drain", "local"}
    PROVE  WorkerKnows' /\ RowsMatchChain' /\ (rows \in [JobIds -> Nat])'
  BY StorageOnlyGrows DEF WorkerKnows, RowsMatchChain, ChainLive

(* The environment is fixed when the process starts.                       *)
LEMMA EnvironmentIsFixed ==
    ASSUME [AggNext]_allVars
    PROVE  UNCHANGED env
<1>1. WorkerStep \/ Validate => UNCHANGED env
  BY WorkerLeavesChain
<1> QED
  BY <1>1 DEF AggNext, PostSubmission, Mine, Drop, ChainChanges, OthersSubmit, Restart,
              allVars, aggVars, processVars

FactsInv ==
    /\ rows \in [JobIds -> Nat]
    /\ WorkerKnows
    /\ CompleteMeansAccepted
    /\ RowsMatchChain
    /\ ErrorsStayFacts

(* The worker's steps keep the facts.                                      *)
LEMMA WorkerKeepsFacts ==
    ASSUME WorkerInv, ChainInv, AggNext, UNCHANGED env,
           ProcessLocally \/ Simulate \/ Write \/ AwaitReceipt
    PROVE  FactsInv'
<1>1. Busy /\ job \in JobIds
  <2>1. Busy
    BY DEF ProcessLocally, Simulate, Write, AwaitReceipt, Busy
  <2> QED
    BY <2>1, HeldJob
<1>2. VInv /\ TxsMatchCalls /\ ExactlyOneSuccess
  BY DEF ChainInv
<1>3. usedSessionKeys' = usedSessionKeys
  BY WorkerLeavesChain DEF WorkerStep, chainVars, vars, storage
<1>4. ASSUME NEW code \in Codes, handleError(code),
             OneEpochPerSession => ErrorHolds(job, code)
      PROVE  FactsInv'
  <2>1. /\ records'[job].error = code
        /\ records'[job].status # "complete"
        /\ \A x \in JobIds : x # job => records'[x] = records[x]
        /\ pc' = "drain"
        /\ UNCHANGED rows
    BY <1>1, <1>4, ErrorRecord
  <2>2. CompleteMeansAccepted' /\ ErrorsStayFacts'
    BY <1>2, <1>4, <2>1, RecordsStayTrue DEF ChainInv
  <2>3. WorkerKnows' /\ RowsMatchChain' /\ (rows \in [JobIds -> Nat])'
    BY <1>2, <2>1, KnowledgeStays DEF ChainInv
  <2> QED
    BY <2>2, <2>3 DEF FactsInv
<1>5. ASSUME UNCHANGED <<job, records, rows>>, pc' \in BusyStates
      PROVE  FactsInv'
  <2>1. CompleteMeansAccepted' /\ ErrorsStayFacts'
    BY <1>2, <1>5, RecordsStayTrue DEF ChainInv
  <2>2. RowsMatchChain' /\ rows' \in [JobIds -> Nat]
    BY <1>3, <1>5 DEF ChainInv, RowsMatchChain, ChainLive
  <2>3. pc' # "drain"
    BY <1>5 DEF BusyStates
  <2>4. WorkerKnows'
    <3>1. CASE ProcessLocally
      BY <1>3, <1>5, <2>3, <3>1
         DEF ProcessLocally, Goto, handleError, Leave, AfterResult, ChainInv, WorkerKnows, ChainLive
    <3>2. CASE Simulate
      BY <1>3, <1>5, <2>3, <3>2
         DEF Simulate, Goto, handleError, Leave, ChainInv, WorkerKnows, ChainLive
    <3>3. CASE Write
      <4>1. pc' = "receipt" /\ Accepts(Operator, data[job]) /\ ChainLive
        BY <2>3, <3>3 DEF Write, Goto, handleError, Leave, ChainInv, WorkerKnows
      <4>2. job \notin usedSessionKeys
        BY <1>1, <4>1, HeldJob, AcceptedCalls
      <4>3. rows[job] = 0
        BY <1>1, <4>1, <4>2 DEF ChainInv, RowsMatchChain
      <4> QED
        BY <1>5, <4>1, <4>3 DEF ChainInv, WorkerKnows, ChainLive
    <3>4. CASE AwaitReceipt
      <4>1. CurrentTx.status = "success" /\ pc = "receipt" /\ pc' = AfterResult
        BY <2>3, <3>4 DEF AwaitReceipt, Goto, handleError, Leave
      <4>2. job \in usedSessionKeys
        BY <1>1, <1>2, <4>1, SuccessIsAcceptance
      <4> QED
        BY <1>3, <1>5, <4>1, <4>2 DEF AfterResult, ChainInv, WorkerKnows, ChainLive
    <3> QED
      BY <3>1, <3>2, <3>3, <3>4
  <2> QED
    BY <1>5, <2>1, <2>2, <2>4 DEF FactsInv
<1> QED
  BY <1>2, <1>4, <1>5, WorkerOutcome

(* Every step keeps the facts.                                             *)
LEMMA FactsStay ==
    ASSUME WorkerInv, ChainInv, [AggNext]_allVars
    PROVE  FactsInv'
<1>1. /\ VInv
      /\ TxsMatchCalls
      /\ CompleteMeansAccepted
      /\ ErrorsStayFacts
      /\ WorkerKnows
      /\ RowsMatchChain
      /\ rows \in [JobIds -> Nat]
  BY DEF ChainInv
<1>2. UNCHANGED env
  BY EnvironmentIsFixed
<1>3. records \in [JobIds -> Record]
  BY DEF WorkerInv, QInv, Consistent
<1>4. \A id : ErrorHolds(id, NoError)
  BY QueueAssumption, AggregatorAssumption
     DEF ErrorHolds, AllCodes, ChainErrorCode, KNOWN_ERROR_NAMES, QUARANTINE_CODES
<1>5. ASSUME UNCHANGED rows, UNCHANGED <<pc, job>> \/ pc' \in {"idle", "drain", "local"},
             \A id \in JobIds :
                 /\ records'[id].status = "complete" =>
                        records[id].status = "complete" \/ (ChainLive => id \in usedSessionKeys)
                 /\ records'[id].error \in {records[id].error, NoError}
      PROVE  FactsInv'
  <2>1. CompleteMeansAccepted' /\ ErrorsStayFacts'
    BY <1>1, <1>2, <1>4, <1>5, RecordsStayTrue
  <2>2. WorkerKnows' /\ RowsMatchChain' /\ (rows \in [JobIds -> Nat])'
    BY <1>1, <1>2, <1>5, KnowledgeStays
  <2> QED
    BY <2>1, <2>2 DEF FactsInv
<1>6. ASSUME NEW call \in Posted, PostSubmission(call)
      PROVE  FactsInv'
  <2> DEFINE id == SessionKey(call)
  <2>1. id \in JobIds
    BY PostedIds
  <2>2. CASE pc = "idle"
    <3>1. /\ records' = [[records EXCEPT ![id] = Enqueued] EXCEPT ![id] = Claimed(@)]
          /\ pc' = "local"
          /\ UNCHANGED rows
      BY <1>6, <2>1, <2>2, IdleClaimsItsOwn DEF PostSubmission, onEnqueued, enqueueAndClaim
    <3>2. records'[id] = Claimed(Enqueued)
      BY <1>3, <2>1, <3>1
    <3>3. records'[id].status = "processing" /\ records'[id].error = NoError
      BY <3>2 DEF Claimed, Enqueued
    <3>4. \A x \in JobIds : x # id => records'[x] = records[x]
      BY <1>3, <2>1, <3>1
    <3> QED
      BY <1>5, <3>1, <3>3, <3>4
  <2>3. CASE pc # "idle"
    <3>1. records' = [records EXCEPT ![id] = Enqueued] /\ UNCHANGED <<pc, job, rows>>
      BY <1>6, <2>3 DEF PostSubmission, onEnqueued, enqueue, workerVars
    <3>2. records'[id].status = "pending" /\ records'[id].error = NoError
      BY <1>3, <2>1, <3>1 DEF Enqueued
    <3>3. \A x \in JobIds : x # id => records'[x] = records[x]
      BY <1>3, <2>1, <3>1
    <3> QED
      BY <1>5, <3>1, <3>2, <3>3
  <2> QED
    BY <2>2, <2>3
<1>7. CASE Drain
  <2>1. pc' \in {"idle", "local"} /\ UNCHANGED rows
    BY <1>7 DEF Drain
  <2>2. CASE UNCHANGED records
    BY <1>5, <2>1, <2>2
  <2>3. CASE pending # <<>> /\ records' = [records EXCEPT ![Head(pending)] = Claimed(@)]
    <3>1. Head(pending) \in JobIds
      BY <2>3, ClaimAgrees DEF WorkerInv, QInv
    <3>2. /\ records'[Head(pending)].status = "processing"
          /\ records'[Head(pending)].error = records[Head(pending)].error
      BY <1>3, <2>3, <3>1 DEF Claimed, Record
    <3>3. \A x \in JobIds : x # Head(pending) => records'[x] = records[x]
      BY <1>3, <2>3, <3>1
    <3> QED
      BY <1>5, <2>1, <3>2, <3>3
  <2> QED
    BY <1>7, <2>2, <2>3 DEF Drain, claim
<1>8. CASE ProcessLocally \/ Simulate \/ Write \/ AwaitReceipt
  BY <1>2, <1>8, WorkerKeepsFacts DEF AggNext, WorkerStep
<1>9. CASE Validate
  <2>1. job \in JobIds
    <3>1. Busy
      BY <1>9 DEF Validate, Busy
    <3> QED
      BY <3>1, HeldJob
  <2>2. CompleteMeansAccepted' /\ ErrorsStayFacts'
    BY <1>1, <1>2, <1>9, RecordsStayTrue DEF Validate, Goto
  <2>3. usedSessionKeys' = usedSessionKeys
    BY <1>9, WorkerLeavesChain DEF chainVars, vars, storage
  <2>4. /\ ChainLive => job \in usedSessionKeys /\ rows[job] = 0
        /\ pc' = "finish"
        /\ job' = job
        /\ rows' \in {rows, [rows EXCEPT ![job] = @ + 1]}
    BY <1>1, <1>9 DEF Validate, Goto, WorkerKnows
  <2>5. rows' \in [JobIds -> Nat]
    BY <1>1, <2>1, <2>4
  <2>6. RowsMatchChain'
    BY <1>1, <1>2, <2>1, <2>3, <2>4 DEF RowsMatchChain, ChainLive
  <2>7. WorkerKnows'
    BY <1>1, <1>2, <2>3, <2>4 DEF WorkerKnows, ChainLive
  <2> QED
    BY <2>2, <2>5, <2>6, <2>7 DEF FactsInv
<1>10. CASE Finish
  <2>1. Busy
    BY <1>10 DEF Finish, Busy
  <2>2. /\ job \in JobIds
        /\ records' = [records EXCEPT ![job].status = "complete"]
        /\ pc' = "drain"
        /\ UNCHANGED rows
    BY <1>10, <2>1, HeldJob DEF Finish, complete, Leave
  <2>3. records'[job].error = records[job].error
    BY <1>3, <2>2 DEF Record
  <2>4. \A x \in JobIds : x # job => records'[x] = records[x]
    BY <1>3, <2>2
  <2>5. ChainLive => job \in usedSessionKeys
    BY <1>1, <1>10 DEF Finish, WorkerKnows
  <2> QED
    BY <1>5, <2>2, <2>3, <2>4, <2>5
<1>11. CASE Restart
  <2>1. \A id \in JobIds : records'[id] = Absent
    BY <1>11 DEF Restart, lose
  <2> QED
    BY <1>5, <1>11, <2>1 DEF Restart, Absent
<1>12. ASSUME UNCHANGED <<records, pc, job, rows>>
       PROVE  FactsInv'
  BY <1>5, <1>12
<1>13. ASSUME NEW i \in DOMAIN txs, Mine(i) \/ Drop(i)
       PROVE  UNCHANGED <<records, pc, job, rows>>
  BY <1>13 DEF Mine, Drop
<1>14. ChainChanges \/ OthersSubmit \/ UNCHANGED allVars => UNCHANGED <<records, pc, job, rows>>
  BY DEF ChainChanges, OthersSubmit, allVars, aggVars, processVars
<1> QED
  BY <1>6, <1>7, <1>8, <1>9, <1>10, <1>11, <1>12, <1>13, <1>14 DEF AggNext, WorkerStep

(* A deployed contract nobody has submitted to, and a process that has     *)
(* done nothing.                                                           *)
LEMMA InitFacts == AggInit => ChainInv
<1> SUFFICES ASSUME AggInit PROVE ChainInv
  OBVIOUS
<1>1. TypeOK
  <2>1. AC!RolesTypeOK
    BY V3Assumption, AggregatorAssumption DEF AggInit, AC!RolesTypeOK
  <2>2. /\ lastSubmissionTimestamp \in [DeviceIds -> Nat]
        /\ usedSessionKeys \subseteq DeviceIds \X SessionIds
        /\ log \in Seq(Event)
        /\ authorized \in [Registries -> SUBSET PubKeys]
        /\ blockTimestamp \in Nat
    BY DEF AggInit
  <2> QED
    BY <2>1, <2>2, V3Assumption DEF AggInit, TypeOK
<1>2. VInv
  <2>1. Unused
    BY DEF AggInit, Unused
  <2> QED
    BY <1>1, <2>1, UnusedSafe
<1>3. txs \in Seq(Tx) /\ DOMAIN txs = {} /\ pc = "idle"
  BY DEF AggInit
<1>4. \A id \in JobIds : records[id].status # "complete" /\ records[id].error = NoError
  BY DEF AggInit, QueueInit, Absent
<1>5. TxsMatchCalls /\ others \subseteq JobIds /\ ExactlyOneSuccess
  BY <1>3 DEF TxsMatchCalls, ExactlyOneSuccess, Succeeded, TxsOf, AggInit
<1>6. rows \in [JobIds -> Nat] /\ RowsMatchChain
  BY DEF AggInit, RowsMatchChain
<1>7. WorkerKnows /\ CompleteMeansAccepted
  BY <1>3, <1>4 DEF AggInit, WorkerKnows, CompleteMeansAccepted
<1>8. ErrorsStayFacts
  BY <1>4, QueueAssumption, AggregatorAssumption
     DEF ErrorsStayFacts, ErrorHolds, AllCodes, ChainErrorCode, KNOWN_ERROR_NAMES,
         QUARANTINE_CODES
<1> QED
  BY <1>2, <1>5, <1>6, <1>7, <1>8 DEF ChainInv

(* Every step keeps the whole invariant.                                   *)
LEMMA StepKeepsAll == AggInv /\ [AggNext]_allVars => AggInv'
<1> SUFFICES ASSUME WorkerInv, ChainInv, [AggNext]_allVars PROVE AggInv'
  BY DEF AggInv
<1>1. WorkerInv'
  BY StepWorks
<1>2. TxsMatchCalls /\ others \subseteq JobIds /\ ExactlyOneSuccess /\ VInv
  BY DEF ChainInv
<1>3. VInv'
  BY <1>2, ChainSteps, StepKeepsInvariant
<1>4. TxsMatchCalls' /\ others' \subseteq JobIds /\ ExactlyOneSuccess'
  BY <1>2, TxsStayMatched, OneSuccessStays
<1>5. FactsInv'
  BY FactsStay
<1> QED
  BY <1>1, <1>3, <1>4, <1>5 DEF AggInv, ChainInv, FactsInv

(* Every behaviour of the composition satisfies the invariant.             *)
LEMMA AggInvariant == AggSpec => []AggInv
<1>1. AggInit => AggInv
  BY InitWorks, InitFacts DEF AggInv
<1> QED
  BY <1>1, StepKeepsAll, PTL DEF AggSpec

-----------------------------------------------------------------------------
(***************************************************************************)
(* Results.                                                                *)
(***************************************************************************)
(* The types of contract, queue and worker; a worker that holds a job has  *)
(* its data, and one that awaits a receipt has sent a transaction.         *)
THEOREM AggTypeCorrect == AggSpec => []AggTypeOK
<1>1. AggInv => AggTypeOK
  <2> SUFFICES ASSUME WorkerInv, ChainInv PROVE AggTypeOK
    BY DEF AggInv
  <2>1. TypeOK /\ QueueTypeOK
    BY InvariantIsEnough DEF WorkerInv, ChainInv, VInv
  <2>2. Busy => SessionKey(data[job]) = job
    BY HeldJob
  <2> QED
    BY <2>1, <2>2 DEF AggTypeOK, WorkerInv, ChainInv, WorkerKnows, TxsMatchCalls
<1> QED
  BY <1>1, AggInvariant, PTL

(* Retries, lost answers, receipts that time out and restarts may have a   *)
(* session broadcast many times, while other operators submit it too: one  *)
(* submission of it succeeds (submit.ts, checks 3 and 5).                  *)
THEOREM OneTransactionWins == AggSpec => []ExactlyOneSuccess
  BY AggInvariant, PTL DEF AggInv, ChainInv

(* A process with a chain client calls a job complete only after the       *)
(* contract has accepted its session (process and complete).               *)
THEOREM CompleteIsAccepted == AggSpec => []CompleteMeansAccepted
  BY AggInvariant, PTL DEF AggInv, ChainInv

(* The pipeline's insert comes once per accepted session, in however many  *)
(* lives of the process the session was posted.                            *)
THEOREM RowsAreAccepted == AggSpec => []RowsMatchChain
  BY AggInvariant, PTL DEF AggInv, ChainInv

(* SessionKeyAlreadyUsed and InvalidTimestamp, once reported, stay true of *)
(* the chain, whatever is mined later (mapChainError, checks 5 and 7a).    *)
THEOREM ReportedErrorsHold == AggSpec => []ErrorsAreFacts
<1>1. ErrorsStayFacts => ErrorsAreFacts
  BY DEF ErrorsStayFacts, ErrorsAreFacts, ErrorHolds, Outdated
<1> QED
  BY <1>1, AggInvariant, PTL DEF AggInv, ChainInv

(* A job is given up for a retryable code only after all its attempts: no  *)
(* path of the worker settles it early (fail; worker/index.ts:21).         *)
THEOREM RetriesUsedUp == AggSpec => []RetriesAreUsed
<1>1. WorkerInv => RetriesAreUsed
  BY DEF WorkerInv, QInv, Consistent, Sound, RetriesAreUsed
<1> QED
  BY <1>1, WorkerInvariant, PTL

(* In the composition the contract's guarantees hold too: no replay, and   *)
(* rejections that are final, for the traffic the aggregator produces.     *)
THEOREM ContractHolds == AggSpec => [](SessionAtMostOnce /\ EpochsIncrease) /\ StaleForever
<1>1. AggInv => SessionAtMostOnce /\ EpochsIncrease
  BY DEF AggInv, ChainInv, VInv
<1>2. AggInv /\ [AggNext]_allVars => [\A call \in Calls : Stale(call) => Stale(call)']_vars
  <2> SUFFICES ASSUME ChainInv, [AggNext]_allVars
               PROVE  [\A call \in Calls : Stale(call) => Stale(call)']_vars
    BY DEF AggInv
  <2>1. TypeOK /\ [Next]_vars
    BY ChainSteps DEF ChainInv, VInv
  <2> QED
    BY <2>1, StaleStaysStale
<1> QED
  BY <1>1, <1>2, AggInvariant, PTL DEF AggSpec, StaleForever
=============================================================================
