------------------------------ MODULE Aggregator ------------------------------
(***************************************************************************)
(* One aggregator process in front of the proof registry: the HTTP handler *)
(* that accepts submissions, the queue, the single-flight worker that      *)
(* drains it, the chain client with its simulate / write / receipt calls,  *)
(* and the contract they reach (EnergyProofRegistryV3, whose state this    *)
(* module extends).  Every await of the worker ends an action, so requests,*)
(* blocks, governance and the death of the process come in between.        *)
(*                                                                         *)
(* Which of the chain client and the validation pipeline the process has   *)
(* is decided by its environment.  Without a chain client the worker runs  *)
(* in mock mode: proofs are made and verified, and nothing is submitted.   *)
(***************************************************************************)
EXTENDS EnergyProofRegistryV3, SubmissionQueue

CONSTANTS
    Operator,       (* the account of the operator key                     *)
    Operators,      (* the accounts with the operator role at first        *)
    LocalP256,      (* the worker's own signature check                    *)
    LocalHonk,      (* the worker's own proof check                        *)
    Provable,       (* calls whose payload satisfies the circuit           *)
    Faults,         (* what may go wrong: see FaultKinds                   *)
    Environments,   (* sets of environment variables it may start with     *)
    NoJob,          (* the worker holds no job                             *)
    MaxTxs          (* bound: no restart once so many were broadcast       *)

FaultKinds ==
    {"rpc",         (* a chain request fails, before or after it had effect*)
     "receipt",     (* waiting for a receipt times out or fails            *)
     "drop",        (* the network forgets a pending transaction           *)
     "prover",      (* hashing, witness or proof generation throws         *)
     "database",    (* the validation pipeline throws or saves nothing     *)
     "restart"}     (* the process ends: SIGTERM, SIGINT or a crash        *)

EnvironmentNames ==
    {"V3_ADDRESS", "RPC_URL", "OPERATOR_PRIVATE_KEY",
     "POSTGRES_USER", "POSTGRES_PASSWORD", "DATABASE_URL"}

QUARANTINE_CODES ==
    {"DeviceNotActive", "InvalidP256Signature", "InvalidZKProof",
     "PayloadHashMismatch", "InvalidPubkeyLength", "InvalidSignatureLength",
     "SessionKeyAlreadyUsed"}

RETRY_CODES ==
    {"EpochInFuture", "EnforcedPause", "InvalidTimestamp", "TX_REVERTED", "UNKNOWN"}

(* The custom errors in the ABI the client decodes with: those of V3 and   *)
(* of the contracts it inherits from, not those of the verifiers it calls. *)
V3_ABI_Errors ==
    QUARANTINE_CODES
        \cup {"EpochInFuture", "InvalidTimestamp", "SameAddress", "ZeroAddress"}
        \cup {"AccessControlBadConfirmation", "AccessControlUnauthorizedAccount",
              "EnforcedPause", "ExpectedPause", "ReentrancyGuardReentrantCall"}
        \cup {"AddressEmptyCode", "FailedInnerCall", "InvalidInitialization",
              "NotInitializing", "ERC1967InvalidImplementation", "ERC1967NonPayable",
              "UUPSUnauthorizedCallContext", "UUPSUnsupportedProxiableUUID"}

KNOWN_ERROR_NAMES ==
    QUARANTINE_CODES
        \cup {"EpochInFuture", "InvalidTimestamp", "AccessControlUnauthorizedAccount",
              "EnforcedPause", "ReentrancyGuardReentrantCall"}

(* The code of a chain error: the name of the revert's error if the ABI    *)
(* has it and the client knows it.                                         *)
mapChainError(error) ==
    IF error \in V3_ABI_Errors \cap KNOWN_ERROR_NAMES THEN error ELSE "UNKNOWN"

ChainErrorCode == KNOWN_ERROR_NAMES \cup {"TX_REVERTED", "UNKNOWN"}

(* Every code handleError settles a job with.                              *)
AllCodes == ChainErrorCode \cup {"CircuitConstraintFailed", "WorkerError"}

(* What the request schema lets through: it fixes the field sizes, and the *)
(* aggregator passes one hash in both places.                              *)
Posted == {c \in Calls : c.signatureLengthOk /\ c.pubkeyLengthOk /\ c.hashesAgree}

ASSUME AggregatorAssumption ==
    /\ Operator \in Operators
    /\ Operators \subseteq Accounts
    /\ LocalP256 \in P256Verifiers
    /\ LocalHonk \in HonkVerifiers
    /\ Provable \subseteq Calls
    /\ Faults \subseteq FaultKinds
    /\ Environments \subseteq SUBSET EnvironmentNames
    /\ JobIds = DeviceIds \X SessionIds
    /\ Codes = AllCodes
    /\ NoJob \notin JobIds
    /\ MaxTxs \in Nat

VARIABLES
    env,            (* the environment variables that are set              *)
    data,           (* data[id]: the call of the job's payload             *)
    pc,             (* where the worker is; "idle" is isProcessing = false *)
    job,            (* the id of the job it processes, or NoJob            *)
    txs,            (* transactions broadcast with the operator key        *)
    rows,           (* rows[id]: rows of the session in the hypertable     *)
    others          (* sessions accepted from other operators: the         *)
                    (* history of the chain, which no code here keeps      *)

chainVars == vars
workerVars == <<pc, job>>
processVars == <<env, records, pending, data, pc, job, txs, rows>>
aggVars == <<processVars, others>>
allVars == <<chainVars, aggVars>>

WorkerStates == {"idle", "drain", "local", "simulate", "write", "receipt",
                 "validate", "finish"}

TxStatus == {"pending", "success", "reverted", "dropped"}
Tx == [id : JobIds, call : Calls, status : TxStatus]

Busy == pc \notin {"idle", "drain"}

(* Type correctness: the contract's and the queue's types, and a worker    *)
(* that holds a job, with its data, exactly while it processes one.        *)
AggTypeOK ==
    /\ TypeOK
    /\ QueueTypeOK
    /\ env \in Environments
    /\ data \in [JobIds -> Posted \cup {NoJob}]
    /\ pc \in WorkerStates
    /\ job \in JobIds \cup {NoJob}
    /\ Busy <=> job # NoJob
    /\ Busy => SessionKey(data[job]) = job
    /\ txs \in Seq(Tx)
    /\ pc = "receipt" => \E i \in DOMAIN txs : txs[i].id = job
    /\ rows \in [JobIds -> Nat]
    /\ others \subseteq JobIds

(* A registry deployed and configured: the admin has given itself the      *)
(* pauser role, the aggregator's key and perhaps other accounts have the   *)
(* operator role, and the devices are registered.                          *)
AggInit ==
    /\ roles = [r \in Roles |->
           IF r = "OPERATOR_ROLE" THEN Operators ELSE {Admin}]
    /\ paused = FALSE
    /\ deviceRegistry = InitialRegistry
    /\ p256Verifier = InitialP256Verifier
    /\ honkVerifier = InitialHonkVerifier
    /\ lastSubmissionTimestamp = [d \in DeviceIds |-> 0]
    /\ usedSessionKeys = {}
    /\ log = <<>>
    /\ authorized = [r \in Registries |-> PubKeys]
    /\ blockTimestamp = 1
    /\ QueueInit
    /\ env \in Environments
    /\ data = [id \in JobIds |-> NoJob]
    /\ pc = "idle"
    /\ job = NoJob
    /\ txs = <<>>
    /\ rows = [id \in JobIds |-> 0]
    /\ others = {}

-----------------------------------------------------------------------------
(***************************************************************************)
(* How main() wires the process.                                           *)
(***************************************************************************)
(* buildChainClient returns a client, not null.                            *)
ChainLive == {"V3_ADDRESS", "RPC_URL", "OPERATOR_PRIVATE_KEY"} \subseteq env

(* Either form of configuration names a database.                          *)
buildPoolConfig ==
    CASE {"POSTGRES_USER", "POSTGRES_PASSWORD"} \subseteq env -> "fields"
      [] OTHER -> IF "DATABASE_URL" \in env THEN "connectionString" ELSE "null"

(* buildValidationPipeline returns a pipeline, not null.                   *)
Validating == buildPoolConfig # "null"

-----------------------------------------------------------------------------
(***************************************************************************)
(* POST /submissions.  A body whose session has a record, in any status,   *)
(* gets 409 and changes nothing.  Otherwise the job is enqueued; an idle   *)
(* worker, which listens to the queue, claims it before the 202 is sent.   *)
(***************************************************************************)
onEnqueued(id) ==
    IF pc = "idle"
    THEN LET first == Head(Append(pending, id))
         IN  /\ enqueueAndClaim(id, first)
             /\ pc' = "local"
             /\ job' = first
    ELSE enqueue(id) /\ UNCHANGED workerVars

PostSubmission(call) ==
    LET id == SessionKey(call)
    IN  /\ onEnqueued(id)
        /\ data' = [data EXCEPT ![id] = call]
        /\ UNCHANGED <<chainVars, env, others, txs, rows>>

-----------------------------------------------------------------------------
(***************************************************************************)
(* The worker.  Goto moves it within a job; Leave ends a job.  Names with  *)
(* an underscore are wrong variants, which the properties tell apart.      *)
(***************************************************************************)
Goto(to) ==
    /\ pc' = to
    /\ UNCHANGED <<job, records, pending, data, chainVars, env, others>>

Leave_KeepsJob ==
    /\ pc' = "drain"
    /\ UNCHANGED <<job, data, chainVars, env, others, rows>>

Leave_OneJobPerDrain ==
    /\ pc' = "idle"
    /\ job' = NoJob
    /\ UNCHANGED <<data, chainVars, env, others, rows>>

Leave ==
    /\ pc' = "drain"
    /\ job' = NoJob
    /\ UNCHANGED <<data, chainVars, env, others, rows>>

(* The loop of drain(): the next job, or the end of the pass.              *)
Drain ==
    /\ pc = "drain"
    /\ IF pending = <<>>
       THEN pc' = "idle" /\ UNCHANGED <<job, records, pending>>
       ELSE pc' = "local" /\ job' = Head(pending) /\ claim(Head(pending))
    /\ UNCHANGED <<data, chainVars, env, others, txs, rows>>

handleError_NoReturn(code) ==  \* process() goes on after the error
    /\ IF code \in QUARANTINE_CODES \cup {"CircuitConstraintFailed"}
       THEN quarantine(job, code)
       ELSE fail(job, code)
    /\ pc' = "finish"
    /\ UNCHANGED <<job, data, chainVars, env, others, rows>>

(* Alert codes and WorkerError are handled like retries, although the      *)
(* header of worker/index.ts has alerts "fail terminal".                   *)
handleError(code) ==
    /\ IF code \in QUARANTINE_CODES \cup {"CircuitConstraintFailed"}
       THEN quarantine(job, code)
       ELSE fail(job, code)
    /\ Leave

(* verifyProofLocally: the prover's own verifier, whatever the chain has. *)
verifyProofLocally(call) == LocalHonk \in call.proofAcceptedBy

(* The errors the local part of process() can end with: signature          *)
(* pre-check, then witness, then local proof verification.                 *)
LocalError(call) ==
    IF LocalP256 \notin call.signatureAcceptedBy THEN "InvalidP256Signature"
    ELSE IF call \notin Provable THEN "CircuitConstraintFailed"
    ELSE IF ~verifyProofLocally(call) THEN "InvalidZKProof"
    ELSE NoError

AfterResult == IF Validating THEN "validate" ELSE "finish"

ProcessLocally ==
    /\ pc = "local"
    /\ \/ /\ LocalError(data[job]) = NoError
          /\ Goto(IF ChainLive THEN "simulate" ELSE AfterResult)
          /\ UNCHANGED rows
       \/ /\ LocalError(data[job]) # NoError
          /\ handleError(LocalError(data[job]))
       \/ /\ "prover" \in Faults
          /\ handleError("WorkerError")
    /\ UNCHANGED txs

(* simulateContract: the contract's answer in the current state.           *)
Simulate ==
    /\ pc = "simulate"
    /\ \/ /\ Accepts(Operator, data[job])
          /\ Goto("write")
          /\ UNCHANGED rows
       \/ /\ ~Accepts(Operator, data[job])
          /\ handleError(mapChainError(RevertReason(Operator, data[job])))
       \/ /\ "rpc" \in Faults
          /\ handleError("UNKNOWN")
    /\ UNCHANGED txs

Broadcast ==
    txs' = Append(txs, [id |-> job, call |-> data[job], status |-> "pending"])

(* writeContract: gas estimation runs the call once more, in a state that  *)
(* may have changed, before the transaction is signed and sent; the answer *)
(* to the sending may be lost after the network has taken it.              *)
Write ==
    /\ pc = "write"
    /\ \/ /\ Accepts(Operator, data[job])
          /\ Goto("receipt")
          /\ Broadcast
          /\ UNCHANGED rows
       \/ /\ ~Accepts(Operator, data[job])
          /\ handleError(mapChainError(RevertReason(Operator, data[job])))
          /\ UNCHANGED txs
       \/ /\ "rpc" \in Faults
          /\ handleError("UNKNOWN")
          /\ \/ Accepts(Operator, data[job]) /\ Broadcast
             \/ UNCHANGED txs

(* The transaction the worker waits for: the last it broadcast.            *)
CurrentTx == txs[CHOOSE i \in DOMAIN txs :
                     /\ txs[i].id = job
                     /\ \A j \in DOMAIN txs : txs[j].id = job => j <= i]

AwaitReceipt_AnyStatus ==  \* does not look at receipt.status
    /\ pc = "receipt"
    /\ \/ /\ CurrentTx.status \in {"success", "reverted"}
          /\ Goto(AfterResult)
          /\ UNCHANGED rows
       \/ /\ "receipt" \in Faults \/ CurrentTx.status = "dropped"
          /\ handleError("WorkerError")
    /\ UNCHANGED txs

AwaitReceipt_SentIsEnough ==  \* a timeout is taken for success
    /\ pc = "receipt"
    /\ \/ /\ CurrentTx.status = "success" \/ "receipt" \in Faults
          /\ Goto(AfterResult)
          /\ UNCHANGED rows
       \/ /\ CurrentTx.status = "reverted"
          /\ handleError("TX_REVERTED")
    /\ UNCHANGED txs

(* waitForTransactionReceipt.  Its exception is not a ChainSubmissionError.*)
AwaitReceipt ==
    /\ pc = "receipt"
    /\ \/ /\ CurrentTx.status = "success"
          /\ Goto(AfterResult)
          /\ UNCHANGED rows
       \/ /\ CurrentTx.status = "reverted"
          /\ handleError("TX_REVERTED")
       \/ /\ "receipt" \in Faults \/ CurrentTx.status = "dropped"
          /\ handleError("WorkerError")
    /\ UNCHANGED txs

(* The validation pipeline ends by inserting one row; whatever it throws   *)
(* is caught, and the job goes on without one.                             *)
Validate ==
    /\ pc = "validate"
    /\ Goto("finish")
    /\ \/ rows' = [rows EXCEPT ![job] = @ + 1]
       \/ "database" \in Faults /\ UNCHANGED rows
    /\ UNCHANGED txs

Finish ==
    /\ pc = "finish"
    /\ complete(job)
    /\ Leave
    /\ UNCHANGED txs

WorkerStep ==
    Drain \/ ProcessLocally \/ Simulate \/ Write \/ AwaitReceipt \/ Finish

-----------------------------------------------------------------------------
(***************************************************************************)
(* The network and the chain.                                              *)
(***************************************************************************)
SetTxStatus(i, status) == txs' = [txs EXCEPT ![i].status = status]

(* Transactions of one key are mined in nonce order; a transaction whose   *)
(* call reverts is mined too, and its gas is spent.                        *)
Mine(i) ==
    /\ txs[i].status = "pending"
    /\ \A j \in 1..(i - 1) : txs[j].status # "pending"
    /\ \/ submitProof(Operator, txs[i].call) /\ SetTxStatus(i, "success")
       \/ /\ ~Accepts(Operator, txs[i].call)
          /\ SetTxStatus(i, "reverted")
          /\ UNCHANGED chainVars
    /\ UNCHANGED <<env, others, records, pending, data, pc, job, rows>>

Drop(i) ==
    /\ "drop" \in Faults
    /\ txs[i].status = "pending"
    /\ SetTxStatus(i, "dropped")
    /\ UNCHANGED <<chainVars, env, others, records, pending, data, pc, job, rows>>

(* What the contract's owners and the devices' operator may do meanwhile.  *)
ChainChanges ==
    /\ \/ Governance(Admin)
       \/ /\ \/ AC!GrantRole(Admin, "OPERATOR_ROLE", Operator)
             \/ AC!RevokeRole(Admin, "OPERATOR_ROLE", Operator)
          /\ UNCHANGED <<paused, config, storage, environment>>
       \/ \E registry \in Registries, key \in PubKeys :
              AuthorizationChanges(registry, key)
       \/ NewBlock
    /\ UNCHANGED aggVars

(* Any account with the operator role may submit, not only the             *)
(* aggregator's: another aggregator, or a script with a key of its own.    *)
OthersSubmit ==
    \E caller \in Accounts \ {Operator}, call \in Calls :
        /\ submitProof(caller, call)
        /\ others' = others \cup {SessionKey(call)}
        /\ UNCHANGED processVars

(* The process ends at any point: queue and worker are gone, what was      *)
(* broadcast, mined or saved is not.  Its environment is that of the host. *)
Restart ==
    /\ "restart" \in Faults
    /\ Len(txs) < MaxTxs
    /\ lose
    /\ data' = [id \in JobIds |-> NoJob]
    /\ pc' = "idle"
    /\ job' = NoJob
    /\ UNCHANGED <<chainVars, env, others, txs, rows>>

AggNext ==
    \/ \E call \in Posted : PostSubmission(call)
    \/ WorkerStep
    \/ Validate
    \/ \E i \in DOMAIN txs : Mine(i) \/ Drop(i)
    \/ ChainChanges
    \/ OthersSubmit
    \/ Restart

AggSpec == AggInit /\ [][AggNext]_allVars

(***************************************************************************)
(* Fairness.  Every wait in a WorkerStep ends by itself: the event loop    *)
(* runs on, viem gives up on a request or a receipt after its timeout, and *)
(* the prover is a local computation.  The insert at the end of Validate   *)
(* is different: main.ts sets no timeout on the pool, so that it answers   *)
(* is an assumption about the database, made only in FairSpec.             *)
(***************************************************************************)
WorkerFairness == WF_allVars(WorkerStep)
DatabaseAnswers == WF_allVars(Validate)

CodeFairSpec == AggSpec /\ WorkerFairness
FairSpec == CodeFairSpec /\ DatabaseAnswers

-----------------------------------------------------------------------------
(***************************************************************************)
(* Properties.                                                             *)
(***************************************************************************)

(* The worker drives the queue as a disciplined client: it settles only    *)
(* what it has claimed, once, and never revives a settled job.             *)
DisciplinedClient == QueueSpec

(* Single flight without lost wakeups: the job the worker holds is the     *)
(* only one in progress, and it goes idle only when nothing waits, though  *)
(* submissions that arrive while it is busy trigger no drain of their own. *)
SingleFlight ==
    /\ \A id \in JobIds : records[id].status = "processing" <=> (Busy /\ id = job)
    /\ pc = "idle" => pending = <<>>

TxsOf(id) == {i \in DOMAIN txs : txs[i].id = id}
Succeeded(id) == {i \in TxsOf(id) : txs[i].status = "success"}

(* A session is on chain exactly when one of its transactions succeeded or *)
(* another operator submitted it, never both, and at most one transaction  *)
(* of it ever does, however many attempts, lost answers, timed out         *)
(* receipts and restarts led to several being broadcast.                   *)
ExactlyOneSuccess ==
    \A id \in JobIds :
        /\ id \in usedSessionKeys <=> Succeeded(id) # {} \/ id \in others
        /\ id \in others => Succeeded(id) = {}
        /\ \A i, j \in Succeeded(id) : i = j

(* "complete", which the edge reports as success, is only ever said of a   *)
(* session the contract has accepted, unless the process runs in mock mode.*)
CompleteMeansAccepted ==
    ChainLive =>
    \A id \in JobIds : records[id].status = "complete" => id \in usedSessionKeys

(* The hypertable never claims more than the chain: a row exists only for  *)
(* an accepted session, and never two for one session, across restarts too.*)
RowsMatchChain ==
    ChainLive =>
    \A id \in JobIds :
        /\ rows[id] <= 1
        /\ rows[id] = 1 => id \in usedSessionKeys

(* The code reported to the client is a fact about the chain that stays    *)
(* true, whatever is still in the mempool: SessionKeyAlreadyUsed means     *)
(* accepted, InvalidTimestamp means never to be accepted.  (Of sessions    *)
(* whose submissions all carry one epoch, as an honest device's do.)       *)
OneEpochPerSession ==
    \A c1, c2 \in Posted :
        SessionKey(c1) = SessionKey(c2) => c1.epochStartTs = c2.epochStartTs

ErrorsAreFacts ==
    OneEpochPerSession =>
    \A id \in JobIds :
        /\ records[id].error = "SessionKeyAlreadyUsed" => id \in usedSessionKeys
        /\ records[id].error = "InvalidTimestamp" => id \notin usedSessionKeys

(* "RETRY: transient chain conditions ... Re-queue up to max attempts"     *)
(* (worker/index.ts:21): a job is given up for such a code after all of    *)
(* them and never after more, whatever restarts, conflicting sessions and  *)
(* earlier errors of other kinds lie between.                              *)
RetriesAreUsed ==
    \A id \in JobIds :
        records[id].status = "failed" /\ records[id].error \in RETRY_CODES
            => records[id].attempts = MaxAttempts

(* The status a client polls for settles: every accepted submission ends   *)
(* complete, failed or quarantined.                                        *)
EveryJobSettles ==
    \A id \in JobIds :
        records[id].status \in {"pending", "processing"}
            ~> records[id].status \in Terminal

(* sepolia_smoke.py: "QUARANTINED (no gas wasted)".                        *)
QuarantineSpentNoGas ==
    \A id \in JobIds :
        records[id].status = "quarantined" =>
            \A i \in TxsOf(id) : txs[i].status \notin {"success", "reverted"}
=============================================================================
