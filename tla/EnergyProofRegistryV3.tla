------------------------ MODULE EnergyProofRegistryV3 ------------------------
(***************************************************************************)
(* The on-chain proof registry (contracts/src/EnergyProofRegistryV3.sol)   *)
(* behind its proxy, from the end of initialize() on.  Transactions are    *)
(* serial, so an external function is one action and a reverting call is a *)
(* stuttering step.  submitProof calls its three collaborators by view     *)
(* calls only, so nonReentrant never rejects and is left out.              *)
(*                                                                         *)
(* The device registry is seen through the one question submitProof asks   *)
(* it: authorized[r] is the set of keys for which isAuthorized holds at    *)
(* address r, and it may change between any two transactions.              *)
(***************************************************************************)
EXTENDS Integers, Sequences

CONSTANTS
    Accounts,                 (* addresses that send transactions          *)
    Admin,                    (* the admin given to initialize             *)
    Registries,               (* addresses of device registries            *)
    P256Verifiers,            (* addresses of P-256 verifiers              *)
    HonkVerifiers,            (* addresses of proof verifiers              *)
    RevertingVerifiers,       (* those that revert on a bad proof          *)
    InitialRegistry, InitialP256Verifier, InitialHonkVerifier,
    PubKeys,                  (* device public keys                        *)
    DeviceIds, SessionIds,    (* uint64 identifiers                        *)
    Epochs,                   (* uint64 epoch start times                  *)
    Calls,                    (* the calldata submitProof is called with   *)
    MAX_GAP_SECONDS,
    MAX_EPOCH_FUTURE_DRIFT,
    MaxTime                   (* bound on the block timestamp              *)

(* A call, reduced to what the checks distinguish: which verifiers would   *)
(* accept its signature and its proof, and whether its fixed-size fields   *)
(* have their size and its two payload hashes agree.                       *)
CallType ==
    [deviceId : DeviceIds, sessionId : SessionIds, epochStartTs : Epochs,
     devicePubkey : PubKeys, hashesAgree : BOOLEAN,
     signatureLengthOk : BOOLEAN, pubkeyLengthOk : BOOLEAN,
     signatureAcceptedBy : SUBSET P256Verifiers,
     proofAcceptedBy : SUBSET HonkVerifiers]

ASSUME V3Assumption ==
    /\ Admin \in Accounts
    /\ InitialRegistry \in Registries
    /\ InitialP256Verifier \in P256Verifiers
    /\ InitialHonkVerifier \in HonkVerifiers
    /\ RevertingVerifiers \subseteq HonkVerifiers
    /\ Epochs \subseteq Nat
    /\ Calls \subseteq CallType
    /\ MAX_GAP_SECONDS \in Nat
    /\ MAX_EPOCH_FUTURE_DRIFT \in Nat
    /\ MaxTime \in Nat

VARIABLES
    roles,                    (* AccessControlUpgradeable                  *)
    paused,                   (* PausableUpgradeable                       *)
    deviceRegistry, p256Verifier, honkVerifier,
    lastSubmissionTimestamp,  (* 0 for a device without submissions        *)
    usedSessionKeys,          (* the keys mapped to true                   *)
    log,                      (* ProofSubmitted events, oldest first       *)
    authorized,               (* what each registry answers                *)
    blockTimestamp

config == <<deviceRegistry, p256Verifier, honkVerifier>>
storage == <<lastSubmissionTimestamp, usedSessionKeys, log>>
environment == <<authorized, blockTimestamp>>
vars == <<roles, paused, config, storage, environment>>

Roles == {"DEFAULT_ADMIN_ROLE", "OPERATOR_ROLE", "PAUSER_ROLE", "UPGRADER_ROLE"}

AC == INSTANCE AccessControl WITH AdminRole <- "DEFAULT_ADMIN_ROLE"

(* keccak256(deviceId || sessionId) of two fixed-width fields: injective.  *)
SessionKey(call) == <<call.deviceId, call.sessionId>>

(* The ProofSubmitted event; its session key stands as the pair it hashes. *)
Event == [deviceId : DeviceIds, sessionId : SessionIds, timestamp : Nat,
          gapFromPrevious : Nat, postDisconnection : BOOLEAN]

(* Type correctness.                                                       *)
TypeOK ==
    /\ AC!RolesTypeOK
    /\ paused \in BOOLEAN
    /\ deviceRegistry \in Registries
    /\ p256Verifier \in P256Verifiers
    /\ honkVerifier \in HonkVerifiers
    /\ lastSubmissionTimestamp \in [DeviceIds -> Nat]
    /\ usedSessionKeys \subseteq DeviceIds \X SessionIds
    /\ log \in Seq(Event)
    /\ authorized \in [Registries -> SUBSET PubKeys]
    /\ blockTimestamp \in Nat

(* initialize(): the admin may upgrade and grant roles, but nobody can     *)
(* submit or pause before the admin has granted those roles.               *)
Init ==
    /\ roles = [r \in Roles |->
           IF r \in {"DEFAULT_ADMIN_ROLE", "UPGRADER_ROLE"} THEN {Admin} ELSE {}]
    /\ paused = FALSE
    /\ deviceRegistry = InitialRegistry
    /\ p256Verifier = InitialP256Verifier
    /\ honkVerifier = InitialHonkVerifier
    /\ lastSubmissionTimestamp = [d \in DeviceIds |-> 0]
    /\ usedSessionKeys = {}
    /\ log = <<>>
    /\ authorized = [r \in Registries |-> {}]
    /\ blockTimestamp = 1

-----------------------------------------------------------------------------
(***************************************************************************)
(* submitProof.                                                            *)
(***************************************************************************)
Check(holds, error) == [holds |-> holds, error |-> error]

(* IHonkVerifier answers true or false, and false is InvalidZKProof.  The  *)
(* generated HonkVerifier never answers false: it reverts with an error of *)
(* its own, which the call passes on; SumcheckFailed stands for all these. *)
ProofError ==
    IF honkVerifier \in RevertingVerifiers THEN "SumcheckFailed" ELSE "InvalidZKProof"

(* Wrong variants of the checks and of the writes, told from the real ones *)
(* by the properties below.                                                *)
SubmitChecks_NoReplayCheck(caller, call) ==
    LET last == lastSubmissionTimestamp[call.deviceId]
    IN  << Check(~paused, "EnforcedPause"),
           Check(AC!HasRole("OPERATOR_ROLE", caller),
                 "AccessControlUnauthorizedAccount"),
           Check(last # 0 => call.epochStartTs > last, "InvalidTimestamp"),
           Check(call.devicePubkey \in authorized[deviceRegistry],
                 "DeviceNotActive") >>

SubmitChecks_NoTimestampCheck(caller, call) ==
    << Check(~paused, "EnforcedPause"),
       Check(AC!HasRole("OPERATOR_ROLE", caller), "AccessControlUnauthorizedAccount"),
       Check(SessionKey(call) \notin usedSessionKeys, "SessionKeyAlreadyUsed"),
       Check(call.devicePubkey \in authorized[deviceRegistry], "DeviceNotActive") >>

SubmitChecks_DriftOnWrongSide(caller, call) ==
    LET last == lastSubmissionTimestamp[call.deviceId]
    IN  << Check(~paused, "EnforcedPause"),
           Check(AC!HasRole("OPERATOR_ROLE", caller),
                 "AccessControlUnauthorizedAccount"),
           Check(call.epochStartTs + MAX_EPOCH_FUTURE_DRIFT >= blockTimestamp,
                 "EpochInFuture"),
           Check(SessionKey(call) \notin usedSessionKeys, "SessionKeyAlreadyUsed"),
           Check(last # 0 => call.epochStartTs > last, "InvalidTimestamp"),
           Check(call.devicePubkey \in authorized[deviceRegistry],
                 "DeviceNotActive") >>

SubmitChecks_TimestampFirst(caller, call) ==
    LET last == lastSubmissionTimestamp[call.deviceId]
    IN  << Check(~paused, "EnforcedPause"),
           Check(AC!HasRole("OPERATOR_ROLE", caller),
                 "AccessControlUnauthorizedAccount"),
           Check(last # 0 => call.epochStartTs > last, "InvalidTimestamp"),
           Check(SessionKey(call) \notin usedSessionKeys, "SessionKeyAlreadyUsed"),
           Check(call.devicePubkey \in authorized[deviceRegistry],
                 "DeviceNotActive") >>

(* The checks in the order the code makes them.                            *)
SubmitChecks(caller, call) ==
    LET last == lastSubmissionTimestamp[call.deviceId]
    IN  << Check(~paused, "EnforcedPause"),
           Check(AC!HasRole("OPERATOR_ROLE", caller),
                 "AccessControlUnauthorizedAccount"),
           Check(call.signatureLengthOk, "InvalidSignatureLength"),
           Check(call.pubkeyLengthOk, "InvalidPubkeyLength"),
           Check(call.epochStartTs <= blockTimestamp + MAX_EPOCH_FUTURE_DRIFT,
                 "EpochInFuture"),
           Check(call.hashesAgree, "PayloadHashMismatch"),
           Check(SessionKey(call) \notin usedSessionKeys, "SessionKeyAlreadyUsed"),
           Check(last # 0 => call.epochStartTs > last, "InvalidTimestamp"),
           Check(call.devicePubkey \in authorized[deviceRegistry],
                 "DeviceNotActive"),
           Check(p256Verifier \in call.signatureAcceptedBy, "InvalidP256Signature"),
           Check(honkVerifier \in call.proofAcceptedBy, ProofError) >>

Accepts(caller, call) ==
    LET checks == SubmitChecks(caller, call)
    IN  \A i \in DOMAIN checks : checks[i].holds

(* The error a rejected call reverts with: that of the first failing check.*)
RevertReason(caller, call) ==
    LET checks == SubmitChecks(caller, call)
        first  == CHOOSE i \in DOMAIN checks :
                      /\ ~checks[i].holds
                      /\ \A j \in 1..(i - 1) : checks[j].holds
    IN  checks[first].error

Gap_FromZero(call) == call.epochStartTs - lastSubmissionTimestamp[call.deviceId]

(* Seconds since the device's last accepted epoch; 0 for its first one.    *)
Gap(call) ==
    LET last == lastSubmissionTimestamp[call.deviceId]
    IN  IF last = 0 THEN 0 ELSE call.epochStartTs - last

submitProof_FirstByClock(caller, call) ==  \* block time for a first epoch
    /\ Accepts(caller, call)
    /\ usedSessionKeys' = usedSessionKeys \cup {SessionKey(call)}
    /\ lastSubmissionTimestamp' =
           [lastSubmissionTimestamp EXCEPT ![call.deviceId] =
               IF @ = 0 THEN blockTimestamp ELSE call.epochStartTs]
    /\ log' = Append(log,
           [deviceId |-> call.deviceId, sessionId |-> call.sessionId,
            timestamp |-> call.epochStartTs, gapFromPrevious |-> Gap(call),
            postDisconnection |-> Gap(call) > MAX_GAP_SECONDS])
    /\ UNCHANGED <<roles, paused, config, environment>>

submitProof_LastSessionOnly(caller, call) ==  \* remembers one session key
    /\ Accepts(caller, call)
    /\ usedSessionKeys' = {SessionKey(call)}
    /\ lastSubmissionTimestamp' =
           [lastSubmissionTimestamp EXCEPT ![call.deviceId] = call.epochStartTs]
    /\ log' = Append(log,
           [deviceId |-> call.deviceId, sessionId |-> call.sessionId,
            timestamp |-> call.epochStartTs, gapFromPrevious |-> Gap(call),
            postDisconnection |-> Gap(call) > MAX_GAP_SECONDS])
    /\ UNCHANGED <<roles, paused, config, environment>>

submitProof(caller, call) ==
    /\ Accepts(caller, call)
    /\ usedSessionKeys' = usedSessionKeys \cup {SessionKey(call)}
    /\ lastSubmissionTimestamp' =
           [lastSubmissionTimestamp EXCEPT ![call.deviceId] = call.epochStartTs]
    /\ log' = Append(log,
           [deviceId |-> call.deviceId, sessionId |-> call.sessionId,
            timestamp |-> call.epochStartTs, gapFromPrevious |-> Gap(call),
            postDisconnection |-> Gap(call) > MAX_GAP_SECONDS])
    /\ UNCHANGED <<roles, paused, config, environment>>

-----------------------------------------------------------------------------
(***************************************************************************)
(* Administration.                                                         *)
(***************************************************************************)
pause(caller) ==
    /\ AC!HasRole("PAUSER_ROLE", caller)
    /\ ~paused
    /\ paused' = TRUE
    /\ UNCHANGED <<roles, config, storage, environment>>

unpause(caller) ==
    /\ AC!HasRole("DEFAULT_ADMIN_ROLE", caller)
    /\ paused
    /\ paused' = FALSE
    /\ UNCHANGED <<roles, config, storage, environment>>

setDeviceRegistry_ByUpgrader(caller, registry) ==  \* the wrong role's check
    /\ AC!HasRole("UPGRADER_ROLE", caller)
    /\ registry # deviceRegistry
    /\ deviceRegistry' = registry
    /\ UNCHANGED <<roles, paused, p256Verifier, honkVerifier, storage, environment>>

setDeviceRegistry(caller, registry) ==
    /\ AC!HasRole("DEFAULT_ADMIN_ROLE", caller)
    /\ registry # deviceRegistry
    /\ deviceRegistry' = registry
    /\ UNCHANGED <<roles, paused, p256Verifier, honkVerifier, storage, environment>>

setP256Verifier(caller, verifier) ==
    /\ AC!HasRole("DEFAULT_ADMIN_ROLE", caller)
    /\ verifier # p256Verifier
    /\ p256Verifier' = verifier
    /\ UNCHANGED <<roles, paused, deviceRegistry, honkVerifier, storage, environment>>

setHonkVerifier(caller, verifier) ==
    /\ AC!HasRole("DEFAULT_ADMIN_ROLE", caller)
    /\ verifier # honkVerifier
    /\ honkVerifier' = verifier
    /\ UNCHANGED <<roles, paused, deviceRegistry, p256Verifier, storage, environment>>

RoleTransaction ==
    /\ AC!ChangeRoles
    /\ UNCHANGED <<paused, config, storage, environment>>

(* A device of some registry becomes, or stops being, active.              *)
AuthorizationChanges(registry, key) ==
    /\ authorized' = [authorized EXCEPT ![registry] =
           IF key \in @ THEN @ \ {key} ELSE @ \cup {key}]
    /\ UNCHANGED <<roles, paused, config, storage, blockTimestamp>>

NewBlock ==
    /\ blockTimestamp < MaxTime
    /\ blockTimestamp' = blockTimestamp + 1
    /\ UNCHANGED <<roles, paused, config, storage, authorized>>

Governance(caller) ==
    \/ pause(caller)
    \/ unpause(caller)
    \/ \E registry \in Registries : setDeviceRegistry(caller, registry)
    \/ \E verifier \in P256Verifiers : setP256Verifier(caller, verifier)
    \/ \E verifier \in HonkVerifiers : setHonkVerifier(caller, verifier)

Next ==
    \/ \E caller \in Accounts :
          \/ \E call \in Calls : submitProof(caller, call)
          \/ Governance(caller)
    \/ RoleTransaction
    \/ \E registry \in Registries, key \in PubKeys : AuthorizationChanges(registry, key)
    \/ NewBlock

Spec == Init /\ [][Next]_vars

-----------------------------------------------------------------------------
(***************************************************************************)
(* Properties.                                                             *)
(***************************************************************************)
Ledger == INSTANCE ProofLedger WITH ledger <- log

(* The two mappings submitProof decides by are exact summaries of what was *)
(* ever emitted: a session key is marked used iff its event is in the log, *)
(* and the stored timestamp is that of the device's latest event.          *)
StorageMatchesLog ==
    /\ usedSessionKeys = {SessionKey(log[i]) : i \in DOMAIN log}
    /\ \A d \in DeviceIds :
           lastSubmissionTimestamp[d] = Ledger!LatestEpoch(log, d)

(* No session is ever accepted twice, whoever submits it, under whichever  *)
(* registry and verifiers, and however often (check 5, anti-replay).       *)
SessionAtMostOnce ==
    \A i, j \in DOMAIN log : SessionKey(log[i]) = SessionKey(log[j]) => i = j

(* Once a device has reported a nonzero epoch, every later event of it is  *)
(* strictly later in epoch (check 7a).  Epoch 0 is the code's marker for   *)
(* "no submission yet" and may repeat.                                     *)
EpochsIncrease ==
    \A i, j \in DOMAIN log :
        i < j /\ log[i].deviceId = log[j].deviceId /\ log[i].timestamp # 0
        => log[j].timestamp > log[i].timestamp

(* A stored epoch is never more than the drift tolerance ahead of the      *)
(* chain, at any later block either: a device whose clock was once fast    *)
(* cannot be locked out by its own last epoch for longer than that.        *)
NoFutureBacklog ==
    \A d \in DeviceIds :
        lastSubmissionTimestamp[d] <= blockTimestamp + MAX_EPOCH_FUTURE_DRIFT

(* A call of a used session, or of an epoch the device is past.            *)
Stale(call) ==
    \/ SessionKey(call) \in usedSessionKeys
    \/ /\ lastSubmissionTimestamp[call.deviceId] # 0
       /\ call.epochStartTs <= lastSubmissionTimestamp[call.deviceId]

(* SessionKeyAlreadyUsed and InvalidTimestamp are final answers: no pause, *)
(* role, registry, verifier or clock change, and no other submission, ever *)
(* makes a stale call acceptable again.                                    *)
StaleForever == [][\A call \in Calls : Stale(call) => Stale(call)']_vars

(* If the last admin renounces or is revoked, governance is over: roles    *)
(* can only be given up, the three addresses are frozen, and a paused      *)
(* contract stays paused.                                                  *)
NoAdminNoGovernance ==
    [][roles["DEFAULT_ADMIN_ROLE"] = {} =>
          /\ \A r \in Roles : roles'[r] \subseteq roles[r]
          /\ UNCHANGED config
          /\ paused => paused']_vars

(* The contract implements the ledger its events describe.                 *)
LedgerSpec == Ledger!Spec

(* contracts/echidna/V3Properties.sol: per-device timestamps are strictly  *)
(* increasing, with no exception for epoch 0.                              *)
TimestampsStrictlyIncrease ==
    \A i, j \in DOMAIN log :
        i < j /\ log[i].deviceId = log[j].deviceId
        => log[j].timestamp > log[i].timestamp
=============================================================================
