----------------------- MODULE EnergyProofRegistryV3Proofs -----------------------
(***************************************************************************)
(* Proofs about EnergyProofRegistryV3, for any accounts, devices, sessions,*)
(* calls, epochs and tolerances, and without a bound on the clock's steps. *)
(***************************************************************************)
EXTENDS EnergyProofRegistryV3, WellFoundedInduction, TLAPS

-----------------------------------------------------------------------------
(***************************************************************************)
(* What an accepted call has passed, and what the log gains by it.         *)
(***************************************************************************)
Entry(call) ==
    [deviceId |-> call.deviceId, sessionId |-> call.sessionId,
     timestamp |-> call.epochStartTs, gapFromPrevious |-> Gap(call),
     postDisconnection |-> Gap(call) > MAX_GAP_SECONDS]

(* The three checks of submitProof the ledger rests on: 5, 6 and 7a.       *)
LEMMA AcceptedCalls ==
    ASSUME NEW caller, NEW call, Accepts(caller, call)
    PROVE  /\ call.epochStartTs <= blockTimestamp + MAX_EPOCH_FUTURE_DRIFT
           /\ SessionKey(call) \notin usedSessionKeys
           /\ lastSubmissionTimestamp[call.deviceId] # 0 =>
                  call.epochStartTs > lastSubmissionTimestamp[call.deviceId]
<1> DEFINE checks == SubmitChecks(caller, call)
<1>1. DOMAIN checks = 1..11
  BY DEF SubmitChecks
<1>2. checks[5].holds /\ checks[7].holds /\ checks[8].holds
  BY <1>1 DEF Accepts
<1>3. checks[5].holds =
          (call.epochStartTs <= blockTimestamp + MAX_EPOCH_FUTURE_DRIFT)
  BY DEF SubmitChecks, Check
<1>4. checks[7].holds = (SessionKey(call) \notin usedSessionKeys)
  BY DEF SubmitChecks, Check
<1>5. checks[8].holds =
          (lastSubmissionTimestamp[call.deviceId] # 0 =>
               call.epochStartTs > lastSubmissionTimestamp[call.deviceId])
  BY DEF SubmitChecks, Check
<1> QED
  BY <1>2, <1>3, <1>4, <1>5

(* A call of the right type has components of the right types.             *)
LEMMA CallComponents ==
    ASSUME NEW call \in Calls
    PROVE  /\ call.deviceId \in DeviceIds
           /\ call.sessionId \in SessionIds
           /\ call.epochStartTs \in Epochs
           /\ call.epochStartTs \in Nat
           /\ SessionKey(call) \in DeviceIds \X SessionIds
  BY V3Assumption DEF CallType, SessionKey

(* The entry an accepted call adds is an event: its gap is never negative. *)
LEMMA EntryIsEvent ==
    ASSUME TypeOK, NEW caller, NEW call \in Calls, Accepts(caller, call)
    PROVE  Entry(call) \in Event
<1>1. /\ call.deviceId \in DeviceIds
      /\ call.sessionId \in SessionIds
      /\ call.epochStartTs \in Nat
  BY CallComponents
<1>2. lastSubmissionTimestamp[call.deviceId] \in Nat
  BY <1>1 DEF TypeOK
<1>3. lastSubmissionTimestamp[call.deviceId] # 0 =>
          call.epochStartTs > lastSubmissionTimestamp[call.deviceId]
  BY AcceptedCalls
<1>4. Gap(call) \in Nat
  BY <1>1, <1>2, <1>3 DEF Gap
<1>5. (Gap(call) > MAX_GAP_SECONDS) \in BOOLEAN
  OBVIOUS
<1> QED
  BY <1>1, <1>4, <1>5 DEF Entry, Event

(* submitProof's effect, in one place.                                     *)
LEMMA Submission ==
    ASSUME NEW caller, NEW call, submitProof(caller, call)
    PROVE  /\ Accepts(caller, call)
           /\ usedSessionKeys' = usedSessionKeys \cup {SessionKey(call)}
           /\ lastSubmissionTimestamp' =
                  [lastSubmissionTimestamp EXCEPT ![call.deviceId] = call.epochStartTs]
           /\ log' = Append(log, Entry(call))
           /\ UNCHANGED <<roles, paused, config, environment>>
  BY DEF submitProof, Entry

(* Every other step leaves storage and log alone and never turns the clock *)
(* back.                                                                   *)
LEMMA OtherSteps ==
    ASSUME TypeOK, [Next]_vars,
           \A caller \in Accounts, call \in Calls : ~submitProof(caller, call)
    PROVE  UNCHANGED storage /\ blockTimestamp' >= blockTimestamp
<1>1. blockTimestamp \in Nat
  BY DEF TypeOK
<1>2. ASSUME NEW caller \in Accounts, Governance(caller)
      PROVE  UNCHANGED <<storage, environment>>
  BY <1>2 DEF Governance, pause, unpause, setDeviceRegistry, setP256Verifier,
              setHonkVerifier
<1>3. RoleTransaction => UNCHANGED <<storage, environment>>
  BY DEF RoleTransaction
<1>4. ASSUME NEW registry \in Registries, NEW key \in PubKeys,
             AuthorizationChanges(registry, key)
      PROVE  UNCHANGED <<storage, blockTimestamp>>
  BY <1>4 DEF AuthorizationChanges
<1>5. NewBlock => UNCHANGED storage /\ blockTimestamp' = blockTimestamp + 1
  BY DEF NewBlock
<1>6. UNCHANGED vars => UNCHANGED <<storage, environment>>
  BY DEF vars
<1> QED
  BY <1>1, <1>2, <1>3, <1>4, <1>5, <1>6 DEF Next, environment

-----------------------------------------------------------------------------
(***************************************************************************)
(* Latest entries.                                                         *)
(***************************************************************************)
(* A nonempty set of indices has a greatest one.                           *)
LEMMA GreatestIndex ==
    ASSUME NEW n \in Nat, NEW E, E \subseteq 1..n, E # {}
    PROVE  \E i \in E : \A j \in E : j <= i
<1> DEFINE R == OpToRel(<, Nat)
           T == {n - i : i \in E}
<1>1. IsWellFoundedOn(R, Nat)
  BY NatLessThanWellFounded
<1>2. T \subseteq Nat /\ T # {}
  <2>1. \A i \in E : i \in 1..n /\ n - i \in Nat
    OBVIOUS
  <2>2. \A y \in T : \E i \in E : y = n - i
    OBVIOUS
  <2>3. PICK i \in E : TRUE
    OBVIOUS
  <2>4. n - i \in T
    OBVIOUS
  <2> QED
    BY <2>1, <2>2, <2>4
<1> HIDE DEF R
<1>3. PICK x \in T : \A y \in T : <<y, x>> \notin R
  BY <1>1, <1>2, WFMin
<1> USE DEF R
<1>4. \A y \in T : ~(y < x)
  BY <1>2, <1>3 DEF OpToRel
<1>5. PICK i \in E : x = n - i
  BY <1>3
<1>6. \A j \in E : n - j \in T
  OBVIOUS
<1>7. \A j \in E : ~(n - j < n - i)
  BY <1>4, <1>5, <1>6
<1>8. \A j \in E : j <= i
  BY <1>7
<1> QED
  BY <1>8

(* Ledger!Latest picks the greatest index.                                 *)
LEMMA LatestIsGreatest ==
    ASSUME NEW n \in Nat, NEW E, E \subseteq 1..n, E # {}
    PROVE  Ledger!Latest(E) \in E /\ \A j \in E : j <= Ledger!Latest(E)
  BY GreatestIndex DEF Ledger!Latest

(* Appending an entry makes its epoch the latest of its device, and leaves *)
(* the latest epoch of every other device alone.                           *)
LEMMA LatestEpochOfAppend ==
    ASSUME NEW l \in Seq(Event), NEW e \in Event, NEW d
    PROVE  Ledger!LatestEpoch(Append(l, e), d) =
               IF e.deviceId = d THEN e.timestamp ELSE Ledger!LatestEpoch(l, d)
<1> DEFINE n == Len(l)
           m == Append(l, e)
           Old == Ledger!EntriesOf(l, d)
           New == Ledger!EntriesOf(m, d)
<1>1. /\ n \in Nat
      /\ DOMAIN l = 1..n
      /\ DOMAIN m = 1..(n + 1)
      /\ m[n + 1] = e
      /\ \A i \in 1..n : m[i] = l[i]
  OBVIOUS
<1>2. Old \subseteq 1..n /\ New \subseteq 1..(n + 1)
  BY <1>1 DEF Ledger!EntriesOf
<1>3. CASE e.deviceId = d
  <2>1. n + 1 \in New
    BY <1>1, <1>3 DEF Ledger!EntriesOf
  <2>2. Ledger!Latest(New) \in New /\ n + 1 <= Ledger!Latest(New)
    BY <1>1, <1>2, <2>1, LatestIsGreatest
  <2>3. Ledger!Latest(New) = n + 1
    BY <1>1, <1>2, <2>2
  <2> QED
    BY <1>1, <1>3, <2>1, <2>3 DEF Ledger!LatestEpoch
<1>4. CASE e.deviceId # d
  <2>1. New = Old
    BY <1>1, <1>4 DEF Ledger!EntriesOf
  <2>2. CASE Old = {}
    BY <1>4, <2>1, <2>2 DEF Ledger!LatestEpoch
  <2>3. CASE Old # {}
    <3>1. Ledger!Latest(Old) \in 1..n
      BY <1>1, <1>2, <2>3, LatestIsGreatest
    <3> QED
      BY <1>1, <1>4, <2>1, <2>3, <3>1 DEF Ledger!LatestEpoch
  <2> QED
    BY <2>2, <2>3
<1> QED
  BY <1>3, <1>4

-----------------------------------------------------------------------------
(***************************************************************************)
(* Types.                                                                  *)
(***************************************************************************)
(* A role transaction keeps the roles' type.                               *)
LEMMA RolesStayTyped ==
    ASSUME AC!RolesTypeOK, AC!ChangeRoles
    PROVE  AC!RolesTypeOK'
  BY DEF AC!RolesTypeOK, AC!ChangeRoles, AC!ChangeRolesBy, AC!GrantRole, AC!RevokeRole, AC!RenounceRole

(* Every transaction keeps the types; no gap is ever negative.             *)
LEMMA StepKeepsTypes == TypeOK /\ [Next]_vars => TypeOK'
<1> SUFFICES ASSUME TypeOK, [Next]_vars PROVE TypeOK'
  OBVIOUS
<1>1. ASSUME NEW caller \in Accounts, NEW call \in Calls, submitProof(caller, call)
      PROVE  TypeOK'
  <2>1. Entry(call) \in Event
    BY <1>1, Submission, EntryIsEvent
  <2>2. /\ call.deviceId \in DeviceIds
        /\ call.epochStartTs \in Nat
        /\ SessionKey(call) \in DeviceIds \X SessionIds
    BY CallComponents
  <2>3. /\ usedSessionKeys' = usedSessionKeys \cup {SessionKey(call)}
        /\ lastSubmissionTimestamp' =
               [lastSubmissionTimestamp EXCEPT ![call.deviceId] = call.epochStartTs]
        /\ log' = Append(log, Entry(call))
        /\ UNCHANGED <<roles, paused, config, environment>>
    BY <1>1, Submission
  <2>4. log' \in Seq(Event)
    BY <2>1, <2>3 DEF TypeOK
  <2>5. lastSubmissionTimestamp' \in [DeviceIds -> Nat]
    BY <2>2, <2>3 DEF TypeOK
  <2>6. usedSessionKeys' \subseteq DeviceIds \X SessionIds
    BY <2>2, <2>3 DEF TypeOK
  <2> QED
    BY <2>3, <2>4, <2>5, <2>6 DEF TypeOK, AC!RolesTypeOK, config, environment
<1>2. ASSUME NEW caller \in Accounts, Governance(caller)
      PROVE  TypeOK'
  BY <1>2 DEF TypeOK, AC!RolesTypeOK, Governance, pause, unpause, setDeviceRegistry,
              setP256Verifier, setHonkVerifier, config, storage, environment
<1>3. CASE RoleTransaction
  <2>1. AC!RolesTypeOK'
    BY <1>3, RolesStayTyped DEF RoleTransaction, TypeOK
  <2> QED
    BY <1>3, <2>1 DEF RoleTransaction, TypeOK, config, storage, environment
<1>4. ASSUME NEW registry \in Registries, NEW key \in PubKeys,
             AuthorizationChanges(registry, key)
      PROVE  TypeOK'
  BY <1>4 DEF AuthorizationChanges, TypeOK, AC!RolesTypeOK, config, storage
<1>5. CASE NewBlock
  BY <1>5 DEF NewBlock, TypeOK, AC!RolesTypeOK, config, storage
<1>6. CASE UNCHANGED vars
  BY <1>6 DEF vars, TypeOK, AC!RolesTypeOK, config, storage, environment
<1> QED
  BY <1>1, <1>2, <1>3, <1>4, <1>5, <1>6 DEF Next

(* A freshly initialized contract has the right types.                     *)
LEMMA InitialTypes == Init => TypeOK
<1> SUFFICES ASSUME Init PROVE TypeOK
  OBVIOUS
<1>1. AC!RolesTypeOK
  BY V3Assumption DEF Init, AC!RolesTypeOK
<1>2. /\ lastSubmissionTimestamp \in [DeviceIds -> Nat]
      /\ usedSessionKeys \subseteq DeviceIds \X SessionIds
      /\ log \in Seq(Event)
      /\ authorized \in [Registries -> SUBSET PubKeys]
      /\ blockTimestamp \in Nat
  BY DEF Init
<1> QED
  BY <1>1, <1>2, V3Assumption DEF Init, TypeOK

(* Type correctness, which includes that no gap is ever negative: the      *)
(* subtraction of uint64 epochs in submitProof never underflows.           *)
THEOREM TypeCorrect == Spec => []TypeOK
  BY InitialTypes, StepKeepsTypes, PTL DEF Spec

-----------------------------------------------------------------------------
(***************************************************************************)
(* Safety.  EpochsIncrease is not inductive by itself: a new entry is      *)
(* compared with the cached timestamp only, so the cache must bound every  *)
(* logged epoch of its device.                                             *)
(***************************************************************************)
CacheBoundsLog ==
    \A i \in DOMAIN log :
        log[i].timestamp <= lastSubmissionTimestamp[log[i].deviceId]

VInv == TypeOK /\ StorageMatchesLog /\ SessionAtMostOnce /\ EpochsIncrease
        /\ CacheBoundsLog /\ NoFutureBacklog

(* A contract that nobody has submitted to.                                *)
Unused ==
    /\ lastSubmissionTimestamp = [d \in DeviceIds |-> 0]
    /\ usedSessionKeys = {}
    /\ log = <<>>

(* It satisfies the invariant, whatever its roles and addresses are.       *)
LEMMA UnusedSafe == ASSUME TypeOK, Unused PROVE VInv
<1>1. log = <<>> /\ DOMAIN log = {} /\ usedSessionKeys = {}
  BY DEF Unused
<1>2. \A d : Ledger!LatestEpoch(log, d) = 0
  BY <1>1 DEF Ledger!LatestEpoch, Ledger!EntriesOf
<1>3. \A d \in DeviceIds : lastSubmissionTimestamp[d] = 0
  BY DEF Unused
<1>4. StorageMatchesLog
  BY <1>1, <1>2, <1>3 DEF StorageMatchesLog
<1>5. SessionAtMostOnce /\ EpochsIncrease /\ CacheBoundsLog
  BY <1>1 DEF SessionAtMostOnce, EpochsIncrease, CacheBoundsLog
<1>6. NoFutureBacklog
  BY <1>3, V3Assumption DEF NoFutureBacklog, TypeOK
<1> QED
  BY <1>4, <1>5, <1>6 DEF VInv

(* An accepted submission keeps every part of the invariant.               *)
LEMMA SubmissionSafe ==
    ASSUME VInv, TypeOK', NEW caller \in Accounts, NEW call \in Calls,
           submitProof(caller, call)
    PROVE  VInv'
<1> DEFINE e == Entry(call)
           d == call.deviceId
           n == Len(log)
<1>1. /\ call.epochStartTs <= blockTimestamp + MAX_EPOCH_FUTURE_DRIFT
      /\ SessionKey(call) \notin usedSessionKeys
      /\ lastSubmissionTimestamp[d] # 0 =>
             call.epochStartTs > lastSubmissionTimestamp[d]
  BY Submission, AcceptedCalls
<1>2. /\ usedSessionKeys' = usedSessionKeys \cup {SessionKey(call)}
      /\ lastSubmissionTimestamp' =
             [lastSubmissionTimestamp EXCEPT ![d] = call.epochStartTs]
      /\ log' = Append(log, e)
      /\ blockTimestamp' = blockTimestamp
  BY Submission DEF environment
<1>3. e \in Event /\ d \in DeviceIds /\ call.epochStartTs \in Nat
  BY Submission, EntryIsEvent, CallComponents DEF VInv
<1>4. /\ e.deviceId = d
      /\ e.timestamp = call.epochStartTs
      /\ SessionKey(e) = SessionKey(call)
  BY DEF Entry, SessionKey
<1>5. /\ log \in Seq(Event)
      /\ lastSubmissionTimestamp \in [DeviceIds -> Nat]
      /\ blockTimestamp \in Nat
  BY DEF VInv, TypeOK
<1>6. /\ n \in Nat
      /\ DOMAIN log = 1..n
      /\ DOMAIN log' = 1..(n + 1)
      /\ log'[n + 1] = e
      /\ \A i \in 1..n : log'[i] = log[i] /\ log[i] \in Event
  BY <1>2, <1>3, <1>5
<1> HIDE DEF e
<1>7. /\ lastSubmissionTimestamp'[d] = call.epochStartTs
      /\ \A x \in DeviceIds : x # d =>
             lastSubmissionTimestamp'[x] = lastSubmissionTimestamp[x]
      /\ lastSubmissionTimestamp[d] <= call.epochStartTs
  BY <1>1, <1>2, <1>3, <1>5
<1>8. StorageMatchesLog'
  <2>1. usedSessionKeys' = {SessionKey(log'[i]) : i \in DOMAIN log'}
    <3>1. usedSessionKeys = {SessionKey(log[i]) : i \in 1..n}
      BY <1>6 DEF VInv, StorageMatchesLog
    <3> QED
      BY <1>2, <1>4, <1>6, <3>1
  <2>2. ASSUME NEW x \in DeviceIds
        PROVE  lastSubmissionTimestamp'[x] = Ledger!LatestEpoch(log', x)
    <3>1. Ledger!LatestEpoch(log', x) =
              IF e.deviceId = x THEN e.timestamp ELSE Ledger!LatestEpoch(log, x)
      BY <1>2, <1>3, <1>5, LatestEpochOfAppend
    <3>2. lastSubmissionTimestamp[x] = Ledger!LatestEpoch(log, x)
      BY DEF VInv, StorageMatchesLog
    <3> QED
      BY <1>4, <1>7, <3>1, <3>2
  <2> QED
    BY <2>1, <2>2 DEF StorageMatchesLog, SessionKey
<1>9. SessionAtMostOnce'
  <2>1. \A i \in 1..n : SessionKey(log[i]) # SessionKey(e)
    BY <1>1, <1>4, <1>6 DEF VInv, StorageMatchesLog
  <2>2. \A i, j \in 1..n : SessionKey(log[i]) = SessionKey(log[j]) => i = j
    BY <1>6 DEF VInv, SessionAtMostOnce
  <2>3. \A i, j \in 1..(n + 1) : SessionKey(log'[i]) = SessionKey(log'[j]) => i = j
    <3> SUFFICES ASSUME NEW i \in 1..(n + 1), NEW j \in 1..(n + 1),
                        SessionKey(log'[i]) = SessionKey(log'[j])
                 PROVE  i = j
      OBVIOUS
    <3>1. CASE i \in 1..n /\ j \in 1..n
      BY <1>6, <2>2, <3>1
    <3>2. CASE i \in 1..n /\ j = n + 1
      BY <1>6, <2>1, <3>2
    <3>3. CASE i = n + 1 /\ j \in 1..n
      BY <1>6, <2>1, <3>3
    <3> QED
      BY <1>6, <3>1, <3>2, <3>3
  <2> QED
    BY <1>6, <2>3 DEF SessionAtMostOnce, SessionKey
<1>10. \A i \in 1..n : /\ log[i].deviceId \in DeviceIds
                       /\ log[i].timestamp \in Nat
                       /\ log[i].timestamp <= lastSubmissionTimestamp[log[i].deviceId]
  BY <1>6 DEF VInv, CacheBoundsLog, Event
<1>11. CacheBoundsLog'
  <2> SUFFICES ASSUME NEW i \in 1..(n + 1)
               PROVE  log'[i].timestamp <= lastSubmissionTimestamp'[log'[i].deviceId]
    BY <1>6 DEF CacheBoundsLog
  <2>1. CASE i = n + 1
    BY <1>3, <1>4, <1>6, <1>7, <2>1
  <2>2. CASE i \in 1..n /\ log[i].deviceId = d
    BY <1>3, <1>5, <1>6, <1>7, <1>10, <2>2
  <2>3. CASE i \in 1..n /\ log[i].deviceId # d
    BY <1>6, <1>7, <1>10, <2>3
  <2> QED
    BY <1>6, <2>1, <2>2, <2>3
<1>12. EpochsIncrease'
  <2> SUFFICES ASSUME NEW i \in 1..(n + 1), NEW j \in 1..(n + 1), i < j,
                      log'[i].deviceId = log'[j].deviceId, log'[i].timestamp # 0
               PROVE  log'[j].timestamp > log'[i].timestamp
    BY <1>6 DEF EpochsIncrease
  <2>1. i \in 1..n /\ (j \in 1..n \/ j = n + 1)
    BY <1>6
  <2>2. CASE j \in 1..n
    BY <1>6, <2>1, <2>2 DEF VInv, EpochsIncrease
  <2>3. CASE j = n + 1
    <3>1. log'[j] = e /\ log[i].deviceId = d /\ log[i].timestamp # 0
      BY <1>4, <1>6, <2>1, <2>3
    <3>2. log[i].timestamp <= lastSubmissionTimestamp[d] /\ log[i].timestamp \in Nat
      BY <1>10, <2>1, <3>1
    <3>3. lastSubmissionTimestamp[d] \in Nat
      BY <1>3, <1>5
    <3>4. lastSubmissionTimestamp[d] # 0
      BY <3>1, <3>2, <3>3
    <3> QED
      BY <1>1, <1>3, <1>4, <1>6, <2>1, <3>1, <3>2, <3>3, <3>4
  <2> QED
    BY <2>1, <2>2, <2>3
<1>13. NoFutureBacklog'
  BY <1>1, <1>2, <1>7 DEF VInv, NoFutureBacklog
<1> QED
  BY <1>8, <1>9, <1>11, <1>12, <1>13 DEF VInv

(* A step that leaves storage alone keeps it too, for the clock only moves *)
(* forward.                                                                *)
LEMMA OtherStepsSafe ==
    ASSUME VInv, TypeOK', UNCHANGED storage, blockTimestamp' >= blockTimestamp
    PROVE  VInv'
<1>1. /\ lastSubmissionTimestamp' = lastSubmissionTimestamp
      /\ usedSessionKeys' = usedSessionKeys
      /\ log' = log
  BY DEF storage
<1>2. StorageMatchesLog'
  BY <1>1 DEF VInv, StorageMatchesLog, SessionKey
<1>3. SessionAtMostOnce' /\ EpochsIncrease' /\ CacheBoundsLog'
  BY <1>1 DEF VInv, SessionAtMostOnce, EpochsIncrease, CacheBoundsLog, SessionKey
<1>4. NoFutureBacklog'
  BY <1>1, V3Assumption DEF VInv, NoFutureBacklog, TypeOK
<1> QED
  BY <1>2, <1>3, <1>4 DEF VInv

(* Every transaction keeps the invariant.                                  *)
LEMMA StepKeepsInvariant == VInv /\ [Next]_vars => VInv'
<1> SUFFICES ASSUME VInv, [Next]_vars PROVE VInv'
  OBVIOUS
<1>1. TypeOK /\ TypeOK'
  BY StepKeepsTypes DEF VInv
<1>2. CASE \E caller \in Accounts, call \in Calls : submitProof(caller, call)
  BY <1>1, <1>2, SubmissionSafe
<1>3. CASE \A caller \in Accounts, call \in Calls : ~submitProof(caller, call)
  BY <1>1, <1>3, OtherSteps, OtherStepsSafe
<1> QED
  BY <1>2, <1>3

(* Every behaviour of the contract satisfies the invariant.                *)
LEMMA ContractInvariant == Spec => []VInv
<1>1. Init /\ TypeOK => VInv
  BY UnusedSafe DEF Init, Unused
<1> QED
  BY <1>1, StepKeepsInvariant, TypeCorrect, PTL DEF Spec

(* usedSessionKeys and lastSubmissionTimestamp are exact summaries of the  *)
(* ProofSubmitted events (lines 363-374 of submitProof).                   *)
THEOREM CachesAreExact == Spec => []StorageMatchesLog
  BY ContractInvariant, PTL DEF VInv

(* Check 5 admits every (device, session) pair at most once, ever.         *)
THEOREM NoReplay == Spec => []SessionAtMostOnce
  BY ContractInvariant, PTL DEF VInv

(* Check 7a orders the nonzero epochs of every device.                     *)
THEOREM EpochOrder == Spec => []EpochsIncrease
  BY ContractInvariant, PTL DEF VInv

(* Check 6 bounds every stored epoch, at any later block too.              *)
THEOREM DriftBounded == Spec => []NoFutureBacklog
  BY ContractInvariant, PTL DEF VInv

-----------------------------------------------------------------------------
(***************************************************************************)
(* Action properties.                                                      *)
(***************************************************************************)
(* One step never makes a stale call fresh: used keys are only added, and  *)
(* a device's timestamp, once nonzero, only grows.                         *)
LEMMA StaleStaysStale ==
    ASSUME TypeOK, [Next]_vars, NEW call \in Calls, Stale(call)
    PROVE  Stale(call)'
<1>1. call.deviceId \in DeviceIds /\ call.epochStartTs \in Nat
  BY CallComponents
<1>2. lastSubmissionTimestamp \in [DeviceIds -> Nat]
  BY DEF TypeOK
<1>3. ASSUME NEW caller \in Accounts, NEW new \in Calls, submitProof(caller, new)
      PROVE  Stale(call)'
  <2>1. /\ usedSessionKeys' = usedSessionKeys \cup {SessionKey(new)}
        /\ lastSubmissionTimestamp' =
               [lastSubmissionTimestamp EXCEPT ![new.deviceId] = new.epochStartTs]
        /\ lastSubmissionTimestamp[new.deviceId] # 0 =>
               new.epochStartTs > lastSubmissionTimestamp[new.deviceId]
    BY <1>3, Submission, AcceptedCalls
  <2>2. new.deviceId \in DeviceIds /\ new.epochStartTs \in Nat
    BY CallComponents
  <2>3. CASE SessionKey(call) \in usedSessionKeys
    BY <2>1, <2>3 DEF Stale, SessionKey
  <2>4. CASE /\ lastSubmissionTimestamp[call.deviceId] # 0
             /\ call.epochStartTs <= lastSubmissionTimestamp[call.deviceId]
    <3>1. CASE new.deviceId = call.deviceId
      BY <1>1, <1>2, <2>1, <2>2, <2>4, <3>1 DEF Stale
    <3>2. CASE new.deviceId # call.deviceId
      BY <1>1, <1>2, <2>1, <2>2, <2>4, <3>2 DEF Stale
    <3> QED
      BY <3>1, <3>2
  <2> QED
    BY <2>3, <2>4 DEF Stale
<1>4. CASE \A caller \in Accounts, new \in Calls : ~submitProof(caller, new)
  <2>1. UNCHANGED storage
    BY <1>4, OtherSteps
  <2> QED
    BY <2>1 DEF storage, Stale, SessionKey
<1> QED
  BY <1>3, <1>4

(* A replay or an outdated epoch is rejected for ever, across pauses, role *)
(* changes and new registries and verifiers (checks 5 and 7a).             *)
THEOREM RejectionIsFinal == Spec => StaleForever
<1>1. TypeOK /\ [Next]_vars => [\A call \in Calls : Stale(call) => Stale(call)']_vars
  BY StaleStaysStale
<1> QED
  BY <1>1, TypeCorrect, PTL DEF Spec, StaleForever

(* Without an admin nobody passes onlyRole(DEFAULT_ADMIN_ROLE).            *)
LEMMA NoAdminStep ==
    ASSUME TypeOK, [Next]_vars, roles["DEFAULT_ADMIN_ROLE"] = {}
    PROVE  /\ \A r \in Roles : roles'[r] \subseteq roles[r]
           /\ UNCHANGED config
           /\ paused => paused'
<1>1. \A account : ~AC!HasRole("DEFAULT_ADMIN_ROLE", account)
  BY DEF AC!HasRole
<1>2. roles \in [Roles -> SUBSET Accounts]
  BY DEF TypeOK, AC!RolesTypeOK
<1>3. ASSUME NEW caller \in Accounts, NEW call \in Calls, submitProof(caller, call)
      PROVE  UNCHANGED <<roles, config, paused>>
  BY <1>3, Submission
<1>4. ASSUME NEW caller \in Accounts, Governance(caller)
      PROVE  UNCHANGED <<roles, config>> /\ paused'
  BY <1>1, <1>4 DEF Governance, pause, unpause, setDeviceRegistry, setP256Verifier,
                    setHonkVerifier
<1>5. CASE RoleTransaction
  <2>1. UNCHANGED <<paused, config>>
    BY <1>5 DEF RoleTransaction
  <2>2. PICK caller \in Accounts, role \in Roles : AC!RenounceRole(caller, role)
    BY <1>1, <1>5 DEF RoleTransaction, AC!ChangeRoles, AC!ChangeRolesBy, AC!GrantRole, AC!RevokeRole
  <2>3. \A r \in Roles : roles'[r] \subseteq roles[r]
    BY <1>2, <2>2 DEF AC!RenounceRole
  <2> QED
    BY <2>1, <2>3
<1>6. ASSUME NEW registry \in Registries, NEW key \in PubKeys,
             AuthorizationChanges(registry, key)
      PROVE  UNCHANGED <<roles, config, paused>>
  BY <1>6 DEF AuthorizationChanges
<1>7. CASE NewBlock
  BY <1>7 DEF NewBlock
<1>8. CASE UNCHANGED vars
  BY <1>8 DEF vars
<1> QED
  BY <1>3, <1>4, <1>5, <1>6, <1>7, <1>8 DEF Next

(* Losing the last admin freezes governance, and a paused contract with it *)
(* (onlyRole on unpause, the setters and grantRole).                       *)
THEOREM AdminLossIsFinal == Spec => NoAdminNoGovernance
<1>1. TypeOK /\ [Next]_vars =>
          [roles["DEFAULT_ADMIN_ROLE"] = {} =>
              /\ \A r \in Roles : roles'[r] \subseteq roles[r]
              /\ UNCHANGED config
              /\ paused => paused']_vars
  BY NoAdminStep
<1> QED
  BY <1>1, TypeCorrect, PTL DEF Spec, NoAdminNoGovernance

-----------------------------------------------------------------------------
(***************************************************************************)
(* Refinement.                                                             *)
(***************************************************************************)
(* With exact caches, an accepted submission is an acceptance the ledger   *)
(* allows.                                                                 *)
LEMMA SubmissionIsAcceptance ==
    ASSUME VInv, NEW caller \in Accounts, NEW call \in Calls,
           submitProof(caller, call)
    PROVE  Ledger!Accept(call.deviceId, call.sessionId, call.epochStartTs)
<1> DEFINE d == call.deviceId
           previous == Ledger!LatestEpoch(log, d)
<1>1. /\ SessionKey(call) \notin usedSessionKeys
      /\ lastSubmissionTimestamp[d] # 0 =>
             call.epochStartTs > lastSubmissionTimestamp[d]
      /\ log' = Append(log, Entry(call))
  BY Submission, AcceptedCalls
<1>2. lastSubmissionTimestamp[d] = previous
  BY CallComponents DEF VInv, StorageMatchesLog
<1>3. Gap(call) = Ledger!GapFrom(previous, call.epochStartTs)
  BY <1>2 DEF Gap, Ledger!GapFrom
<1>4. \A i \in Ledger!EntriesOf(log, d) : log[i].sessionId # call.sessionId
  BY <1>1 DEF Ledger!EntriesOf, VInv, StorageMatchesLog, SessionKey
<1>5. previous # 0 => call.epochStartTs > previous
  BY <1>1, <1>2
<1> HIDE DEF previous
<1>6. log' = Append(log, [deviceId |-> d, sessionId |-> call.sessionId,
                          timestamp |-> call.epochStartTs,
                          gapFromPrevious |-> Ledger!GapFrom(previous, call.epochStartTs),
                          postDisconnection |->
                              Ledger!GapFrom(previous, call.epochStartTs) > MAX_GAP_SECONDS])
  BY <1>1, <1>3 DEF Entry
<1> QED
  BY <1>4, <1>5, <1>6 DEF Ledger!Accept, previous

(* The contract implements ProofLedger: its events are those a ledger that *)
(* looks the previous entry up in the list itself would have recorded.     *)
THEOREM ContractImplementsLedger == Spec => LedgerSpec
<1>1. Init => Ledger!Init
  BY DEF Init, Ledger!Init
<1>2. VInv /\ TypeOK /\ [Next]_vars => [Ledger!Next]_log
  <2> SUFFICES ASSUME VInv, TypeOK, [Next]_vars PROVE [Ledger!Next]_log
    OBVIOUS
  <2>1. ASSUME NEW caller \in Accounts, NEW call \in Calls, submitProof(caller, call)
        PROVE  Ledger!Next
    BY <2>1, SubmissionIsAcceptance, CallComponents DEF Ledger!Next
  <2>2. CASE \A caller \in Accounts, call \in Calls : ~submitProof(caller, call)
    BY <2>2, OtherSteps DEF storage
  <2> QED
    BY <2>1, <2>2
<1> QED
  BY <1>1, <1>2, TypeCorrect, ContractInvariant, PTL DEF Spec, LedgerSpec, Ledger!Spec
=============================================================================
