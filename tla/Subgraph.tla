------------------------------- MODULE Subgraph -------------------------------
(***************************************************************************)
(* The index that the dashboard reads (subgraph/): handlers that fold the  *)
(* events of both contracts, in the order they were mined, into entities   *)
(* and a singleton of counters.  The handlers read only their event and    *)
(* what earlier ones stored; they cannot call the contracts.               *)
(*                                                                         *)
(* The device events come from DeviceRegistry; the proof events from what  *)
(* EnergyProofRegistryV3 is shown to implement, ProofLedger.  graph-node   *)
(* runs a handler and stores its entities in one database transaction and  *)
(* resumes after the last one, so a crash of it is a stuttering step.      *)
(***************************************************************************)
EXTENDS DeviceRegistry

CONSTANTS
    DeviceIds,          (* the uint64 ids proofs are reported under        *)
    SessionIds,
    Epochs,
    MAX_GAP_SECONDS,
    SecondsPerDay,
    MaxProofs           (* bound on the number of proofs                   *)

ASSUME SubgraphAssumption ==
    /\ SecondsPerDay \in Nat \ {0}
    /\ IsFiniteSet(DeviceIds)
    /\ Epochs \subseteq Nat

VARIABLES
    ledger,             (* accepted proofs, as ProofLedger keeps them      *)
    chain,              (* the events of both contracts as mined           *)
    cursor,             (* how many of them graph-node has handled         *)
    device,             (* entities Device, keyed by public key            *)
    submission,         (* ids of the entities Submission                  *)
    daily,              (* entities DailyStat, keyed by day and device id  *)
    protocol            (* the entity Protocol                             *)

Ledger == INSTANCE ProofLedger

store == <<device, submission, daily, protocol>>
subgraphVars == <<vars, ledger, chain, cursor, store>>

Mined == [kind : EventKinds, key : PubKeys, at : Nat]
            \cup [kind : {"ProofSubmitted"}, proof : Ledger!Entry, at : Nat]

Counters == {"totalDevices", "activeDevices", "revokedDevices",
             "suspendedDevices", "totalSubmissions", "totalPostDisconnections"}

Entity == [status : Status \ {"Unknown"}, registeredAt : Nat, revokedAt : Nat,
           reactivatedAt : Nat, suspendedAt : Nat]

(* Maps that grow by load-or-create: a key outside the domain is null.     *)
DailyKey == Nat \X DeviceIds
DailyStat == [submissionCount : Nat, postDisconnectionCount : Nat]
NoStat == [submissionCount |-> 0, postDisconnectionCount |-> 0]

(* Type correctness: statuses and statistics that the schema has, and      *)
(* counters that the handlers' decrements never take below zero.           *)
SubgraphTypeOK ==
    /\ chain \in Seq(Mined)
    /\ cursor \in 0..Len(chain)
    /\ DOMAIN device \subseteq PubKeys
    /\ \A k \in DOMAIN device : device[k] \in Entity
    /\ submission \subseteq DeviceIds \X SessionIds
    /\ DOMAIN daily \subseteq DailyKey
    /\ \A key \in DOMAIN daily : daily[key] \in DailyStat
    /\ protocol \in [Counters -> Nat]

SubgraphInit ==
    /\ Init
    /\ Ledger!Init
    /\ chain = <<>>
    /\ cursor = 0
    /\ device = <<>>
    /\ submission = {}
    /\ daily = <<>>
    /\ protocol = [c \in Counters |-> 0]

-----------------------------------------------------------------------------
(***************************************************************************)
(* The chain.                                                              *)
(***************************************************************************)
RegistryTransaction ==
    /\ Next
    /\ chain' = IF events' = events THEN chain
                ELSE LET e == events'[Len(events')]
                     IN  Append(chain, [kind |-> e.kind, key |-> e.key,
                                        at |-> blockTimestamp])
    /\ UNCHANGED <<ledger, cursor, store>>

ProofTransaction ==
    /\ Len(ledger) < MaxProofs
    /\ Ledger!Next
    /\ chain' = Append(chain, [kind |-> "ProofSubmitted",
                               proof |-> ledger'[Len(ledger')],
                               at |-> blockTimestamp])
    /\ UNCHANGED <<vars, cursor, store>>

-----------------------------------------------------------------------------
(***************************************************************************)
(* The handlers.  Each is a function of the stored entities and the event. *)
(***************************************************************************)
Known(key) == key \in DOMAIN device

Put(f, key, value) == [k \in DOMAIN f \cup {key} |-> IF k = key THEN value ELSE f[k]]

Count(counters, amount) ==
    [c \in Counters |-> IF c \in counters THEN protocol[c] + amount ELSE protocol[c]]

handleDeviceRegistered(e) ==
    IF Known(e.key) THEN UNCHANGED store
    ELSE /\ device' = Put(device, e.key,
                [status |-> "Active", registeredAt |-> e.at, revokedAt |-> 0,
                 reactivatedAt |-> 0, suspendedAt |-> 0])
         /\ protocol' = Count({"totalDevices", "activeDevices"}, 1)
         /\ UNCHANGED <<submission, daily>>

(* The counter of the status the device leaves goes down, that of the one  *)
(* it enters goes up.  from names the statuses a handler tests for.        *)
CounterOf == [Active |-> "activeDevices", Revoked |-> "revokedDevices",
              Suspended |-> "suspendedDevices"]

Move(key, from, to) ==
    LET previous == device[key].status
        left == IF previous \in from THEN {CounterOf[previous]} ELSE {}
    IN  protocol' = [c \in Counters |->
            protocol[c] + (IF c = CounterOf[to] THEN 1 ELSE 0)
                        - (IF c \in left THEN 1 ELSE 0)]

handleDeviceRevoked_ActiveOnly(e) ==  \* no branch for Suspended
    IF ~Known(e.key) THEN UNCHANGED store
    ELSE /\ device' = [device EXCEPT ![e.key].status = "Revoked",
                                     ![e.key].revokedAt = e.at]
         /\ Move(e.key, {"Active"}, "Revoked")
         /\ UNCHANGED <<submission, daily>>

handleDeviceRevoked(e) ==
    IF ~Known(e.key) THEN UNCHANGED store
    ELSE /\ device' = [device EXCEPT ![e.key].status = "Revoked",
                                     ![e.key].revokedAt = e.at]
         /\ Move(e.key, {"Active", "Suspended"}, "Revoked")
         /\ UNCHANGED <<submission, daily>>

handleDeviceReactivated_FromRevoked(e) ==  \* takes revoked for the only way
    IF ~Known(e.key) THEN UNCHANGED store
    ELSE /\ device' = [device EXCEPT ![e.key].status = "Active",
                                     ![e.key].reactivatedAt = e.at]
         /\ protocol' = [Count({"activeDevices"}, 1) EXCEPT !.revokedDevices = @ - 1]
         /\ UNCHANGED <<submission, daily>>

handleDeviceReactivated(e) ==
    IF ~Known(e.key) THEN UNCHANGED store
    ELSE /\ device' = [device EXCEPT ![e.key].status = "Active",
                                     ![e.key].reactivatedAt = e.at]
         /\ Move(e.key, {"Revoked", "Suspended"}, "Active")
         /\ UNCHANGED <<submission, daily>>

handleDeviceSuspended_NotSaved(e) ==  \* no device.save()
    IF ~Known(e.key) THEN UNCHANGED store
    ELSE /\ Move(e.key, {"Active"}, "Suspended")
         /\ UNCHANGED <<device, submission, daily>>

handleDeviceSuspended(e) ==
    IF ~Known(e.key) THEN UNCHANGED store
    ELSE /\ device' = [device EXCEPT ![e.key].status = "Suspended",
                                     ![e.key].suspendedAt = e.at]
         /\ Move(e.key, {"Active"}, "Suspended")
         /\ UNCHANGED <<submission, daily>>

getDayStartTs(timestamp) == (timestamp \div SecondsPerDay) * SecondsPerDay

makeDailyStatId(dayStart, deviceId) == <<dayStart, deviceId>>

One(condition) == IF condition THEN 1 ELSE 0

handleProofSubmitted_ByEpoch(e) ==  \* the day of the payload, not of the block
    LET key == makeDailyStatId(getDayStartTs(e.proof.timestamp), e.proof.deviceId)
        stat == IF key \in DOMAIN daily THEN daily[key] ELSE NoStat
    IN  /\ submission' = submission \cup {<<e.proof.deviceId, e.proof.sessionId>>}
        /\ daily' = Put(daily, key,
               [submissionCount |-> stat.submissionCount + 1,
                postDisconnectionCount |->
                    stat.postDisconnectionCount + One(e.proof.postDisconnection)])
        /\ protocol' = [Count({"totalSubmissions"}, 1) EXCEPT
               !.totalPostDisconnections = @ + One(e.proof.postDisconnection)]
        /\ UNCHANGED device

handleProofSubmitted(e) ==
    LET key == makeDailyStatId(getDayStartTs(e.at), e.proof.deviceId)
        stat == IF key \in DOMAIN daily THEN daily[key] ELSE NoStat
    IN  /\ submission' = submission \cup {<<e.proof.deviceId, e.proof.sessionId>>}
        /\ daily' = Put(daily, key,
               [submissionCount |-> stat.submissionCount + 1,
                postDisconnectionCount |->
                    stat.postDisconnectionCount + One(e.proof.postDisconnection)])
        /\ protocol' = [Count({"totalSubmissions"}, 1) EXCEPT
               !.totalPostDisconnections = @ + One(e.proof.postDisconnection)]
        /\ UNCHANGED device

Index ==
    /\ cursor < Len(chain)
    /\ cursor' = cursor + 1
    /\ LET e == chain[cursor + 1]
       IN  \/ e.kind = "DeviceRegistered"  /\ handleDeviceRegistered(e)
           \/ e.kind = "DeviceRevoked"     /\ handleDeviceRevoked(e)
           \/ e.kind = "DeviceReactivated" /\ handleDeviceReactivated(e)
           \/ e.kind = "DeviceSuspended"   /\ handleDeviceSuspended(e)
           \/ e.kind = "ProofSubmitted"    /\ handleProofSubmitted(e)
    /\ UNCHANGED <<vars, ledger, chain>>

SubgraphNext == RegistryTransaction \/ ProofTransaction \/ Index

SubgraphSpec == SubgraphInit /\ [][SubgraphNext]_subgraphVars

-----------------------------------------------------------------------------
(***************************************************************************)
(* Properties.                                                             *)
(***************************************************************************)
WithStatus(s) == {k \in DOMAIN device : device[k].status = s}

(* schema.graphql: totalDevices is "Active + Revoked + Suspended".  At any *)
(* point of the history each counter is the number of entities it counts,  *)
(* though the handlers adjust it by the status they find stored.           *)
CountersMatchEntities ==
    /\ protocol.totalDevices = Cardinality(DOMAIN device)
    /\ protocol.activeDevices = Cardinality(WithStatus("Active"))
    /\ protocol.revokedDevices = Cardinality(WithStatus("Revoked"))
    /\ protocol.suspendedDevices = Cardinality(WithStatus("Suspended"))

(* An index that has caught up agrees with the contract's storage, which   *)
(* no handler can read: same devices, same statuses, same count.           *)
CaughtUpMatchesRegistry ==
    cursor = Len(chain) =>
        /\ DOMAIN device = Registered
        /\ \A k \in Registered : device[k].status = devices[k].status
        /\ protocol.totalDevices = deviceCount

(* The proofs handled so far, of device d mined on day t.                  *)
Handled(d, t) ==
    {i \in 1..cursor : /\ chain[i].kind = "ProofSubmitted"
                       /\ chain[i].proof.deviceId = d
                       /\ getDayStartTs(chain[i].at) = t}

(* The daily statistics partition the submissions by the day they were     *)
(* mined: each equals what a scan of the chain counts, every entity is of  *)
(* a day that had one, and no two proofs share an immutable Submission.    *)
DailyStatsPartition ==
    /\ \A key \in DOMAIN daily : Handled(key[2], key[1]) # {}
    /\ \A i \in 1..cursor : chain[i].kind = "ProofSubmitted" =>
          LET key == <<getDayStartTs(chain[i].at), chain[i].proof.deviceId>>
              mine == Handled(key[2], key[1])
          IN  /\ key \in DOMAIN daily
              /\ daily[key].submissionCount = Cardinality(mine)
              /\ daily[key].postDisconnectionCount
                    = Cardinality({j \in mine : chain[j].proof.postDisconnection})
    /\ protocol.totalSubmissions = Cardinality(submission)
    /\ protocol.totalSubmissions
          = Cardinality({i \in 1..cursor : chain[i].kind = "ProofSubmitted"})
=============================================================================
