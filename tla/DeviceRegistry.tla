---------------------------- MODULE DeviceRegistry ----------------------------
(***************************************************************************)
(* The on-chain register of devices (contracts/src/DeviceRegistry.sol).    *)
(* Every transaction runs alone, so each external function is one action;  *)
(* a call that reverts changes nothing and is the stuttering step.         *)
(*                                                                         *)
(* The event log is part of the state: the subgraph rebuilds the register  *)
(* from it and nothing else.                                               *)
(***************************************************************************)
EXTENDS Integers, Sequences, FiniteSets

CONSTANTS
    Accounts,        (* addresses that send transactions                   *)
    Admin,           (* the constructor's argument                         *)
    PubKeys,         (* byte strings passed as a public key                *)
    WellFormedKeys,  (* those of 64 bytes                                  *)
    Locations,       (* (latE7, lonE7) pairs passed to registerDevice      *)
    ValidLocations,  (* those inside the coordinate bounds                 *)
    NoLocation,      (* the zero pair of an unwritten record               *)
    MaxEvents,       (* bound on the length of the event log               *)
    MaxTime          (* bound on the block timestamp                       *)

ASSUME RegistryAssumption ==
    /\ Admin \in Accounts
    /\ WellFormedKeys \subseteq PubKeys
    /\ ValidLocations \subseteq Locations
    /\ IsFiniteSet(PubKeys)
    /\ MaxEvents \in Nat
    /\ MaxTime \in Nat \ {0}

VARIABLES
    roles,           (* AccessControl                                      *)
    devices,         (* _devices, keyed by the key whose hash is the slot  *)
    deviceCount,
    blockTimestamp,
    events           (* the contract's lifecycle events, oldest first      *)

vars == <<roles, devices, deviceCount, blockTimestamp, events>>

Roles == {"DEFAULT_ADMIN_ROLE", "OPERATOR_ROLE"}

AC == INSTANCE AccessControl WITH AdminRole <- "DEFAULT_ADMIN_ROLE"

Status == {"Unknown", "Active", "Revoked", "Suspended"}

Device == [status : Status, location : ValidLocations \cup {NoLocation},
           registeredAt : Nat]

Unregistered == [status |-> "Unknown", location |-> NoLocation,
                 registeredAt |-> 0]

EventKinds == {"DeviceRegistered", "DeviceRevoked",
               "DeviceReactivated", "DeviceSuspended"}

Event == [kind : EventKinds, key : PubKeys]

Registered == {k \in PubKeys : devices[k].status # "Unknown"}

(* Type correctness; a stored location is always inside the bounds that    *)
(* _validateCoordinates enforces, and a registered device has one.         *)
TypeOK ==
    /\ AC!RolesTypeOK
    /\ devices \in [PubKeys -> Device]
    /\ \A key \in Registered : devices[key].location \in ValidLocations
    /\ deviceCount \in Nat
    /\ blockTimestamp \in Nat \ {0}
    /\ events \in Seq(Event)

(* The constructor makes the deployer's choice admin, and only that: no    *)
(* account can register a device until the admin grants OPERATOR_ROLE.     *)
Init ==
    /\ roles = [r \in Roles |-> IF r = "DEFAULT_ADMIN_ROLE" THEN {Admin} ELSE {}]
    /\ devices = [k \in PubKeys |-> Unregistered]
    /\ deviceCount = 0
    /\ blockTimestamp = 1
    /\ events = <<>>

(* What V3.submitProof asks for; FALSE, not a revert, for a bad length.    *)
isAuthorized(key) == key \in WellFormedKeys /\ devices[key].status = "Active"

Emit(kind, key) ==
    /\ Len(events) < MaxEvents
    /\ events' = Append(events, [kind |-> kind, key |-> key])

(***************************************************************************)
(* Wrong variants of the operations: what a slip in each would look like.  *)
(* The properties below tell every one of them from the real operation.    *)
(***************************************************************************)
registerDevice_Again(caller, key, location) ==  \* no DeviceAlreadyRegistered
    /\ AC!HasRole("OPERATOR_ROLE", caller)
    /\ key \in WellFormedKeys
    /\ location \in ValidLocations
    /\ devices[key].status # "Active"
    /\ devices' = [devices EXCEPT ![key] =
           [status |-> "Active", location |-> location,
            registeredAt |-> blockTimestamp]]
    /\ deviceCount' = deviceCount + 1
    /\ Emit("DeviceRegistered", key)
    /\ UNCHANGED <<roles, blockTimestamp>>

registerDevice_AnyLocation(caller, key, location) ==  \* no _validateCoordinates
    /\ AC!HasRole("OPERATOR_ROLE", caller)
    /\ key \in WellFormedKeys
    /\ devices[key].status = "Unknown"
    /\ devices' = [devices EXCEPT ![key] =
           [status |-> "Active", location |-> location,
            registeredAt |-> blockTimestamp]]
    /\ deviceCount' = deviceCount + 1
    /\ Emit("DeviceRegistered", key)
    /\ UNCHANGED <<roles, blockTimestamp>>

reactivateDevice_NewRecord(caller, key) ==  \* overwrites the whole record
    /\ AC!HasRole("OPERATOR_ROLE", caller)
    /\ devices[key].status \in {"Revoked", "Suspended"}
    /\ devices' = [devices EXCEPT ![key] =
           [Unregistered EXCEPT !.status = "Active",
                                !.registeredAt = blockTimestamp]]
    /\ Emit("DeviceReactivated", key)
    /\ UNCHANGED <<roles, deviceCount, blockTimestamp>>

registerDevice(caller, key, location) ==
    /\ AC!HasRole("OPERATOR_ROLE", caller)
    /\ key \in WellFormedKeys
    /\ location \in ValidLocations
    /\ devices[key].status = "Unknown"
    /\ devices' = [devices EXCEPT ![key] =
           [status |-> "Active", location |-> location,
            registeredAt |-> blockTimestamp]]
    /\ deviceCount' = deviceCount + 1
    /\ Emit("DeviceRegistered", key)
    /\ UNCHANGED <<roles, blockTimestamp>>

(* The three functions that move a registered device differ in the states  *)
(* they accept, the state they leave and the event they emit.              *)
ChangeStatus(caller, key, from, to, kind) ==
    /\ AC!HasRole("OPERATOR_ROLE", caller)
    /\ devices[key].status \in from
    /\ devices' = [devices EXCEPT ![key].status = to]
    /\ Emit(kind, key)
    /\ UNCHANGED <<roles, deviceCount, blockTimestamp>>

revokeDevice_Twice(caller, key) ==  \* no check for Revoked
    ChangeStatus(caller, key, {"Active", "Suspended", "Revoked"},
                 "Revoked", "DeviceRevoked")

suspendDevice_WrongEvent(caller, key) ==  \* emits the neighbour's event
    ChangeStatus(caller, key, {"Active"}, "Suspended", "DeviceRevoked")

revokeDevice(caller, key) ==
    ChangeStatus(caller, key, {"Active", "Suspended"}, "Revoked", "DeviceRevoked")

reactivateDevice(caller, key) ==
    ChangeStatus(caller, key, {"Revoked", "Suspended"}, "Active", "DeviceReactivated")

suspendDevice(caller, key) ==
    ChangeStatus(caller, key, {"Active"}, "Suspended", "DeviceSuspended")

RoleTransaction ==
    /\ AC!ChangeRoles
    /\ UNCHANGED <<devices, deviceCount, blockTimestamp, events>>

NewBlock ==
    /\ blockTimestamp < MaxTime
    /\ blockTimestamp' = blockTimestamp + 1
    /\ UNCHANGED <<roles, devices, deviceCount, events>>

Next ==
    \/ \E caller \in Accounts, key \in PubKeys :
          \/ \E location \in Locations : registerDevice(caller, key, location)
          \/ revokeDevice(caller, key)
          \/ reactivateDevice(caller, key)
          \/ suspendDevice(caller, key)
    \/ RoleTransaction
    \/ NewBlock

Spec == Init /\ [][Next]_vars

-----------------------------------------------------------------------------
(***************************************************************************)
(* Properties.                                                             *)
(***************************************************************************)

(* deviceCount, incremented unchecked in registerDevice and read by        *)
(* monitoring, is the number of devices ever registered: no sequence of    *)
(* revocations, suspensions and reactivations counts a device twice or     *)
(* drops one.                                                              *)
CountIsRegistered == deviceCount = Cardinality(Registered)

EventsOf(key) == {i \in DOMAIN events : events[i].key = key}

StatusAfter(kind) ==
    CASE kind = "DeviceRevoked"   -> "Revoked"
      [] kind = "DeviceSuspended" -> "Suspended"
      [] OTHER                    -> "Active"

(* The event log alone determines every device's status (the subgraph      *)
(* reads only the log): a device without events is unknown, and any other  *)
(* has the status its latest event announces.                              *)
EventsDetermineStatus ==
    \A key \in PubKeys :
        IF EventsOf(key) = {}
        THEN devices[key].status = "Unknown"
        ELSE \E last \in EventsOf(key) :
                /\ \A i \in EventsOf(key) : i <= last
                /\ devices[key].status = StatusAfter(events[last].kind)

MayFollow(kind) ==
    CASE kind = "DeviceRevoked"   -> {"DeviceReactivated"}
      [] kind = "DeviceSuspended" -> {"DeviceReactivated", "DeviceRevoked"}
      [] OTHER                    -> {"DeviceRevoked", "DeviceSuspended"}

(* The events of one device form a legal life: registered first and only   *)
(* once, never revoked while revoked, never suspended while not active.    *)
(* The counters kept by the subgraph's handlers are right only for such    *)
(* histories.                                                              *)
HistoryIsLegal ==
    \A j \in DOMAIN events :
        LET earlier == {i \in EventsOf(events[j].key) : i < j}
        IN  IF earlier = {}
            THEN events[j].kind = "DeviceRegistered"
            ELSE \E i \in earlier :
                    /\ \A m \in earlier : m <= i
                    /\ events[j].kind \in MayFollow(events[i].kind)

(* What registration recorded about a device is never rewritten, whatever  *)
(* happens to its status later, and the device never becomes unknown.      *)
IdentityIsFrozen ==
    [][\A key \in PubKeys : key \in Registered =>
          /\ devices'[key].status # "Unknown"
          /\ devices'[key].location = devices[key].location
          /\ devices'[key].registeredAt = devices[key].registeredAt]_vars
=============================================================================
