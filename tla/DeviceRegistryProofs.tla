-------------------------- MODULE DeviceRegistryProofs --------------------------
(***************************************************************************)
(* Proofs about DeviceRegistry, for any accounts, locations and finite set *)
(* of keys, and any length of the event log.                               *)
(*                                                                         *)
(* Legality of the event history is inductive only together with the       *)
(* agreement of the log's latest events and the stored statuses: the code  *)
(* guards an operation by the status, the history speaks of the events.    *)
(***************************************************************************)
EXTENDS DeviceRegistry, FiniteSetTheorems, TLAPS

-----------------------------------------------------------------------------
(***************************************************************************)
(* The two shapes of a device transaction.                                 *)
(***************************************************************************)
(* A registration of a new, well-formed key at a valid location.           *)
Registration(key, location) ==
    /\ key \in PubKeys
    /\ location \in ValidLocations
    /\ devices[key].status = "Unknown"
    /\ devices' = [devices EXCEPT ![key] =
           [status |-> "Active", location |-> location,
            registeredAt |-> blockTimestamp]]
    /\ deviceCount' = deviceCount + 1
    /\ events' = Append(events, [kind |-> "DeviceRegistered", key |-> key])
    /\ UNCHANGED <<roles, blockTimestamp>>

(* A change of a registered key's status that its latest event permits.    *)
Change(key, to, kind) ==
    /\ key \in PubKeys
    /\ kind \in EventKinds \ {"DeviceRegistered"}
    /\ to = StatusAfter(kind)
    /\ devices[key].status # "Unknown"
    /\ \A k \in EventKinds :
           devices[key].status = StatusAfter(k) => kind \in MayFollow(k)
    /\ devices' = [devices EXCEPT ![key].status = to]
    /\ deviceCount' = deviceCount
    /\ events' = Append(events, [kind |-> kind, key |-> key])
    /\ UNCHANGED <<roles, blockTimestamp>>

(* registerDevice is a registration, the three status functions are        *)
(* changes, and no other step touches a device.                            *)
LEMMA Shapes ==
    ASSUME [Next]_vars
    PROVE  \/ \E key \in PubKeys, location \in ValidLocations :
                  Registration(key, location)
           \/ \E key \in PubKeys, to \in Status, kind \in EventKinds :
                  Change(key, to, kind)
           \/ UNCHANGED <<devices, deviceCount, events>>
<1>1. ASSUME NEW caller \in Accounts, NEW key \in PubKeys, NEW location \in Locations,
             registerDevice(caller, key, location)
      PROVE  location \in ValidLocations /\ Registration(key, location)
  BY <1>1 DEF registerDevice, Registration, Emit
<1>2. ASSUME NEW caller \in Accounts, NEW key \in PubKeys, revokeDevice(caller, key)
      PROVE  Change(key, "Revoked", "DeviceRevoked")
  BY <1>2 DEF revokeDevice, ChangeStatus, Change, Emit, StatusAfter, MayFollow,
              EventKinds
<1>3. ASSUME NEW caller \in Accounts, NEW key \in PubKeys, reactivateDevice(caller, key)
      PROVE  Change(key, "Active", "DeviceReactivated")
  BY <1>3 DEF reactivateDevice, ChangeStatus, Change, Emit, StatusAfter, MayFollow,
              EventKinds
<1>4. ASSUME NEW caller \in Accounts, NEW key \in PubKeys, suspendDevice(caller, key)
      PROVE  Change(key, "Suspended", "DeviceSuspended")
  BY <1>4 DEF suspendDevice, ChangeStatus, Change, Emit, StatusAfter, MayFollow,
              EventKinds
<1>5. {"Revoked", "Active", "Suspended"} \subseteq Status
      /\ {"DeviceRevoked", "DeviceReactivated", "DeviceSuspended"} \subseteq EventKinds
  BY DEF Status, EventKinds
<1>6. RoleTransaction => UNCHANGED <<devices, deviceCount, events>>
  BY DEF RoleTransaction
<1>7. NewBlock => UNCHANGED <<devices, deviceCount, events>>
  BY DEF NewBlock
<1>8. UNCHANGED vars => UNCHANGED <<devices, deviceCount, events>>
  BY DEF vars
<1> QED
  BY <1>1, <1>2, <1>3, <1>4, <1>5, <1>6, <1>7, <1>8 DEF Next

-----------------------------------------------------------------------------
(***************************************************************************)
(* Types.                                                                  *)
(***************************************************************************)
(* A role transaction keeps the roles' type.                               *)
LEMMA RolesStayTyped ==
    ASSUME AC!RolesTypeOK, AC!ChangeRoles
    PROVE  AC!RolesTypeOK'
  BY DEF AC!RolesTypeOK, AC!ChangeRoles, AC!ChangeRolesBy, AC!GrantRole, AC!RevokeRole, AC!RenounceRole

(* Roles and clock keep their types in every step.                         *)
LEMMA SurroundingsStayTyped ==
    ASSUME TypeOK, [Next]_vars
    PROVE  AC!RolesTypeOK' /\ blockTimestamp' \in Nat \ {0}
<1>1. CASE RoleTransaction
  BY <1>1, RolesStayTyped DEF RoleTransaction, TypeOK
<1>2. CASE NewBlock
  BY <1>2 DEF NewBlock, TypeOK, AC!RolesTypeOK
<1>3. CASE UNCHANGED <<roles, blockTimestamp>>
  BY <1>3 DEF TypeOK, AC!RolesTypeOK
<1> QED
  BY <1>1, <1>2, <1>3
  DEF Next, vars, registerDevice, revokeDevice, reactivateDevice, suspendDevice,
      ChangeStatus

(* Every stored record has its type, and a registered device's location is *)
(* inside the bounds _validateCoordinates enforces.                        *)
THEOREM TypeCorrect == Spec => []TypeOK
<1>1. Init => TypeOK
  <2> SUFFICES ASSUME Init PROVE TypeOK
    OBVIOUS
  <2>1. AC!RolesTypeOK
    BY RegistryAssumption DEF Init, AC!RolesTypeOK
  <2>2. Unregistered \in Device /\ Unregistered.status = "Unknown"
    BY DEF Unregistered, Device, Status
  <2>3. devices \in [PubKeys -> Device] /\ Registered = {}
    BY <2>2 DEF Init, Registered
  <2> QED
    BY <2>1, <2>3 DEF Init, TypeOK
<1>2. TypeOK /\ [Next]_vars => TypeOK'
  <2> SUFFICES ASSUME TypeOK, [Next]_vars PROVE TypeOK'
    OBVIOUS
  <2>1. AC!RolesTypeOK' /\ blockTimestamp' \in Nat \ {0}
    BY SurroundingsStayTyped
  <2>2. /\ devices \in [PubKeys -> Device]
        /\ \A k \in PubKeys : devices[k].status # "Unknown" =>
               devices[k].location \in ValidLocations
        /\ deviceCount \in Nat
        /\ blockTimestamp \in Nat
        /\ events \in Seq(Event)
    BY DEF TypeOK, Registered
  <2>3. ASSUME NEW key \in PubKeys, NEW location \in ValidLocations,
               Registration(key, location)
        PROVE  TypeOK'
    <3> DEFINE record == [status |-> "Active", location |-> location,
                          registeredAt |-> blockTimestamp]
    <3>1. record \in Device /\ record.location \in ValidLocations
      BY <2>2 DEF Device, Status
    <3>2. devices' = [devices EXCEPT ![key] = record] /\ deviceCount' = deviceCount + 1
      BY <2>3 DEF Registration
    <3>3. events' \in Seq(Event)
      BY <2>2, <2>3 DEF Registration, Event, EventKinds
    <3> HIDE DEF record
    <3>4. devices' \in [PubKeys -> Device]
      BY <2>2, <3>1, <3>2
    <3>5. \A k \in PubKeys : devices'[k].status # "Unknown" =>
              devices'[k].location \in ValidLocations
      BY <2>2, <3>1, <3>2
    <3> QED
      BY <2>1, <2>2, <3>2, <3>3, <3>4, <3>5 DEF TypeOK, Registered
  <2>4. ASSUME NEW key \in PubKeys, NEW to \in Status, NEW kind \in EventKinds,
               Change(key, to, kind)
        PROVE  TypeOK'
    <3> DEFINE record == [devices[key] EXCEPT !.status = to]
    <3>1. devices[key] \in Device /\ devices[key].location \in ValidLocations
      BY <2>2, <2>4 DEF Change
    <3>2. record \in Device
      BY <3>1 DEF Device
    <3>3. record.location = devices[key].location
      BY <3>1 DEF Device
    <3>4. devices' = [devices EXCEPT ![key] = record] /\ deviceCount' = deviceCount
      BY <2>2, <2>4 DEF Change
    <3>5. events' \in Seq(Event)
      BY <2>2, <2>4 DEF Change, Event
    <3> HIDE DEF record
    <3>6. devices' \in [PubKeys -> Device]
      BY <2>2, <3>2, <3>4
    <3>7. \A k \in PubKeys : devices'[k].status # "Unknown" =>
              devices'[k].location \in ValidLocations
      BY <2>2, <3>1, <3>3, <3>4
    <3> QED
      BY <2>1, <2>2, <3>4, <3>5, <3>6, <3>7 DEF TypeOK, Registered
  <2>5. CASE UNCHANGED <<devices, deviceCount, events>>
    BY <2>1, <2>5 DEF TypeOK, Registered
  <2> QED
    BY <2>3, <2>4, <2>5, Shapes
<1> QED
  BY <1>1, <1>2, PTL DEF Spec

-----------------------------------------------------------------------------
(***************************************************************************)
(* The counter.                                                            *)
(***************************************************************************)
(* A registration adds one device to the registered ones, a change none.   *)
LEMMA CountStep ==
    ASSUME TypeOK, CountIsRegistered, [Next]_vars
    PROVE  CountIsRegistered'
<1>1. devices \in [PubKeys -> Device] /\ deviceCount = Cardinality(Registered)
  BY DEF TypeOK, CountIsRegistered
<1>2. IsFiniteSet(Registered)
  BY FS_Subset, RegistryAssumption DEF Registered
<1>3. ASSUME NEW key \in PubKeys, NEW location \in ValidLocations,
             Registration(key, location)
      PROVE  CountIsRegistered'
  <2>1. Registered' = Registered \cup {key} /\ key \notin Registered
    BY <1>1, <1>3 DEF Registration, Registered
  <2>2. Cardinality(Registered') = Cardinality(Registered) + 1
    BY <1>2, <2>1, FS_AddElement
  <2> QED
    BY <1>1, <1>3, <2>2 DEF Registration, CountIsRegistered
<1>4. ASSUME NEW key \in PubKeys, NEW to \in Status, NEW kind \in EventKinds,
             Change(key, to, kind)
      PROVE  CountIsRegistered'
  <2>1. to # "Unknown"
    BY <1>4 DEF Change, StatusAfter
  <2>2. devices[key] \in Device
    BY <1>1
  <2>3. devices'[key].status = to
    BY <1>1, <1>4, <2>2 DEF Change, Device
  <2>4. \A k \in PubKeys : k # key => devices'[k] = devices[k]
    BY <1>1, <1>4 DEF Change
  <2>5. devices[key].status # "Unknown"
    BY <1>4 DEF Change
  <2>6. Registered' = Registered
    BY <2>1, <2>3, <2>4, <2>5 DEF Registered
  <2> QED
    BY <1>1, <1>4, <2>6 DEF Change, CountIsRegistered
<1>5. CASE UNCHANGED <<devices, deviceCount, events>>
  BY <1>1, <1>5 DEF CountIsRegistered, Registered
<1> QED
  BY <1>3, <1>4, <1>5, Shapes

(* deviceCount, incremented unchecked in registerDevice, is always the     *)
(* number of registered devices.                                           *)
THEOREM CounterIsExact == Spec => []CountIsRegistered
<1>1. Init => CountIsRegistered
  <2>1. Init => Registered = {} /\ deviceCount = 0
    BY DEF Init, Registered, Unregistered
  <2> QED
    BY <2>1, FS_EmptySet DEF CountIsRegistered
<1>2. TypeOK /\ CountIsRegistered /\ [Next]_vars => CountIsRegistered'
  BY CountStep
<1> QED
  BY <1>1, <1>2, TypeCorrect, PTL DEF Spec

-----------------------------------------------------------------------------
(***************************************************************************)
(* The event log.                                                          *)
(***************************************************************************)
(* What EventsOf is after an event has been emitted.                       *)
LEMMA EventsOfEmit ==
    ASSUME events \in Seq(Event), NEW e \in Event, events' = Append(events, e)
    PROVE  /\ Len(events) \in Nat
           /\ DOMAIN events = 1..Len(events)
           /\ DOMAIN events' = 1..(Len(events) + 1)
           /\ events'[Len(events) + 1] = e
           /\ \A i \in 1..Len(events) : events'[i] = events[i] /\ events[i] \in Event
           /\ \A key : EventsOf(key) \subseteq 1..Len(events)
           /\ \A key : EventsOf(key)' = EventsOf(key) \cup
                          (IF e.key = key THEN {Len(events) + 1} ELSE {})
<1>1. /\ Len(events) \in Nat
      /\ DOMAIN events = 1..Len(events)
      /\ DOMAIN events' = 1..(Len(events) + 1)
      /\ events'[Len(events) + 1] = e
      /\ \A i \in 1..Len(events) : events'[i] = events[i] /\ events[i] \in Event
  OBVIOUS
<1>2. ASSUME NEW key
      PROVE  EventsOf(key)' = EventsOf(key) \cup
                 (IF e.key = key THEN {Len(events) + 1} ELSE {})
  BY <1>1 DEF EventsOf
<1>3. \A key : EventsOf(key) \subseteq 1..Len(events)
  BY <1>1 DEF EventsOf
<1> QED
  BY <1>1, <1>2, <1>3

(* An event whose kind the device's status allows keeps the history legal, *)
(* if that status is what the log says.                                    *)
LEMMA LegalEmit ==
    ASSUME events \in Seq(Event), EventsDetermineStatus, HistoryIsLegal,
           NEW key \in PubKeys, NEW kind \in EventKinds,
           events' = Append(events, [kind |-> kind, key |-> key]),
           devices[key].status = "Unknown" => kind = "DeviceRegistered",
           \A k \in EventKinds :
               devices[key].status = StatusAfter(k) => kind \in MayFollow(k)
    PROVE  HistoryIsLegal'
<1> DEFINE e == [kind |-> kind, key |-> key]
           n == Len(events)
<1>1. e \in Event /\ e.key = key /\ e.kind = kind
  BY DEF Event
<1> HIDE DEF e
<1>2. events' = Append(events, e)
  BY DEF e
<1>3. /\ n \in Nat
      /\ DOMAIN events = 1..n
      /\ DOMAIN events' = 1..(n + 1)
      /\ events'[n + 1] = e
      /\ \A i \in 1..n : events'[i] = events[i] /\ events[i] \in Event
      /\ \A k : EventsOf(k) \subseteq 1..n
      /\ \A k : EventsOf(k)' = EventsOf(k) \cup (IF e.key = k THEN {n + 1} ELSE {})
  BY <1>1, <1>2, EventsOfEmit
<1> DEFINE Before(j) == {i \in 1..(n + 1) : events'[i].key = events'[j].key /\ i < j}
           Legal(j) ==
               IF Before(j) = {}
               THEN events'[j].kind = "DeviceRegistered"
               ELSE \E i \in Before(j) :
                       /\ \A m \in Before(j) : m <= i
                       /\ events'[j].kind \in MayFollow(events'[i].kind)
<1>4. ASSUME NEW j \in 1..n
      PROVE  Legal(j)
  <2> DEFINE earlier == {i \in EventsOf(events[j].key) : i < j}
  <2>1. events'[j] = events[j]
    BY <1>3
  <2>2. Before(j) = earlier
    BY <1>3, <2>1 DEF EventsOf
  <2>3. earlier \subseteq 1..n
    BY <1>3
  <2>4. IF earlier = {}
        THEN events[j].kind = "DeviceRegistered"
        ELSE \E i \in earlier :
                /\ \A m \in earlier : m <= i
                /\ events[j].kind \in MayFollow(events[i].kind)
    BY <1>3 DEF HistoryIsLegal
  <2> HIDE DEF earlier, Before
  <2>5. CASE earlier = {}
    BY <2>1, <2>2, <2>4, <2>5
  <2>6. CASE earlier # {}
    BY <1>3, <2>1, <2>2, <2>3, <2>4, <2>6
  <2> QED
    BY <2>5, <2>6
<1>5. Legal(n + 1)
  <2>1. Before(n + 1) = EventsOf(key)
    BY <1>1, <1>3 DEF EventsOf
  <2>2. events'[n + 1].kind = kind
    BY <1>1, <1>3
  <2>3. CASE EventsOf(key) = {}
    BY <2>1, <2>2, <2>3 DEF EventsDetermineStatus
  <2>4. CASE EventsOf(key) # {}
    <3>1. PICK last \in EventsOf(key) :
              /\ \A i \in EventsOf(key) : i <= last
              /\ devices[key].status = StatusAfter(events[last].kind)
      BY <2>4 DEF EventsDetermineStatus
    <3>2. last \in 1..n /\ events'[last] = events[last] /\ events[last].kind \in EventKinds
      BY <1>3, <3>1 DEF Event
    <3>3. kind \in MayFollow(events'[last].kind)
      BY <3>1, <3>2
    <3> HIDE DEF Before
    <3> QED
      BY <2>1, <2>2, <2>4, <3>1, <3>3
  <2> QED
    BY <2>3, <2>4
<1>6. \A j \in 1..(n + 1) : Legal(j)
  <2>1. \A j \in 1..(n + 1) : j \in 1..n \/ j = n + 1
    BY <1>3
  <2> HIDE DEF Legal
  <2> QED
    BY <1>4, <1>5, <2>1
<1>7. SUFFICES ASSUME NEW j \in 1..(n + 1)
               PROVE  LET earlier == {i \in EventsOf(events[j].key) : i < j}'
                      IN  IF earlier = {}
                          THEN events'[j].kind = "DeviceRegistered"
                          ELSE \E i \in earlier :
                                  /\ \A m \in earlier : m <= i
                                  /\ events'[j].kind \in MayFollow(events'[i].kind)
  BY <1>3 DEF HistoryIsLegal
<1>8. Before(j) = {i \in EventsOf(events[j].key) : i < j}'
  BY <1>3 DEF EventsOf
<1> HIDE DEF Before
<1> QED
  BY <1>6, <1>8

(* The emitted event becomes the device's latest, and names the status the *)
(* same transaction stores; other devices' latest events stay.             *)
LEMMA DeterminedEmit ==
    ASSUME events \in Seq(Event), EventsDetermineStatus,
           NEW key \in PubKeys, NEW kind \in EventKinds,
           events' = Append(events, [kind |-> kind, key |-> key]),
           devices'[key].status = StatusAfter(kind),
           \A k \in PubKeys : k # key => devices'[k].status = devices[k].status
    PROVE  EventsDetermineStatus'
<1> DEFINE e == [kind |-> kind, key |-> key]
           n == Len(events)
<1>1. e \in Event /\ e.key = key /\ e.kind = kind
  BY DEF Event
<1> HIDE DEF e
<1>2. events' = Append(events, e)
  BY DEF e
<1>3. /\ n \in Nat
      /\ events'[n + 1] = e
      /\ \A i \in 1..n : events'[i] = events[i]
      /\ \A k : EventsOf(k) \subseteq 1..n
      /\ \A k : EventsOf(k)' = EventsOf(k) \cup (IF e.key = k THEN {n + 1} ELSE {})
  BY <1>1, <1>2, EventsOfEmit
<1> SUFFICES ASSUME NEW k \in PubKeys
             PROVE  IF EventsOf(k)' = {}
                    THEN devices'[k].status = "Unknown"
                    ELSE \E last \in EventsOf(k)' :
                            /\ \A i \in EventsOf(k)' : i <= last
                            /\ devices'[k].status = StatusAfter(events'[last].kind)
  BY DEF EventsDetermineStatus
<1>4. CASE k = key
  <2>1. n + 1 \in EventsOf(k)' /\ \A i \in EventsOf(k)' : i <= n + 1
    BY <1>1, <1>3, <1>4
  <2>2. devices'[k].status = StatusAfter(events'[n + 1].kind)
    BY <1>1, <1>3, <1>4
  <2> QED
    BY <2>1, <2>2
<1>5. CASE k # key
  <2>1. EventsOf(k)' = EventsOf(k) /\ devices'[k].status = devices[k].status
    BY <1>1, <1>3, <1>5
  <2>2. CASE EventsOf(k) = {}
    BY <2>1, <2>2 DEF EventsDetermineStatus
  <2>3. CASE EventsOf(k) # {}
    <3>1. PICK last \in EventsOf(k) :
              /\ \A i \in EventsOf(k) : i <= last
              /\ devices[k].status = StatusAfter(events[last].kind)
      BY <2>3 DEF EventsDetermineStatus
    <3>2. events'[last] = events[last]
      BY <1>3, <3>1
    <3> QED
      BY <2>1, <2>3, <3>1, <3>2
  <2> QED
    BY <2>2, <2>3
<1> QED
  BY <1>4, <1>5

HInv == EventsDetermineStatus /\ HistoryIsLegal

(* Every step keeps log and statuses in agreement and the history legal.   *)
LEMMA HistoryStep ==
    ASSUME TypeOK, HInv, [Next]_vars
    PROVE  HInv'
<1>1. devices \in [PubKeys -> Device] /\ events \in Seq(Event)
  BY DEF TypeOK
<1>2. EventsDetermineStatus /\ HistoryIsLegal
  BY DEF HInv
<1>3. ASSUME NEW key \in PubKeys, NEW location \in ValidLocations,
             Registration(key, location)
      PROVE  HInv'
  <2>1. /\ "DeviceRegistered" \in EventKinds
        /\ StatusAfter("DeviceRegistered") = "Active"
        /\ \A k \in EventKinds : StatusAfter(k) # "Unknown"
    BY DEF EventKinds, StatusAfter
  <2>2. /\ devices[key].status = "Unknown"
        /\ devices'[key].status = "Active"
        /\ \A k \in PubKeys : k # key => devices'[k].status = devices[k].status
        /\ events' = Append(events, [kind |-> "DeviceRegistered", key |-> key])
    BY <1>1, <1>3 DEF Registration
  <2>3. EventsDetermineStatus'
    BY <1>1, <1>2, <2>1, <2>2, DeterminedEmit
  <2>4. HistoryIsLegal'
    BY <1>1, <1>2, <2>1, <2>2, LegalEmit
  <2> QED
    BY <2>3, <2>4 DEF HInv
<1>4. ASSUME NEW key \in PubKeys, NEW to \in Status, NEW kind \in EventKinds,
             Change(key, to, kind)
      PROVE  HInv'
  <2>1. /\ devices[key].status # "Unknown"
        /\ to = StatusAfter(kind)
        /\ events' = Append(events, [kind |-> kind, key |-> key])
        /\ \A k \in EventKinds :
               devices[key].status = StatusAfter(k) => kind \in MayFollow(k)
    BY <1>4 DEF Change
  <2>2. devices[key] \in Device
    BY <1>1
  <2>3. devices'[key].status = to
    BY <1>1, <1>4, <2>2 DEF Change, Device
  <2>4. \A k \in PubKeys : k # key => devices'[k].status = devices[k].status
    BY <1>1, <1>4 DEF Change
  <2>5. EventsDetermineStatus'
    BY <1>1, <1>2, <2>1, <2>3, <2>4, DeterminedEmit
  <2>6. HistoryIsLegal'
    BY <1>1, <1>2, <2>1, LegalEmit
  <2> QED
    BY <2>5, <2>6 DEF HInv
<1>5. CASE UNCHANGED <<devices, deviceCount, events>>
  BY <1>2, <1>5 DEF HInv, EventsDetermineStatus, HistoryIsLegal, EventsOf
<1> QED
  BY <1>3, <1>4, <1>5, Shapes

(* An untouched register has an empty history.                             *)
LEMMA HistoryStart == Init => HInv
<1> SUFFICES ASSUME Init PROVE HInv
  OBVIOUS
<1>1. DOMAIN events = {}
  BY DEF Init
<1>2. \A k \in PubKeys : EventsOf(k) = {} /\ devices[k].status = "Unknown"
  BY <1>1 DEF Init, EventsOf, Unregistered
<1> QED
  BY <1>1, <1>2 DEF HInv, EventsDetermineStatus, HistoryIsLegal

(* Log and statuses agree in every state of every behaviour.               *)
LEMMA HistoryInvariant == Spec => []HInv
<1>1. TypeOK /\ HInv /\ [Next]_vars => HInv'
  BY HistoryStep
<1> QED
  BY <1>1, HistoryStart, TypeCorrect, PTL DEF Spec

(* The events emitted determine every device's status.                     *)
THEOREM LogIsComplete == Spec => []EventsDetermineStatus
  BY HistoryInvariant, PTL DEF HInv

(* Each device's events form a legal life (the status checks of            *)
(* registerDevice, revokeDevice, reactivateDevice and suspendDevice).      *)
THEOREM LivesAreLegal == Spec => []HistoryIsLegal
  BY HistoryInvariant, PTL DEF HInv

-----------------------------------------------------------------------------
(* One step keeps what registration recorded.                              *)
LEMMA IdentityStep ==
    ASSUME TypeOK, [Next]_vars, NEW key \in Registered
    PROVE  /\ devices'[key].status # "Unknown"
           /\ devices'[key].location = devices[key].location
           /\ devices'[key].registeredAt = devices[key].registeredAt
<1>1. devices \in [PubKeys -> Device]
  BY DEF TypeOK
<1>2. key \in PubKeys /\ devices[key].status # "Unknown" /\ devices[key] \in Device
  BY <1>1 DEF Registered
<1>3. ASSUME NEW other \in PubKeys, NEW location \in ValidLocations,
             Registration(other, location)
      PROVE  devices'[key] = devices[key]
  BY <1>1, <1>2, <1>3 DEF Registration
<1>4. ASSUME NEW other \in PubKeys, NEW to \in Status, NEW kind \in EventKinds,
             Change(other, to, kind), other # key
      PROVE  devices'[key] = devices[key]
  BY <1>1, <1>2, <1>4 DEF Change
<1>5. ASSUME NEW to \in Status, NEW kind \in EventKinds, Change(key, to, kind)
      PROVE  /\ devices'[key].status # "Unknown"
             /\ devices'[key].location = devices[key].location
             /\ devices'[key].registeredAt = devices[key].registeredAt
  <2>1. to # "Unknown"
    BY <1>5 DEF Change, StatusAfter
  <2>2. devices'[key] = [devices[key] EXCEPT !.status = to]
    BY <1>1, <1>2, <1>5 DEF Change
  <2>3. devices'[key].status = to
    BY <1>2, <2>2 DEF Device
  <2>4. devices'[key].location = devices[key].location
    BY <1>2, <2>2 DEF Device
  <2>5. devices'[key].registeredAt = devices[key].registeredAt
    BY <1>2, <2>2 DEF Device
  <2> QED
    BY <2>1, <2>3, <2>4, <2>5
<1>6. CASE UNCHANGED <<devices, deviceCount, events>>
  BY <1>2, <1>6
<1> QED
  BY <1>2, <1>3, <1>4, <1>5, <1>6, Shapes

(* No operation rewrites a registered device's location or registration    *)
(* time, or makes it unknown.                                              *)
THEOREM IdentityNeverChanges == Spec => IdentityIsFrozen
<1>1. TypeOK /\ [Next]_vars =>
          [\A key \in PubKeys : key \in Registered =>
              /\ devices'[key].status # "Unknown"
              /\ devices'[key].location = devices[key].location
              /\ devices'[key].registeredAt = devices[key].registeredAt]_vars
  BY IdentityStep
<1> QED
  BY <1>1, TypeCorrect, PTL DEF Spec, IdentityIsFrozen
=============================================================================
