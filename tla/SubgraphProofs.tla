---------------------------- MODULE SubgraphProofs ----------------------------
(***************************************************************************)
(* Proofs about Subgraph, for any keys, devices, sessions and epochs, and  *)
(* any length of the chain.                                                *)
(*                                                                         *)
(* The handlers cannot read a contract, so nothing in one step of the      *)
(* index is compared with the register.  What links them is the chain: the *)
(* statuses it announces up to its end are the contract's, those it        *)
(* announces up to the cursor are the entities', and its events are legal, *)
(* so that each handler moves the counter of the status it finds.          *)
(***************************************************************************)
EXTENDS Subgraph, DeviceRegistryProofs, WellFoundedInduction

(* The entries among the first n of s that concern a device.               *)
About(s, key, n) == {i \in 1..n : s[i].kind \in EventKinds /\ s[i].key = key}

LastOf(entries) == CHOOSE i \in entries : \A j \in entries : j <= i

(* The status of a device as the first n entries of s announce it.         *)
Announced(s, key, n) ==
    IF About(s, key, n) = {} THEN "Unknown"
    ELSE StatusAfter(s[LastOf(About(s, key, n))].kind)

(* The statuses in which the contract emits an event.                      *)
Before(kind) ==
    CASE kind = "DeviceRegistered" -> {"Unknown"}
      [] kind = "DeviceRevoked"    -> {"Active", "Suspended"}
      [] kind = "DeviceSuspended"  -> {"Active"}
      [] OTHER                     -> {"Revoked", "Suspended"}

(* The whole chain announces what the contract stores.                     *)
ChainMatchesRegistry ==
    \A key \in PubKeys : devices[key].status = Announced(chain, key, Len(chain))

(* Every event was emitted in a status that its handler reckons with.      *)
ChainIsLegal ==
    \A i \in DOMAIN chain : chain[i].kind \in EventKinds =>
        Announced(chain, chain[i].key, i - 1) \in Before(chain[i].kind)

(* The entities hold what the handled part of the chain announces.         *)
EntitiesMatchChain ==
    \A key \in PubKeys :
        IF Announced(chain, key, cursor) = "Unknown" THEN key \notin DOMAIN device
        ELSE /\ key \in DOMAIN device
             /\ device[key].status = Announced(chain, key, cursor)

(* The proofs among the first n entries of the chain.                      *)
Proofs(n) == {i \in 1..n : chain[i].kind = "ProofSubmitted"}

IdOf(i) == <<chain[i].proof.deviceId, chain[i].proof.sessionId>>

(* Every proof on the chain is in the ledger, and no two share an id.      *)
ProofsAreDistinct ==
    /\ \A i \in Proofs(Len(chain)) : \E j \in DOMAIN ledger :
          IdOf(i) = <<ledger[j].deviceId, ledger[j].sessionId>>
    /\ \A i, j \in Proofs(Len(chain)) : IdOf(i) = IdOf(j) => i = j

SubmissionsMatchChain == submission = {IdOf(i) : i \in Proofs(cursor)}

-----------------------------------------------------------------------------
(***************************************************************************)
(* Lemmas on sequences.                                                    *)
(***************************************************************************)
(* A set of positions that is not empty has a largest one.                 *)
LEMMA LargestExists ==
    ASSUME NEW n \in Nat, NEW E, E \in SUBSET (1..n), E # {}
    PROVE  \E i \in E : \A j \in E : j <= i
<1> DEFINE fromEnd == {n - i : i \in E}
           less == {p \in Nat \X Nat : p[1] < p[2]}
<1>1. IsWellFoundedOn(less, Nat)
  <2>1. less = OpToRel(<, Nat)
    BY DEF OpToRel
  <2> QED
    BY <2>1, NatLessThanWellFounded
<1>2. fromEnd \subseteq Nat /\ fromEnd # {}
  <2>1. \A i \in E : i \in Nat /\ i <= n /\ n - i \in Nat
    OBVIOUS
  <2>2. PICK i \in E : TRUE
    OBVIOUS
  <2>3. n - i \in fromEnd
    BY <2>2
  <2> QED
    BY <2>1, <2>3
<1>3. \E x \in fromEnd : \A y \in fromEnd : ~(<<y, x>> \in less)
  <2> HIDE DEF fromEnd, less
  <2> QED
    BY <1>1, <1>2, WFMin
<1>4. PICK i \in E : \A j \in E : ~(<<n - j, n - i>> \in less)
  BY <1>3
<1>5. ASSUME NEW j \in E PROVE j <= i
  <2>1. ~(<<n - j, n - i>> \in less) /\ i \in 1..n /\ j \in 1..n
    BY <1>4
  <2>2. ~(n - j < n - i)
    BY <2>1
  <2> QED
    BY <2>1, <2>2
<1> QED
  BY <1>5

-----------------------------------------------------------------------------
(***************************************************************************)
(* The two contracts in the composition.                                   *)
(***************************************************************************)
(* What one step of the composition does to the chain.                     *)
Mine(e) == chain' = Append(chain, e) /\ UNCHANGED <<cursor, store>>

(* Each step is a transaction on the register, a proof, a handler or a     *)
(* stutter; a transaction that emits an event mines it.                    *)
LEMMA SubgraphShapes ==
    ASSUME [SubgraphNext]_subgraphVars
    PROVE  \/ RegistryTransaction \/ ProofTransaction \/ Index
           \/ UNCHANGED subgraphVars
  BY DEF SubgraphNext

(* The register runs in the composition as it runs alone.                  *)
THEOREM RegisterIsUnchanged == SubgraphSpec => Spec
<1>1. SubgraphInit => Init
  BY DEF SubgraphInit
<1>2. [SubgraphNext]_subgraphVars => [Next]_vars
  BY DEF SubgraphNext, RegistryTransaction, ProofTransaction, Index,
         subgraphVars
<1> QED
  BY <1>1, <1>2, PTL DEF SubgraphSpec, Spec

(* The proofs on the chain are what ProofLedger allows, which is what      *)
(* EnergyProofRegistryV3 is proved to implement.                           *)
THEOREM ProofsFollowLedger == SubgraphSpec => Ledger!Spec
<1>1. SubgraphInit => Ledger!Init
  BY DEF SubgraphInit
<1>2. [SubgraphNext]_subgraphVars => [Ledger!Next]_ledger
  BY DEF SubgraphNext, RegistryTransaction, ProofTransaction, Index,
         subgraphVars
<1> QED
  BY <1>1, <1>2, PTL DEF SubgraphSpec, Ledger!Spec

-----------------------------------------------------------------------------
(***************************************************************************)
(* Types.                                                                  *)
(***************************************************************************)
(* A day starts at a natural number of seconds.                            *)
LEMMA DayStartType == \A t \in Nat : getDayStartTs(t) \in Nat
<1> SUFFICES ASSUME NEW t \in Nat PROVE getDayStartTs(t) \in Nat
  OBVIOUS
<1>1. SecondsPerDay \in Nat /\ SecondsPerDay > 0
  BY SubgraphAssumption
<1>2. t \div SecondsPerDay \in Nat
  BY <1>1
<1>3. \A q \in Nat : q * SecondsPerDay \in Nat
  BY <1>1
<1> QED
  BY <1>2, <1>3 DEF getDayStartTs

(* An accepted proof extends the ledger by a well-formed entry whose id is *)
(* new.                                                                    *)
LEMMA LedgerStep ==
    ASSUME ledger \in Seq(Ledger!Entry), Ledger!Next
    PROVE  \E e \in Ledger!Entry :
              /\ ledger' = Append(ledger, e)
              /\ \A i \in DOMAIN ledger :
                    <<ledger[i].deviceId, ledger[i].sessionId>>
                        # <<e.deviceId, e.sessionId>>
<1>1. PICK d \in DeviceIds, s \in SessionIds, t \in Epochs : Ledger!Accept(d, s, t)
  BY DEF Ledger!Next
<1> DEFINE previous == Ledger!LatestEpoch(ledger, d)
           gap == Ledger!GapFrom(previous, t)
           e == [deviceId |-> d, sessionId |-> s, timestamp |-> t,
                 gapFromPrevious |-> gap, postDisconnection |-> gap > MAX_GAP_SECONDS]
<1>2. /\ \A i \in Ledger!EntriesOf(ledger, d) : ledger[i].sessionId # s
      /\ previous # 0 => t > previous
      /\ ledger' = Append(ledger, e)
  BY <1>1 DEF Ledger!Accept
<1>3. previous \in Nat
  <2>1. CASE Ledger!EntriesOf(ledger, d) = {}
    BY <2>1 DEF Ledger!LatestEpoch
  <2>2. CASE Ledger!EntriesOf(ledger, d) # {}
    <3>1. Ledger!EntriesOf(ledger, d) \subseteq 1..Len(ledger)
      BY DEF Ledger!EntriesOf
    <3>2. \E i \in Ledger!EntriesOf(ledger, d) :
              \A j \in Ledger!EntriesOf(ledger, d) : j <= i
      <4>1. Len(ledger) \in Nat
        OBVIOUS
      <4>2. Ledger!EntriesOf(ledger, d) \in SUBSET (1..Len(ledger))
        BY <3>1
      <4> HIDE DEF previous, gap, e
      <4> QED
        BY <2>2, <4>1, <4>2, LargestExists
    <3>3. Ledger!Latest(Ledger!EntriesOf(ledger, d)) \in 1..Len(ledger)
      BY <3>1, <3>2 DEF Ledger!Latest
    <3>4. ledger[Ledger!Latest(Ledger!EntriesOf(ledger, d))] \in Ledger!Entry
      BY <3>3
    <3> QED
      BY <2>2, <3>4 DEF Ledger!LatestEpoch, Ledger!Entry
  <2> QED
    BY <2>1, <2>2
<1>4. gap \in Nat
  BY <1>2, <1>3, SubgraphAssumption DEF Ledger!GapFrom
<1>5. e \in Ledger!Entry
  BY <1>4, SubgraphAssumption DEF Ledger!Entry
<1>6. \A i \in DOMAIN ledger :
          <<ledger[i].deviceId, ledger[i].sessionId>> # <<e.deviceId, e.sessionId>>
  BY <1>2 DEF Ledger!EntriesOf
<1> QED
  BY <1>2, <1>5, <1>6

-----------------------------------------------------------------------------
(***************************************************************************)
(* What the handlers do to the entities.                                   *)
(***************************************************************************)
(* An entity with this status is saved under the key.                      *)
Saves(key, status) ==
    /\ \E entity \in Entity : entity.status = status
                              /\ device' = Put(device, key, entity)
    /\ UNCHANGED <<submission, daily>>

(* A new device.                                                           *)
Arrives(key) ==
    /\ key \in PubKeys \ DOMAIN device
    /\ Saves(key, "Active")
    /\ protocol' = Count({"totalDevices", "activeDevices"}, 1)

(* A known device that takes another status.                               *)
Moves(key, from, to) ==
    /\ key \in DOMAIN device
    /\ Saves(key, to)
    /\ Move(key, from, to)

(* What the handler of a device event does.                                *)
Handles(e) ==
    \/ e.kind = "DeviceRegistered" /\ Known(e.key) /\ UNCHANGED store
    \/ e.kind # "DeviceRegistered" /\ ~Known(e.key) /\ UNCHANGED store
    \/ e.kind = "DeviceRegistered" /\ Arrives(e.key)
    \/ e.kind = "DeviceRevoked" /\ Moves(e.key, {"Active", "Suspended"}, "Revoked")
    \/ e.kind = "DeviceReactivated" /\ Moves(e.key, {"Revoked", "Suspended"}, "Active")
    \/ e.kind = "DeviceSuspended" /\ Moves(e.key, {"Active"}, "Suspended")

(* The entries of the chain are events of one contract or the other.       *)
LEMMA MinedKinds ==
    ASSUME NEW e \in Mined
    PROVE  \/ e.kind \in EventKinds /\ e.key \in PubKeys /\ e.at \in Nat
           \/ e.kind = "ProofSubmitted" /\ e.proof \in Ledger!Entry /\ e.at \in Nat
  BY DEF Mined

(* SubgraphTypeOK but for the signs of the counters that are decremented,  *)
(* which only CountersMatchEntities can tell.                              *)
SubgraphShape ==
    /\ chain \in Seq(Mined)
    /\ cursor \in 0..Len(chain)
    /\ DOMAIN device \subseteq PubKeys
    /\ \A k \in DOMAIN device : device[k] \in Entity
    /\ submission \subseteq DeviceIds \X SessionIds
    /\ DOMAIN daily \subseteq DailyKey
    /\ \A key \in DOMAIN daily : daily[key] \in DailyStat
    /\ protocol \in [Counters -> Int]
    /\ protocol["totalSubmissions"] \in Nat
    /\ protocol["totalPostDisconnections"] \in Nat

(* Overwriting a field of a stored entity is saving an entity.             *)
LEMMA OverwriteSaves ==
    ASSUME SubgraphShape, NEW key \in DOMAIN device, NEW entity \in Entity,
           device' = [device EXCEPT ![key] = entity],
           UNCHANGED <<submission, daily>>
    PROVE  Saves(key, entity.status)
  BY DEF Saves, Put

(* Each handler is one of the shapes.                                      *)
LEMMA HandlerShapes ==
    ASSUME SubgraphShape, Index
    PROVE  LET e == chain[cursor + 1]
           IN  /\ e \in Mined
               /\ \/ e.kind \in EventKinds /\ e.key \in PubKeys /\ Handles(e)
                  \/ e.kind = "ProofSubmitted" /\ handleProofSubmitted(e)
<1> DEFINE e == chain[cursor + 1]
<1>1. chain \in Seq(Mined) /\ cursor \in 0..Len(chain) /\ cursor < Len(chain)
  BY DEF SubgraphShape, Index
<1>2. e \in Mined
  BY <1>1
<1>3. \/ e.kind \in EventKinds /\ e.key \in PubKeys /\ e.at \in Nat
      \/ e.kind = "ProofSubmitted"
  BY <1>2, MinedKinds
<1>4. \/ e.kind = "DeviceRegistered"  /\ handleDeviceRegistered(e)
      \/ e.kind = "DeviceRevoked"     /\ handleDeviceRevoked(e)
      \/ e.kind = "DeviceReactivated" /\ handleDeviceReactivated(e)
      \/ e.kind = "DeviceSuspended"   /\ handleDeviceSuspended(e)
      \/ e.kind = "ProofSubmitted"    /\ handleProofSubmitted(e)
  BY DEF Index
<1> HIDE DEF e
<1>5. \A k \in DOMAIN device : device[k] \in Entity
  BY DEF SubgraphShape
<1>6. ASSUME e.kind = "DeviceRegistered"
      PROVE  e.kind \in EventKinds /\ e.key \in PubKeys /\ Handles(e)
  <2>1. CASE Known(e.key)
    BY <1>4, <1>6, <2>1, <1>3 DEF handleDeviceRegistered, Handles, EventKinds
  <2>2. CASE ~Known(e.key)
    <3> DEFINE new == [status |-> "Active", registeredAt |-> e.at, revokedAt |-> 0,
                       reactivatedAt |-> 0, suspendedAt |-> 0]
    <3>1. new \in Entity /\ new.status = "Active"
      BY <1>3, <1>6 DEF Entity, Status
    <3>2. /\ device' = Put(device, e.key, new)
          /\ protocol' = Count({"totalDevices", "activeDevices"}, 1)
          /\ UNCHANGED <<submission, daily>>
      BY <1>4, <1>6, <2>2 DEF handleDeviceRegistered
    <3> HIDE DEF new
    <3>3. Saves(e.key, "Active")
      BY <3>1, <3>2 DEF Saves
    <3>4. Arrives(e.key)
      BY <1>3, <1>6, <2>2, <3>2, <3>3 DEF Arrives, Known
    <3> QED
      BY <1>3, <1>6, <3>4 DEF Handles, EventKinds
  <2> QED
    BY <2>1, <2>2
<1>7. ASSUME e.kind = "DeviceRevoked"
      PROVE  e.kind \in EventKinds /\ e.key \in PubKeys /\ Handles(e)
  <2>1. CASE ~Known(e.key)
    BY <1>4, <1>7, <2>1, <1>3 DEF handleDeviceRevoked, Handles, EventKinds
  <2>2. CASE Known(e.key)
    <3> DEFINE new == [device[e.key] EXCEPT !.status = "Revoked", !.revokedAt = e.at]
    <3>1. new \in Entity /\ new.status = "Revoked"
      BY <1>3, <1>5, <1>7, <2>2 DEF Entity, Status, Known
    <3>2. /\ device' = [device EXCEPT ![e.key] = new]
          /\ Move(e.key, {"Active", "Suspended"}, "Revoked")
          /\ UNCHANGED <<submission, daily>>
      BY <1>4, <1>7, <2>2 DEF handleDeviceRevoked
    <3> HIDE DEF new
    <3>3. Moves(e.key, {"Active", "Suspended"}, "Revoked")
      BY <2>2, <3>1, <3>2, OverwriteSaves DEF Moves, Known
    <3> QED
      BY <1>3, <1>7, <3>3 DEF Handles, EventKinds
  <2> QED
    BY <2>1, <2>2
<1>8. ASSUME e.kind = "DeviceReactivated"
      PROVE  e.kind \in EventKinds /\ e.key \in PubKeys /\ Handles(e)
  <2>1. CASE ~Known(e.key)
    BY <1>4, <1>8, <2>1, <1>3 DEF handleDeviceReactivated, Handles, EventKinds
  <2>2. CASE Known(e.key)
    <3> DEFINE new == [device[e.key] EXCEPT !.status = "Active", !.reactivatedAt = e.at]
    <3>1. new \in Entity /\ new.status = "Active"
      BY <1>3, <1>5, <1>8, <2>2 DEF Entity, Status, Known
    <3>2. /\ device' = [device EXCEPT ![e.key] = new]
          /\ Move(e.key, {"Revoked", "Suspended"}, "Active")
          /\ UNCHANGED <<submission, daily>>
      BY <1>4, <1>8, <2>2 DEF handleDeviceReactivated
    <3> HIDE DEF new
    <3>3. Moves(e.key, {"Revoked", "Suspended"}, "Active")
      BY <2>2, <3>1, <3>2, OverwriteSaves DEF Moves, Known
    <3> QED
      BY <1>3, <1>8, <3>3 DEF Handles, EventKinds
  <2> QED
    BY <2>1, <2>2
<1>9. ASSUME e.kind = "DeviceSuspended"
      PROVE  e.kind \in EventKinds /\ e.key \in PubKeys /\ Handles(e)
  <2>1. CASE ~Known(e.key)
    BY <1>4, <1>9, <2>1, <1>3 DEF handleDeviceSuspended, Handles, EventKinds
  <2>2. CASE Known(e.key)
    <3> DEFINE new == [device[e.key] EXCEPT !.status = "Suspended", !.suspendedAt = e.at]
    <3>1. new \in Entity /\ new.status = "Suspended"
      BY <1>3, <1>5, <1>9, <2>2 DEF Entity, Status, Known
    <3>2. /\ device' = [device EXCEPT ![e.key] = new]
          /\ Move(e.key, {"Active"}, "Suspended")
          /\ UNCHANGED <<submission, daily>>
      BY <1>4, <1>9, <2>2 DEF handleDeviceSuspended
    <3> HIDE DEF new
    <3>3. Moves(e.key, {"Active"}, "Suspended")
      BY <2>2, <3>1, <3>2, OverwriteSaves DEF Moves, Known
    <3> QED
      BY <1>3, <1>9, <3>3 DEF Handles, EventKinds
  <2> QED
    BY <2>1, <2>2
<1>10. \/ e.kind \in EventKinds /\ e.key \in PubKeys /\ Handles(e)
       \/ e.kind = "ProofSubmitted" /\ handleProofSubmitted(e)
  BY <1>4, <1>6, <1>7, <1>8, <1>9
<1> QED
  BY <1>2, <1>10 DEF e

(* Appending keeps a sequence's positions and adds one.                    *)
LEMMA AppendFacts ==
    ASSUME NEW S, NEW s \in Seq(S), NEW e \in S, NEW t, t = Append(s, e)
    PROVE  /\ t \in Seq(S)
           /\ Len(s) \in Nat /\ Len(t) = Len(s) + 1
           /\ DOMAIN s = 1..Len(s) /\ DOMAIN t = 1..(Len(s) + 1)
           /\ t[Len(s) + 1] = e
           /\ \A i \in 1..Len(s) : t[i] = s[i] /\ s[i] \in S
  OBVIOUS

(* What a transaction on the register puts on the chain: the event of a    *)
(* registration or a change of status, or nothing.                         *)
LEMMA RegistryMines ==
    ASSUME TypeOK, RegistryTransaction
    PROVE  \/ \E e \in Mined : /\ Mine(e)
                               /\ \/ /\ e.kind = "DeviceRegistered"
                                     /\ \E location \in ValidLocations :
                                           Registration(e.key, location)
                                  \/ \E to \in Status : Change(e.key, to, e.kind)
           \/ /\ UNCHANGED <<chain, cursor, store>>
              /\ UNCHANGED <<devices, deviceCount, events>>
<1> DEFINE At(kind, key) == [kind |-> kind, key |-> key, at |-> blockTimestamp]
<1>1. /\ events \in Seq(Event) /\ blockTimestamp \in Nat
      /\ UNCHANGED <<ledger, cursor, store>>
  BY DEF TypeOK, RegistryTransaction
<1>2. ASSUME NEW key \in PubKeys, NEW kind \in EventKinds,
             events' = Append(events, [kind |-> kind, key |-> key])
      PROVE  At(kind, key) \in Mined /\ Mine(At(kind, key))
  <2> DEFINE e == [kind |-> kind, key |-> key]
  <2>1. e \in Event
    BY DEF Event
  <2>2. /\ events' # events
        /\ events'[Len(events')] = e
    <3>1. /\ Len(events) \in Nat /\ Len(events') = Len(events) + 1
          /\ events'[Len(events) + 1] = e
      BY <1>1, <1>2, <2>1, AppendFacts
    <3> QED
      BY <3>1
  <2>3. chain' = Append(chain, At(kind, key))
    BY <2>2 DEF RegistryTransaction
  <2> QED
    BY <1>1, <2>3 DEF Mine, Mined
<1>3. ASSUME NEW key \in PubKeys, NEW location \in ValidLocations,
             Registration(key, location)
      PROVE  At("DeviceRegistered", key) \in Mined /\ Mine(At("DeviceRegistered", key))
  BY <1>2, <1>3 DEF Registration, EventKinds
<1>4. ASSUME NEW key \in PubKeys, NEW to \in Status, NEW kind \in EventKinds,
             Change(key, to, kind)
      PROVE  At(kind, key) \in Mined /\ Mine(At(kind, key))
  BY <1>2, <1>4 DEF Change
<1>5. UNCHANGED <<devices, deviceCount, events>> => UNCHANGED chain
  BY DEF RegistryTransaction
<1>6. \/ \E key \in PubKeys, location \in ValidLocations : Registration(key, location)
      \/ \E key \in PubKeys, to \in Status, kind \in EventKinds : Change(key, to, kind)
      \/ UNCHANGED <<devices, deviceCount, events>>
  BY Shapes DEF RegistryTransaction
<1> QED
  BY <1>1, <1>3, <1>4, <1>5, <1>6

(* What an accepted proof puts on the chain.                               *)
LEMMA ProofMines ==
    ASSUME TypeOK, ledger \in Seq(Ledger!Entry), ProofTransaction
    PROVE  \E e \in Mined :
              /\ e.kind = "ProofSubmitted" /\ e.proof \in Ledger!Entry
              /\ Mine(e)
              /\ ledger' = Append(ledger, e.proof)
              /\ \A i \in DOMAIN ledger :
                    <<ledger[i].deviceId, ledger[i].sessionId>>
                        # <<e.proof.deviceId, e.proof.sessionId>>
<1>1. PICK p \in Ledger!Entry :
          /\ ledger' = Append(ledger, p)
          /\ \A i \in DOMAIN ledger :
                <<ledger[i].deviceId, ledger[i].sessionId>> # <<p.deviceId, p.sessionId>>
  BY LedgerStep DEF ProofTransaction
<1> DEFINE e == [kind |-> "ProofSubmitted", proof |-> p, at |-> blockTimestamp]
<1>2. blockTimestamp \in Nat
  BY DEF TypeOK
<1>3. e \in Mined
  BY <1>2 DEF Mined
<1>4. ledger'[Len(ledger')] = p
  <2>1. /\ Len(ledger) \in Nat /\ Len(ledger') = Len(ledger) + 1
        /\ ledger'[Len(ledger) + 1] = p
    BY <1>1, AppendFacts
  <2> QED
    BY <2>1
<1>5. Mine(e)
  BY <1>4 DEF ProofTransaction, Mine
<1> QED
  BY <1>1, <1>3, <1>5

-----------------------------------------------------------------------------
(***************************************************************************)
(* Types of the index.                                                     *)
(***************************************************************************)
(* Saving an entity keeps the type of the table.                           *)
LEMMA SavingKeepsTypes ==
    ASSUME SubgraphShape, NEW key \in PubKeys, NEW status, Saves(key, status)
    PROVE  /\ DOMAIN device' = DOMAIN device \cup {key}
           /\ DOMAIN device' \subseteq PubKeys
           /\ \A k \in DOMAIN device' : device'[k] \in Entity
           /\ device'[key].status = status
           /\ \A k \in DOMAIN device : k # key => device'[k] = device[k]
<1>1. PICK entity \in Entity : entity.status = status /\ device' = Put(device, key, entity)
  BY DEF Saves
<1> QED
  BY <1>1 DEF Put, SubgraphShape

(* The handler of a proof keeps the types of what it writes.               *)
LEMMA ProofKeepsTypes ==
    ASSUME SubgraphShape, NEW e \in Mined, e.kind = "ProofSubmitted",
           handleProofSubmitted(e)
    PROVE  /\ submission' \subseteq DeviceIds \X SessionIds
           /\ DOMAIN daily' \subseteq DailyKey
           /\ \A key \in DOMAIN daily' : daily'[key] \in DailyStat
           /\ protocol' \in [Counters -> Int]
           /\ protocol'["totalSubmissions"] \in Nat
           /\ protocol'["totalPostDisconnections"] \in Nat
<1>1. e.proof.deviceId \in DeviceIds /\ e.proof.sessionId \in SessionIds /\ e.at \in Nat
  BY MinedKinds DEF EventKinds, Ledger!Entry
<1>2. <<getDayStartTs(e.at), e.proof.deviceId>> \in DailyKey
  BY <1>1, DayStartType DEF DailyKey
<1>3. /\ submission \subseteq DeviceIds \X SessionIds
      /\ DOMAIN daily \subseteq DailyKey
      /\ \A key \in DOMAIN daily : daily[key] \in DailyStat
      /\ protocol \in [Counters -> Int]
      /\ protocol["totalSubmissions"] \in Nat
      /\ protocol["totalPostDisconnections"] \in Nat
  BY DEF SubgraphShape
<1>4. submission' \subseteq DeviceIds \X SessionIds
  BY <1>1, <1>3 DEF handleProofSubmitted
<1>5. DOMAIN daily' \subseteq DailyKey
  BY <1>2, <1>3 DEF handleProofSubmitted, Put, makeDailyStatId
<1>6. /\ Count({"totalSubmissions"}, 1) \in [Counters -> Int]
      /\ Count({"totalSubmissions"}, 1)["totalSubmissions"] \in Nat
      /\ Count({"totalSubmissions"}, 1)["totalPostDisconnections"] \in Nat
  BY <1>3 DEF Count, Counters
<1>7. One(e.proof.postDisconnection) \in Nat
  BY DEF One
<1>8. /\ protocol' \in [Counters -> Int]
      /\ protocol'["totalSubmissions"] \in Nat
      /\ protocol'["totalPostDisconnections"] \in Nat
  <2>1. protocol' = [Count({"totalSubmissions"}, 1) EXCEPT
               !.totalPostDisconnections = @ + One(e.proof.postDisconnection)]
    BY DEF handleProofSubmitted
  <2> QED
    BY <1>6, <1>7, <2>1 DEF Counters
<1>9. \A key \in DOMAIN daily' : daily'[key] \in DailyStat
  <2> DEFINE id == makeDailyStatId(getDayStartTs(e.at), e.proof.deviceId)
             stat == IF id \in DOMAIN daily THEN daily[id] ELSE NoStat
             new == [submissionCount |-> stat.submissionCount + 1,
                     postDisconnectionCount |->
                         stat.postDisconnectionCount + One(e.proof.postDisconnection)]
  <2>1. daily' = Put(daily, id, new)
    BY DEF handleProofSubmitted
  <2>2. stat \in DailyStat
    BY <1>3 DEF NoStat, DailyStat
  <2> HIDE DEF stat
  <2>3. new \in DailyStat
    BY <1>7, <2>2 DEF DailyStat
  <2> HIDE DEF id, new
  <2> QED
    BY <1>3, <2>1, <2>3 DEF Put
<1> QED
  BY <1>4, <1>5, <1>8, <1>9

(* A step of the chain or of a handler keeps the types of the index.       *)
LEMMA IndexStaysTyped ==
    ASSUME TypeOK, SubgraphShape, ledger \in Seq(Ledger!Entry),
           [SubgraphNext]_subgraphVars
    PROVE  SubgraphShape' /\ ledger' \in Seq(Ledger!Entry)
<1>1. /\ chain \in Seq(Mined) /\ cursor \in 0..Len(chain)
      /\ protocol \in [Counters -> Int]
      /\ protocol["totalSubmissions"] \in Nat
      /\ protocol["totalPostDisconnections"] \in Nat
  BY DEF SubgraphShape
<1>2. ASSUME NEW e \in Mined, Mine(e) PROVE SubgraphShape'
  <2>1. chain' \in Seq(Mined) /\ Len(chain') = Len(chain) + 1 /\ Len(chain) \in Nat
    BY <1>1, <1>2, AppendFacts DEF Mine
  <2>2. cursor' \in 0..Len(chain')
    BY <1>1, <1>2, <2>1 DEF Mine
  <2> QED
    BY <1>2, <2>1, <2>2 DEF Mine, store, SubgraphShape
<1>3. UNCHANGED <<chain, cursor, store>> => SubgraphShape'
  BY DEF store, SubgraphShape
<1>4. CASE RegistryTransaction
  <2>1. ledger' = ledger
    BY <1>4 DEF RegistryTransaction
  <2> QED
    BY <1>2, <1>3, <1>4, <2>1, RegistryMines
<1>5. CASE ProofTransaction
  <2>1. PICK e \in Mined : Mine(e) /\ e.proof \in Ledger!Entry
                           /\ ledger' = Append(ledger, e.proof)
    BY <1>5, ProofMines
  <2>2. ledger' \in Seq(Ledger!Entry)
    BY <2>1, AppendFacts
  <2> QED
    BY <1>2, <2>1, <2>2
<1>6. CASE Index
  <2> DEFINE e == chain[cursor + 1]
  <2>1. chain' = chain /\ ledger' = ledger /\ cursor' = cursor + 1 /\ cursor < Len(chain)
    BY <1>6 DEF Index
  <2>2. chain' \in Seq(Mined) /\ cursor' \in 0..Len(chain')
    BY <1>1, <2>1
  <2>3. /\ e \in Mined
        /\ \/ e.kind \in EventKinds /\ e.key \in PubKeys /\ Handles(e)
           \/ e.kind = "ProofSubmitted" /\ handleProofSubmitted(e)
    BY <1>6, HandlerShapes
  <2> HIDE DEF e
  <2>4. ASSUME UNCHANGED store
        PROVE  SubgraphShape'
    BY <2>2, <2>4 DEF store, SubgraphShape
  <2>5. ASSUME NEW status, e.key \in PubKeys, Saves(e.key, status),
               protocol' \in [Counters -> Int],
               protocol'["totalSubmissions"] = protocol["totalSubmissions"],
               protocol'["totalPostDisconnections"] = protocol["totalPostDisconnections"]
        PROVE  SubgraphShape'
    <3>1. /\ DOMAIN device' \subseteq PubKeys
          /\ \A k \in DOMAIN device' : device'[k] \in Entity
      BY <2>5, SavingKeepsTypes
    <3> QED
      BY <1>1, <2>2, <2>5, <3>1 DEF Saves, SubgraphShape, store
  <2>6. ASSUME e.key \in PubKeys, Arrives(e.key)
        PROVE  SubgraphShape'
    <3>1. /\ protocol' \in [Counters -> Int]
          /\ protocol'["totalSubmissions"] = protocol["totalSubmissions"]
          /\ protocol'["totalPostDisconnections"] = protocol["totalPostDisconnections"]
      BY <1>1, <2>6 DEF Arrives, Count, Counters
    <3> QED
      BY <2>5, <2>6, <3>1 DEF Arrives
  <2>7. ASSUME NEW from, NEW to, e.key \in PubKeys, Moves(e.key, from, to)
        PROVE  SubgraphShape'
    <3>1. protocol' \in [Counters -> Int]
      BY <1>1, <2>7 DEF Moves, Move
    <3>2. device[e.key].status \in DOMAIN CounterOf /\ to \in DOMAIN CounterOf
      <4>1. \A entity \in Entity : entity.status \in DOMAIN CounterOf
        BY DEF Entity, Status, CounterOf
      <4>2. device[e.key] \in Entity
        BY <2>7 DEF Moves, SubgraphShape
      <4>3. PICK entity \in Entity : entity.status = to
        BY <2>7 DEF Moves, Saves
      <4> QED
        BY <4>1, <4>2, <4>3
    <3>3. \A c \in {"totalSubmissions", "totalPostDisconnections"} :
              protocol'[c] = protocol[c]
      <4>1. \A s \in DOMAIN CounterOf :
                CounterOf[s] \notin {"totalSubmissions", "totalPostDisconnections"}
        BY DEF CounterOf
      <4>2. \A c \in {"totalSubmissions", "totalPostDisconnections"} :
                c \in Counters /\ protocol[c] \in Int
        BY <1>1 DEF Counters
      <4> QED
        BY <2>7, <3>2, <4>1, <4>2 DEF Moves, Move
    <3> QED
      BY <2>5, <2>7, <3>1, <3>3 DEF Moves
  <2>8. ASSUME e.kind = "ProofSubmitted", handleProofSubmitted(e)
        PROVE  SubgraphShape'
    <3>1. /\ submission' \subseteq DeviceIds \X SessionIds
          /\ DOMAIN daily' \subseteq DailyKey
          /\ \A key \in DOMAIN daily' : daily'[key] \in DailyStat
          /\ protocol' \in [Counters -> Int]
          /\ protocol'["totalSubmissions"] \in Nat
          /\ protocol'["totalPostDisconnections"] \in Nat
      BY <2>3, <2>8, ProofKeepsTypes
    <3>2. device' = device
      BY <2>8 DEF handleProofSubmitted
    <3> QED
      BY <2>2, <3>1, <3>2 DEF SubgraphShape
  <2> QED
    BY <2>1, <2>3, <2>4, <2>6, <2>7, <2>8 DEF Handles
<1>7. CASE UNCHANGED subgraphVars
  BY <1>3, <1>7 DEF subgraphVars
<1> QED
  BY <1>4, <1>5, <1>6, <1>7 DEF SubgraphNext

-----------------------------------------------------------------------------
(***************************************************************************)
(* The statuses a chain announces.                                         *)
(***************************************************************************)
(* Before the first entry no device is known.                              *)
LEMMA AnnouncedStart == \A s, key : Announced(s, key, 0) = "Unknown"
  BY DEF Announced, About

(* The last of some positions is one of them and not before any other.     *)
LEMMA LastOfFacts ==
    ASSUME NEW n \in Nat, NEW E, E \in SUBSET (1..n), E # {}
    PROVE  LastOf(E) \in E /\ \A j \in E : j <= LastOf(E)
  BY LargestExists DEF LastOf

(* One entry more changes what is announced of the device it is about.     *)
LEMMA AnnouncedNext ==
    ASSUME NEW s, NEW key, NEW n \in Nat
    PROVE  Announced(s, key, n + 1) =
               IF s[n + 1].kind \in EventKinds /\ s[n + 1].key = key
               THEN StatusAfter(s[n + 1].kind)
               ELSE Announced(s, key, n)
<1>1. About(s, key, n) \in SUBSET (1..n)
  BY DEF About
<1>2. CASE s[n + 1].kind \in EventKinds /\ s[n + 1].key = key
  <2> DEFINE E == About(s, key, n + 1)
  <2>1. E \in SUBSET (1..(n + 1)) /\ n + 1 \in E
    BY <1>2 DEF About
  <2>2. LastOf(E) \in E /\ \A j \in E : j <= LastOf(E)
    <3>1. n + 1 \in Nat /\ E # {}
      BY <2>1
    <3> HIDE DEF E
    <3> QED
      BY <2>1, <3>1, LastOfFacts
  <2>3. LastOf(E) = n + 1
    BY <2>1, <2>2
  <2> QED
    BY <1>2, <2>1, <2>3 DEF Announced
<1>3. CASE ~(s[n + 1].kind \in EventKinds /\ s[n + 1].key = key)
  <2>1. About(s, key, n + 1) = About(s, key, n)
    BY <1>3 DEF About
  <2> QED
    BY <1>3, <2>1 DEF Announced
<1> QED
  BY <1>2, <1>3

(* Two chains that begin alike announce the same.                          *)
LEMMA AnnouncedPrefix ==
    ASSUME NEW s, NEW t, NEW key, NEW n \in Nat, \A i \in 1..n : s[i] = t[i]
    PROVE  Announced(s, key, n) = Announced(t, key, n)
<1>1. About(s, key, n) = About(t, key, n) /\ About(s, key, n) \in SUBSET (1..n)
  BY DEF About
<1>2. CASE About(s, key, n) = {}
  BY <1>1, <1>2 DEF Announced
<1>3. CASE About(s, key, n) # {}
  <2>1. LastOf(About(s, key, n)) \in 1..n
    BY <1>1, <1>3, LastOfFacts
  <2> QED
    BY <1>1, <1>3, <2>1 DEF Announced
<1> QED
  BY <1>2, <1>3

(* What mining an event does to the announced statuses.                    *)
LEMMA AnnouncedGrows ==
    ASSUME chain \in Seq(Mined), NEW e \in Mined, chain' = Append(chain, e), NEW key
    PROVE  /\ \A n \in 0..Len(chain) :
                 Announced(chain', key, n) = Announced(chain, key, n)
           /\ Announced(chain', key, Len(chain')) =
                 IF e.kind \in EventKinds /\ e.key = key THEN StatusAfter(e.kind)
                 ELSE Announced(chain, key, Len(chain))
<1>1. /\ Len(chain) \in Nat /\ Len(chain') = Len(chain) + 1
      /\ chain'[Len(chain) + 1] = e
      /\ \A i \in 1..Len(chain) : chain'[i] = chain[i]
  BY AppendFacts
<1>2. ASSUME NEW n \in 0..Len(chain)
      PROVE  Announced(chain', key, n) = Announced(chain, key, n)
  <2>1. n \in Nat /\ \A i \in 1..n : chain'[i] = chain[i]
    BY <1>1
  <2> QED
    BY <2>1, AnnouncedPrefix
<1>3. Announced(chain', key, Len(chain)) = Announced(chain, key, Len(chain))
  <2>1. Len(chain) \in 0..Len(chain)
    BY <1>1
  <2> QED
    BY <1>2, <2>1, Zenon
<1>4. Announced(chain', key, Len(chain) + 1) =
          IF chain'[Len(chain) + 1].kind \in EventKinds
             /\ chain'[Len(chain) + 1].key = key
          THEN StatusAfter(chain'[Len(chain) + 1].kind)
          ELSE Announced(chain', key, Len(chain))
  <2>1. Len(chain) \in Nat
    BY <1>1
  <2> QED
    BY <2>1, AnnouncedNext, Zenon
<1>5. Announced(chain', key, Len(chain')) =
          IF e.kind \in EventKinds /\ e.key = key THEN StatusAfter(e.kind)
          ELSE Announced(chain, key, Len(chain))
  BY <1>1, <1>3, <1>4, Zenon
<1> QED
  BY <1>2, <1>5, Zenon

(* A device event that the contract emits is legal after the chain so far, *)
(* and announces the status it stores.                                     *)
LEMMA ChainStaysRight ==
    ASSUME TypeOK, SubgraphShape, ledger \in Seq(Ledger!Entry),
           ChainMatchesRegistry, ChainIsLegal, [SubgraphNext]_subgraphVars
    PROVE  ChainMatchesRegistry' /\ ChainIsLegal'
<1>1. chain \in Seq(Mined) /\ devices \in [PubKeys -> Device]
  BY DEF SubgraphShape, TypeOK
<1>2. \A key \in PubKeys : devices[key].status = Announced(chain, key, Len(chain))
  BY DEF ChainMatchesRegistry
<1>3. \A i \in DOMAIN chain : chain[i].kind \in EventKinds =>
          Announced(chain, chain[i].key, i - 1) \in Before(chain[i].kind)
  BY DEF ChainIsLegal
<1>4. ASSUME NEW e \in Mined, chain' = Append(chain, e),
             e.kind \in EventKinds =>
                 Announced(chain, e.key, Len(chain)) \in Before(e.kind)
      PROVE  ChainIsLegal'
  <2>1. /\ Len(chain) \in Nat /\ DOMAIN chain = 1..Len(chain)
        /\ DOMAIN chain' = 1..(Len(chain) + 1)
        /\ chain'[Len(chain) + 1] = e
        /\ \A i \in 1..Len(chain) : chain'[i] = chain[i]
    BY <1>1, <1>4, AppendFacts
  <2>2. \A key : \A n \in 0..Len(chain) :
            Announced(chain', key, n) = Announced(chain, key, n)
    BY <1>1, <1>4, AnnouncedGrows
  <2>3. ASSUME NEW i \in DOMAIN chain', chain'[i].kind \in EventKinds
        PROVE  Announced(chain', chain'[i].key, i - 1) \in Before(chain'[i].kind)
    <3>1. CASE i \in 1..Len(chain)
      <4>1. i - 1 \in 0..Len(chain)
        BY <2>1, <3>1
      <4> QED
        BY <1>3, <2>1, <2>2, <2>3, <3>1, <4>1
    <3>2. CASE i = Len(chain) + 1
      <4>1. i - 1 = Len(chain) /\ Len(chain) \in 0..Len(chain)
        BY <2>1, <3>2
      <4> QED
        BY <1>4, <2>1, <2>2, <2>3, <3>2, <4>1
    <3> QED
      BY <2>1, <3>1, <3>2
  <2> QED
    BY <2>3 DEF ChainIsLegal
<1>5. ASSUME NEW e \in Mined, chain' = Append(chain, e), e.kind \in EventKinds,
             devices'[e.key].status = StatusAfter(e.kind),
             \A k \in PubKeys : k # e.key => devices'[k].status = devices[k].status
      PROVE  ChainMatchesRegistry'
  <2>1. \A key : Announced(chain', key, Len(chain')) =
                     IF e.key = key THEN StatusAfter(e.kind)
                     ELSE Announced(chain, key, Len(chain))
    BY <1>1, <1>5, AnnouncedGrows
  <2> QED
    BY <1>2, <1>5, <2>1 DEF ChainMatchesRegistry
<1>6. ASSUME NEW e \in Mined, chain' = Append(chain, e), e.kind \notin EventKinds,
             devices' = devices
      PROVE  ChainMatchesRegistry'
  <2>1. \A key : Announced(chain', key, Len(chain'))
                     = Announced(chain, key, Len(chain))
    BY <1>1, <1>6, AnnouncedGrows
  <2> QED
    BY <1>2, <1>6, <2>1 DEF ChainMatchesRegistry
<1>7. ASSUME UNCHANGED <<devices, chain>>
      PROVE  ChainMatchesRegistry' /\ ChainIsLegal'
  BY <1>7 DEF ChainMatchesRegistry, ChainIsLegal
<1>8. CASE RegistryTransaction
  <2>1. ASSUME NEW e \in Mined, Mine(e), e.kind = "DeviceRegistered",
               NEW location \in ValidLocations, Registration(e.key, location)
        PROVE  ChainMatchesRegistry' /\ ChainIsLegal'
    <3>1. e.key \in PubKeys /\ devices[e.key].status = "Unknown"
          /\ chain' = Append(chain, e) /\ e.kind \in EventKinds
      BY <2>1 DEF Registration, Mine, EventKinds
    <3>2. Announced(chain, e.key, Len(chain)) \in Before(e.kind)
      BY <1>2, <2>1, <3>1 DEF Before
    <3>3. /\ devices'[e.key].status = StatusAfter(e.kind)
          /\ \A k \in PubKeys : k # e.key => devices'[k].status = devices[k].status
      BY <1>1, <2>1, <3>1 DEF Registration, StatusAfter
    <3> QED
      BY <1>4, <1>5, <3>1, <3>2, <3>3
  <2>2. ASSUME NEW e \in Mined, Mine(e), NEW to \in Status, Change(e.key, to, e.kind)
        PROVE  ChainMatchesRegistry' /\ ChainIsLegal'
    <3>1. e.key \in PubKeys /\ chain' = Append(chain, e)
          /\ e.kind \in EventKinds \ {"DeviceRegistered"}
      BY <2>2 DEF Change, Mine
    <3>2. devices[e.key].status \in {"Active", "Revoked", "Suspended"}
      BY <1>1, <2>2, <3>1 DEF Change, Device, Status
    <3>3. devices[e.key].status \in Before(e.kind)
      <4>1. \A k \in EventKinds :
                devices[e.key].status = StatusAfter(k) => e.kind \in MayFollow(k)
        BY <2>2 DEF Change
      <4> QED
        BY <3>1, <3>2, <4>1 DEF Before, MayFollow, StatusAfter, EventKinds
    <3>4. Announced(chain, e.key, Len(chain)) \in Before(e.kind)
      BY <1>2, <3>1, <3>3
    <3>5. /\ devices'[e.key].status = StatusAfter(e.kind)
          /\ \A k \in PubKeys : k # e.key => devices'[k].status = devices[k].status
      <4>1. /\ devices' = [devices EXCEPT ![e.key].status = to]
            /\ to = StatusAfter(e.kind)
        BY <2>2 DEF Change
      <4> QED
        BY <1>1, <3>1, <4>1 DEF Device
    <3> QED
      BY <1>4, <1>5, <3>1, <3>4, <3>5
  <2> QED
    BY <1>7, <1>8, <2>1, <2>2, RegistryMines
<1>9. CASE ProofTransaction
  <2>1. PICK e \in Mined : e.kind = "ProofSubmitted" /\ Mine(e)
    BY <1>9, ProofMines
  <2>2. devices' = devices /\ chain' = Append(chain, e) /\ e.kind \notin EventKinds
    BY <1>9, <2>1 DEF ProofTransaction, vars, Mine, EventKinds
  <2> QED
    BY <1>4, <1>6, <2>2
<1>10. CASE Index \/ UNCHANGED subgraphVars
  BY <1>7, <1>10 DEF Index, subgraphVars, vars
<1> QED
  BY <1>8, <1>9, <1>10 DEF SubgraphNext

-----------------------------------------------------------------------------
(***************************************************************************)
(* The entities and their counters.                                        *)
(***************************************************************************)
(* Saving an entity moves its key to the set of its status.                *)
LEMMA SavingMoves ==
    ASSUME SubgraphShape, NEW key \in PubKeys, NEW to, Saves(key, to), NEW s
    PROVE  /\ IsFiniteSet(WithStatus(s))
           /\ IsFiniteSet(DOMAIN device)
           /\ WithStatus(s)' = IF s = to THEN WithStatus(s) \cup {key}
                               ELSE WithStatus(s) \ {key}
           /\ DOMAIN device' = DOMAIN device \cup {key}
<1>1. /\ DOMAIN device' = DOMAIN device \cup {key}
      /\ device'[key].status = to
      /\ \A k \in DOMAIN device : k # key => device'[k] = device[k]
  BY SavingKeepsTypes
<1>2. IsFiniteSet(DOMAIN device)
  BY FS_Subset, RegistryAssumption DEF SubgraphShape
<1>3. IsFiniteSet(WithStatus(s))
  BY <1>2, FS_Subset DEF WithStatus
<1>4. WithStatus(s)' = IF s = to THEN WithStatus(s) \cup {key} ELSE WithStatus(s) \ {key}
  BY <1>1 DEF WithStatus
<1> QED
  BY <1>1, <1>2, <1>3, <1>4

(* A first registration adds one device, which is active.                  *)
LEMMA ArrivalCounts ==
    ASSUME SubgraphShape, CountersMatchEntities, NEW key, Arrives(key)
    PROVE  CountersMatchEntities'
<1>1. key \in PubKeys /\ key \notin DOMAIN device /\ Saves(key, "Active")
  BY DEF Arrives
<1>2. \A s : key \notin WithStatus(s)
  BY <1>1 DEF WithStatus
<1>3. /\ Cardinality(DOMAIN device') = Cardinality(DOMAIN device) + 1
      /\ Cardinality(WithStatus("Active")') = Cardinality(WithStatus("Active")) + 1
  <2>1. DOMAIN device' = DOMAIN device \cup {key} /\ IsFiniteSet(DOMAIN device)
    BY <1>1, SavingMoves
  <2>2. /\ WithStatus("Active")' = WithStatus("Active") \cup {key}
        /\ IsFiniteSet(WithStatus("Active"))
    BY <1>1, SavingMoves
  <2> QED
    BY <1>1, <1>2, <2>1, <2>2, FS_AddElement
<1>4. ASSUME NEW s \in {"Revoked", "Suspended"} PROVE WithStatus(s)' = WithStatus(s)
  <2>1. WithStatus(s)' = WithStatus(s) \ {key}
    BY <1>1, SavingMoves
  <2> QED
    BY <1>2, <2>1
<1>5. /\ protocol'.totalDevices = protocol.totalDevices + 1
      /\ protocol'.activeDevices = protocol.activeDevices + 1
      /\ protocol'.revokedDevices = protocol.revokedDevices
      /\ protocol'.suspendedDevices = protocol.suspendedDevices
  BY DEF Arrives, Count, Counters
<1> QED
  BY <1>3, <1>4, <1>5 DEF CountersMatchEntities

(* A handler that finds a status it reckons with moves one device from one *)
(* counter to another.                                                     *)
LEMMA MoveCounts ==
    ASSUME SubgraphShape, CountersMatchEntities, NEW key, NEW from, NEW to,
           to \in {"Active", "Revoked", "Suspended"}, to \notin from,
           Moves(key, from, to), device[key].status \in from
    PROVE  CountersMatchEntities'
<1> DEFINE previous == device[key].status
<1>1. key \in PubKeys /\ key \in DOMAIN device /\ Saves(key, to)
  BY DEF Moves, SubgraphShape
<1>2. previous \in {"Active", "Revoked", "Suspended"} /\ previous # to
  BY <1>1 DEF SubgraphShape, Entity, Status
<1>3. protocol' = [c \in Counters |->
          protocol[c] + (IF c = CounterOf[to] THEN 1 ELSE 0)
                      - (IF c = CounterOf[previous] THEN 1 ELSE 0)]
  BY DEF Moves, Move
<1>4. protocol \in [Counters -> Int]
  BY DEF SubgraphShape
<1> HIDE DEF previous
<1>5. protocol'.totalDevices = protocol.totalDevices
  BY <1>2, <1>3, <1>4 DEF Counters, CounterOf
<1>6. \A s \in {"Active", "Revoked", "Suspended"} :
          protocol'[CounterOf[s]] = protocol[CounterOf[s]]
              + (IF s = to THEN 1 ELSE 0) - (IF s = previous THEN 1 ELSE 0)
  BY <1>2, <1>3, <1>4 DEF Counters, CounterOf
<1>7. DOMAIN device' = DOMAIN device
  BY <1>1, SavingKeepsTypes
<1>8. \A s : key \in WithStatus(s) <=> s = previous
  BY <1>1 DEF WithStatus, previous
<1>9. ASSUME NEW s \in {"Active", "Revoked", "Suspended"}
      PROVE  Cardinality(WithStatus(s)') = Cardinality(WithStatus(s))
              + (IF s = to THEN 1 ELSE 0) - (IF s = previous THEN 1 ELSE 0)
  <2>1. /\ IsFiniteSet(WithStatus(s))
        /\ WithStatus(s)' = IF s = to THEN WithStatus(s) \cup {key}
                            ELSE WithStatus(s) \ {key}
    BY <1>1, SavingMoves
  <2>2. /\ Cardinality(WithStatus(s)) \in Nat
        /\ Cardinality(WithStatus(s) \cup {key}) =
              IF key \in WithStatus(s) THEN Cardinality(WithStatus(s))
              ELSE Cardinality(WithStatus(s)) + 1
        /\ Cardinality(WithStatus(s) \ {key}) =
              IF key \in WithStatus(s) THEN Cardinality(WithStatus(s)) - 1
              ELSE Cardinality(WithStatus(s))
    BY <2>1, FS_AddElement, FS_RemoveElement, FS_CardinalityType
  <2>3. CASE s = to
    BY <1>2, <1>8, <2>1, <2>2, <2>3
  <2>4. CASE s # to
    BY <1>2, <1>8, <2>1, <2>2, <2>4
  <2> QED
    BY <2>3, <2>4
<1>10. \A s \in {"Active", "Revoked", "Suspended"} :
           protocol[CounterOf[s]] = Cardinality(WithStatus(s))
  BY DEF CountersMatchEntities, CounterOf
<1>11. \A s \in {"Active", "Revoked", "Suspended"} :
           protocol'[CounterOf[s]] = Cardinality(WithStatus(s)')
  BY <1>6, <1>9, <1>10
<1>12. /\ protocol'.activeDevices = Cardinality(WithStatus("Active")')
       /\ protocol'.revokedDevices = Cardinality(WithStatus("Revoked")')
       /\ protocol'.suspendedDevices = Cardinality(WithStatus("Suspended")')
  BY <1>11 DEF CounterOf
<1> QED
  BY <1>5, <1>7, <1>12 DEF CountersMatchEntities

(* The entities agree with the handled part of the chain, and the counters *)
(* with the entities, after every step.                                    *)
EntityInv ==
    /\ ChainMatchesRegistry
    /\ ChainIsLegal
    /\ EntitiesMatchChain
    /\ CountersMatchEntities

LEMMA EntitiesStayRight ==
    ASSUME TypeOK, SubgraphShape, ledger \in Seq(Ledger!Entry), EntityInv,
           [SubgraphNext]_subgraphVars
    PROVE  EntityInv'
<1>1. /\ chain \in Seq(Mined) /\ cursor \in 0..Len(chain) /\ Len(chain) \in Nat
      /\ DOMAIN chain = 1..Len(chain)
  BY DEF SubgraphShape
<1>2. ChainMatchesRegistry' /\ ChainIsLegal'
  BY ChainStaysRight DEF EntityInv
<1>3. ASSUME UNCHANGED <<cursor, store>>,
             \/ UNCHANGED chain
             \/ \E e \in Mined : chain' = Append(chain, e)
      PROVE  EntityInv'
  <2>1. \A key : Announced(chain', key, cursor) = Announced(chain, key, cursor)
    BY <1>1, <1>3, AnnouncedGrows
  <2>2. EntitiesMatchChain'
    BY <1>3, <2>1 DEF EntityInv, EntitiesMatchChain, store
  <2>3. CountersMatchEntities'
    BY <1>3 DEF EntityInv, CountersMatchEntities, WithStatus, store
  <2> QED
    BY <1>2, <2>2, <2>3 DEF EntityInv
<1>4. CASE RegistryTransaction
  BY <1>3, <1>4, RegistryMines DEF Mine
<1>5. CASE ProofTransaction
  BY <1>3, <1>5, ProofMines DEF Mine
<1>6. CASE Index
  <2> DEFINE e == chain[cursor + 1]
  <2>1. chain' = chain /\ cursor' = cursor + 1 /\ cursor + 1 \in DOMAIN chain
    BY <1>1, <1>6 DEF Index
  <2>2. \/ e.kind \in EventKinds /\ e.key \in PubKeys /\ Handles(e)
        \/ e.kind = "ProofSubmitted" /\ handleProofSubmitted(e)
    BY <1>6, HandlerShapes
  <2>3. \A key : Announced(chain, key, cursor + 1) =
                     IF e.kind \in EventKinds /\ e.key = key THEN StatusAfter(e.kind)
                     ELSE Announced(chain, key, cursor)
    <3>1. cursor \in Nat
      BY <1>1
    <3> QED
      BY <3>1, AnnouncedNext
  <2>4. e.kind \in EventKinds => Announced(chain, e.key, cursor) \in Before(e.kind)
    <3>1. (cursor + 1) - 1 = cursor
      BY <1>1
    <3> QED
      BY <2>1, <3>1 DEF EntityInv, ChainIsLegal
  <2> HIDE DEF e
  <2>5. CASE e.kind = "ProofSubmitted" /\ handleProofSubmitted(e)
    <3>1. UNCHANGED device /\ e.kind \notin EventKinds
      BY <2>5 DEF handleProofSubmitted, EventKinds
    <3>2. EntitiesMatchChain'
      BY <2>1, <2>3, <3>1 DEF EntityInv, EntitiesMatchChain
    <3>3. /\ protocol'.totalDevices = protocol.totalDevices
          /\ protocol'.activeDevices = protocol.activeDevices
          /\ protocol'.revokedDevices = protocol.revokedDevices
          /\ protocol'.suspendedDevices = protocol.suspendedDevices
      BY <2>5 DEF handleProofSubmitted, Count, Counters
    <3>4. CountersMatchEntities'
      BY <3>1, <3>3 DEF EntityInv, CountersMatchEntities, WithStatus
    <3> QED
      BY <1>2, <3>2, <3>4 DEF EntityInv
  <2>6. CASE e.kind \in EventKinds /\ e.key \in PubKeys /\ Handles(e)
    <3>1. IF Announced(chain, e.key, cursor) = "Unknown" THEN e.key \notin DOMAIN device
          ELSE /\ e.key \in DOMAIN device
               /\ device[e.key].status = Announced(chain, e.key, cursor)
      BY <2>6 DEF EntityInv, EntitiesMatchChain
    <3>2. Announced(chain, e.key, cursor) \in Before(e.kind)
      BY <2>4, <2>6
    <3>3. ~(e.kind = "DeviceRegistered" /\ Known(e.key))
      BY <3>1, <3>2 DEF Before, Known
    <3>4. ~(e.kind # "DeviceRegistered" /\ ~Known(e.key))
      BY <2>6, <3>1, <3>2 DEF Before, Known, EventKinds
    <3>5. ASSUME Saves(e.key, StatusAfter(e.kind))
          PROVE  EntitiesMatchChain'
      <4>1. /\ DOMAIN device' = DOMAIN device \cup {e.key}
            /\ device'[e.key].status = StatusAfter(e.kind)
            /\ \A k \in DOMAIN device : k # e.key => device'[k] = device[k]
        BY <2>6, <3>5, SavingKeepsTypes
      <4>2. StatusAfter(e.kind) # "Unknown"
        BY DEF StatusAfter
      <4>3. \A key : Announced(chain', key, cursor') =
                         IF e.key = key THEN StatusAfter(e.kind)
                         ELSE Announced(chain, key, cursor)
        BY <2>1, <2>3, <2>6
      <4> QED
        BY <4>1, <4>2, <4>3 DEF EntityInv, EntitiesMatchChain
    <3>6. ASSUME NEW from, NEW to, Moves(e.key, from, to), to = StatusAfter(e.kind),
                 from = Before(e.kind), e.kind # "DeviceRegistered"
          PROVE  EntityInv'
      <4>1. /\ to \in {"Active", "Revoked", "Suspended"}
            /\ to \notin from
            /\ device[e.key].status \in from
        BY <2>6, <3>1, <3>2, <3>6 DEF StatusAfter, Before, EventKinds
      <4>2. CountersMatchEntities'
        BY <3>6, <4>1, MoveCounts DEF EntityInv
      <4> QED
        BY <1>2, <3>5, <3>6, <4>2 DEF EntityInv, Moves
    <3>7. ASSUME e.kind = "DeviceRegistered", Arrives(e.key)
          PROVE  EntityInv'
      <4>1. CountersMatchEntities'
        BY <3>7, ArrivalCounts DEF EntityInv
      <4> QED
        BY <1>2, <3>5, <3>7, <4>1 DEF EntityInv, Arrives, StatusAfter
    <3> QED
      BY <2>6, <3>3, <3>4, <3>6, <3>7 DEF Handles, Before, StatusAfter
  <2> QED
    BY <2>2, <2>5, <2>6
<1>7. CASE UNCHANGED subgraphVars
  BY <1>3, <1>7 DEF subgraphVars
<1> QED
  BY <1>4, <1>5, <1>6, <1>7 DEF SubgraphNext

-----------------------------------------------------------------------------
(***************************************************************************)
(* Submissions and daily statistics.                                       *)
(***************************************************************************)
(* The handled proofs of a device and a day that report a disconnection.   *)
Disconnections(d, t) == {j \in Handled(d, t) : chain[j].proof.postDisconnection}

(* DailyStatsPartition, told from the days and devices there are instead   *)
(* of the entities there are: this form is inductive by itself.            *)
DailyMatchesChain ==
    \A d \in DeviceIds, t \in Nat :
        IF Handled(d, t) = {} THEN <<t, d>> \notin DOMAIN daily
        ELSE /\ <<t, d>> \in DOMAIN daily
             /\ daily[<<t, d>>].submissionCount = Cardinality(Handled(d, t))
             /\ daily[<<t, d>>].postDisconnectionCount
                   = Cardinality(Disconnections(d, t))

TotalMatchesChain ==
    /\ protocol.totalSubmissions = Cardinality(Proofs(cursor))
    /\ protocol.totalSubmissions = Cardinality(submission)

DailyInv == ProofsAreDistinct /\ SubmissionsMatchChain
            /\ DailyMatchesChain /\ TotalMatchesChain

(* The two forms agree.                                                    *)
LEMMA DailyForms ==
    ASSUME SubgraphShape, DailyMatchesChain, TotalMatchesChain
    PROVE  DailyStatsPartition
<1>1. chain \in Seq(Mined) /\ cursor \in 0..Len(chain) /\ DOMAIN daily \subseteq DailyKey
  BY DEF SubgraphShape
<1>2. ASSUME NEW key \in DOMAIN daily PROVE Handled(key[2], key[1]) # {}
  <2>1. key[1] \in Nat /\ key[2] \in DeviceIds /\ key = <<key[1], key[2]>>
    BY <1>1 DEF DailyKey
  <2> QED
    BY <2>1 DEF DailyMatchesChain
<1>3. ASSUME NEW i \in 1..cursor, chain[i].kind = "ProofSubmitted"
      PROVE  LET key == <<getDayStartTs(chain[i].at), chain[i].proof.deviceId>>
                 mine == Handled(key[2], key[1])
             IN  /\ key \in DOMAIN daily
                 /\ daily[key].submissionCount = Cardinality(mine)
                 /\ daily[key].postDisconnectionCount
                       = Cardinality({j \in mine : chain[j].proof.postDisconnection})
  <2> DEFINE d == chain[i].proof.deviceId
             t == getDayStartTs(chain[i].at)
  <2>1. chain[i] \in Mined
    BY <1>1
  <2>2. d \in DeviceIds /\ chain[i].at \in Nat
    BY <1>3, <2>1, MinedKinds DEF EventKinds, Ledger!Entry
  <2>3. t \in Nat
    BY <2>2, DayStartType
  <2>4. i \in Handled(d, t)
    BY <1>3 DEF Handled
  <2>5. /\ <<t, d>> \in DOMAIN daily
        /\ daily[<<t, d>>].submissionCount = Cardinality(Handled(d, t))
        /\ daily[<<t, d>>].postDisconnectionCount
              = Cardinality({j \in Handled(d, t) : chain[j].proof.postDisconnection})
    BY <2>2, <2>3, <2>4 DEF DailyMatchesChain, Disconnections
  <2>6. <<t, d>>[1] = t /\ <<t, d>>[2] = d
    OBVIOUS
  <2> QED
    BY <2>5, <2>6
<1> QED
  BY <1>2, <1>3 DEF DailyStatsPartition, TotalMatchesChain, Proofs

(* Mining an event keeps the proofs distinct: an accepted one is new.      *)
LEMMA ProofsStayDistinct ==
    ASSUME TypeOK, SubgraphShape, ledger \in Seq(Ledger!Entry), ProofsAreDistinct,
           [SubgraphNext]_subgraphVars
    PROVE  ProofsAreDistinct'
<1>1. chain \in Seq(Mined)
  BY DEF SubgraphShape
<1>2. CASE UNCHANGED <<chain, ledger>>
  BY <1>2 DEF ProofsAreDistinct, Proofs, IdOf
<1>3. ASSUME NEW e \in Mined, Mine(e), e.kind \in EventKinds, ledger' = ledger
      PROVE  ProofsAreDistinct'
  <2>1. /\ Len(chain) \in Nat /\ Len(chain') = Len(chain) + 1
        /\ chain'[Len(chain) + 1] = e
        /\ \A i \in 1..Len(chain) : chain'[i] = chain[i]
    BY <1>1, <1>3, AppendFacts DEF Mine
  <2>2. Proofs(Len(chain))' = Proofs(Len(chain))
    BY <1>3, <2>1 DEF Proofs, EventKinds
  <2>3. \A i \in Proofs(Len(chain)) : IdOf(i)' = IdOf(i)
    BY <2>1 DEF Proofs, IdOf
  <2> QED
    BY <1>3, <2>2, <2>3 DEF ProofsAreDistinct
<1>4. ASSUME NEW e \in Mined, Mine(e), e.kind = "ProofSubmitted",
             e.proof \in Ledger!Entry, ledger' = Append(ledger, e.proof),
             \A i \in DOMAIN ledger :
                 <<ledger[i].deviceId, ledger[i].sessionId>>
                     # <<e.proof.deviceId, e.proof.sessionId>>
      PROVE  ProofsAreDistinct'
  <2>0. PICK n \in Nat : n = Len(chain) + 1
    BY <1>1
  <2> DEFINE m == Len(ledger) + 1
  <2>1. /\ Len(chain) \in Nat /\ Len(chain') = n
        /\ chain'[n] = e
        /\ \A i \in 1..Len(chain) : chain'[i] = chain[i]
    BY <1>1, <1>4, <2>0, AppendFacts DEF Mine
  <2>2. /\ Len(ledger) \in Nat /\ DOMAIN ledger = 1..Len(ledger)
        /\ DOMAIN ledger' = 1..m
        /\ ledger'[m] = e.proof
        /\ \A i \in 1..Len(ledger) : ledger'[i] = ledger[i]
    BY <1>4, AppendFacts
  <2>3. Proofs(Len(chain))' = Proofs(Len(chain)) \cup {n}
    BY <1>4, <2>0, <2>1 DEF Proofs
  <2>4. \A i \in Proofs(Len(chain)) : IdOf(i)' = IdOf(i)
    BY <2>1 DEF Proofs, IdOf
  <2>5. IdOf(n)' = <<e.proof.deviceId, e.proof.sessionId>>
    BY <2>1 DEF IdOf
  <2>6. \A i \in Proofs(Len(chain)) : \E j \in DOMAIN ledger :
            IdOf(i) = <<ledger[j].deviceId, ledger[j].sessionId>>
    BY DEF ProofsAreDistinct
  <2>7. \A i, j \in Proofs(Len(chain)) : IdOf(i) = IdOf(j) => i = j
    BY DEF ProofsAreDistinct
  <2>8. \A i \in Proofs(Len(chain)) : IdOf(i)' # IdOf(n)'
    BY <1>4, <2>4, <2>5, <2>6
  <2>9. \A i \in Proofs(Len(chain))' : \E j \in DOMAIN ledger' :
            IdOf(i)' = <<ledger'[j].deviceId, ledger'[j].sessionId>>
    <3>1. ASSUME NEW i \in Proofs(Len(chain))
          PROVE  \E j \in DOMAIN ledger' :
                    IdOf(i)' = <<ledger'[j].deviceId, ledger'[j].sessionId>>
      <4>1. PICK j \in DOMAIN ledger : IdOf(i) = <<ledger[j].deviceId, ledger[j].sessionId>>
        BY <2>6
      <4>2. j \in DOMAIN ledger' /\ ledger'[j] = ledger[j]
        BY <2>2
      <4> QED
        BY <2>4, <4>1, <4>2
    <3>2. m \in DOMAIN ledger'
              /\ IdOf(n)' = <<ledger'[m].deviceId, ledger'[m].sessionId>>
      BY <2>2, <2>5
    <3> HIDE DEF m
    <3> QED
      BY <2>3, <3>1, <3>2
  <2>10. \A i, j \in Proofs(Len(chain))' : IdOf(i)' = IdOf(j)' => i = j
    BY <2>3, <2>4, <2>7, <2>8
  <2> QED
    BY <2>9, <2>10 DEF ProofsAreDistinct
<1>5. CASE RegistryTransaction
  <2>1. ledger' = ledger
    BY <1>5 DEF RegistryTransaction
  <2>2. \A e : e.kind = "DeviceRegistered" => e.kind \in EventKinds
    BY DEF EventKinds
  <2> QED
    BY <1>2, <1>3, <1>5, <2>1, <2>2, RegistryMines DEF Change
<1>6. CASE ProofTransaction
  BY <1>4, <1>6, ProofMines
<1>7. CASE Index \/ UNCHANGED subgraphVars
  BY <1>2, <1>7 DEF Index, subgraphVars
<1> QED
  BY <1>5, <1>6, <1>7 DEF SubgraphNext

(* Handled proofs are positions of the chain, so there are finitely many.  *)
LEMMA HandledFinite ==
    ASSUME SubgraphShape, NEW d, NEW t
    PROVE  /\ IsFiniteSet(Proofs(cursor))
           /\ IsFiniteSet(Handled(d, t)) /\ IsFiniteSet(Disconnections(d, t))
<1>1. cursor \in Nat /\ IsFiniteSet(1..cursor)
  BY FS_Interval DEF SubgraphShape
<1>2. Proofs(cursor) \in SUBSET (1..cursor) /\ Handled(d, t) \in SUBSET (1..cursor)
      /\ Disconnections(d, t) \in SUBSET (1..cursor)
  BY DEF Proofs, Handled, Disconnections
<1> QED
  BY <1>1, <1>2, FS_Subset

(* There is a submission for each of them, so they are finite in number.   *)
LEMMA SubmissionFinite ==
    ASSUME SubgraphShape, SubmissionsMatchChain
    PROVE  IsFiniteSet(submission)
<1> DEFINE f == [i \in Proofs(cursor) |-> IdOf(i)]
<1>1. IsFiniteSet(Proofs(cursor))
  BY HandledFinite
<1>2. f \in Surjection(Proofs(cursor), submission)
  BY DEF Surjection, SubmissionsMatchChain
<1> QED
  BY <1>1, <1>2, FS_Surjection

(* Nothing changes for the statistics when the handled part of the chain   *)
(* gains no proof and the handler writes none.                             *)
LEMMA DailyUntouched ==
    ASSUME SubgraphShape, SubmissionsMatchChain, DailyMatchesChain, TotalMatchesChain,
           Proofs(cursor)' = Proofs(cursor),
           \A i \in Proofs(cursor) : chain'[i] = chain[i],
           UNCHANGED <<submission, daily>>,
           protocol'.totalSubmissions = protocol.totalSubmissions
    PROVE  SubmissionsMatchChain' /\ DailyMatchesChain' /\ TotalMatchesChain'
<1>1. \A i \in Proofs(cursor) : IdOf(i)' = IdOf(i)
  BY DEF IdOf
<1>2. SubmissionsMatchChain'
  BY <1>1 DEF SubmissionsMatchChain
<1>3. \A d \in DeviceIds, t \in Nat :
          /\ Handled(d, t)' = Handled(d, t)
          /\ Disconnections(d, t)' = Disconnections(d, t)
  <2> SUFFICES ASSUME NEW d \in DeviceIds, NEW t \in Nat
               PROVE  /\ Handled(d, t)' = Handled(d, t)
                      /\ Disconnections(d, t)' = Disconnections(d, t)
    OBVIOUS
  <2>1. \A i : i \in 1..cursor /\ chain[i].kind = "ProofSubmitted" <=> i \in Proofs(cursor)
    BY DEF Proofs
  <2>2. \A i : i \in 1..cursor' /\ chain'[i].kind = "ProofSubmitted"
                   <=> i \in Proofs(cursor)'
    BY DEF Proofs
  <2>3. Handled(d, t)' = Handled(d, t)
    BY <2>1, <2>2 DEF Handled
  <2> QED
    BY <2>1, <2>3 DEF Disconnections, Handled
<1>4. DailyMatchesChain'
  BY <1>3 DEF DailyMatchesChain
<1>5. TotalMatchesChain'
  BY DEF TotalMatchesChain
<1> QED
  BY <1>2, <1>4, <1>5

(* The handler of a proof counts it for its device and the day it was      *)
(* mined, and for no other.                                                *)
LEMMA ProofIsCounted ==
    ASSUME SubgraphShape, ProofsAreDistinct, SubmissionsMatchChain,
           DailyMatchesChain, TotalMatchesChain,
           Index, chain[cursor + 1].kind = "ProofSubmitted",
           handleProofSubmitted(chain[cursor + 1])
    PROVE  SubmissionsMatchChain' /\ DailyMatchesChain' /\ TotalMatchesChain'
<1>1. /\ chain \in Seq(Mined) /\ cursor \in Nat /\ Len(chain) \in Nat
      /\ cursor < Len(chain) /\ cursor' = cursor + 1 /\ chain' = chain
      /\ protocol \in [Counters -> Int]
  BY DEF SubgraphShape, Index
<1>2. PICK n \in Nat : n = cursor + 1
  BY <1>1
<1>3. PICK e \in Mined : e = chain[n]
  BY <1>1, <1>2
<1> DEFINE d0 == e.proof.deviceId
           t0 == getDayStartTs(e.at)
<1>4. /\ e.kind = "ProofSubmitted" /\ e.proof \in Ledger!Entry
      /\ d0 \in DeviceIds /\ t0 \in Nat
      /\ e.proof.postDisconnection \in BOOLEAN
  <2>1. e.kind = "ProofSubmitted"
    BY <1>2, <1>3
  <2>2. e.proof \in Ledger!Entry /\ e.at \in Nat
    BY <2>1, MinedKinds DEF EventKinds
  <2> QED
    BY <2>1, <2>2, DayStartType DEF Ledger!Entry
<1>5. handleProofSubmitted(e)
  BY <1>2, <1>3
<1>6. Proofs(cursor)' = Proofs(cursor) \cup {n} /\ n \notin Proofs(cursor)
      /\ n \in Proofs(Len(chain)) /\ Proofs(cursor) \subseteq Proofs(Len(chain))
  BY <1>1, <1>2, <1>3, <1>4 DEF Proofs
<1>7. \A i : IdOf(i)' = IdOf(i)
  BY <1>1 DEF IdOf
<1>8. IdOf(n) = <<d0, e.proof.sessionId>>
  BY <1>3 DEF IdOf
<1>9. submission' = submission \cup {IdOf(n)}
  BY <1>5, <1>8 DEF handleProofSubmitted
<1>10. SubmissionsMatchChain'
  BY <1>6, <1>7, <1>9 DEF SubmissionsMatchChain
<1>11. IdOf(n) \notin submission
  BY <1>6 DEF SubmissionsMatchChain, ProofsAreDistinct
<1>12. protocol'.totalSubmissions = protocol.totalSubmissions + 1
  BY <1>1, <1>5 DEF handleProofSubmitted, Count, Counters
<1>13. TotalMatchesChain'
  <2>1. Cardinality(Proofs(cursor)') = Cardinality(Proofs(cursor)) + 1
    BY <1>6, HandledFinite, FS_AddElement
  <2>2. IsFiniteSet(submission)
    BY SubmissionFinite
  <2>3. Cardinality(submission') = Cardinality(submission) + 1
    BY <1>9, <1>11, <2>2, FS_AddElement
  <2> QED
    BY <1>12, <2>1, <2>3 DEF TotalMatchesChain
<1>14. \A d \in DeviceIds, t \in Nat :
          /\ Handled(d, t)' = IF d = d0 /\ t = t0 THEN Handled(d, t) \cup {n}
                              ELSE Handled(d, t)
          /\ Disconnections(d, t)' =
                IF d = d0 /\ t = t0 /\ e.proof.postDisconnection
                THEN Disconnections(d, t) \cup {n} ELSE Disconnections(d, t)
  <2> SUFFICES ASSUME NEW d \in DeviceIds, NEW t \in Nat
               PROVE  /\ Handled(d, t)' = IF d = d0 /\ t = t0 THEN Handled(d, t) \cup {n}
                                          ELSE Handled(d, t)
                      /\ Disconnections(d, t)' =
                            IF d = d0 /\ t = t0 /\ e.proof.postDisconnection
                            THEN Disconnections(d, t) \cup {n}
                            ELSE Disconnections(d, t)
    OBVIOUS
  <2>1. \A i : i \in 1..cursor' <=> i \in 1..cursor \/ i = n
    BY <1>1, <1>2
  <2>2. Handled(d, t)' = IF d = d0 /\ t = t0 THEN Handled(d, t) \cup {n}
                         ELSE Handled(d, t)
    BY <1>1, <1>3, <1>4, <2>1 DEF Handled
  <2> QED
    BY <1>1, <1>3, <2>2 DEF Disconnections
<1>15. \A d, t : n \notin Handled(d, t) /\ n \notin Disconnections(d, t)
  BY <1>1, <1>2 DEF Handled, Disconnections
<1> DEFINE key == <<t0, d0>>
           stat == IF key \in DOMAIN daily THEN daily[key] ELSE NoStat
           new == [submissionCount |-> stat.submissionCount + 1,
                   postDisconnectionCount |->
                       stat.postDisconnectionCount + One(e.proof.postDisconnection)]
<1>16. daily' = Put(daily, key, new)
  BY <1>5 DEF handleProofSubmitted, makeDailyStatId
<1>17. /\ stat.submissionCount = Cardinality(Handled(d0, t0))
       /\ stat.postDisconnectionCount = Cardinality(Disconnections(d0, t0))
  <2>1. CASE Handled(d0, t0) = {}
    <3>1. Disconnections(d0, t0) = {} /\ key \notin DOMAIN daily
      BY <1>4, <2>1 DEF Disconnections, DailyMatchesChain
    <3> QED
      BY <2>1, <3>1, FS_EmptySet DEF NoStat
  <2>2. CASE Handled(d0, t0) # {}
    BY <1>4, <2>2 DEF DailyMatchesChain
  <2> QED
    BY <2>1, <2>2
<1>18. /\ new.submissionCount = Cardinality(Handled(d0, t0) \cup {n})
       /\ new.postDisconnectionCount =
             Cardinality(IF e.proof.postDisconnection
                         THEN Disconnections(d0, t0) \cup {n}
                         ELSE Disconnections(d0, t0))
  <2>1. /\ Cardinality(Handled(d0, t0) \cup {n}) = Cardinality(Handled(d0, t0)) + 1
        /\ Cardinality(Disconnections(d0, t0) \cup {n})
              = Cardinality(Disconnections(d0, t0)) + 1
        /\ Cardinality(Disconnections(d0, t0)) \in Nat
    BY <1>15, HandledFinite, FS_AddElement, FS_CardinalityType
  <2> QED
    BY <1>4, <1>17, <2>1 DEF One
<1>19. /\ DOMAIN daily' = DOMAIN daily \cup {key}
       /\ daily'[key] = new
       /\ \A k \in DOMAIN daily : k # key => daily'[k] = daily[k]
  BY <1>16 DEF Put
<1> HIDE DEF new, stat
<1>20. DailyMatchesChain'
  <2> SUFFICES ASSUME NEW d \in DeviceIds, NEW t \in Nat
               PROVE  IF Handled(d, t)' = {} THEN <<t, d>> \notin DOMAIN daily'
                      ELSE /\ <<t, d>> \in DOMAIN daily'
                           /\ daily'[<<t, d>>].submissionCount = Cardinality(Handled(d, t)')
                           /\ daily'[<<t, d>>].postDisconnectionCount
                                 = Cardinality(Disconnections(d, t)')
    BY DEF DailyMatchesChain
  <2>1. CASE d = d0 /\ t = t0
    <3>1. /\ Handled(d, t)' = Handled(d0, t0) \cup {n}
          /\ Disconnections(d, t)' = IF e.proof.postDisconnection
                                     THEN Disconnections(d0, t0) \cup {n}
                                     ELSE Disconnections(d0, t0)
      BY <1>14, <2>1
    <3>2. <<t, d>> = key
      BY <2>1
    <3> QED
      BY <1>18, <1>19, <3>1, <3>2
  <2>2. CASE ~(d = d0 /\ t = t0)
    <3>1. Handled(d, t)' = Handled(d, t) /\ Disconnections(d, t)' = Disconnections(d, t)
      BY <1>14, <2>2
    <3>2. <<t, d>> # key
      BY <2>2
    <3> QED
      BY <1>19, <3>1, <3>2 DEF DailyMatchesChain
  <2> QED
    BY <2>1, <2>2
<1> QED
  BY <1>10, <1>13, <1>20

(* Every step keeps the statistics right.                                  *)
LEMMA DailyStaysRight ==
    ASSUME TypeOK, SubgraphShape, ledger \in Seq(Ledger!Entry), DailyInv,
           [SubgraphNext]_subgraphVars
    PROVE  DailyInv'
<1>1. /\ chain \in Seq(Mined) /\ cursor \in 0..Len(chain) /\ Len(chain) \in Nat
      /\ protocol \in [Counters -> Int]
      /\ \A k \in DOMAIN device : device[k] \in Entity
  BY DEF SubgraphShape
<1>2. ProofsAreDistinct'
  BY ProofsStayDistinct DEF DailyInv
<1>3. ASSUME Proofs(cursor)' = Proofs(cursor),
             \A i \in Proofs(cursor) : chain'[i] = chain[i],
             UNCHANGED <<submission, daily>>,
             protocol'.totalSubmissions = protocol.totalSubmissions
      PROVE  DailyInv'
  BY <1>2, <1>3, DailyUntouched DEF DailyInv
<1>4. ASSUME UNCHANGED <<cursor, store>>,
             \/ UNCHANGED chain
             \/ \E e \in Mined : chain' = Append(chain, e)
      PROVE  DailyInv'
  <2>1. \A i \in 1..cursor : chain'[i] = chain[i]
    BY <1>1, <1>4, AppendFacts
  <2>2. Proofs(cursor)' = Proofs(cursor) /\ \A i \in Proofs(cursor) : chain'[i] = chain[i]
    BY <1>4, <2>1 DEF Proofs
  <2> QED
    BY <1>3, <1>4, <2>2 DEF store
<1>5. CASE RegistryTransaction
  BY <1>4, <1>5, RegistryMines DEF Mine
<1>6. CASE ProofTransaction
  BY <1>4, <1>6, ProofMines DEF Mine
<1>7. CASE Index
  <2> DEFINE e == chain[cursor + 1]
  <2>1. chain' = chain /\ cursor' = cursor + 1
    BY <1>7 DEF Index
  <2>2. \/ e.kind \in EventKinds /\ e.key \in PubKeys /\ Handles(e)
        \/ e.kind = "ProofSubmitted" /\ handleProofSubmitted(e)
    BY <1>7, HandlerShapes
  <2>3. CASE e.kind = "ProofSubmitted" /\ handleProofSubmitted(e)
    BY <1>2, <1>7, <2>3, ProofIsCounted DEF DailyInv
  <2>4. CASE e.kind \in EventKinds /\ e.key \in PubKeys /\ Handles(e)
    <3>1. e.kind # "ProofSubmitted"
      BY <2>4 DEF EventKinds
    <3>2. Proofs(cursor)' = Proofs(cursor)
      BY <1>1, <2>1, <3>1 DEF Proofs
    <3> HIDE DEF e
    <3>3. ASSUME NEW from, NEW to \in {"Active", "Revoked", "Suspended"},
                 Moves(e.key, from, to)
          PROVE  protocol'.totalSubmissions = protocol.totalSubmissions
      <4>1. device[e.key].status \in {"Active", "Revoked", "Suspended"}
        BY <1>1, <3>3 DEF Moves, Entity, Status
      <4> QED
        <5> DEFINE left == IF device[e.key].status \in from
                           THEN {CounterOf[device[e.key].status]} ELSE {}
        <5>1. protocol' = [c \in Counters |->
                  protocol[c] + (IF c = CounterOf[to] THEN 1 ELSE 0)
                              - (IF c \in left THEN 1 ELSE 0)]
          BY <3>3 DEF Moves, Move
        <5>2. CounterOf[to] # "totalSubmissions"
          BY DEF CounterOf
        <5>3. "totalSubmissions" \notin left
          BY <4>1 DEF CounterOf
        <5>4. "totalSubmissions" \in Counters /\ protocol["totalSubmissions"] \in Int
          BY <1>1 DEF Counters
        <5> HIDE DEF left
        <5> QED
          BY <5>1, <5>2, <5>3, <5>4
    <3>4. Arrives(e.key) => protocol'.totalSubmissions = protocol.totalSubmissions
      BY DEF Arrives, Count, Counters
    <3>5. protocol'.totalSubmissions = protocol.totalSubmissions
      BY <2>4, <3>3, <3>4 DEF Handles, store
    <3>6. UNCHANGED <<submission, daily>>
      BY <2>4 DEF Handles, store, Arrives, Moves, Saves
    <3> QED
      BY <1>3, <2>1, <3>2, <3>5, <3>6
  <2> QED
    BY <2>2, <2>3, <2>4
<1>8. CASE UNCHANGED subgraphVars
  BY <1>4, <1>8 DEF subgraphVars
<1> QED
  BY <1>5, <1>6, <1>7, <1>8 DEF SubgraphNext

-----------------------------------------------------------------------------
(***************************************************************************)
(* The theorems.                                                           *)
(***************************************************************************)
IndexTypes == SubgraphShape /\ ledger \in Seq(Ledger!Entry)

IndexInv == IndexTypes /\ EntityInv /\ DailyInv

(* An empty chain and an empty index.                                      *)
LEMMA IndexStarts == SubgraphInit => IndexInv
<1> SUFFICES ASSUME SubgraphInit PROVE IndexInv
  OBVIOUS
<1>1. /\ chain = <<>> /\ Len(chain) = 0 /\ DOMAIN chain = {} /\ cursor = 0
      /\ device = <<>> /\ DOMAIN device = {} /\ submission = {}
      /\ daily = <<>> /\ DOMAIN daily = {}
      /\ protocol = [c \in Counters |-> 0]
      /\ ledger = <<>>
  BY DEF SubgraphInit, Ledger!Init
<1>2. IndexTypes
  BY <1>1 DEF IndexTypes, SubgraphShape, Counters
<1>3. \A key : Announced(chain, key, 0) = "Unknown"
  BY AnnouncedStart
<1>4. \A key \in PubKeys : devices[key].status = "Unknown"
  BY DEF SubgraphInit, Init, Unregistered
<1>5. ChainMatchesRegistry /\ ChainIsLegal /\ EntitiesMatchChain
  BY <1>1, <1>3, <1>4 DEF ChainMatchesRegistry, ChainIsLegal, EntitiesMatchChain
<1>6. CountersMatchEntities
  BY <1>1, FS_EmptySet DEF CountersMatchEntities, WithStatus, Counters
<1>7. \A n \in {0} : Proofs(n) = {}
  BY DEF Proofs
<1>8. ProofsAreDistinct /\ SubmissionsMatchChain
  BY <1>1, <1>7 DEF ProofsAreDistinct, SubmissionsMatchChain
<1>9. \A d, t : Handled(d, t) = {}
  BY <1>1 DEF Handled
<1>10. DailyMatchesChain /\ TotalMatchesChain
  BY <1>1, <1>7, <1>9, FS_EmptySet DEF DailyMatchesChain, TotalMatchesChain, Counters
<1> QED
  BY <1>2, <1>5, <1>6, <1>8, <1>10 DEF IndexInv, EntityInv, DailyInv

(* The register's types, needed of every step, come from its own proof.    *)
LEMMA IndexInvariant == SubgraphSpec => [](TypeOK /\ IndexInv)
<1>1. TypeOK /\ IndexInv /\ [SubgraphNext]_subgraphVars => IndexInv'
  BY IndexStaysTyped, EntitiesStayRight, DailyStaysRight DEF IndexInv, IndexTypes
<1> QED
  BY <1>1, IndexStarts, RegisterIsUnchanged, TypeCorrect, PTL DEF SubgraphSpec

(* Entities, statistics and the cursor keep their types, and no counter is *)
(* ever negative, though handlers decrement by what they find stored: a    *)
(* counter is the size of a set of entities (device-registry-mapping.ts).  *)
THEOREM SubgraphTypeCorrect == SubgraphSpec => []SubgraphTypeOK
<1>1. ASSUME SubgraphShape, CountersMatchEntities
      PROVE  protocol \in [Counters -> Nat]
  <2>1. IsFiniteSet(DOMAIN device)
    BY <1>1, FS_Subset, RegistryAssumption DEF SubgraphShape
  <2>2. Cardinality(DOMAIN device) \in Nat
        /\ \A s : Cardinality(WithStatus(s)) \in Nat
    BY <2>1, FS_Subset, FS_CardinalityType DEF WithStatus
  <2>3. \A c \in Counters : protocol[c] \in Nat
    BY <1>1, <2>2 DEF CountersMatchEntities, SubgraphShape, Counters
  <2> QED
    BY <1>1, <2>3 DEF SubgraphShape
<1>2. IndexInv => SubgraphTypeOK
  BY <1>1 DEF IndexInv, IndexTypes, EntityInv, SubgraphShape, SubgraphTypeOK
<1> QED
  BY <1>2, IndexInvariant, PTL

(* The register's own invariants hold beside the index: the log determines *)
(* the statuses, device lives are legal, deviceCount is exact, identities  *)
(* are frozen (registerDevice, revokeDevice, reactivateDevice and          *)
(* suspendDevice of DeviceRegistry.sol).                                   *)
THEOREM RegisterStaysRight ==
    SubgraphSpec => /\ []TypeOK
                    /\ []CountIsRegistered
                    /\ []EventsDetermineStatus
                    /\ []HistoryIsLegal
                    /\ IdentityIsFrozen
  BY RegisterIsUnchanged, TypeCorrect, CounterIsExact, LogIsComplete, LivesAreLegal,
     IdentityNeverChanges, PTL

(* After any number of events the Protocol counters that the four device   *)
(* handlers adjust are the numbers of entities they count.                 *)
THEOREM CountersAreExact == SubgraphSpec => []CountersMatchEntities
  BY IndexInvariant, PTL DEF IndexInv, EntityInv

(* An index that has handled the whole chain shows the devices, statuses   *)
(* and count that the contract stores, which no handler can read.          *)
THEOREM CaughtUpIsCurrent == SubgraphSpec => []CaughtUpMatchesRegistry
<1>1. TypeOK /\ IndexInv /\ CountIsRegistered => CaughtUpMatchesRegistry
  <2> SUFFICES ASSUME IndexInv, CountIsRegistered, cursor = Len(chain)
               PROVE  /\ DOMAIN device = Registered
                      /\ \A k \in Registered : device[k].status = devices[k].status
                      /\ protocol.totalDevices = deviceCount
    BY DEF CaughtUpMatchesRegistry
  <2>1. DOMAIN device \subseteq PubKeys
    BY DEF IndexInv, IndexTypes, SubgraphShape
  <2>2. \A key \in PubKeys :
            IF devices[key].status = "Unknown" THEN key \notin DOMAIN device
            ELSE key \in DOMAIN device /\ device[key].status = devices[key].status
    BY DEF IndexInv, EntityInv, ChainMatchesRegistry, EntitiesMatchChain
  <2>3. DOMAIN device = Registered
        /\ \A k \in Registered : device[k].status = devices[k].status
    BY <2>1, <2>2 DEF Registered
  <2> QED
    BY <2>3 DEF IndexInv, EntityInv, CountersMatchEntities, CountIsRegistered
<1> QED
  BY <1>1, IndexInvariant, RegisterIsUnchanged, CounterIsExact, PTL

(* handleProofSubmitted's daily statistics partition the submissions by    *)
(* device and day of mining, and totalSubmissions counts distinct ones.    *)
THEOREM StatisticsAreExact == SubgraphSpec => []DailyStatsPartition
<1>1. IndexInv => DailyStatsPartition
  BY DailyForms DEF IndexInv, IndexTypes, DailyInv
<1> QED
  BY <1>1, IndexInvariant, PTL
=============================================================================
