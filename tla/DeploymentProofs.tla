--------------------------- MODULE DeploymentProofs ---------------------------
(***************************************************************************)
(* Proofs about Deployment.  As long as only the repository's              *)
(* implementations have run, every step of a proxy is one or none of       *)
(* EnergyProofRegistryV3, upgrades, downgrades and forks included, so that *)
(* what is proved of the contract holds over the whole life of the proxy;  *)
(* what is left once the admins, and once the upgraders too, are gone; the *)
(* separator served is never a stale one; and so the digest served is the  *)
(* one the edge computes.                                                  *)
(***************************************************************************)
EXTENDS Deployment, EnergyProofRegistryV3Proofs

-----------------------------------------------------------------------------
(***************************************************************************)
(* Genuine histories of the proxy are histories of the contract.           *)
(***************************************************************************)

(* What a caller may call is a step of the contract.                       *)
LEMMA TransactionsAreSteps ==
    ASSUME NEW caller \in Accounts, Transaction(caller)
    PROVE  Next
BY DEF Transaction, Next, RoleTransaction, AC!ChangeRoles

(* While only the repository's implementations have run, one of them is in *)
(* place.                                                                  *)
GenuineIsInPlace == genuine => implementation \in Implementations

(* A step after which still no foreign code has run does what the contract *)
(* does, and none had run before it.                                       *)
LEMMA StepsOfTheProxy ==
    ASSUME [DeploymentNext]_<<vars, deploymentVars>>, GenuineIsInPlace, genuine'
    PROVE  genuine /\ GenuineIsInPlace' /\ [Next]_vars
<1> USE DEF GenuineIsInPlace, Implementations
<1>1. CASE Next /\ UNCHANGED deploymentVars
  BY <1>1 DEF deploymentVars
<1>2. CASE /\ \/ \E registry \in Registries, key \in PubKeys :
                    AuthorizationChanges(registry, key)
              \/ NewBlock
           /\ UNCHANGED deploymentVars
  BY <1>2 DEF deploymentVars, Next
<1>3. ASSUME NEW caller \in Accounts, reinitializeEIP712(caller)
      PROVE  UNCHANGED <<vars, genuine, implementation>>
  BY <1>3 DEF reinitializeEIP712
<1>4. ASSUME NEW caller \in Accounts, upgradeAndReinitialize(caller)
      PROVE  UNCHANGED <<vars, genuine>> /\ implementation' = "current"
  BY <1>4 DEF upgradeAndReinitialize
<1>5. ASSUME NEW caller \in Accounts, NEW target \in Implementations,
             upgrade(caller, target)
      PROVE  [Next]_vars /\ UNCHANGED genuine /\ implementation' = target
  BY <1>5, TransactionsAreSteps DEF upgrade
<1>6. ASSUME NEW caller \in Accounts, upgradeToForeign(caller)
      PROVE  ~genuine'
  BY <1>6 DEF upgradeToForeign
<1>7. CASE ForeignRuns
  BY <1>7 DEF ForeignRuns
<1>8. ASSUME NEW id \in ChainIds, ChainForks(id)
      PROVE  UNCHANGED <<vars, genuine, implementation>>
  BY <1>8 DEF ChainForks
<1>9. CASE UNCHANGED <<vars, deploymentVars>>
  BY <1>9 DEF deploymentVars
<1> QED
  BY <1>1, <1>2, <1>3, <1>4, <1>5, <1>6, <1>7, <1>8, <1>9 DEF DeploymentNext

LEMMA GenuineAlwaysInPlace == DeploymentSpec => []GenuineIsInPlace
<1>1. DeploymentInit => GenuineIsInPlace
  BY DEF DeploymentInit, GenuineIsInPlace, Implementations
<1>2. GenuineIsInPlace /\ [DeploymentNext]_<<vars, deploymentVars>>
          => GenuineIsInPlace'
  BY StepsOfTheProxy DEF GenuineIsInPlace
<1> QED
  BY <1>1, <1>2, PTL DEF DeploymentSpec

(* A proxy that only ever runs the repository's implementations behaves as *)
(* the contract does, whenever and with whichever call they are exchanged  *)
(* (both upgrade scripts, and any other use of UPGRADER_ROLE that installs *)
(* one of them).                                                           *)
THEOREM ProxyIsTheContract == DeploymentSpec /\ []genuine => Spec
<1>1. DeploymentInit => Init
  BY DEF DeploymentInit
<1>2. GenuineIsInPlace /\ genuine' /\ [DeploymentNext]_<<vars, deploymentVars>>
          => [Next]_vars
  BY StepsOfTheProxy
<1> QED
  BY <1>1, <1>2, GenuineAlwaysInPlace, PTL DEF DeploymentSpec, Spec

(* Up to the step that installs foreign code, whatever comes after it, the *)
(* contract's invariant holds.                                             *)
LEMMA ContractInvariantOfTheProxy == DeploymentSpec => [](genuine => VInv)
<1>1. DeploymentInit => VInv
  <2> SUFFICES ASSUME DeploymentInit PROVE VInv
    OBVIOUS
  <2>1. Init
    BY DEF DeploymentInit
  <2>2. TypeOK
    BY <2>1, InitialTypes
  <2> QED
    BY <2>1, <2>2, UnusedSafe DEF Init, Unused
<1>2. GenuineIsInPlace /\ (genuine => VInv)
      /\ [DeploymentNext]_<<vars, deploymentVars>>
          => (genuine => VInv)'
  BY StepsOfTheProxy, StepKeepsInvariant
<1> QED
  BY <1>1, <1>2, GenuineAlwaysInPlace, PTL DEF DeploymentSpec

(* No session has been accepted twice as long as no foreign code has run,  *)
(* however often the repository's implementations were exchanged.          *)
THEOREM NoReplayAcrossUpgrades ==
    DeploymentSpec => [](genuine => SessionAtMostOnce)
<1>1. (genuine => VInv) => (genuine => SessionAtMostOnce)
  BY DEF VInv
<1> QED
  BY <1>1, ContractInvariantOfTheProxy, PTL

(* A stale call stays unacceptable until foreign code is installed.        *)
THEOREM RejectionOutlivesUpgrades == DeploymentSpec => RejectionsAreFinal
<1>1. GenuineIsInPlace /\ (genuine => VInv)
      /\ [DeploymentNext]_<<vars, deploymentVars>>
          => [genuine' => \A call \in Calls : Stale(call) => Stale(call)'
             ]_<<vars, deploymentVars>>
  BY StepsOfTheProxy, StaleStaysStale DEF VInv
<1> QED
  BY <1>1, GenuineAlwaysInPlace, ContractInvariantOfTheProxy, PTL
  DEF DeploymentSpec, RejectionsAreFinal

(* Without an upgrader nobody passes _authorizeUpgrade, and without an     *)
(* admin nobody reinitializes.                                             *)
LEMMA CodeAndCacheStand ==
    ASSUME [DeploymentNext]_<<vars, deploymentVars>>, GenuineIsInPlace, genuine,
           roles["DEFAULT_ADMIN_ROLE"] = {}, roles["UPGRADER_ROLE"] = {}
    PROVE  UNCHANGED <<genuine, implementation, initialized, cache>>
<1>1. \A caller : /\ ~AC!HasRole("DEFAULT_ADMIN_ROLE", caller)
                  /\ ~AC!HasRole("UPGRADER_ROLE", caller)
  BY DEF AC!HasRole
<1>2. ASSUME NEW caller \in Accounts
      PROVE  /\ ~reinitializeEIP712(caller)
             /\ ~upgradeAndReinitialize(caller)
             /\ ~upgradeToForeign(caller)
             /\ \A target \in Implementations : ~upgrade(caller, target)
  BY <1>1 DEF reinitializeEIP712, Reinitialize, upgradeAndReinitialize,
              upgradeToForeign, upgrade, _authorizeUpgrade
<1>3. ~ForeignRuns
  BY DEF ForeignRuns, GenuineIsInPlace, Implementations
<1>4. ASSUME NEW id \in ChainIds, ChainForks(id)
      PROVE  UNCHANGED <<genuine, implementation, initialized, cache>>
  BY <1>4 DEF ChainForks
<1> QED
  BY <1>2, <1>3, <1>4 DEF DeploymentNext, deploymentVars

(* What the last admin takes along, and what the last upgrader does.       *)
THEOREM PowersEndWithTheirHolders == DeploymentSpec => PowersAreFinal
<1> DEFINE Final ==
        roles["DEFAULT_ADMIN_ROLE"] = {} =>
          /\ genuine' =>
                /\ \A r \in Roles : roles'[r] \subseteq roles[r]
                /\ UNCHANGED config
                /\ paused => paused'
          /\ genuine /\ roles["UPGRADER_ROLE"] = {} =>
                UNCHANGED <<genuine, implementation, initialized, cache>>
<1>1. GenuineIsInPlace /\ (genuine => VInv)
      /\ [DeploymentNext]_<<vars, deploymentVars>>
          => [Final]_<<vars, deploymentVars>>
  BY StepsOfTheProxy, NoAdminStep, CodeAndCacheStand DEF VInv
<1> QED
  BY <1>1, GenuineAlwaysInPlace, ContractInvariantOfTheProxy, PTL
  DEF DeploymentSpec, PowersAreFinal

-----------------------------------------------------------------------------
(***************************************************************************)
(* The domain separator.  What is inductive, until foreign code is         *)
(* installed, is not that the cache is current, which a fork disproves,    *)
(* but that it is right for the chain id stored beside it; the zero id of  *)
(* an old proxy is no chain's.                                             *)
(***************************************************************************)
SeparatorOf(id) ==
    <<"EIP712Domain", "InfraVeritas Energy", "1", AbiWord(id), Proxy>>

CacheIsConsistent ==
    /\ chainId \in ChainIds
    /\ genuine /\ cachedChainId # 0
           => cachedSeparator = SeparatorOf(cachedChainId)

LEMMA CacheHolds == DeploymentSpec => []CacheIsConsistent
<1>1. DeploymentInit => CacheIsConsistent
  BY DeploymentAssumption
  DEF DeploymentInit, CacheIsConsistent, SeparatorOf, _buildDomainSeparator
<1>2. GenuineIsInPlace /\ CacheIsConsistent
      /\ [DeploymentNext]_<<vars, deploymentVars>>
          => CacheIsConsistent'
  <2> SUFFICES ASSUME GenuineIsInPlace, CacheIsConsistent,
                      [DeploymentNext]_<<vars, deploymentVars>>
               PROVE  CacheIsConsistent'
    OBVIOUS
  <2>1. CASE UNCHANGED deploymentVars
    BY <2>1 DEF CacheIsConsistent, SeparatorOf, AbiWord, deploymentVars, cache
  <2>2. ASSUME NEW caller \in Accounts, Reinitialize(caller), UNCHANGED chainId
        PROVE  CacheIsConsistent'
    BY <2>2 DEF CacheIsConsistent, Reinitialize, SeparatorOf, AbiWord,
                _buildDomainSeparator
  <2>3. ASSUME NEW caller \in Accounts, NEW target \in Implementations,
               upgrade(caller, target)
        PROVE  CacheIsConsistent'
    BY <2>3 DEF upgrade, CacheIsConsistent, SeparatorOf, AbiWord, cache
  <2>4. ASSUME NEW id \in ChainIds, ChainForks(id)
        PROVE  CacheIsConsistent'
    BY <2>4 DEF ChainForks, CacheIsConsistent, SeparatorOf, AbiWord, cache
  <2>5. ASSUME NEW caller \in Accounts, upgradeToForeign(caller)
        PROVE  CacheIsConsistent'
    BY <2>5 DEF upgradeToForeign, CacheIsConsistent
  <2>6. CASE ForeignRuns
    BY <2>6 DEF ForeignRuns, CacheIsConsistent, GenuineIsInPlace, Implementations
  <2> QED
    BY <2>1, <2>2, <2>3, <2>4, <2>5, <2>6
    DEF DeploymentNext, reinitializeEIP712, upgradeAndReinitialize
<1> QED
  BY <1>1, <1>2, GenuineAlwaysInPlace, PTL DEF DeploymentSpec

(* The separator that domainSeparator() serves is always the one it would  *)
(* build, until foreign code is installed: the cache saves work and never  *)
(* changes the answer.                                                     *)
SeparatorIsCurrent == genuine => domainSeparator = _buildDomainSeparator

THEOREM SeparatorNeverStale == DeploymentSpec => []SeparatorIsCurrent
<1>1. CacheIsConsistent => SeparatorIsCurrent
  BY DeploymentAssumption
  DEF CacheIsConsistent, SeparatorIsCurrent, SeparatorOf, domainSeparator,
      _buildDomainSeparator
<1> QED
  BY <1>1, CacheHolds, PTL

-----------------------------------------------------------------------------
(***************************************************************************)
(* The digest.  Solidity's abi.encode is a residue, the edge's encoders    *)
(* distinguish cases; within the widths of the struct they are the same.   *)
(***************************************************************************)

(* A residue modulo M within one period of 0.                              *)
LEMMA Residue ==
    ASSUME NEW M \in Nat \ {0}
    PROVE  /\ \A v \in 0..(M - 1) : v % M = v
           /\ \A v \in (-M)..(-1) : v % M = v + M
  OBVIOUS

(* _encode_uint is abi.encode of an unsigned integer.                      *)
LEMMA UintWords == \A v \in Unsigned : AbiWord(v) = EncodeUint(v)
  BY DeploymentAssumption, Residue DEF AbiWord, EncodeUint, Unsigned, WordSize

(* _encode_int is abi.encode of a signed integer.                          *)
LEMMA IntWords == \A v \in Signed : AbiWord(v) = EncodeInt(v)
<1> SUFFICES ASSUME NEW v \in Signed PROVE AbiWord(v) = EncodeInt(v)
  OBVIOUS
<1> USE DeploymentAssumption DEF Signed, WordSize
<1>1. WordSize \in Nat \ {0}
  OBVIOUS
<1>2. CASE v \in 0..(HalfWord - 1)
  <2>1. v % WordSize = v
    BY <1>1, <1>2, Residue
  <2> QED
    BY <1>2, <2>1 DEF AbiWord, EncodeInt
<1>3. CASE v \in (-HalfWord)..(-1)
  <2>1. v % WordSize = v + WordSize
    BY <1>1, <1>3, Residue
  <2> QED
    BY <1>3, <2>1 DEF AbiWord, EncodeInt
<1> QED
  BY <1>2, <1>3

(* Whatever upgrades between the repository's implementations,             *)
(* re-initialisation and forks have happened, the digest that eip712Digest *)
(* serves is the one edge/hal/eip712.py computes for the chain the proxy   *)
(* is on.                                                                  *)
THEOREM DigestsNeverDiverge == DeploymentSpec => []DigestsAgree
<1>1. ASSUME genuine, CacheIsConsistent, SeparatorIsCurrent, NEW pi \in PublicInputs
      PROVE  eip712Digest(pi) = compute_eip712_digest(pi, chainId, Proxy)
  <2>1. domainSeparator = compute_domain_separator(chainId, Proxy)
    <3>1. chainId \in Unsigned
      BY <1>1, DeploymentAssumption DEF CacheIsConsistent
    <3>2. AbiWord(chainId) = EncodeUint(chainId)
      BY <3>1, UintWords
    <3> QED
      BY <1>1, <3>2
      DEF SeparatorIsCurrent, _buildDomainSeparator, compute_domain_separator
  <2>2. _structHash(pi) = compute_struct_hash(pi)
    <3>1. /\ AbiWord(pi.deviceId) = EncodeUint(pi.deviceId)
          /\ AbiWord(pi.sessionId) = EncodeUint(pi.sessionId)
          /\ AbiWord(pi.epochStartTs) = EncodeUint(pi.epochStartTs)
          /\ AbiWord(pi.lightLevel) = EncodeUint(pi.lightLevel)
          /\ AbiWord(pi.tamperFlag) = EncodeUint(pi.tamperFlag)
          /\ AbiWord(pi.totalEnergyMWh) = EncodeUint(pi.totalEnergyMWh)
      BY <1>1, DeploymentAssumption, UintWords, Zenon
    <3>2. /\ AbiWord(pi.lat_e7) = EncodeInt(pi.lat_e7)
          /\ AbiWord(pi.lon_e7) = EncodeInt(pi.lon_e7)
      BY <1>1, DeploymentAssumption, IntWords, Zenon
    <3> QED
      BY <3>1, <3>2, Zenon DEF _structHash, compute_struct_hash
  <2> QED
    BY <2>1, <2>2, Zenon DEF eip712Digest, compute_eip712_digest
<1>2. CacheIsConsistent /\ SeparatorIsCurrent => DigestsAgree
  BY <1>1, Zenon DEF DigestsAgree
<1> QED
  BY <1>2, CacheHolds, SeparatorNeverStale, PTL
=============================================================================
