------------------------------ MODULE Deployment ------------------------------
(***************************************************************************)
(* EnergyProofRegistryV3 behind its UUPS proxy over the life of the proxy: *)
(* upgrades with and without a re-initialisation, the cached EIP-712       *)
(* domain separator, and forks that change the chain id.  The edge's own   *)
(* computation of the digest (edge/hal/eip712.py) stands beside the        *)
(* contract's.                                                             *)
(*                                                                         *)
(* The proxy starts either as Deploy.s.sol leaves it, with the current     *)
(* implementation, or as the proxy that UpgradeV3ToV0_3.s.sol was written  *)
(* for: an implementation without EIP-712, whose two new slots are zero.   *)
(* Both verify the signature over payloadHash, so the actions of           *)
(* EnergyProofRegistryV3 are those of either implementation.               *)
(*                                                                         *)
(* _authorizeUpgrade asks for UPGRADER_ROLE and nothing else, so whoever   *)
(* holds it may install any code, here "foreign", which may leave any      *)
(* storage behind.  The history variable genuine tells whether only the    *)
(* repository's own implementations have ever run; what is claimed of      *)
(* upgrades is claimed of the histories where they have.                   *)
(***************************************************************************)
EXTENDS EnergyProofRegistryV3

CONSTANTS
    ChainIds,         (* chain ids before and after a fork, none of them 0  *)
    Proxy,            (* the address of the proxy                           *)
    HalfWord,         (* half of an ABI word's values, 2^255 in the EVM     *)
    PublicInputs,     (* values of struct PublicInputs                      *)
    ForeignStorages,  (* the storage, and the events, foreign code leaves   *)
    MaxForeignLog     (* bound on the events there are when it runs         *)

(* An ABI word has this many values; unsigned and signed integers are      *)
(* these.                                                                  *)
WordSize == 2 * HalfWord
Unsigned == 0..(WordSize - 1)
Signed == (-HalfWord)..(HalfWord - 1)

(* The fields of the struct are uint64, and int64 for the coordinates.     *)
ASSUME DeploymentAssumption ==
    /\ HalfWord \in Nat \ {0}
    /\ ChainIds \subseteq Unsigned \ {0}
    /\ \A pi \in PublicInputs :
          /\ {pi.deviceId, pi.sessionId, pi.epochStartTs, pi.lightLevel,
              pi.tamperFlag, pi.totalEnergyMWh} \subseteq Unsigned
          /\ {pi.lat_e7, pi.lon_e7} \subseteq Signed

VARIABLES
    chainId,          (* block.chainid                                      *)
    implementation,   (* the ERC-1967 slot: one of Implementations, or      *)
                      (* "foreign"                                          *)
    initialized,      (* the version in Initializable's storage             *)
    cachedChainId,    (* _cachedChainId                                     *)
    cachedSeparator,  (* _cachedDomainSeparator                             *)
    genuine           (* history: nothing but Implementations has ever run  *)

cache == <<cachedChainId, cachedSeparator>>
deploymentVars == <<chainId, implementation, initialized, cache, genuine>>

(* The implementations of the repository.                                  *)
Implementations == {"pre-EIP-712", "current"}

(***************************************************************************)
(* Encodings.  keccak256 is injective for every purpose here and stands as *)
(* the tuple it is given.                                                  *)
(***************************************************************************)
ZeroWord == <<>>

(* abi.encode of an unsigned or a signed integer: two's complement.        *)
AbiWord(v) == v % WordSize

_buildDomainSeparator ==
    <<"EIP712Domain", "InfraVeritas Energy", "1", AbiWord(chainId), Proxy>>

domainSeparator_CachedOnly == cachedSeparator  \* no check of the chain id

domainSeparator ==
    IF chainId = cachedChainId THEN cachedSeparator ELSE _buildDomainSeparator

_structHash(pi) ==
    <<"EnergyProof", AbiWord(pi.deviceId), AbiWord(pi.sessionId),
      AbiWord(pi.epochStartTs), AbiWord(pi.lat_e7), AbiWord(pi.lon_e7),
      AbiWord(pi.lightLevel), AbiWord(pi.tamperFlag), pi.payloadHash,
      AbiWord(pi.totalEnergyMWh)>>

eip712Digest(pi) == <<"1901", domainSeparator, _structHash(pi)>>

(* The edge: _encode_uint rejects what it cannot hold, _encode_int writes  *)
(* two's complement, and both do so in 32 bytes.                           *)
EncodeUint(v) == IF v \in Unsigned THEN v ELSE "ValueError"

EncodeInt(v) ==
    CASE v \in 0..(HalfWord - 1) -> v
      [] v \in (-HalfWord)..(-1) -> v + WordSize
      [] OTHER -> "OverflowError"

compute_domain_separator(id, contract) ==
    <<"EIP712Domain", "InfraVeritas Energy", "1", EncodeUint(id), contract>>

compute_struct_hash(pi) ==
    <<"EnergyProof", EncodeUint(pi.deviceId), EncodeUint(pi.sessionId),
      EncodeUint(pi.epochStartTs), EncodeInt(pi.lat_e7), EncodeInt(pi.lon_e7),
      EncodeUint(pi.lightLevel), EncodeUint(pi.tamperFlag), pi.payloadHash,
      EncodeUint(pi.totalEnergyMWh)>>

compute_eip712_digest(pi, id, contract) ==
    <<"1901", compute_domain_separator(id, contract), compute_struct_hash(pi)>>

-----------------------------------------------------------------------------
DeploymentInit ==
    /\ Init
    /\ chainId \in ChainIds
    /\ initialized = 1
    /\ genuine = TRUE
    /\ \/ /\ implementation = "current"
          /\ cachedChainId = chainId
          /\ cachedSeparator = _buildDomainSeparator
       \/ /\ implementation = "pre-EIP-712"
          /\ cachedChainId = 0
          /\ cachedSeparator = ZeroWord

(* reinitializer(2) and onlyRole, then the writes of the function's body.  *)
Reinitialize(caller) ==
    /\ initialized < 2
    /\ AC!HasRole("DEFAULT_ADMIN_ROLE", caller)
    /\ initialized' = 2
    /\ cachedChainId' = chainId
    /\ cachedSeparator' = _buildDomainSeparator

reinitializeEIP712(caller) ==
    /\ implementation = "current"
    /\ Reinitialize(caller)
    /\ UNCHANGED <<vars, chainId, implementation, genuine>>

(* onlyRole(UPGRADER_ROLE), asked by the implementation that is in place.  *)
_authorizeUpgrade(caller) ==
    /\ implementation \in Implementations
    /\ AC!HasRole("UPGRADER_ROLE", caller)

(* Whatever else the caller may call.                                      *)
Transaction(caller) ==
    \/ \E call \in Calls : submitProof(caller, call)
    \/ Governance(caller)
    \/ /\ AC!ChangeRolesBy(caller)
       /\ UNCHANGED <<paused, config, storage, environment>>

(* upgradeToAndCall to an implementation of the repository, with empty     *)
(* calldata as in UpgradeV3ToV0_3_1, or with a call that keeps the sender; *)
(* the target may also be the older implementation.                        *)
upgrade(caller, target) ==
    /\ _authorizeUpgrade(caller)
    /\ implementation' = target
    /\ UNCHANGED vars \/ Transaction(caller)
    /\ UNCHANGED <<chainId, initialized, cache, genuine>>

(* upgradeToAndCall with the call of reinitializeEIP712, the step of       *)
(* UpgradeV3ToV0_3: if it reverts the upgrade does too.                    *)
upgradeAndReinitialize(caller) ==
    /\ _authorizeUpgrade(caller)
    /\ implementation' = "current"
    /\ Reinitialize(caller)
    /\ UNCHANGED <<vars, chainId, genuine>>

(* Foreign code may write every slot of the proxy and emit any event; what *)
(* was emitted before stays.                                               *)
ForeignWrites(s) ==
    /\ Len(log) <= MaxForeignLog
    /\ roles' = s.roles
    /\ paused' = s.paused
    /\ deviceRegistry' = s.deviceRegistry
    /\ p256Verifier' = s.p256Verifier
    /\ honkVerifier' = s.honkVerifier
    /\ lastSubmissionTimestamp' = s.lastSubmissionTimestamp
    /\ usedSessionKeys' = s.usedSessionKeys
    /\ log' = log \o s.events
    /\ initialized' = s.initialized
    /\ cachedChainId' = s.cachedChainId
    /\ cachedSeparator' = s.cachedSeparator
    /\ UNCHANGED environment

(* upgradeToAndCall to any other code, whose call, if there is one, runs   *)
(* at once.                                                                *)
upgradeToForeign(caller) ==
    /\ _authorizeUpgrade(caller)
    /\ implementation' = "foreign"
    /\ genuine' = FALSE
    /\ \/ UNCHANGED <<vars, initialized, cache>>
       \/ \E s \in ForeignStorages : ForeignWrites(s)
    /\ UNCHANGED chainId

(* Foreign code runs, and may put any implementation in its place.         *)
ForeignRuns ==
    /\ implementation = "foreign"
    /\ \E s \in ForeignStorages : ForeignWrites(s)
    /\ implementation' \in Implementations \cup {"foreign"}
    /\ UNCHANGED <<chainId, genuine>>

(* The chain forks and the side this proxy is followed on has another id.  *)
ChainForks(id) ==
    /\ id # chainId
    /\ chainId' = id
    /\ UNCHANGED <<vars, implementation, initialized, cache, genuine>>

(* Under foreign code only the world around the contract takes the steps   *)
(* of EnergyProofRegistryV3.                                               *)
DeploymentNext ==
    \/ /\ implementation \in Implementations
       /\ Next
       /\ UNCHANGED deploymentVars
    \/ /\ implementation = "foreign"
       /\ \/ \E registry \in Registries, key \in PubKeys :
                 AuthorizationChanges(registry, key)
          \/ NewBlock
       /\ UNCHANGED deploymentVars
    \/ \E caller \in Accounts :
          \/ reinitializeEIP712(caller)
          \/ upgradeAndReinitialize(caller)
          \/ upgradeToForeign(caller)
          \/ \E target \in Implementations : upgrade(caller, target)
    \/ ForeignRuns
    \/ \E id \in ChainIds : ChainForks(id)

DeploymentSpec ==
    DeploymentInit /\ [][DeploymentNext]_<<vars, deploymentVars>>

-----------------------------------------------------------------------------
(* Whatever order upgrades, the single re-initialisation, downgrades and   *)
(* forks come in, as long as only the repository's implementations have    *)
(* run, the digest that the contract serves to signers is the one the edge *)
(* computes for the chain it is on: neither the zero slots of an old proxy *)
(* nor the separator cached before a fork is ever served.                  *)
DigestsAgree ==
    genuine /\ implementation = "current" =>
        \A pi \in PublicInputs :
            eip712Digest(pi) = compute_eip712_digest(pi, chainId, Proxy)

(* What is left once the last admin has gone (onlyRole on unpause, on the  *)
(* setters, on grantRole and on reinitializeEIP712).  Whatever upgrades    *)
(* between the repository's implementations, and the calls they carry, do, *)
(* roles are only given up, the three addresses stand, and a pause is for  *)
(* good.  An upgrader still holds everything, for it may install other     *)
(* code; when the last one is gone too, the code and the cache stand.      *)
PowersAreFinal ==
    [][roles["DEFAULT_ADMIN_ROLE"] = {} =>
          /\ genuine' =>
                /\ \A r \in Roles : roles'[r] \subseteq roles[r]
                /\ UNCHANGED config
                /\ paused => paused'
          /\ genuine /\ roles["UPGRADER_ROLE"] = {} =>
                UNCHANGED <<genuine, implementation, initialized, cache>>
      ]_<<vars, deploymentVars>>

(* SessionKeyAlreadyUsed and InvalidTimestamp are final answers: as long   *)
(* as only the repository's implementations run, no upgrade or downgrade,  *)
(* with a call or without, no governance and no other submission ever      *)
(* makes a stale call acceptable again (checks 5 and 7a over the storage   *)
(* that the proxy keeps).                                                  *)
RejectionsAreFinal ==
    [][genuine' => \A call \in Calls : Stale(call) => Stale(call)'
      ]_<<vars, deploymentVars>>
=============================================================================
