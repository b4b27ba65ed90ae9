# InfraVeritas Energy: TLA+ development

Metering devices sign energy readings; an aggregator turns each signed payload
into a zero-knowledge proof and submits it to a contract on an EVM chain; the
contract records every accepted proof once, in order, with the gap since the
device's previous one. This directory specifies the parts of that system where
order, failure and repetition matter, model-checks them on small instances with
TLC, and proves their main invariants with TLAPS.

## 1. Inventory

| Part (source) | State it keeps | Operations | Talks to |
|---|---|---|---|
| `DeviceRegistry` (`contracts/src/DeviceRegistry.sol`) | record per public key (status, location, registration time), `deviceCount`, roles | register, revoke, reactivate, suspend, role changes; `isAuthorized` (view) | asked by V3; its events feed the subgraph |
| `EnergyProofRegistryV3` (`contracts/src/EnergyProofRegistryV3.sol`) | used session keys, last epoch per device, three collaborator addresses, pause flag, roles, EIP-712 cache | `submitProof`, pause/unpause, three setters, roles, upgrade, `reinitializeEIP712` | calls registry and both verifiers (views); its events feed the subgraph |
| Submission queue (`aggregator/src/queue/index.ts`) | map of job records, list of pending ids; in memory only | enqueue, claim, complete, fail (retry up to a bound), quarantine | emits `enqueued` to the worker |
| Worker (`aggregator/src/worker/index.ts`) | `isProcessing` | drain, process one job await by await, route errors | queue, prover, chain client, validation pipeline |
| Chain client (`aggregator/src/chain/submit.ts`) | none (the transactions it has sent live in the mempool) | simulate, write, wait for the receipt, map errors to codes | RPC node, V3 |
| HTTP API (`aggregator/src/api/server.ts`) | none | `POST /submissions` (validate, dedupe, enqueue), `GET` a job | queue |
| Process (`aggregator/src/main.ts`) | wiring, database pool | start, shutdown on a signal | all of the above |
| Prover and encoding (`aggregator/src/prover`, `verify`) | backend handle | hash, witness, proof, local verification | worker |
| Validation (`aggregator/src/validation`) | one row per submission in the hypertable | z-score, drift, anomaly flags, insert | database, ensemble |
| Weather (`aggregator/src/validation/weather`) | a health flag per provider | fetch with timer and retry, pick the hour, classify | three public services |
| Edge (`edge/hal`, `edge/network`, `edge/scripts`) | device key; a script's current session | sample, serialise, sign, submit once, poll | HTTP API |
| Proxy and scripts (`contracts/script`) | implementation, initialised version, cached separator | deploy, upgrade, re-initialise | V3 |
| Subgraph (`subgraph/src`) | entity per device and proof, protocol counters | one handler per event | reads both contracts' events |
| Circuit (`zk/circuits/v08`) | none | relation between payload, signature and public inputs | prover, Honk verifier |

The behaviours that are hard to test, each with the line where it bites, are
listed under `hazards` in `PROJECT.json`. They fall into six groups.

* **The aggregator is one event loop with many awaits.** Submissions arrive
  while the worker is anywhere inside a job. Between the simulation of a call,
  its broadcast, its mining and the receipt, the chain, its governance and the
  process itself can change. Receipts time out, answers get lost, transactions
  are dropped, the process dies, and the queue dies with it.
* **The contract decides by caches.** Replay and order are checked against two
  mappings, not against the event log that everybody else reads; 0 is both an
  epoch and the mark of "no epoch yet".
* **The registry is rebuilt from events.** The subgraph sees events only, and
  its counters assume that they form legal histories.
* **Governance overlaps with traffic.** Collaborators are replaced, roles move,
  the contract is paused and its implementation is exchanged while submissions
  are in flight, and the chain itself may fork.
* **One number has three encodings.** What the device serialises and signs, what
  the proof is made of and what the contract hands to the verifier must denote
  the same payload at every boundary of their widths and signs.
* **The cross-check trusts nobody.** Three services answer late, wrongly, or not
  at all, side by side with two database queries; a result must say no more
  than the answers support.

What makes each part correct:

* registry: the counter, the statuses and the event log agree, and what
  registration recorded is final;
* V3: a session at most once ever, epochs of a device in order, exact caches,
  rejections that stay valid, and without an admin no role granted, no address moved, no
  pause lifted: what is left is to give roles up, to pause, to submit and, for an upgrader,
  to install other code;
* queue and worker: one job at a time, none forgotten, bounded attempts, each
  claimed job settled once, every job settled eventually;
* encodings: device, witness and contract mean the same numbers;
* weather and validation: "ok" means agreement, and only trusted rows influence a score;
* index: entities and counters agree with the registry they were folded from;
* edge: a script ends, and if the aggregator has a chain client says SUCCESS only of what
  the contract accepted;
* proxy: no upgrade or downgrade between the repository's own implementations undoes the
  contract's promises or serves a stale separator (an upgrader may install any other code,
  of which nothing can be promised);
* composition: what the client polls and what the hypertable stores never claim
  more than what the chain accepted, whatever failed on the way.

## 2. Modules

| Module | What it is |
|---|---|
| `AccessControl` | OpenZeppelin's role functions, instantiated by both contracts |
| `DeviceRegistry` | the registry contract with its event log |
| `ProofLedger` | abstract specification of V3: a growing list of accepted proofs, each measured against the device's previous entry *in the list* |
| `EnergyProofRegistryV3` | the proof contract; `LedgerSpec` is its refinement of `ProofLedger` (with `ledger <- log`) |
| `SubmissionQueue` | the queue with any client that settles only what it has claimed |
| `Aggregator` | API, queue, worker, chain client, mempool and contract composed; it EXTENDS `EnergyProofRegistryV3` and `SubmissionQueue`; `DisciplinedClient` is its refinement of the latter |
| `Deployment` | the contract over the life of its proxy: upgrades, re-initialisation, forks, and both computations of the EIP-712 digest; it EXTENDS `EnergyProofRegistryV3` |
| `Subgraph` | the index as a fold of both contracts' events; it EXTENDS `DeviceRegistry` and takes its proofs from `ProofLedger` |
| `Ensemble` | pure part of the weather check: nearest hour per provider, median, deviation, status |
| `Weather` | three concurrent fetches with timers, retries, abandonment and the health flags; it EXTENDS `Ensemble` |
| `Validation` | the pipeline over a hypertable: three promises, two statistics, six flags, one insert; it EXTENDS `Ensemble` |
| `Payload` | pure part of the edge: sampling, serialisation, hash, signature, request schema, witness, circuit, public inputs |
| `Edge` | a script, the network, the API with its rate limit, and a worker abridged to what `Aggregator` shows of it; it EXTENDS `Payload` and `SubmissionQueue` |
| `MC...` | values for TLC; the registry alone has none, `MCSubgraph` runs it together with its index |
| `DeviceRegistryProofs`, `EnergyProofRegistryV3Proofs`, `DeploymentProofs`, `SubmissionQueueProofs`, `AggregatorProofs`, `SubgraphProofs`, `EdgeProofs` | theorems about the module each is named after; those about a composition extend those about its parts |
| `CrossCheckProofs` | theorems about `Weather` and `Validation` over the `Ensemble` they share |

### How the state corresponds to the code

**Contracts.** Transactions are serial, so an external function is one action;
a reverting call changes nothing and is the stuttering step. A mapping is a
function or a set, an emitted event an element of a sequence. Keccak of a
fixed-width concatenation is the tuple it hashes. Calldata is reduced to what the
checks distinguish: whether lengths are right, whether the two hashes agree,
which verifiers accept the signature and the proof. `SubmitChecks` keeps the
eleven checks of `submitProof` (modifiers included) in the code's order, with
the error each reverts with: `Accepts` is their conjunction, `RevertReason` the
first that fails, and both the transaction and the aggregator's simulation use
them. V3 sees the registry only through `isAuthorized`; the set of authorized
keys of every registry address may change between any two transactions.

**Queue.** `records[id].status = "absent"` stands for an id the map does not
have. `enqueue` emits `enqueued` synchronously; if the worker is idle its listener
claims within the same call, so `enqueueAndClaim` is one action and `first` is
the head of the list after the push. `lose` is the end of the process.

**Aggregator.** `pc` is where the worker is suspended:

| `pc` | Code |
|---|---|
| `idle` | `isProcessing` is false |
| `drain` | in `drain()`, between two jobs |
| `local` | `process()` up to local proof verification |
| `simulate`, `write`, `receipt` | the three awaits of `V3ChainClient.submitProof` |
| `validate` | `await this.validationPipeline.process(...)` |
| `finish` | before `queue.complete` |

`txs` is what has been broadcast with the operator key and is `pending`, `success`,
`reverted` or `dropped`. Transactions are mined in nonce order against the
contract state of that moment: `Mine` runs the contract's own `submitProof`. A
receipt wait ends with a receipt or with an exception, and that exception is not
a `ChainSubmissionError`, since line 198 of `chain/submit.ts` is outside the `try`
blocks. `rows` counts the rows inserted per session. `env` is the set of environment variables the
process was started with, from which `main.ts` wires it: `ChainLive` is a chain client or the
mock mode without one, `Validating` a pipeline or none (`buildPoolConfig`). A proof verifier in
`RevertingVerifiers` reverts on a bad proof, as the generated one does, instead of returning
false; the ABI does not know its error, so `mapChainError` makes it `UNKNOWN`. `Faults` selects what may go
wrong in a run: `rpc` (a request fails before or after it had effect), `receipt`,
`drop`, `prover` (an exception in hashing, witness or proof), `database` (the
pipeline throws or saves nothing) and `restart`. `Operators` are the accounts that may be
given `OPERATOR_ROLE`; those beside the aggregator's own submit the same calls at any
point (`OthersSubmit`), and the history variable `others` notes the sessions they won.

**Proxy.** `Deployment` adds the ERC-1967 slot, the version of `Initializable`, the
two cache slots and `block.chainid`. A proxy starts as `Deploy.s.sol` leaves it or
as the one `UpgradeV3ToV0_3.s.sol` was written for, whose cache slots are zero.
`upgrade` and `upgradeAndReinitialize` are what the two scripts send; anyone with the
role may also send them in another order, go back, or attach another call. `_authorizeUpgrade`
asks for the role and nothing else, so `upgradeToForeign` installs any other code, which
may at once or later (`ForeignRuns`) leave any storage and any new events behind and put an
implementation of the repository back. The history variable `genuine` says that this has not
happened; what is claimed of upgrades is claimed under it.

**Subgraph.** `chain` is the events of both contracts in mined order, `cursor` how far
graph-node is; a handler and the saving of its entities are one transaction, so they are one
action. Entity maps grow by load-or-create.

**Weather.** `calls[p].at` is the await the fetch of provider p is suspended at (`request`,
`pause`, `retry`, `body`), or its outcome. When a query of the pipeline fails,
`Promise.all` rejects and `Abandon` leaves the requests in flight; all they can still do
is to set a health flag, in whichever order (`LateAnswer`). Irradiance is in W/m^2 and may be
negative, as no provider refuses that; each provider has its own notion of a missing value
(-999 is NASA's only). `Closest` is the providers' loop with its running best entry.
Medians are doubled, and roots and quotients are multiplied out, so thresholds are exact;
a negative median, whose quotient reaches no threshold, is a case of `Diverges`.

**Validation.** `ensemble`, `zscore` and `drift` are the three promises and settle in
any order. The ensemble returns `classify` of up to three readings, which is what `Weather`
shows of it. `started` counts the calls, so that a row or an outcome can be traced to its
call. Times are in days; the energies and thresholds keep their ratios.

**Edge.** `client.stage` is where the script is: posting, sleeping between polls, or
getting. `wire` holds requests that have left and may arrive after their sender gave up;
`reply` is the answer to the current request, if it is not lost. `live` tells whether the
aggregator has a chain client; without one a proved job is complete (`Done`). A payload that can
not be packed raises in `client.submit` and counts as a transport error (`StartRun`). `hits` counts the
requests of the current minute. Integers keep widths: an int64 or uint64 is two
bytes of `BYTE` values each, the field and the ABI slot are `FIELD_SIZE` and `SLOT`
with the order the real ones have (`PayloadAssumption`), so wrap-around happens
where it does in the code. Totals are recursive functions over the readings, as the code's
loops are: one over the integers for the aggregator, one modulo `FIELD_SIZE` for the circuit.

Names with an underscore, such as `fail_OneMore`, are wrong variants of the operator
they precede. No specification uses them; each exists so that some property can
be seen to fail when the code is wrong in that way.

## 3. Runs

| Run | Question | Instance |
|---|---|---|
| `ledger` | Replay, order, drift and exact caches; does V3 implement `ProofLedger`? | 2 devices, 3 sessions, epochs 0, 1, 3 around the clock's 1..2, drift 1, gap limit 1; symmetric devices and sessions; one registry and one verifier of each kind, so its specification `FixedAddressesSpec` leaves out the setters, which are never enabled then |
| `deployment` | What can governance and upgrades undo while no foreign code has run, what is left without an admin and without an upgrader, and is the digest served the edge's? | one account with every subset of the roles, 2 registries, 2 signature and 2 proof verifiers, 1 device, 2 sessions, epochs 1..3 (3 is always in the future), 2 implementations and foreign code that leaves either of 2 storages behind, 2 chain ids, words of 16 values with coordinates at both ends of the signed one |
| `aggregator` | Safety of the composition under `rpc`, `receipt`, `database` and `restart` faults, beside a second operator that submits the same sessions | 1 device, 2 sessions with an epoch each, a badly signed body for the first and one the circuit rejects for the second, 2 attempts, restarts while fewer than 2 transactions were sent, chain client and database configured |
| `aggregator_live` | Does every accepted submission settle? | as `aggregator` without the second operator, with `receipt`, `drop` and `prover` faults, any governance and any delay of the mempool, without restarts (`MaxTxs` is 0); with a chain client and a `DATABASE_URL`, and in mock mode with a database only; a second proof verifier that reverts |
| `weather` | What may be called ok, is the nearest hour used, does every fetch settle? | 3 providers, a good and a refused timestamp, 5 bodies each: broken, refused, unreadable, with gaps, NASA's -999 from two of them, negative, dark, dawn and bright, with ties and out of order |
| `validation` | Does the caller hear what was stored, which rows influence a score, when can drift be raised? | 2 devices, 2 calls over 3 days, histories of 0, 3, 5, 10 and 12 rows around the minimum of 10, with trusted and untrusted ones |
| `subgraph` | Do counter, statuses and log of the registry agree, is identity final, and does the index agree with both contracts? | 2 valid keys and 1 of the wrong length, a valid and an invalid location, 4 device events, 2 proofs of 2 devices, days of 2 seconds; symmetric keys, devices and sessions |
| `edge` | Do the encodings agree, are outcomes true, does a run of the script end? | 2 sessions with 3 payloads each (north, south, too short; dark, with a total above a uint64, out of range), with a chain client and in mock mode, 2 runs, 2 polls, a rate limit of 1, 1 restart, 2 attempts |
| `epoch_zero`, `quarantine_gas`, `database_stall`, `negative_coordinates` | Statements of the repository that the code does not keep (section 6) | those of the runs above; of the aggregator smaller ones, with at most `receipt` as a fault and one attempt for `database_stall` |

Why the bounds are enough. The contracts' properties relate at most two entries
or two events; 2 devices separate "same device" from "another device", 3 sessions
allow a third entry after a pair, and epochs include 0, a gap equal to the limit,
one above it, and one the drift check rejects. Four device events per log cover
register, suspend, revoke and reactivate of one device, or a shorter life with
another device's event in between; longer lives are covered by the registry's
theorems. The deployment's two chain ids allow a fork and the way back, and its one account
takes every combination of roles, which is what the guards look at. A poll limit
above the rate limit lets a script run into it; one restart is enough to lose a
job between 202 and the next poll. The histories of `validation` straddle the
minimum sample size, and each provider of `weather` has a body on either side
of the dark and divergence thresholds. In the composition two attempts are the
least that retry, two sessions make the worker's pass continue with a second job, and
two transactions are enough for a duplicate broadcast; a retry can send a second
transaction of the same session, and a restart can send a third.
A second operator can win either session before, between and after the aggregator's
attempts. Foreign code that gives back every role and forgets every session, and one that
pauses, re-points and forges, bring about the opposite ends of what it may do.
The bounds `MaxTime`, `MaxForeignLog`, `MaxEvents`, `MaxTxs`, `MaxProofs`, `LastDay`, `MaxCalls`, `MaxRuns`, `MaxPolls` and `MaxRestarts` are guards and so appear in the
specifications; the proofs do not depend on their values.

### Fairness

`FairSpec` assumes weak fairness of `WorkerStep` and of `Validate`, and of nothing else.
`WorkerStep` is justified by the code: the event loop keeps running, viem ends
requests and receipt waits after its timeout, and the prover is a local
computation. `Validate` ends only if the database answers, which
the code does not enforce (no connection or query timeout on the pool); it is
the separate assumption `DatabaseAnswers`, and run `database_stall` shows that
`EveryJobSettles` needs it. Blocks, mining, governance and clients have no
fairness: a transaction may stay pending for ever, and the worker still gets on
through the receipt timeout.

`FairEdgeSpec` assumes weak fairness of the script's own steps: httpx ends a request
after its timeout, `sleep` returns, and the loop looks at the clock. The aggregator, its
worker and the network owe nothing: `RunEnds` holds against a server that never answers.

`FairWeatherSpec` is `TimersFire` and `BodiesEnd`. A request ends by its
`AbortController`, a pause by its own timer. That a body which has begun to arrive
also ends is an assumption about the services: the timer is cleared once the
headers are there. Without `BodiesEnd` a request that waits
for its body need not end, and `FetchSettles` says nothing about that.

## 4. Proofs

All theorems hold for every value of the constants that satisfies the named assumptions:
any number of accounts, devices, sessions, jobs, attempts, runs, rows and readings, any widths
of words, and any values of the bounds. TLC evaluates every assumption in the runs.

| Assumption | What it asks, and why the code justifies it |
|---|---|
| `RegistryAssumption`, `V3Assumption` | admin and initial addresses are among the addresses; there are finitely many keys; well-formed keys are keys, valid locations are locations, reverting verifiers are verifiers; epochs, windows and bounds are numbers, the clock's bound is positive |
| `QueueAssumption` | at least one attempt; "no error" is not an error code |
| `DeploymentAssumption` | an ABI word has an even number of values; chain ids fit it and are not 0; struct fields fit their types |
| `AggregatorAssumption` | jobs are device and session, the codes are those of `ChainErrorCode` and the worker; the operator is one of the operators, which are accounts, and the local verifiers are verifiers; provable inputs are among the calls; faults and environments are of the modelled kinds |
| `SubgraphAssumption` | there are finitely many devices; epochs are numbers; a day has at least one second |
| `PayloadAssumption` | sums of products of two uint64 fit the field and the field fits a slot, as for 2^64, the BN254 prime and 2^256 (they need not fit a uint64, and the second session's total does not) |
| `EdgeAssumption` | job ids are the session keys of the payloads; the limits are numbers |
| `WeatherAssumption`, `ValidationAssumption` | hours and bodies are of their types; submissions are typed, an ensemble has at most three readings (three providers), seeded rows are older than the modelled calls, the days form an interval |

Every invariant that a run checks has a theorem, and so has every action property and every
refinement. The arguments:

* **`EnergyProofRegistryV3Proofs`** proves `TypeOK`, then one inductive invariant
  `VInv`. `SessionAtMostOnce` follows the cache only because the cache equals the log
  (`StorageMatchesLog`), and `EpochsIncrease` is not inductive by itself: a new entry
  is compared with the cached timestamp only, so `VInv` adds that the cache bounds every
  logged epoch of its device (`CacheBoundsLog`). That a new entry becomes the latest of its
  device needs a greatest index of a nonempty set of indices, which
  `GreatestIndex` derives from the well-foundedness of `<`. The refinement theorem
  `ContractImplementsLedger` uses `VInv`: the caches being exact is what lets
  `submitProof` map to `Accept`. Two action properties of the contract by itself (`StaleForever`,
  `NoAdminNoGovernance`) follow from `TypeOK` with a case per action; the runs check their
  forms over the life of the proxy, `RejectionsAreFinal` and `PowersAreFinal`.
* **`DeviceRegistryProofs`** first shows that every step is a registration, a status
  change that the device's latest event permits, or leaves the devices alone
  (`Shapes`); each theorem then has two cases. `HistoryIsLegal` is inductive only with
  `EventsDetermineStatus`, because the code guards by status and the history speaks of
  events.
* **`DeploymentProofs`** shows that a history of the proxy in which only the repository's
  implementations run is one of the contract (`DeploymentSpec /\ []genuine => Spec`,
  `ProxyIsTheContract`), which carries the contract's theorems over its upgrades, whatever
  call they carry. The premise is needed: foreign code can clear the mappings and grant any
  role. `PowersEndWithTheirHolders` says when it no longer can, which is when admins and
  upgraders are both gone. That
  `domainSeparator()` never serves a stale value needs the invariant
  `CacheIsConsistent`: not that the cache is current, which a fork disproves, but that it is
  right for the chain id stored with it, and that the zero id of an old proxy is no
  chain's. `DigestsNeverDiverge` adds that `abi.encode`, a residue, and the edge's
  encoders, which distinguish cases, agree on words of any width.
* **`SubmissionQueueProofs`** has one invariant, `QInv`, over a list and a map
  (`Consistent`, an operator of both, so that it can be taken between two operations):
  `enqueueAndClaim` is the two lemmas `EnqueueAgrees` and `ClaimAgrees` in succession.
* **`AggregatorProofs`** extends the last one and that of the contract. The composition's
  steps are steps of the contract or leave it alone (`ChainSteps`), and they call the queue as
  its specification says (`WorkerIsDisciplined`), so both invariants come along. `WorkerInv`
  adds the worker: it holds a job exactly while it is busy, which makes `SingleFlight`
  inductive. `ChainInv` adds what the worker knows at each await: past the chain only with an
  accepted session, at a receipt only with a transaction of its job, before the insert
  only without a row. `ExactlyOneSuccess` needs that a transaction is mined by the contract's
  own `submitProof`, for a call of the session it is filed under, and that a session another
  operator submitted is used from then on, so none of ours can succeed. An error that names
  a permanent reason stays true because the contract's storage only grows
  (`StorageOnlyGrows`), for `InvalidTimestamp` as long as a session has one epoch. `RetriesUsedUp` is the
  queue's share (`QInv`): only its last attempt fails a job, whichever path of the worker reports.
* **`SubgraphProofs`** shows that the composition's registry and ledger are those of their own
  specifications. The handlers cannot read a contract; what links registry and index is
  the chain, through the status its first n events announce: at its end that is the
  contract's, at the cursor the entities'. That the history is legal (`ChainIsLegal`) makes each
  handler move the counter of the status it finds, so counters equal cardinalities. The
  daily statistics are cardinalities of sets of submissions, one for each proof, since
  the ledger repeats no id. The entities' types (`SubgraphShape`) are inductive by themselves,
  that the counters stay natural numbers is not: it is read off the cardinalities they equal.
* **`CrossCheckProofs`** is about data more than about steps. Sums over finite sets
  (`SumFunction` picks elements in an arbitrary order) are unfolded by a smallest counterexample
  (`SumExists`, `SumStep`); medians and deviations of two and three readings, of either sign, follow by cases.
  `NearestHourIsUsed` is an induction over the places of a series: after each, the running
  best is a nearest readable entry so far, or 0 if there was none.
  `DriftIsLopsided` is an inequality of the second moments of two samples (`SquaresOutweigh`)
  that holds for any readings. `ReturnedMeansStored` needs `CallInv`, which numbers the
  calls: types alone do not say that a row belongs to one call.
* **`EdgeProofs`** has two halves. `SuccessIsReal` and `PollingIsTracked` hold because each
  hop keeps a promise: a request carries its run's session, a response was true
  when it was given, with a chain client a record is complete only for an accepted session, and no restart
  takes a session out of the contract. `EncodingsHold` follows every word of a payload through
  bytes, field elements, sums and slots. The library's `FlattenSeq` and the totals are
  recursive functions on an interval; that such a function exists (`LoopExists`) and what it
  holds at each place (`FlattenEven`, `TotalBounds`, `SameTotals`) is shown by induction
  over positions, with the set of good positions in place of a predicate (`Climb`).
  `SubmissionsInv` says that every job is a payload as the device packed and signed it. The
  contract computes the inputs the proof was made for exactly when the total is below `WORD`.
  `SouthIsNeverProved` is the converse: a negative coordinate always makes the circuit fail.

Only model-checked: liveness (`EveryJobSettles`, `FetchSettles`, `RunEnds`), which TLAPS does
not prove under fairness, and of the four statements that are refuted, the counterexamples.

## 5. What is not modelled

* Cryptography, gas and calldata encoding. Signatures and proofs are accepted or
  not, by verifier.
* Chain reorganisations: a mined transaction stays mined (the client asks for one
  confirmation and treats it as final).
* `initialize()` itself: it runs in the proxy's constructor, and `Init` is the state it
  leaves. `nonReentrant` never rejects, since `submitProof` makes only view calls.
* The steps of `Deploy.s.sol` and `DeployLocal.s.sol`, which are simulated and sent once by hand.
* The contract's zero-address checks (addresses are model values), the decoding of
  the P-256 library's answer in `P256VerifierAdapter`, key storage of the device.
* Chain reorganisations as graph-node undoes them.
* Generated and vendored code (ABI, Honk verifier, OpenZeppelin beyond the functions
  mapped), legacy directories, the dashboard.

## 6. Findings

Four statements of the repository are refuted by a run; `PROJECT.json` quotes them.

1. `epoch_zero`: "per-device timestamps strictly increasing" has an exception for
   epoch 0. `EpochsIncrease` is the property the contract has.
2. `quarantine_gas`: a session whose receipt wait timed out can end `quarantined`
   although it was accepted; a quarantined job may have spent gas.
3. `database_stall`: a database that does not answer blocks submissions, though
   validation is described as best effort.
4. `negative_coordinates`: a payload with a negative latitude or longitude is
   serialised as 2^64 - a, proved as p - a and verified as 2^256 - a. The circuit's
   equality of the first two fails, so every submission from the southern or western
   hemisphere is quarantined, although schema and registry accept it.
   `EncodingsAgree` is what holds: without negative coordinates device and witness
   always agree, and the contract with them when the total energy fits a uint64. A larger
   total is proved and never sent: viem refuses to encode the call. Both halves are
   theorems (`EncodingsHold`, `SouthIsNeverProved`), so neither is owed to the small words of the runs.

Met while modelling, without a run of their own. Of the first five the models show the
behaviour and the property that does hold is worded around it:

* `worker/index.ts:23-24` has the alert codes (`AccessControlUnauthorizedAccount`,
  `ReentrancyGuardReentrantCall`) "Fail terminal; ops must intervene". Their branch (256-259)
  calls `queue.fail` like that of the retries, so a job whose operator lost its role is pending
  again until its attempts are used up. `RetriesAreUsed` asks for the use of all attempts for
  the codes listed as retries only.
* `ensemble.ts:34` and `anomaly.ts:14` have sources that do not agree reported as divergent. The
  deviation is divided by the median (182), which is negative if the readings are, and no
  provider refuses those: such sources are "ok" however far apart. `OkMeansAgreement`
  promises agreement for a median that is not negative.
* `openMeteo.ts:17` announces "one retry on 5xx or timeout"; a timeout is thrown as a
  `ProviderError`, which the catch at 179 passes on (`TimesOut`).
* `openMeteo.ts:16` announces 5 s per request; the timer is cleared with the headers (213), and
  the body, read at 108, may take for ever (`BodiesEnd` is an assumption).
* `sepolia_smoke.py:194` prints "V3 contract accepted the proof" for every complete job. An
  aggregator in mock mode (`main.ts:62-65`, `worker/index.ts:201-205`) completes jobs with
  nothing sent, and its answer does not tell. `OutcomesAreTrue` promises that SUCCESS is true
  when there is a chain client.
* `Deploy.s.sol:61` registers the optional test device as the deployer, but only the
  operator was granted `OPERATOR_ROLE` on the registry. Unless both are one account the
  call reverts and with it the script, although `.env.example:28` promises the registration.
* `V3:203` says that governance must call `reinitializeEIP712` to persist a separator after a
  fork; once the version is 2 that call always reverts. Nothing depends on it: the
  separator is rebuilt at each read (`SeparatorNeverStale`).
* `V3:256-266` and `edge/hal/eip712.py` say that the signature is over the EIP-712 digest;
  `submitProof` verifies it over `payloadHash`, as `UpgradeV3ToV0_3_1.s.sol` explains.
* `statistics.ts` says that untrusted rows are excluded from the baseline;
  `detectDrift`'s query has no such filter.
* `submit.ts:64` wants `InvalidZKProof` quarantined as bad data. The generated verifier reverts
  with an error of its own before V3 could say so; that error is not in the ABI, becomes
  `UNKNOWN`, and the job is retried and then fails.
* `queue/index.ts` expects the edge to retry after a restart; the scripts post once.

## 7. Plan

Written: the two contracts, the queue and the composed aggregator first, since
acceptance by the contract is what everything else reports about; then the weather
check, the validation pipeline, the index, the edge and the life of the proxy.

The theorems came in the same order: the contracts and the queue, then what their compositions
keep of them, then the arithmetic of the cross-check and of the encodings.

What is left:

1. A refinement of `Aggregator` by the worker of `Edge`: that its abridged worker shows all that the
   composed one does, which `EdgeUsesQueue` and `WorkerIsDisciplined` only say of the queue.
2. The same between `Weather` and the ensemble promise of `Validation`: every result of the former
   is a `classify` of at most three readings.
3. An action property for the queue: attempts are never taken back, and a settled record
   stays as it is until the process ends.
