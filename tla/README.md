# Formal models of the Kudora node's admission path, setup and IBC transfers

This directory holds TLA+ models of the parts of the Kudora node (`src/`)
that decide whether a transaction is admitted, of the process-wide EVM
setup that has to happen exactly once before that, of the IBC middleware
stacks a received transfer passes through, and of the start-up wiring that
builds them. TLC model-checks the
models on small instances, and TLAPS proves the central safety properties
for every value of the constants.

## 1. The system and its parts

| Part | Code | State it owns | Operations |
|---|---|---|---|
| Ante dispatcher | `app/tokenfactory.go` 156-179 (older copy `unnamed/part_002` 136-156) | none | route on the **first** extension option: Ethereum option → EVM chain, dynamic-fee option or none → Cosmos chain, other → `ErrUnknownExtensionOptions` |
| Cosmos ante chain | `unnamed/part_001` 58-92, `app/ante/wasm_handler.go` | account sequence, balance (in the caller's branch) | 22 decorators in a fixed order: RejectMessages, AuthzLimiter, SetUpContext, 4 wasm decorators, CircuitBreaker, ExtensionOptions, …, DeductFee, …, SigVerification, IncrementSequence, RedundantRelay, GasWanted |
| EVM ante chain | `app/ante/evm_handler.go` | nonce, balance; the pending-tx listener | EVMMono (nonce, balance and fee in one step), TxListener (CheckTx only) |
| Caller's branch | BaseApp, outside `src/` | committed state | the chain runs on a cached branch, written back only if it returns nil outside simulation |
| Handler options | `app/tokenfactory.go` 116-154, `unnamed/part_004` 138-177 | the options bundle | thirteen nil checks with named errors, then chain construction |
| One-time EVM setup | `app/ibc.go` 386-509 | `evmInitOnce`, `evmInitErr`, the SDK denom registry, the EVM configurator | `EVMAppOptions` → `sync.Once.Do(initEVM)`; `initEVM` defaults the chain id, looks up `ChainsCoinInfo`, registers two denoms, parses the EVM chain id, calls `Configure` |
| IBC stacks | `app/ibc.go` 178-260 | routers; through the layers: bank balances, ERC20 balances, PFM's in-flight forwards, the ratelimit flows and quotas | v1 transfer: ERC20 ∘ RateLimit ∘ PFM ∘ Transfer; v2: ERC20 ∘ Transfer; each middleware acts on the way down, calls the layer below, and acts on the acknowledgement on the way up |
| Registration at startup | `app/ibc.go` 47-152, `app/ibc_middleware.go` 21-66, `unnamed/part_004` 29-125, `app/tokenfactory.go` 1-96 | keepers, store keys, routers, the wasm config | straight-line construction, each step an early return (or a panic) on error |
| SDK config | `unnamed/part_003`, `app/ibc.go` 511-541 | global SDK config | set and seal at package load |

How they interact. At startup, `setAnteHandler` assembles the options from
the app's keepers, and `NewAnteHandler` validates them and builds both
chains. Once per process, `EVMAppOptions` registers the denoms and
configures the EVM that EVMMono relies on. After that, CheckTx, DeliverTx
and Simulate each call the dispatcher once per transaction, one call after
another. Each call runs on a branch of the committed state. The pending-tx
listener's effect is the one thing that escapes the branch.

On the IBC side, `registerIBCModules` builds the IBC, transfer, ratelimit,
PFM and ICA keepers, then `configureIBCMiddlewareStacks` wraps them into
stacks, calls `registerWasmModules` (which also installs the ante handler)
and sets the v1 and v2 routers. A relayer later delivers packets one
message at a time; core IBC runs the stack's `OnRecvPacket` on a cached
branch and writes it back only when the acknowledgement is a success or
asynchronous, while the receipt and the acknowledgement are always written.

The hard behaviours are the following:
- **Decorator order.** A fee is debitted five decorators before the
  sequence moves.
- **Failure anywhere in the chain.** The branch must then be dropped.
- **Ethereum messages hidden in authz `MsgExec`.** These reach the Cosmos
  chain.
- **Routing on the first extension option only.**
- **A listener whose effect is never rolled back.**
- **Concurrent first callers of `EVMAppOptions`.**
- **A sticky error from the `sync.Once`.** It is never retried.
- **Registries touched before the setup runs.**
- **The order of the middleware layers.** ERC20 has to be outermost; the
  rate limit must see every inbound transfer it is meant to limit.
- **Packets on two routes in any order.** Rate-limit windows reset and
  governance adds limits between them.
- **Start-up steps that read keepers built by later steps**, and an error
  that one line drops and another checks.

PROJECT.json lists every hazard with the line where it bites.

## 2. Modules

| Module | Models |
|---|---|
| `AnteTypes` | constants and vocabulary: signers, extension-option lists, message sets (including `MsgExec` wrapping), transactions |
| `AntePipeline` | the dispatcher, both chains decorator by decorator, the caller's branch and its commit |
| `AnteAdmission` | the abstract admission contract (what the pipeline promises) |
| `AnteOptions` | `NewAnteHandler`'s option validation |
| `EVMInitOnce` | `EVMAppOptions`, `sync.Once` and `initEVM` with concurrent callers |
| `IBCTransferTypes` | constants and vocabulary of the IBC models: versions, packet kinds, the transfer state a receive touches |
| `ICS20Receive` | the abstract receive contract: a packet is received (or refused) in one step |
| `IBCTransferStack` | the v1 and v2 transfer stacks layer by layer, core IBC's commit rule, the rate-limit window and governance limits |
| `IBCWiring` | `registerIBCModules`, `initIBCMiddlewareKeepers`, `registerWasmModules` and the stack/router configuration as a sequence of steps |
| `AntePipelineProofs`, `EVMInitOnceProofs`, `IBCTransferStackProofs` | TLAPS proofs |
| `MCAntePipeline`, `MCEVMInitOnce`, `MCIBCTransferStack`, `MCIBCWiring` | TLC instances |

### AntePipeline

Each invocation has the following state:
- `phase`, `tx`, `mode` (check or simulate), `chain` and `pc`, the index of
  the next decorator;
- the branch copies `brSeq` and `brBal`.

The committed state is `seq`, `bal`, the listener's `notified` set, and the
history `accepted`.

The actions are the following:
- `Dispatch(t, m)`: the closure is called and routes; the branch is taken.
- `RejectUnknownExtension`: the default case of the switch.
- `PassDecorator`: one decorator succeeds. Its effect on the branch is a fee
  debit (DeductFee, EVMMono) or a sequence step (IncrementSequence, EVMMono).
  If it is the TxListener in CheckTx, the transaction is also added to
  `notified`.
- `FailDecorator`: any decorator but the listener fails, which ends the
  chain; the branch is dropped.
- `Admit`: the chain returned nil, and the branch is written back unless
  the call is a simulation.

The model interprets these verdicts:
- RejectMessages and AuthzLimiter: the message kinds;
- CircuitBreaker: the disabled types;
- ExtensionOptions: `HasDynamicFeeExtensionOption`;
- DeductFee: the funds;
- SigVerification: the sequence, and the signature except in simulation;
- EVMMono: the message kind, nonce, signature and funds.

Every other verdict (gas, memo, timeouts, fee market) is a
nondeterministic failure. The EVM nonce is the account sequence.

### EVMInitOnce

`sync.Once.Do` is modelled by what the Go runtime does:
1. a load of `done` on the fast path;
2. on the slow path, `Lock`;
3. a second load of `done`;
4. the call of `f`;
5. the deferred `done.Store(1)` (`Finish`);
6. the deferred `Unlock`.

`initEVM` is three actions, one per effect on global state:
- `RegisterDisplay`: the lookup, then the display denom;
- `RegisterBase`: the base denom;
- `Configure`: the parse, then `Configure`.

A chain id is a sequence of tokens (words, numerals, `_`, `-`), so that
`strings.Split` and `strconv.ParseUint` are modelled by what they do. The
denom registry and the configurator start in any state, because other code
of the process may have touched them before.

### AnteOptions

The thirteen nil checks are made in code order, and each one is an early
return. The options contain every field, or lack one.

### IBCTransferStack

State: `sent`/`inflight` (packets the counterparty sent, not yet
delivered), `acks` (the ack written per sequence), `st` (the committed
transfer state: receiver voucher balance, PFM's hold account, ERC20
balance, the ratelimit flow per path, PFM's outstanding forwards),
`recvd` (history: amount received per path in the window), `limits`
(paths with a rate limit). The packet being received is `cur`, at layer
`i` of `Route(version)`, going `dir` down or up with `ack`, on the cached
branch `br`.

`TransferStack` and `TransferStackV2` are the layer lists of
`configureIBCMiddlewareStacks`, outermost first. One action per layer and
direction: `ERC20Recv`, `RateLimitRecv` (count the flow, or refuse with an
error ack without calling the layers below), `PFMRecv` (redirect a
forward to the hold account), `TransferRecv` (mint or fail), then
`PFMAck` (send the held voucher on and answer asynchronously, only after a
success), `RateLimitAck`, `ERC20Ack` (convert after a success when the
denom has a pair; a failed conversion is an error ack). `WriteAck` is core
IBC's commit rule. `ForwardDone` writes PFM's delayed ack (0 retries,
`ibc.go:194`), `EpochReset` ends a rate-limit window, `AddRateLimit` is
`MsgAddRateLimit` signed by the gov authority. What each layer does is
taken from the libraries it comes from; the order and the set of layers
are this repository's.

The detailed stack implements `ICS20Receive` under the mapping that puts
the packet in the middle of the stack back in flight:
`Contract == INSTANCE ICS20Receive WITH inflight <- ...`; every layer step
but `WriteAck` is a stutter of the contract.

### IBCWiring

`Order` is the sequence of steps of `registerIBCModules` with the calls it
makes (stores, IBC keeper, transfer keeper, middleware keepers, ICA
keepers, stacks, wasm store/config/keeper/rest, routers, light clients,
module registration). Each step records the keepers it reads (`zeroUse`
collects those not yet built) and builds, and the gov authority it hands
out. The environment (`env`: whether the address codec, store or module
registration, the wasm config and the rest of `registerWasmModules`
succeed; the configured `SimulationGasLimit`, nil, 0 or positive) is
chosen in the initial state. `IBCKeeper` uses the gov address whose error
`ibc.go:70` drops; `MiddlewareKeepers` renders it again and returns the
error.

## 3. Runs

| Run | Config | Checks | Shows |
|---|---|---|---|
| `ante_pipeline` | `MCAntePipeline.cfg` | TypeOK, LedgerMatchesHistory, FeePerSequence, EthMsgsOnlyThroughEVMChain, ListenerSeesExactlyAdmitted | sequences stay gap-free and replay-free, fees match sequence steps, the message families stay on their chain, and the listener matches admissions |
| `ante_refinement` | `MCAntePipelineRefine.cfg` | AdmissionRefined | the pipeline implements `AnteAdmission` under the identity mapping on `seq`, `bal` and `accepted` |
| `evm_init_once` | `MCEVMInitOnce.cfg` | InitRunsAtMostOnce, CallersConverge, NilMeansConfigured | at most one `initEVM`, one outcome for all callers, and nil only after full setup |
| `evm_init_liveness` | `MCEVMInitOnceLive.cfg` | AllCallersReturn | every caller of `EVMAppOptions` returns |
| `options_validation` | `MCAnteOptions.cfg` | BuiltOnlyWhenComplete (violation expected) | a handler is built with a nil `FeegrantKeeper` or `PendingTxListener` |
| `ibc_transfer_stack` | `MCIBCTransferStack.cfg` | TypeOK, InflowWithinQuota, ReceiveRefinesContract | with limits on v1 paths, no limited path receives more than its quota in a window, and the layered stacks refine the one-step contract |
| `ibc_v2_rate_limit` | `MCIBCTransferStackV2.cfg` | InflowWithinQuota (violation expected) | a limit governance puts on a v2 path is never enforced: v2 packets do not pass a RateLimit layer |
| `ibc_wiring` | `MCIBCWiring.cfg` | WiredOnSuccess, NoKeeperUsedBeforeBuilt | a nil return of `registerIBCModules` means every keeper is built with the gov authority, both routers are set and the simulation gas limit is positive; no step reads a keeper before it is built |

**Bounds.** The ante runs use the following bounds:
- two signers, under symmetry;
- five extension-option lists: none, Ethereum, dynamic fee, unknown, and
  dynamic fee followed by Ethereum;
- four message sets, including `MsgExec(MsgEthereumTx)`;
- sequence numbers up to 2, a balance of two fees, and three invocations.

These bounds are enough for each of the following to happen:
- a signer admitted twice;
- a replay of sequence 0;
- a fee that cannot be paid;
- every routing case;
- a failure at every decorator position;
- a simulation, which is never committed.

The refinement run uses sequence numbers up to 1 and a balance of one fee,
to stay within time.

The setup runs use three goroutines and four chain ids: the default, the
development id, the numeric `"12000"` (it parses but has no coin info),
and `kudora_12000-1_other` (it has coin info but does not parse). With
every initial state of the two registries, every error path of `initEVM`
is reached.

The IBC stack runs use three packets of amounts 1 or 2 against a quota
of 2, over eight packet kinds: v1 plain, v1 with a token pair, v1
forwarded, v1 forward to an unusable hop, v1 invalid, v2 with a pair, v2
whose conversion reverts, v2 with a (ignored) forward memo. This makes
every layer take every branch: a packet refused over quota, one that
fits, a forward sent on and one refused, a conversion and a revert, an
invalid packet, a window reset and a limit added mid-run (150 631 states).
The wiring run takes every environment, with `SimulationGasLimit` nil, 0
or 1.

**Mutants.** Every property of a passing run is broken by a mutant of the
code it is about (listed in PROJECT.json):
- IncrementSequence before SigVerification;
- SigVerification dropped;
- the EVM mono decorator not advancing the nonce;
- `MsgEthereumTx` missing from the authz limiter;
- the listener before EVMMono;
- the balance check dropped;
- a `Once` made of a compare-and-swap, or without its re-check, or missing
  an unlock;
- a dropped parse error;
- `parts[0]` in place of `parts[len-1]`;
- the RateLimit layer left out, or ERC20 wrapped under PFM;
- PFM sending the held voucher on whatever the ack below was;
- `initIBCMiddlewareKeepers` dropping the address error, a
  `SimulationGasLimit` of 0 not defaulted, and the stacks configured
  before the middleware keepers.

**Fairness.** Only `evm_init_liveness` uses fairness. Every goroutine that
has called is weakly fair: the Go scheduler runs runnable goroutines.
`Lock` is strongly fair, because `sync.Mutex` enters starvation mode and
hands the lock to a waiter that has waited more than 1 ms. The ante
pipeline has no liveness property: the caller drives it one transaction at
a time, and the IBC stack has none either: delivery depends on relayers,
which the code cannot make progress.

## 4. Proofs (TLAPS)

| Theorem | Module | Statement |
|---|---|---|
| `TypeCorrect` | AntePipelineProofs | `Spec => []TypeOK` |
| `FeePerSequenceHolds` | AntePipelineProofs | `Spec => []FeePerSequence` |
| `EthMsgsOnlyThroughEVMChainHolds` | AntePipelineProofs | `Spec => []EthMsgsOnlyThroughEVMChain` |
| `ListenerSeesExactlyAdmittedHolds` | AntePipelineProofs | `Spec => []ListenerSeesExactlyAdmitted` |
| `AdmissionRefinedHolds` | AntePipelineProofs | `Spec => AdmissionRefined` (the pipeline refines `AnteAdmission`) |
| `TypeCorrect` | EVMInitOnceProofs | `Spec => []TypeOK` |
| `InitAtMostOnce` | EVMInitOnceProofs | `Spec => []InitRunsAtMostOnce` |
| `CallersConvergeHolds` | EVMInitOnceProofs | `Spec => []CallersConverge` |
| `NilMeansConfiguredHolds` | EVMInitOnceProofs | `Spec => []NilMeansConfigured` |
| `TypeCorrect` | IBCTransferStackProofs | `Spec => []TypeOK` |
| `InflowWithinQuotaHolds` | IBCTransferStackProofs | `LimitPaths ⊆ {"v1"} ⇒ (Spec => []InflowWithinQuota)` |
| `ReceiveRefinesContractHolds` | IBCTransferStackProofs | `Spec => ReceiveRefinesContract` (the stacks refine `ICS20Receive`) |
| `TypeCorrect` | IBCWiringProofs | `Spec => []TypeOK` |
| `WiredOnSuccessHolds` | IBCWiringProofs | `Spec => []WiredOnSuccess` |
| `NoKeeperUsedBeforeBuiltHolds` | IBCWiringProofs | `Spec => []NoKeeperUsedBeforeBuilt` |

The proofs assume only the named ASSUMEs of the modules:
- `Fee` is a positive natural, and `InitBal` and `MaxSeq` are naturals;
- `Signers` is non-empty;
- `NoCaller` is not a caller;
- numerals are distinct from the other tokens;
- `MaxPackets` and `Quota` are naturals, `MaxAmt` a positive natural,
  `LimitPaths ⊆ Versions`, every packet kind a packet datum;
- `SimGasConfigs` are naturals and `NoLimit` is not one.

`InflowWithinQuotaHolds` also assumes that governance limits only v1 paths:
for a v2 path it is false, as the `ibc_v2_rate_limit` run shows.

**`FeePerSequence`.** This property is not inductive: in the Cosmos chain
the branch holds a debited fee and an unadvanced sequence between
DeductFee (decorator 15) and IncrementSequence (decorator 20). The
strengthening `BranchBalanced` says that during a running invocation the
following sum equals `InitBal`:
- the payer's branch balance;
- the fee times the payer's branch sequence;
- `Owed`, which is one fee while `15 < pc ≤ 20` in the Cosmos chain and 0
  otherwise.

The lemmas `CosmosChainShape` and `EVMChainShape` pin down where the two
chains debit and advance. `Admit` happens at `pc = Len + 1`, where nothing
is owed, so the committed state stays balanced.

**`EthMsgsOnlyThroughEVMChain` and `ListenerSeesExactlyAdmitted`.** Both
are about the history, and a running invocation has done part of its
checks. So each is strengthened by what the decorators passed so far
have established.

`FamilyChecked` says that a running transaction:
- carries no `MsgEthereumTx` past `RejectMessages`;
- has no `MsgExec` wrapping one past the authz limiter;
- carries only `MsgEthereumTx` past the EVM mono decorator.

`ListenerInStep` says the listener has been told of `EvmAdmitted` (the
EVM admissions of the history). The running transaction is added once it
has passed `TxListener` in CheckTx.

`FamilyPositions` pins those decorators to their places. The listener is
the last of the EVM chain, so no `FailDecorator` can separate its
notification from `Admit`, which appends the transaction
(`EvmTxsAppend`). In simulation, neither the listener nor the history
changes.

**`InitRunsAtMostOnce`.** This property is also not inductive. It is
strengthened by two invariants:
- `MutualExclusion`: exactly the mutex holder is inside `doSlow`;
- `RunsAccounted`: `runs` is 1 exactly when `done` is set or a caller is
  inside `initEVM`, and `done` is unset while one is.

The step that enters `initEVM` is taken under the mutex with `done = 0`,
and by these two invariants nobody else can be inside, so `runs` was 0.

**`CallersConverge` and `NilMeansConfigured`.** Both are strengthened by
`RInv`, which is `IInv` and two further invariants.

`ResultsFinal` says two things:
- a caller at the deferred unlock, at the read of `evmInitErr` or
  returned sees `done = 1`;
- a returned caller's result is the current `evmInitErr`.

`Finish` is the only step that writes `evmInitErr`. It runs inside
`initEVM`, where `done = 0` (`RunsAccounted`). So no caller has returned
yet, and the value later callers read is final.

`SetUpProgress` follows the one run of `initEVM`:
- `lerr` is nil until an error is raised;
- the display denom is registered at `base`, and both denoms at
  `configure`;
- at `finish` with no error, `SetUpWith(c)` holds: the EVM is configured
  with the chain id that `c` parsed;
- once `done` is set with a nil `evmInitErr`, `SetUpWith(d)` holds for
  some caller `d`.

`OnlyHolder` (from `MutualExclusion`) keeps other callers out of these
steps. `SetUpFrame` and `SetUpKept` show that steps outside `initEVM`
leave the setup alone: they touch neither the registries nor the
argument of a caller that has called.

**`InflowWithinQuota`.** The received amount is history and the
limiter's count lives in the branch while a packet is inside the stack,
so the property is not inductive. The strengthening `QInv` adds:
- `InStack`: the layer index stays within the packet's stack, the ack is
  `"none"` exactly on the way down;
- `FlowCovers`: for every limited path, the amount received is at most
  the committed flow, which is at most the quota; the same holds for the
  branch of the packet being received, and once the packet is counted
  (below the rate limit on the way down, or on its way up with a success
  or asynchronous ack) the branch flow covers it too.

`LayerFacts` and `RouteLen` pin down where each layer sits: the rate
limit is the second layer of v1 only, ICS20 the last. `WriteAck` commits
the branch only for a counted packet, so the committed flow still covers
what was received. `TypeCorrect` rests on the guards of `PFMAck` and
`ERC20Ack`, which spend the held or credited voucher only when it is
there.

**`AdmissionRefined`.** The refinement proof follows the usual two steps:
- `Init` maps to `Admission!Init`;
- every step of the pipeline maps to an `AnteAdmission` step or to a
  stutter of `<<seq, bal, accepted>>`.

Only `Admit` changes those variables. It commits the branch, so the proof
needs to know what the branch is at that point. The strengthening
`AInv` is the invariant `EInv` (used for the two history properties)
plus `BranchTracks`. During a running invocation, `BranchTracks` says:
- the branch balance is the committed balance, minus the fee once the
  payer's fee is debited (`FeeDebited`: past `DeductFee` in the Cosmos
  chain, past the mono decorator in the EVM chain);
- the branch sequence is the committed one plus one once it has advanced
  (`SeqAdvanced`);
- a debited payer could pay the fee;
- past the signature check (`SigChecked`), the transaction's sequence is
  the committed one, and in CheckTx its signature is valid.

`PayerPositions` pins `DeductFee`, `SigVerification` and
`IncrementSequence` to indices 15, 19 and 20 of the Cosmos chain. At
`Admit`, `pc = Len + 1`, so all three facts hold. The committed step is
then exactly `Admission!Admit` for the same transaction and chain:
- in CheckTx, the abstract guard (funds, sequence, signature, and the
  family of the chain that `CarriesEthMsg` selects) is what the pipeline
  established;
- outside CheckTx, the same guard holds without the signature.

A failure or a simulation leaves the committed state alone.

**`ReceiveRefinesContract`.** The contract `ICS20Receive` receives a
packet in one step. The stacks spread that step over up to four layers,
down and back up, on a cached branch. In the mapping, the packet inside
the stack still counts as in flight (`CInflight`). The proof shows:
- every layer step is a contract stutter;
- `RecvPacket` is a stutter too, since the packet moves from `inflight`
  to `cur`;
- `WriteAck` is the contract's `Recv(cur)` (`WriteAckRefines`);
- `Send`, `ForwardDone`, `EpochReset` and `AddRateLimit` are the
  contract's actions of the same name.

The strengthening `CInv` adds two invariants to `TypeOK` and `InStack`.

`Fresh`: packets in flight and the packet in the stack have used
sequences, and the packet in the stack is no longer in flight. So
`Send` never collides with the packet in the stack, and `WriteAck`
removes exactly that packet.

`OnTrack`: while a packet is in the stack, an error ack is one the
contract refuses (`ErrRefused`). Under any other ack, one definition per
part of the branch says that part is the committed state plus the
effects of the layers run so far:
- `FlowTrack`: the rate limit's count, with the quota check it passed;
- `DestTrack`: the account ICS20 credits, PFM's hold for a forwarded
  packet;
- `DownTrack`: nothing but the flow changes on the way down;
- `UpTrack`: on the way up, ICS20's mint, PFM's send to the next hop and
  the async ack, and ERC20's conversion.

`PFMDone` and `ERC20Done` say how far the way up has got; `FlowDone`
says the same for the flow, which the rate limit counts on the way
down.

There is one lemma per action, each showing the action keeps `CInv`,
and `CInvStep` combines them. At `WriteAck` (`i = 0`, on the way up),
`OnTrack` gives one of two things:
- the ack is `"err"` and the contract refuses the packet, so only the
  ack is written;
- the packet is not refused (its flow was within the quota, it is valid,
  a forward named an open hop, a conversion did not revert), and the
  branch field by field equals `RecvState`, the contract's committed
  state (`RecvStateFields`, `StateExt`).

This refinement needs no assumption on `LimitPaths`. TLC checked `CInv`
as an invariant with `LimitPaths` equal to `{"v1"}` and to
`{"v1","v2"}`.

**`WiredOnSuccess` and `NoKeeperUsedBeforeBuilt`.** Neither is
inductive: both speak of the end of the start-up, and a state in the middle
must already carry what the earlier steps did. The strengthening `WInv`
says:
- `zeroUse` is empty;
- a running start-up has `pc` within `Order`, and an `ok` one has
  `pc = Len(Order) + 1`;
- while running or ok, `Established` holds:
  - every keeper whose building step (`BuildStep`) lies before `pc` is
    built;
  - once `MiddlewareKeepers` is past, `env.addrOk` holds, so `GovAddr`
    is the real address;
  - every recorded authority is `GovAddr` or `"gov"`;
  - the wasm key, the simulation gas limit and the routers are set once
    their steps are past.

`OrderFacts` ties each step name to its index in `Order`. With it, each of
the 14 actions is shown to keep `WInv`:
- a step's `Use` reads only keepers whose `BuildStep` is below it;
- a failure path leaves everything but `outcome`, which is then neither
  running nor ok;
- `WasmConfig` replaces nil and 0 by 5000000 (`EnvFacts`,
  `SimGasAssumption`).

At `ok`, `pc` is 15. There every `BuildStep` is below `pc` and `addrOk`
holds, which gives `WiredOnSuccess`. So the error dropped on line 70 of
`ibc.go` can never reach a nil return, in any environment. The reason is
that `initIBCMiddlewareKeepers` renders the gov address again and returns
that error.

**Only model-checked.** The following are checked by TLC and not proved:
- the liveness property `AllCallersReturn`;
- `LedgerMatchesHistory`, which is about a filtered sequence (`SelectSeq`)
  and would need induction over the history;
- the violation runs, which show properties that do not hold.

Liveness and `ENABLED` are outside what TLAPS checks here.

## 5. Findings

- **Options validation is incomplete** (`app/tokenfactory.go:116`). The
  spec requires every bundle field to be non-nil. `NewAnteHandler` does not
  check `FeegrantKeeper` or `PendingTxListener`.
- **IBC v2 transfers bypass the rate limit** (`app/ibc.go:249`). The
  comments at `ibc.go:199` and `ibc_middleware.go:36-38` say rate limiting
  protects the chain by limiting the tokens flowing through IBC channels;
  the v2 stack is ERC20 → Transfer, so a limit governance sets is counted
  only for v1 packets. `ibc.go:247` acknowledges that RateLimit does not
  support v2 yet.

## 6. Not modelled, and why

- **Gas metering, fee-market prices and memo/timeout checks.** These are
  abstracted into nondeterministic decorator failures.
- **Outbound IBC transfers, their acks and timeouts, and PFM's refunds.**
  The ratelimit and PFM keepers are built with a nil ICS4Wrapper
  (`ibc_middleware.go:47, 61`) and the transfer keeper sends through the
  channel keeper directly; what that does to send-side accounting is
  decided inside libraries that are not in this repository.
- **The ICA and wasm IBC stacks beyond their construction**, and the CLI
  codec maps `RegisterIBC`, `RegisterPacketForward`, `RegisterRateLimit`:
  interface registration with no state a property could tell apart.
- **What the keeper constructors do internally.** `IBCWiring` records only
  which keepers each step reads, builds and authorises.
- **The SDK config seal** (`unnamed/part_003`): straight-line code with
  nothing to interleave.
- **The scripts and the Go tests.** They are not part of the node.
- **`uint64` overflow in `parseEVMChainID`, and whitespace in chain ids.**
  Numerals stand for their values.

## 7. Plan

1. `LedgerMatchesHistory` in TLAPS, through a history-free restatement
   (each accepted entry's sequence is below the committed one).
2. Action properties of the IBC stacks, proved from `CInv`. One example:
   a step that writes an ack other than an error commits exactly the
   contract's state.
