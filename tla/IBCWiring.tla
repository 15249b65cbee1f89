----------------------------- MODULE IBCWiring ------------------------------
(***************************************************************************)
(* The start-up wiring of IBC in Kudora: registerIBCModules (ibc.go) with  *)
(* the calls it makes, initIBCMiddlewareKeepers (ibc_middleware.go),       *)
(* configureIBCMiddlewareStacks (ibc.go) and registerWasmModules           *)
(* (part_004), one step per keeper, stack or registration, in the order   *)
(* the code runs them.  A step that reads a keeper field of App before the *)
(* step that builds it captures a nil or zero keeper.  What the host       *)
(* environment decides (whether the codec renders the gov address, whether *)
(* a registration or the wasm node config fails, the configured simulation *)
(* gas limit) is chosen once in the initial state.                         *)
(***************************************************************************)
EXTENDS Naturals, Sequences

CONSTANTS
  NoLimit,          \* a wasm config with SimulationGasLimit nil
  SimGasConfigs     \* SimulationGasLimit values an operator may configure

ASSUME SimGasAssumption == SimGasConfigs \subseteq Nat /\ NoLimit \notin Nat

DefaultSimGasLimit == 5000000

(* The keepers the wiring builds; Bank, Auth, Erc20 and Upgrade come from
   dependency injection before registerIBCModules runs.                    *)
Keepers == {"IBC", "Transfer", "RateLimit", "PFM", "ICAHost",
            "ICAController", "Wasm"}

Injected == {"Bank", "Auth", "Erc20", "Upgrade"}

Env == [addrOk : BOOLEAN, storesOk : BOOLEAN, wasmKeyPre : BOOLEAN,
        wasmCfgOk : BOOLEAN, simGasCfg : SimGasConfigs \cup {NoLimit},
        wasmRestOk : BOOLEAN, modulesOk : BOOLEAN]

(* Mutant of Order: the middleware stacks configured before the middleware
   keepers they wrap are built.                                            *)
OrderStacksFirst ==
  << "Stores", "IBCKeeper", "TransferKeeper", "MiddlewareStacks",
     "MiddlewareKeepers", "ICAHostKeeper", "ICAControllerKeeper",
     "WasmStore", "WasmConfig", "WasmKeeper", "WasmRest", "Routers",
     "LightClients", "RegisterModules" >>

Order ==
  << "Stores", "IBCKeeper", "TransferKeeper", "MiddlewareKeepers",
     "ICAHostKeeper", "ICAControllerKeeper", "MiddlewareStacks",
     "WasmStore", "WasmConfig", "WasmKeeper", "WasmRest", "Routers",
     "LightClients", "RegisterModules" >>

VARIABLES
  env,        \* what the environment answers, fixed for the run
  pc,         \* index in Order of the next step
  outcome,    \* "running", or how registerIBCModules ended
  built,      \* keepers built so far
  zeroUse,    \* keepers some step read before they were built
  authority,  \* gov authority string each governed keeper was given
  wasmKey,    \* the wasm store key is registered
  simGas,     \* SimulationGasLimit handed to the ante handler
  stacks,     \* middleware stacks assembled
  routers     \* IBC versions whose router is set

vars == << env, pc, outcome, built, zeroUse, authority, wasmKey, simGas,
           stacks, routers >>

Init ==
  /\ env \in Env
  /\ pc = 1
  /\ outcome = "running"
  /\ built = Injected
  /\ zeroUse = {}
  /\ authority = << >>
  /\ wasmKey = env.wasmKeyPre
  /\ simGas = NoLimit
  /\ stacks = FALSE
  /\ routers = {}

Step == Order[pc]

(* The step reads keepers ks of App and builds keepers bs.                 *)
Use(ks, bs) ==
  /\ zeroUse' = zeroUse \cup (ks \ built)
  /\ built' = built \cup bs

Govern(ks, a) == authority' = [k \in DOMAIN authority \cup ks |->
                                 IF k \in ks THEN a ELSE authority[k]]

GovAddr == IF env.addrOk THEN "gov" ELSE ""

(* The next step of registerIBCModules is s.                              *)
At(s) == outcome = "running" /\ Step = s /\ pc' = pc + 1

(* The step returns an error, or panics, and the start-up stops there.    *)
Fail(o) == outcome' = o /\ UNCHANGED << built, zeroUse, authority >>

-----------------------------------------------------------------------------
(* Store keys and legacy param subspaces of the IBC modules.               *)
Stores ==
  /\ At("Stores")
  /\ \/ env.storesOk /\ UNCHANGED << outcome, built, zeroUse, authority >>
     \/ ~env.storesOk /\ Fail("err")
  /\ UNCHANGED << env, wasmKey, simGas, stacks, routers >>

(* The gov address is rendered with its error dropped, and the IBC keeper
   is built with it as authority.                                          *)
IBCKeeper ==
  /\ At("IBCKeeper")
  /\ Use({"Auth", "Upgrade"}, {"IBC"})
  /\ Govern({"IBC"}, GovAddr)
  /\ UNCHANGED << env, outcome, wasmKey, simGas, stacks, routers >>

TransferKeeper ==
  /\ At("TransferKeeper")
  /\ Use({"IBC", "Auth", "Bank", "Erc20"}, {"Transfer"})
  /\ Govern({"Transfer"}, GovAddr)
  /\ UNCHANGED << env, outcome, wasmKey, simGas, stacks, routers >>

(* Mutant of MiddlewareKeepers: the error of the gov address dropped, as
   registerIBCModules does on its own line.                                *)
MiddlewareKeepersErrDropped ==
  /\ At("MiddlewareKeepers")
  /\ Use({"Auth", "IBC", "Bank", "Transfer"}, {"RateLimit", "PFM"})
  /\ Govern({"RateLimit", "PFM"}, GovAddr)
  /\ UNCHANGED << env, outcome, wasmKey, simGas, stacks, routers >>

(* initIBCMiddlewareKeepers renders the gov address again, returning its
   error, and builds the rate-limit and packet-forward keepers.            *)
MiddlewareKeepers ==
  /\ At("MiddlewareKeepers")
  /\ \/ /\ ~env.addrOk
        /\ Fail("err")
     \/ /\ env.addrOk
        /\ Use({"Auth", "IBC", "Bank", "Transfer"}, {"RateLimit", "PFM"})
        /\ Govern({"RateLimit", "PFM"}, "gov")
        /\ UNCHANGED outcome
  /\ UNCHANGED << env, wasmKey, simGas, stacks, routers >>

ICAHostKeeper ==
  /\ At("ICAHostKeeper")
  /\ Use({"IBC", "Auth"}, {"ICAHost"})
  /\ Govern({"ICAHost"}, GovAddr)
  /\ UNCHANGED << env, outcome, wasmKey, simGas, stacks, routers >>

ICAControllerKeeper ==
  /\ At("ICAControllerKeeper")
  /\ Use({"IBC"}, {"ICAController"})
  /\ Govern({"ICAController"}, GovAddr)
  /\ UNCHANGED << env, outcome, wasmKey, simGas, stacks, routers >>

(* The v1 transfer stack wraps the transfer, PFM, rate-limit and ERC20
   keepers; the ICA stacks wrap the ICA keepers.                           *)
MiddlewareStacks ==
  /\ At("MiddlewareStacks")
  /\ Use({"Transfer", "PFM", "RateLimit", "Erc20", "ICAController",
          "ICAHost"}, {})
  /\ stacks' = TRUE
  /\ UNCHANGED << env, outcome, authority, wasmKey, simGas, routers >>

(* registerWasmModules registers the wasm store key unless it already is.  *)
WasmStore ==
  /\ At("WasmStore")
  /\ wasmKey' = TRUE
  /\ UNCHANGED << env, outcome, built, zeroUse, authority, simGas, stacks,
                  routers >>

(* Mutant of WasmConfig: only a nil SimulationGasLimit is defaulted.      *)
WasmConfigNilOnly ==
  /\ At("WasmConfig")
  /\ \/ /\ ~env.wasmCfgOk
        /\ Fail("panic")
        /\ UNCHANGED simGas
     \/ /\ env.wasmCfgOk
        /\ simGas' = IF env.simGasCfg = NoLimit
                     THEN DefaultSimGasLimit ELSE env.simGasCfg
        /\ UNCHANGED << outcome, built, zeroUse, authority >>
  /\ UNCHANGED << env, wasmKey, stacks, routers >>

(* Reading the wasm node config may fail, and configureIBCMiddlewareStacks
   panics on the error; a SimulationGasLimit that is nil or 0 is replaced
   by the default.                                                         *)
WasmConfig ==
  /\ At("WasmConfig")
  /\ \/ /\ ~env.wasmCfgOk
        /\ Fail("panic")
        /\ UNCHANGED simGas
     \/ /\ env.wasmCfgOk
        /\ simGas' = IF env.simGasCfg = NoLimit \/ env.simGasCfg = 0
                     THEN DefaultSimGasLimit ELSE env.simGasCfg
        /\ UNCHANGED << outcome, built, zeroUse, authority >>
  /\ UNCHANGED << env, wasmKey, stacks, routers >>

(* The wasm keeper's authority is the gov module address as a string.     *)
WasmKeeper ==
  /\ At("WasmKeeper")
  /\ Use({"Auth", "Bank", "IBC", "Transfer"}, {"Wasm"})
  /\ Govern({"Wasm"}, "gov")
  /\ UNCHANGED << env, outcome, wasmKey, simGas, stacks, routers >>

(* The wasm module, the ante handler (with simGas), the snapshot extension,
   the post handler and the proto check: any error makes
   configureIBCMiddlewareStacks panic; then the wasm IBC handler.          *)
WasmRest ==
  /\ At("WasmRest")
  /\ \/ /\ ~env.wasmRestOk
        /\ Fail("panic")
     \/ /\ env.wasmRestOk
        /\ Use({"Wasm", "IBC"}, {})
        /\ UNCHANGED outcome
  /\ UNCHANGED << env, authority, wasmKey, simGas, stacks, routers >>

(* SetRouter and SetRouterV2 on the IBC keeper.                            *)
Routers ==
  /\ At("Routers")
  /\ Use({"IBC"}, {})
  /\ routers' = {"v1", "v2"}
  /\ UNCHANGED << env, outcome, authority, wasmKey, simGas, stacks >>

LightClients ==
  /\ At("LightClients")
  /\ Use({"IBC"}, {})
  /\ UNCHANGED << env, outcome, authority, wasmKey, simGas, stacks, routers >>

RegisterModules ==
  /\ At("RegisterModules")
  /\ \/ /\ ~env.modulesOk
        /\ Fail("err")
     \/ /\ env.modulesOk
        /\ Use({"IBC", "Transfer", "ICAController", "ICAHost", "PFM",
                "RateLimit"}, {})
        /\ outcome' = "ok"
  /\ UNCHANGED << env, authority, wasmKey, simGas, stacks, routers >>

(* The start-up has returned or panicked.                                  *)
Terminated == outcome # "running" /\ UNCHANGED vars

Next ==
  \/ Stores \/ IBCKeeper \/ TransferKeeper \/ MiddlewareKeepers
  \/ ICAHostKeeper \/ ICAControllerKeeper \/ MiddlewareStacks
  \/ WasmStore \/ WasmConfig \/ WasmKeeper \/ WasmRest \/ Routers
  \/ LightClients \/ RegisterModules \/ Terminated

Spec == Init /\ [][Next]_vars

-----------------------------------------------------------------------------
(* When registerIBCModules returns nil, IBC is wired for use: every keeper
   is built, both routers are set, every keeper that takes a gov authority
   got the real gov address (the error that line 70 of ibc.go drops must
   be caught before a nil return), the wasm store key is registered, and
   the ante handler got a positive
   simulation gas limit.                                                   *)
WiredOnSuccess ==
  outcome = "ok" =>
    /\ Keepers \subseteq built
    /\ routers = {"v1", "v2"}
    /\ wasmKey
    /\ \A k \in DOMAIN authority : authority[k] = "gov"
    /\ simGas \in Nat \ {0}

(* No step of the start-up reads a keeper field of App before the step
   that builds it: the comment of initIBCMiddlewareKeepers asks for it to
   run after the IBC and transfer keepers and before the stacks.          *)
NoKeeperUsedBeforeBuilt == zeroUse = {}
=============================================================================
