--------------------------- MODULE IBCWiringProofs ---------------------------
(***************************************************************************)
(* Proofs about the start-up wiring of IBCWiring, for every environment:   *)
(* every answer of the address codec, of store and module registration and *)
(* of the wasm node config, and every configured simulation gas limit.     *)
(***************************************************************************)
EXTENDS IBCWiring, TLAPS

Outcomes == {"running", "ok", "err", "panic"}

TypeOK ==
  /\ env \in Env
  /\ pc \in 1..Len(Order) + 1
  /\ outcome \in Outcomes
  /\ built \subseteq Keepers \cup Injected
  /\ zeroUse \subseteq Keepers \cup Injected
  /\ DOMAIN authority \subseteq Keepers
  /\ wasmKey \in BOOLEAN
  /\ simGas \in Nat \cup {NoLimit}
  /\ stacks \in BOOLEAN
  /\ routers \subseteq {"v1", "v2"}

(* The step of Order that builds each keeper.                              *)
BuildStep == [IBC |-> 2, Transfer |-> 3, RateLimit |-> 4, PFM |-> 4,
              ICAHost |-> 5, ICAController |-> 6, Wasm |-> 10]

(* While the start-up runs, and once it has returned nil, everything the
   steps before pc establish holds: their keepers are built, the gov
   address rendered without error once initIBCMiddlewareKeepers has
   passed, every authority handed out is that address or the wasm
   keeper's own gov string, the wasm key and gas limit are set once their
   steps are done, and the routers once Routers is.                        *)
Established ==
  /\ Injected \subseteq built
  /\ \A k \in Keepers : BuildStep[k] < pc => k \in built
  /\ pc > 4 => env.addrOk
  /\ \A k \in DOMAIN authority : authority[k] \in {GovAddr, "gov"}
  /\ pc > 8 => wasmKey
  /\ pc > 9 => simGas \in Nat \ {0}
  /\ pc > 12 => routers = {"v1", "v2"}

WInv ==
  /\ TypeOK
  /\ zeroUse = {}
  /\ outcome = "running" => pc \in 1..Len(Order)
  /\ outcome = "ok" => pc = Len(Order) + 1
  /\ outcome \in {"running", "ok"} => Established
-----------------------------------------------------------------------------
(* Order has fourteen steps, each named once.                              *)
LEMMA OrderFacts ==
  ASSUME NEW n \in 1..Len(Order)
  PROVE /\ Len(Order) = 14
        /\ Order[n] = "Stores" => n = 1
        /\ Order[n] = "IBCKeeper" => n = 2
        /\ Order[n] = "TransferKeeper" => n = 3
        /\ Order[n] = "MiddlewareKeepers" => n = 4
        /\ Order[n] = "ICAHostKeeper" => n = 5
        /\ Order[n] = "ICAControllerKeeper" => n = 6
        /\ Order[n] = "MiddlewareStacks" => n = 7
        /\ Order[n] = "WasmStore" => n = 8
        /\ Order[n] = "WasmConfig" => n = 9
        /\ Order[n] = "WasmKeeper" => n = 10
        /\ Order[n] = "WasmRest" => n = 11
        /\ Order[n] = "Routers" => n = 12
        /\ Order[n] = "LightClients" => n = 13
        /\ Order[n] = "RegisterModules" => n = 14
BY DEF Order

(* The initial state satisfies the invariant, whatever the environment.   *)
LEMMA WInvInit == Init => WInv
<1> SUFFICES ASSUME Init PROVE WInv
  OBVIOUS
<1>1. Len(Order) = 14
  BY DEF Order
<1>2. DOMAIN authority = {}
  BY DEF Init
<1>3. TypeOK
  <2>1. pc \in 1..Len(Order) + 1 /\ outcome \in Outcomes
    BY <1>1 DEF Init, Outcomes
  <2>2. /\ built \subseteq Keepers \cup Injected
        /\ zeroUse \subseteq Keepers \cup Injected
        /\ DOMAIN authority \subseteq Keepers
    BY <1>2 DEF Init
  <2>3. wasmKey \in BOOLEAN
    BY DEF Init, Env
  <2> QED
    BY <2>1, <2>2, <2>3 DEF Init, TypeOK
<1>4. Established
  BY <1>2 DEF Init, Established, BuildStep, Keepers, Injected
<1> QED
  BY <1>1, <1>3, <1>4 DEF Init, WInv
(* What the environment answers: the wasm config holds nil or a
   configured value.                                                      *)
LEMMA EnvFacts == ASSUME NEW e \in Env
                  PROVE  e.simGasCfg \in SimGasConfigs \cup {NoLimit}
BY DEF Env

(* Every step of the start-up keeps the invariant.                          *)
LEMMA WInvStep == WInv /\ [Next]_vars => WInv'
<1> SUFFICES ASSUME WInv, [Next]_vars PROVE WInv'
  OBVIOUS
<1>0. Len(Order) = 14
  BY DEF Order
<1> USE <1>0 DEF WInv, TypeOK, Outcomes
<1>1. CASE Stores
  <2>1. outcome = "running" /\ pc = 1 /\ pc' = 2 /\ env' = env
    BY <1>1, OrderFacts DEF Stores, At, Step
  <2>2. Established
    BY <2>1
  <2>3. CASE ~env.storesOk
    <3>1. outcome' = "err"
          /\ UNCHANGED << built, zeroUse, authority, wasmKey, simGas, stacks,
                          routers >>
      BY <1>1, <2>3, Zenon DEF Stores, Fail
    <3> QED
      BY <2>1, <3>1
  <2>4. CASE env.storesOk
    <3>1. /\ UNCHANGED << outcome, built, zeroUse, authority, wasmKey, simGas, stacks, routers >>
      BY <1>1, <2>4, Zenon DEF Stores, Fail
    <3>2. zeroUse' = {}
      BY <2>1, <2>2, <3>1, <2>4 DEF Established, BuildStep, Keepers, Injected
    <3>3. Injected \subseteq built'
      BY <2>1, <2>2, <3>1, <2>4 DEF Established
    <3>4. \A k \in Keepers : BuildStep[k] < pc' => k \in built'
      BY <2>1, <2>2, <3>1, <2>4 DEF Established, BuildStep, Keepers
    <3>5. pc' > 4 => env'.addrOk
      BY <2>1, <2>2, <3>1, <2>4 DEF Established
    <3>6. \A k \in DOMAIN authority' : authority'[k] \in {GovAddr', "gov"}
      BY <2>1, <2>2, <3>1, <2>4 DEF Established, GovAddr
    <3>7. /\ pc' > 8 => wasmKey'
          /\ pc' > 9 => simGas' \in Nat \ {0}
          /\ pc' > 12 => routers' = {"v1", "v2"}
      BY <2>1, <2>2, <3>1, <2>4 DEF Established
    <3>8. /\ DOMAIN authority' \subseteq Keepers
          /\ built' \subseteq Keepers \cup Injected
      BY <2>1, <2>2, <3>1, <2>4 DEF Keepers, Injected
    <3>9. Established'
      BY <3>3, <3>4, <3>5, <3>6, <3>7 DEF Established
    <3>10. TypeOK'
      BY <2>1, <3>1, <3>2, <3>8
    <3> QED
      BY <2>1, <3>1, <3>2, <3>9, <3>10
  <2> QED
    BY <2>3, <2>4
<1>2. CASE IBCKeeper
  <2>1. outcome = "running" /\ pc = 2 /\ pc' = 3 /\ env' = env
    BY <1>2, OrderFacts DEF IBCKeeper, At, Step
  <2>2. Established
    BY <2>1
  <2>3. /\ Use({"Auth", "Upgrade"}, {"IBC"}) /\ Govern({"IBC"}, GovAddr)
        /\ UNCHANGED << outcome, wasmKey, simGas, stacks, routers >>
    BY <1>2, Zenon DEF IBCKeeper
  <2>4. zeroUse' = {}
    BY <2>1, <2>2, <2>3 DEF Use, Govern, Established, BuildStep, Keepers, Injected
  <2>5. Injected \subseteq built'
    BY <2>1, <2>2, <2>3 DEF Use, Govern, Established
  <2>6. \A k \in Keepers : BuildStep[k] < pc' => k \in built'
    BY <2>1, <2>2, <2>3 DEF Use, Govern, Established, BuildStep, Keepers
  <2>7. pc' > 4 => env'.addrOk
    BY <2>1, <2>2, <2>3 DEF Established
  <2>8. \A k \in DOMAIN authority' : authority'[k] \in {GovAddr', "gov"}
    BY <2>1, <2>2, <2>3 DEF Use, Govern, Established, GovAddr
  <2>9. /\ pc' > 8 => wasmKey'
        /\ pc' > 9 => simGas' \in Nat \ {0}
        /\ pc' > 12 => routers' = {"v1", "v2"}
    BY <2>1, <2>2, <2>3 DEF Established
  <2>10. /\ DOMAIN authority' \subseteq Keepers
         /\ built' \subseteq Keepers \cup Injected
    BY <2>1, <2>2, <2>3 DEF Use, Govern, Keepers, Injected
  <2>11. Established'
    BY <2>5, <2>6, <2>7, <2>8, <2>9 DEF Established
  <2>12. TypeOK'
    BY <2>1, <2>3, <2>4, <2>10
  <2> QED
    BY <2>1, <2>3, <2>4, <2>11, <2>12
<1>3. CASE TransferKeeper
  <2>1. outcome = "running" /\ pc = 3 /\ pc' = 4 /\ env' = env
    BY <1>3, OrderFacts DEF TransferKeeper, At, Step
  <2>2. Established
    BY <2>1
  <2>3. /\ Use({"IBC", "Auth", "Bank", "Erc20"}, {"Transfer"})
        /\ Govern({"Transfer"}, GovAddr) /\ UNCHANGED << outcome, wasmKey, simGas, stacks, routers >>
    BY <1>3, Zenon DEF TransferKeeper
  <2>4. zeroUse' = {}
    BY <2>1, <2>2, <2>3 DEF Use, Govern, Established, BuildStep, Keepers, Injected
  <2>5. Injected \subseteq built'
    BY <2>1, <2>2, <2>3 DEF Use, Govern, Established
  <2>6. \A k \in Keepers : BuildStep[k] < pc' => k \in built'
    BY <2>1, <2>2, <2>3 DEF Use, Govern, Established, BuildStep, Keepers
  <2>7. pc' > 4 => env'.addrOk
    BY <2>1, <2>2, <2>3 DEF Established
  <2>8. \A k \in DOMAIN authority' : authority'[k] \in {GovAddr', "gov"}
    BY <2>1, <2>2, <2>3 DEF Use, Govern, Established, GovAddr
  <2>9. /\ pc' > 8 => wasmKey'
        /\ pc' > 9 => simGas' \in Nat \ {0}
        /\ pc' > 12 => routers' = {"v1", "v2"}
    BY <2>1, <2>2, <2>3 DEF Established
  <2>10. /\ DOMAIN authority' \subseteq Keepers
         /\ built' \subseteq Keepers \cup Injected
    BY <2>1, <2>2, <2>3 DEF Use, Govern, Keepers, Injected
  <2>11. Established'
    BY <2>5, <2>6, <2>7, <2>8, <2>9 DEF Established
  <2>12. TypeOK'
    BY <2>1, <2>3, <2>4, <2>10
  <2> QED
    BY <2>1, <2>3, <2>4, <2>11, <2>12
<1>4. CASE MiddlewareKeepers
  <2>1. outcome = "running" /\ pc = 4 /\ pc' = 5 /\ env' = env
    BY <1>4, OrderFacts DEF MiddlewareKeepers, At, Step
  <2>2. Established
    BY <2>1
  <2>3. CASE ~env.addrOk
    <3>1. outcome' = "err"
          /\ UNCHANGED << built, zeroUse, authority, wasmKey, simGas, stacks,
                          routers >>
      BY <1>4, <2>3, Zenon DEF MiddlewareKeepers, Fail
    <3> QED
      BY <2>1, <3>1
  <2>4. CASE env.addrOk
    <3>1. /\ Use({"Auth", "IBC", "Bank", "Transfer"}, {"RateLimit", "PFM"})
          /\ Govern({"RateLimit", "PFM"}, "gov") /\ UNCHANGED << outcome, wasmKey, simGas, stacks, routers >>
      BY <1>4, <2>4, Zenon DEF MiddlewareKeepers, Fail
    <3>2. zeroUse' = {}
      BY <2>1, <2>2, <3>1, <2>4 DEF Use, Govern, Established, BuildStep, Keepers, Injected
    <3>3. Injected \subseteq built'
      BY <2>1, <2>2, <3>1, <2>4 DEF Use, Govern, Established
    <3>4. \A k \in Keepers : BuildStep[k] < pc' => k \in built'
      BY <2>1, <2>2, <3>1, <2>4 DEF Use, Govern, Established, BuildStep, Keepers
    <3>5. pc' > 4 => env'.addrOk
      BY <2>1, <2>2, <3>1, <2>4 DEF Established
    <3>6. \A k \in DOMAIN authority' : authority'[k] \in {GovAddr', "gov"}
      BY <2>1, <2>2, <3>1, <2>4 DEF Use, Govern, Established, GovAddr
    <3>7. /\ pc' > 8 => wasmKey'
          /\ pc' > 9 => simGas' \in Nat \ {0}
          /\ pc' > 12 => routers' = {"v1", "v2"}
      BY <2>1, <2>2, <3>1, <2>4 DEF Established
    <3>8. /\ DOMAIN authority' \subseteq Keepers
          /\ built' \subseteq Keepers \cup Injected
      BY <2>1, <2>2, <3>1, <2>4 DEF Use, Govern, Keepers, Injected
    <3>9. Established'
      BY <3>3, <3>4, <3>5, <3>6, <3>7 DEF Established
    <3>10. TypeOK'
      BY <2>1, <3>1, <3>2, <3>8
    <3> QED
      BY <2>1, <3>1, <3>2, <3>9, <3>10
  <2> QED
    BY <2>3, <2>4
<1>5. CASE ICAHostKeeper
  <2>1. outcome = "running" /\ pc = 5 /\ pc' = 6 /\ env' = env
    BY <1>5, OrderFacts DEF ICAHostKeeper, At, Step
  <2>2. Established
    BY <2>1
  <2>3. /\ Use({"IBC", "Auth"}, {"ICAHost"}) /\ Govern({"ICAHost"}, GovAddr)
        /\ UNCHANGED << outcome, wasmKey, simGas, stacks, routers >>
    BY <1>5, Zenon DEF ICAHostKeeper
  <2>4. zeroUse' = {}
    BY <2>1, <2>2, <2>3 DEF Use, Govern, Established, BuildStep, Keepers, Injected
  <2>5. Injected \subseteq built'
    BY <2>1, <2>2, <2>3 DEF Use, Govern, Established
  <2>6. \A k \in Keepers : BuildStep[k] < pc' => k \in built'
    BY <2>1, <2>2, <2>3 DEF Use, Govern, Established, BuildStep, Keepers
  <2>7. pc' > 4 => env'.addrOk
    BY <2>1, <2>2, <2>3 DEF Established
  <2>8. \A k \in DOMAIN authority' : authority'[k] \in {GovAddr', "gov"}
    BY <2>1, <2>2, <2>3 DEF Use, Govern, Established, GovAddr
  <2>9. /\ pc' > 8 => wasmKey'
        /\ pc' > 9 => simGas' \in Nat \ {0}
        /\ pc' > 12 => routers' = {"v1", "v2"}
    BY <2>1, <2>2, <2>3 DEF Established
  <2>10. /\ DOMAIN authority' \subseteq Keepers
         /\ built' \subseteq Keepers \cup Injected
    BY <2>1, <2>2, <2>3 DEF Use, Govern, Keepers, Injected
  <2>11. Established'
    BY <2>5, <2>6, <2>7, <2>8, <2>9 DEF Established
  <2>12. TypeOK'
    BY <2>1, <2>3, <2>4, <2>10
  <2> QED
    BY <2>1, <2>3, <2>4, <2>11, <2>12
<1>6. CASE ICAControllerKeeper
  <2>1. outcome = "running" /\ pc = 6 /\ pc' = 7 /\ env' = env
    BY <1>6, OrderFacts DEF ICAControllerKeeper, At, Step
  <2>2. Established
    BY <2>1
  <2>3. /\ Use({"IBC"}, {"ICAController"})
        /\ Govern({"ICAController"}, GovAddr) /\ UNCHANGED << outcome, wasmKey, simGas, stacks, routers >>
    BY <1>6, Zenon DEF ICAControllerKeeper
  <2>4. zeroUse' = {}
    BY <2>1, <2>2, <2>3 DEF Use, Govern, Established, BuildStep, Keepers, Injected
  <2>5. Injected \subseteq built'
    BY <2>1, <2>2, <2>3 DEF Use, Govern, Established
  <2>6. \A k \in Keepers : BuildStep[k] < pc' => k \in built'
    BY <2>1, <2>2, <2>3 DEF Use, Govern, Established, BuildStep, Keepers
  <2>7. pc' > 4 => env'.addrOk
    BY <2>1, <2>2, <2>3 DEF Established
  <2>8. \A k \in DOMAIN authority' : authority'[k] \in {GovAddr', "gov"}
    BY <2>1, <2>2, <2>3 DEF Use, Govern, Established, GovAddr
  <2>9. /\ pc' > 8 => wasmKey'
        /\ pc' > 9 => simGas' \in Nat \ {0}
        /\ pc' > 12 => routers' = {"v1", "v2"}
    BY <2>1, <2>2, <2>3 DEF Established
  <2>10. /\ DOMAIN authority' \subseteq Keepers
         /\ built' \subseteq Keepers \cup Injected
    BY <2>1, <2>2, <2>3 DEF Use, Govern, Keepers, Injected
  <2>11. Established'
    BY <2>5, <2>6, <2>7, <2>8, <2>9 DEF Established
  <2>12. TypeOK'
    BY <2>1, <2>3, <2>4, <2>10
  <2> QED
    BY <2>1, <2>3, <2>4, <2>11, <2>12
<1>7. CASE MiddlewareStacks
  <2>1. outcome = "running" /\ pc = 7 /\ pc' = 8 /\ env' = env
    BY <1>7, OrderFacts DEF MiddlewareStacks, At, Step
  <2>2. Established
    BY <2>1
  <2>3. /\ Use({"Transfer", "PFM", "RateLimit", "Erc20", "ICAController",
             "ICAHost"}, {}) /\ stacks' = TRUE
        /\ UNCHANGED << outcome, authority, wasmKey, simGas, routers >>
    BY <1>7, Zenon DEF MiddlewareStacks
  <2>4. zeroUse' = {}
    BY <2>1, <2>2, <2>3 DEF Use, Established, BuildStep, Keepers, Injected
  <2>5. Injected \subseteq built'
    BY <2>1, <2>2, <2>3 DEF Use, Established
  <2>6. \A k \in Keepers : BuildStep[k] < pc' => k \in built'
    BY <2>1, <2>2, <2>3 DEF Use, Established, BuildStep, Keepers
  <2>7. pc' > 4 => env'.addrOk
    BY <2>1, <2>2, <2>3 DEF Established
  <2>8. \A k \in DOMAIN authority' : authority'[k] \in {GovAddr', "gov"}
    BY <2>1, <2>2, <2>3 DEF Use, Established, GovAddr
  <2>9. /\ pc' > 8 => wasmKey'
        /\ pc' > 9 => simGas' \in Nat \ {0}
        /\ pc' > 12 => routers' = {"v1", "v2"}
    BY <2>1, <2>2, <2>3 DEF Established
  <2>10. /\ DOMAIN authority' \subseteq Keepers
         /\ built' \subseteq Keepers \cup Injected
    BY <2>1, <2>2, <2>3 DEF Use, Keepers, Injected
  <2>11. Established'
    BY <2>5, <2>6, <2>7, <2>8, <2>9 DEF Established
  <2>12. TypeOK'
    BY <2>1, <2>3, <2>4, <2>10
  <2> QED
    BY <2>1, <2>3, <2>4, <2>11, <2>12
<1>8. CASE WasmStore
  <2>1. outcome = "running" /\ pc = 8 /\ pc' = 9 /\ env' = env
    BY <1>8, OrderFacts DEF WasmStore, At, Step
  <2>2. Established
    BY <2>1
  <2>3. /\ wasmKey' = TRUE
        /\ UNCHANGED << outcome, built, zeroUse, authority, simGas, stacks, routers >>
    BY <1>8, Zenon DEF WasmStore
  <2>4. zeroUse' = {}
    BY <2>1, <2>2, <2>3 DEF Established, BuildStep, Keepers, Injected
  <2>5. Injected \subseteq built'
    BY <2>1, <2>2, <2>3 DEF Established
  <2>6. \A k \in Keepers : BuildStep[k] < pc' => k \in built'
    BY <2>1, <2>2, <2>3 DEF Established, BuildStep, Keepers
  <2>7. pc' > 4 => env'.addrOk
    BY <2>1, <2>2, <2>3 DEF Established
  <2>8. \A k \in DOMAIN authority' : authority'[k] \in {GovAddr', "gov"}
    BY <2>1, <2>2, <2>3 DEF Established, GovAddr
  <2>9. /\ pc' > 8 => wasmKey'
        /\ pc' > 9 => simGas' \in Nat \ {0}
        /\ pc' > 12 => routers' = {"v1", "v2"}
    BY <2>1, <2>2, <2>3 DEF Established
  <2>10. /\ DOMAIN authority' \subseteq Keepers
         /\ built' \subseteq Keepers \cup Injected
    BY <2>1, <2>2, <2>3 DEF Keepers, Injected
  <2>11. Established'
    BY <2>5, <2>6, <2>7, <2>8, <2>9 DEF Established
  <2>12. TypeOK'
    BY <2>1, <2>3, <2>4, <2>10
  <2> QED
    BY <2>1, <2>3, <2>4, <2>11, <2>12
<1>9. CASE WasmConfig
  <2>1. outcome = "running" /\ pc = 9 /\ pc' = 10 /\ env' = env
    BY <1>9, OrderFacts DEF WasmConfig, At, Step
  <2>2. Established
    BY <2>1
  <2>3. CASE ~env.wasmCfgOk
    <3>1. outcome' = "panic"
          /\ UNCHANGED << built, zeroUse, authority, wasmKey, simGas, stacks,
                          routers >>
      BY <1>9, <2>3, Zenon DEF WasmConfig, Fail
    <3> QED
      BY <2>1, <3>1
  <2>4. CASE env.wasmCfgOk
    <3>1. /\ simGas' = IF env.simGasCfg = NoLimit \/ env.simGasCfg = 0
                     THEN DefaultSimGasLimit ELSE env.simGasCfg
          /\ UNCHANGED << outcome, built, zeroUse, authority, wasmKey, stacks,
                          routers >>
      BY <1>9, <2>4, Zenon DEF WasmConfig, Fail
    <3>2. env.simGasCfg \in SimGasConfigs \cup {NoLimit}
      BY EnvFacts
    <3>3. simGas' \in Nat \ {0}
      BY <3>1, <3>2, SimGasAssumption DEF DefaultSimGasLimit
    <3>4. zeroUse' = {}
      BY <2>1, <2>2, <3>1, <2>4, <3>3 DEF Established, BuildStep, Keepers, Injected
    <3>5. Injected \subseteq built'
      BY <2>1, <2>2, <3>1, <2>4, <3>3 DEF Established
    <3>6. \A k \in Keepers : BuildStep[k] < pc' => k \in built'
      BY <2>1, <2>2, <3>1, <2>4, <3>3 DEF Established, BuildStep, Keepers
    <3>7. pc' > 4 => env'.addrOk
      BY <2>1, <2>2, <3>1, <2>4, <3>3 DEF Established
    <3>8. \A k \in DOMAIN authority' : authority'[k] \in {GovAddr', "gov"}
      BY <2>1, <2>2, <3>1, <2>4, <3>3 DEF Established, GovAddr
    <3>9. /\ pc' > 8 => wasmKey'
          /\ pc' > 9 => simGas' \in Nat \ {0}
          /\ pc' > 12 => routers' = {"v1", "v2"}
      BY <2>1, <2>2, <3>1, <2>4, <3>3 DEF Established
    <3>10. /\ DOMAIN authority' \subseteq Keepers
           /\ built' \subseteq Keepers \cup Injected
      BY <2>1, <2>2, <3>1, <2>4, <3>3 DEF Keepers, Injected
    <3>11. Established'
      BY <3>5, <3>6, <3>7, <3>8, <3>9 DEF Established
    <3>12. TypeOK'
      BY <2>1, <3>1, <3>3, <3>4, <3>10
    <3> QED
      BY <2>1, <3>1, <3>4, <3>11, <3>12
  <2> QED
    BY <2>3, <2>4
<1>10. CASE WasmKeeper
  <2>1. outcome = "running" /\ pc = 10 /\ pc' = 11 /\ env' = env
    BY <1>10, OrderFacts DEF WasmKeeper, At, Step
  <2>2. Established
    BY <2>1
  <2>3. /\ Use({"Auth", "Bank", "IBC", "Transfer"}, {"Wasm"})
        /\ Govern({"Wasm"}, "gov") /\ UNCHANGED << outcome, wasmKey, simGas, stacks, routers >>
    BY <1>10, Zenon DEF WasmKeeper
  <2>4. zeroUse' = {}
    BY <2>1, <2>2, <2>3 DEF Use, Govern, Established, BuildStep, Keepers, Injected
  <2>5. Injected \subseteq built'
    BY <2>1, <2>2, <2>3 DEF Use, Govern, Established
  <2>6. \A k \in Keepers : BuildStep[k] < pc' => k \in built'
    BY <2>1, <2>2, <2>3 DEF Use, Govern, Established, BuildStep, Keepers
  <2>7. pc' > 4 => env'.addrOk
    BY <2>1, <2>2, <2>3 DEF Established
  <2>8. \A k \in DOMAIN authority' : authority'[k] \in {GovAddr', "gov"}
    BY <2>1, <2>2, <2>3 DEF Use, Govern, Established, GovAddr
  <2>9. /\ pc' > 8 => wasmKey'
        /\ pc' > 9 => simGas' \in Nat \ {0}
        /\ pc' > 12 => routers' = {"v1", "v2"}
    BY <2>1, <2>2, <2>3 DEF Established
  <2>10. /\ DOMAIN authority' \subseteq Keepers
         /\ built' \subseteq Keepers \cup Injected
    BY <2>1, <2>2, <2>3 DEF Use, Govern, Keepers, Injected
  <2>11. Established'
    BY <2>5, <2>6, <2>7, <2>8, <2>9 DEF Established
  <2>12. TypeOK'
    BY <2>1, <2>3, <2>4, <2>10
  <2> QED
    BY <2>1, <2>3, <2>4, <2>11, <2>12
<1>11. CASE WasmRest
  <2>1. outcome = "running" /\ pc = 11 /\ pc' = 12 /\ env' = env
    BY <1>11, OrderFacts DEF WasmRest, At, Step
  <2>2. Established
    BY <2>1
  <2>3. CASE ~env.wasmRestOk
    <3>1. outcome' = "panic"
          /\ UNCHANGED << built, zeroUse, authority, wasmKey, simGas, stacks,
                          routers >>
      BY <1>11, <2>3, Zenon DEF WasmRest, Fail
    <3> QED
      BY <2>1, <3>1
  <2>4. CASE env.wasmRestOk
    <3>1. /\ Use({"Wasm", "IBC"}, {})
          /\ UNCHANGED << outcome, authority, wasmKey, simGas, stacks, routers >>
      BY <1>11, <2>4, Zenon DEF WasmRest, Fail
    <3>2. zeroUse' = {}
      BY <2>1, <2>2, <3>1, <2>4 DEF Use, Established, BuildStep, Keepers, Injected
    <3>3. Injected \subseteq built'
      BY <2>1, <2>2, <3>1, <2>4 DEF Use, Established
    <3>4. \A k \in Keepers : BuildStep[k] < pc' => k \in built'
      BY <2>1, <2>2, <3>1, <2>4 DEF Use, Established, BuildStep, Keepers
    <3>5. pc' > 4 => env'.addrOk
      BY <2>1, <2>2, <3>1, <2>4 DEF Established
    <3>6. \A k \in DOMAIN authority' : authority'[k] \in {GovAddr', "gov"}
      BY <2>1, <2>2, <3>1, <2>4 DEF Use, Established, GovAddr
    <3>7. /\ pc' > 8 => wasmKey'
          /\ pc' > 9 => simGas' \in Nat \ {0}
          /\ pc' > 12 => routers' = {"v1", "v2"}
      BY <2>1, <2>2, <3>1, <2>4 DEF Established
    <3>8. /\ DOMAIN authority' \subseteq Keepers
          /\ built' \subseteq Keepers \cup Injected
      BY <2>1, <2>2, <3>1, <2>4 DEF Use, Keepers, Injected
    <3>9. Established'
      BY <3>3, <3>4, <3>5, <3>6, <3>7 DEF Established
    <3>10. TypeOK'
      BY <2>1, <3>1, <3>2, <3>8
    <3> QED
      BY <2>1, <3>1, <3>2, <3>9, <3>10
  <2> QED
    BY <2>3, <2>4
<1>12. CASE Routers
  <2>1. outcome = "running" /\ pc = 12 /\ pc' = 13 /\ env' = env
    BY <1>12, OrderFacts DEF Routers, At, Step
  <2>2. Established
    BY <2>1
  <2>3. /\ Use({"IBC"}, {}) /\ routers' = {"v1", "v2"}
        /\ UNCHANGED << outcome, authority, wasmKey, simGas, stacks >>
    BY <1>12, Zenon DEF Routers
  <2>4. zeroUse' = {}
    BY <2>1, <2>2, <2>3 DEF Use, Established, BuildStep, Keepers, Injected
  <2>5. Injected \subseteq built'
    BY <2>1, <2>2, <2>3 DEF Use, Established
  <2>6. \A k \in Keepers : BuildStep[k] < pc' => k \in built'
    BY <2>1, <2>2, <2>3 DEF Use, Established, BuildStep, Keepers
  <2>7. pc' > 4 => env'.addrOk
    BY <2>1, <2>2, <2>3 DEF Established
  <2>8. \A k \in DOMAIN authority' : authority'[k] \in {GovAddr', "gov"}
    BY <2>1, <2>2, <2>3 DEF Use, Established, GovAddr
  <2>9. /\ pc' > 8 => wasmKey'
        /\ pc' > 9 => simGas' \in Nat \ {0}
        /\ pc' > 12 => routers' = {"v1", "v2"}
    BY <2>1, <2>2, <2>3 DEF Established
  <2>10. /\ DOMAIN authority' \subseteq Keepers
         /\ built' \subseteq Keepers \cup Injected
    BY <2>1, <2>2, <2>3 DEF Use, Keepers, Injected
  <2>11. Established'
    BY <2>5, <2>6, <2>7, <2>8, <2>9 DEF Established
  <2>12. TypeOK'
    BY <2>1, <2>3, <2>4, <2>10
  <2> QED
    BY <2>1, <2>3, <2>4, <2>11, <2>12
<1>13. CASE LightClients
  <2>1. outcome = "running" /\ pc = 13 /\ pc' = 14 /\ env' = env
    BY <1>13, OrderFacts DEF LightClients, At, Step
  <2>2. Established
    BY <2>1
  <2>3. /\ Use({"IBC"}, {})
        /\ UNCHANGED << outcome, authority, wasmKey, simGas, stacks, routers >>
    BY <1>13, Zenon DEF LightClients
  <2>4. zeroUse' = {}
    BY <2>1, <2>2, <2>3 DEF Use, Established, BuildStep, Keepers, Injected
  <2>5. Injected \subseteq built'
    BY <2>1, <2>2, <2>3 DEF Use, Established
  <2>6. \A k \in Keepers : BuildStep[k] < pc' => k \in built'
    BY <2>1, <2>2, <2>3 DEF Use, Established, BuildStep, Keepers
  <2>7. pc' > 4 => env'.addrOk
    BY <2>1, <2>2, <2>3 DEF Established
  <2>8. \A k \in DOMAIN authority' : authority'[k] \in {GovAddr', "gov"}
    BY <2>1, <2>2, <2>3 DEF Use, Established, GovAddr
  <2>9. /\ pc' > 8 => wasmKey'
        /\ pc' > 9 => simGas' \in Nat \ {0}
        /\ pc' > 12 => routers' = {"v1", "v2"}
    BY <2>1, <2>2, <2>3 DEF Established
  <2>10. /\ DOMAIN authority' \subseteq Keepers
         /\ built' \subseteq Keepers \cup Injected
    BY <2>1, <2>2, <2>3 DEF Use, Keepers, Injected
  <2>11. Established'
    BY <2>5, <2>6, <2>7, <2>8, <2>9 DEF Established
  <2>12. TypeOK'
    BY <2>1, <2>3, <2>4, <2>10
  <2> QED
    BY <2>1, <2>3, <2>4, <2>11, <2>12
<1>14. CASE RegisterModules
  <2>1. outcome = "running" /\ pc = 14 /\ pc' = 15 /\ env' = env
    BY <1>14, OrderFacts DEF RegisterModules, At, Step
  <2>2. Established
    BY <2>1
  <2>3. CASE ~env.modulesOk
    <3>1. outcome' = "err"
          /\ UNCHANGED << built, zeroUse, authority, wasmKey, simGas, stacks,
                          routers >>
      BY <1>14, <2>3, Zenon DEF RegisterModules, Fail
    <3> QED
      BY <2>1, <3>1
  <2>4. CASE env.modulesOk
    <3>1. /\ Use({"IBC", "Transfer", "ICAController", "ICAHost", "PFM",
               "RateLimit"}, {}) /\ outcome' = "ok"
          /\ UNCHANGED << authority, wasmKey, simGas, stacks, routers >>
      BY <1>14, <2>4, Zenon DEF RegisterModules, Fail
    <3>2. zeroUse' = {}
      BY <2>1, <2>2, <3>1, <2>4 DEF Use, Established, BuildStep, Keepers, Injected
    <3>3. Injected \subseteq built'
      BY <2>1, <2>2, <3>1, <2>4 DEF Use, Established
    <3>4. \A k \in Keepers : BuildStep[k] < pc' => k \in built'
      BY <2>1, <2>2, <3>1, <2>4 DEF Use, Established, BuildStep, Keepers
    <3>5. pc' > 4 => env'.addrOk
      BY <2>1, <2>2, <3>1, <2>4 DEF Established
    <3>6. \A k \in DOMAIN authority' : authority'[k] \in {GovAddr', "gov"}
      BY <2>1, <2>2, <3>1, <2>4 DEF Use, Established, GovAddr
    <3>7. /\ pc' > 8 => wasmKey'
          /\ pc' > 9 => simGas' \in Nat \ {0}
          /\ pc' > 12 => routers' = {"v1", "v2"}
      BY <2>1, <2>2, <3>1, <2>4 DEF Established
    <3>8. /\ DOMAIN authority' \subseteq Keepers
          /\ built' \subseteq Keepers \cup Injected
      BY <2>1, <2>2, <3>1, <2>4 DEF Use, Keepers, Injected
    <3>9. Established'
      BY <3>3, <3>4, <3>5, <3>6, <3>7 DEF Established
    <3>10. TypeOK'
      BY <2>1, <3>1, <3>2, <3>8
    <3> QED
      BY <2>1, <3>1, <3>2, <3>9, <3>10
  <2> QED
    BY <2>3, <2>4
<1>15. CASE Terminated
  BY <1>15 DEF Terminated, vars, Established, GovAddr
<1>16. CASE UNCHANGED vars
  BY <1>16 DEF vars, Established, GovAddr
<1>17. QED
  BY <1>1, <1>2, <1>3, <1>4, <1>5, <1>6, <1>7, <1>8, <1>9, <1>10, <1>11,
     <1>12, <1>13, <1>14, <1>15, <1>16 DEF Next

(* The invariant holds in every reachable state of the start-up.          *)
LEMMA WInvHolds == Spec => []WInv
BY WInvInit, WInvStep, PTL DEF Spec

(* Every state of registerIBCModules is well typed: the step index stays
   within Order, and the outcome is running, ok, an error or a panic.     *)
THEOREM TypeCorrect == Spec => []TypeOK
<1>1. WInv => TypeOK
  BY DEF WInv
<1> QED
  BY WInvHolds, <1>1, PTL

(* When registerIBCModules returns nil, every keeper is built, both IBC
   routers are set, the wasm store key is registered, every governed keeper
   got the real gov address (the address error dropped by the IBC keeper's
   step is caught by initIBCMiddlewareKeepers before a nil return), and the
   ante handler's simulation gas limit is positive, for every environment
   and every configured SimulationGasLimit.                                *)
THEOREM WiredOnSuccessHolds == Spec => []WiredOnSuccess
<1>1. WInv => WiredOnSuccess
  <2> SUFFICES ASSUME WInv, outcome = "ok"
               PROVE  /\ Keepers \subseteq built
                      /\ routers = {"v1", "v2"}
                      /\ wasmKey
                      /\ \A k \in DOMAIN authority : authority[k] = "gov"
                      /\ simGas \in Nat \ {0}
    BY DEF WiredOnSuccess
  <2>1. pc = 15 /\ Established
    BY DEF WInv, Order
  <2>2. Keepers \subseteq built
    BY <2>1 DEF Established, BuildStep, Keepers
  <2>3. GovAddr = "gov"
    <3>1. env.addrOk = TRUE
      BY <2>1 DEF Established
    <3> QED
      BY <3>1, Zenon DEF GovAddr
  <2>4. \A k \in DOMAIN authority : authority[k] = "gov"
    BY <2>1, <2>3 DEF Established, GovAddr
  <2> QED
    BY <2>1, <2>2, <2>4 DEF Established
<1> QED
  BY WInvHolds, <1>1, PTL

(* No step of the start-up reads a keeper field of App before the step
   that builds it, in the order registerIBCModules calls them.             *)
THEOREM NoKeeperUsedBeforeBuiltHolds == Spec => []NoKeeperUsedBeforeBuilt
<1>1. WInv => NoKeeperUsedBeforeBuilt
  BY DEF WInv, NoKeeperUsedBeforeBuilt
<1> QED
  BY WInvHolds, <1>1, PTL
=============================================================================
