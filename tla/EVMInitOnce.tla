---------------------------- MODULE EVMInitOnce ----------------------------
(***************************************************************************)
(* The node-wide one-time EVM setup of app/ibc.go: EVMAppOptions runs      *)
(* initEVM under the package-level sync.Once evmInitOnce and returns the   *)
(* package-level evmInitErr.  Each caller is a goroutine.  sync.Once is    *)
(* modelled by what Do does: a load of `done` on the fast path, and on the *)
(* slow path the mutex, a second load of `done`, the call of f, the        *)
(* deferred store of done := 1 and the deferred unlock.                    *)
(*                                                                         *)
(* initEVM touches two process-wide registries: the SDK denom registry     *)
(* (RegisterDenom fails on a denom already registered) and the EVM         *)
(* configurator (Configure fails once the EVM is configured).  Other code  *)
(* of the process may have touched them first, so both start in any state.*)
(*                                                                         *)
(* A chain id is a sequence of tokens: a word, a numeral (a maximal run  *)
(* of decimal digits, standing for the number it denotes), "_" or "-".     *)
(* strings.Split and strconv.ParseUint are modelled on such sequences.     *)
(***************************************************************************)
EXTENDS Naturals, Sequences, FiniteSets

CONSTANTS Callers,    \* the goroutines that call EVMAppOptions
          ChainIDs,   \* the chain ids they may pass
          Numerals,   \* the numeral tokens
          NoCaller    \* the owner of a free mutex

Token == {"kudora", "other", "_", "-"} \cup Numerals

ASSUME NumeralsAssumption ==
  /\ {"12000", "9000", "1"} \subseteq Numerals
  /\ Numerals \cap {"kudora", "other", "_", "-", "none"} = {}
ASSUME ChainIDsAssumption ==
  \A id \in ChainIDs : \A i \in DOMAIN id : id[i] \in Token
ASSUME NoCallerAssumption == NoCaller \notin Callers

-----------------------------------------------------------------------------
(* Chain ids and the pure part of initEVM.                                 *)

DefaultChainID == << "kudora", "_", "12000", "-", "1" >>

(* The keys of ChainsCoinInfo; all three map to the same coin info, which  *)
(* is therefore left out.                                                  *)
ChainsCoinInfoKeys ==
  { DefaultChainID, << "kudora", "_", "12000" >>,
    << "kudora", "_", "9000", "-", "1" >> }

DisplayDenom == "kudos"
BaseDenom == "kud"
Denoms == { DisplayDenom, BaseDenom }

Positions(s, x) == { i \in 1..Len(s) : s[i] = x }

(* strings.Split(s, x)[0]: the tokens before the first x.                  *)
SplitFirst(s, x) ==
  IF Positions(s, x) = {} THEN s
  ELSE SubSeq(s, 1, (CHOOSE i \in Positions(s, x) :
                       \A j \in Positions(s, x) : i <= j) - 1)

(* The last element of strings.Split(s, x): the tokens after the last x.   *)
SplitLast(s, x) ==
  IF Positions(s, x) = {} THEN s
  ELSE SubSeq(s, (CHOOSE i \in Positions(s, x) :
                    \A j \in Positions(s, x) : j <= i) + 1, Len(s))

(* strconv.ParseUint succeeds on exactly one numeral and nothing else.     *)
IsUint(s) == Len(s) = 1 /\ s[1] \in Numerals

(* The chain id initEVM works with: the default for an empty one.          *)
EffectiveID(id) == IF id = << >> THEN DefaultChainID ELSE id

(* The ChainsCoinInfo lookup, by the base id first, then by the full id.   *)
CoinInfoFound(id) ==
  SplitFirst(id, "-") \in ChainsCoinInfoKeys \/ id \in ChainsCoinInfoKeys

(* parseEVMChainID: whether it succeeds, and the number it returns (as
   its numeral).                                                           *)
ParseOK(id) ==
  /\ id # << >>
  /\ \/ IsUint(id)
     \/ /\ Positions(id, "_") # {}
        /\ IsUint(SplitFirst(SplitLast(id, "_"), "-"))

ParseEVMChainID(id) ==
  IF IsUint(id) THEN id[1] ELSE SplitFirst(SplitLast(id, "_"), "-")[1]

-----------------------------------------------------------------------------
Errors == { "nil", "unknownChainID", "displayDenom", "baseDenom",
            "parseChainID", "configure" }

(* Caller program counters: "idle" before the call, "fast" at the fast-path
   load, "lock" waiting for the mutex, "check" at the slow-path load, the
   initEVM steps, "finish" at the deferred store, "unlock" at the deferred
   unlock, "ret" at the read of evmInitErr, "done" after returning.        *)
InitSteps == { "display", "base", "configure", "finish" }
Locked == { "check", "unlock" } \cup InitSteps
PCs == { "idle", "fast", "lock", "ret", "done" } \cup Locked

VARIABLES pc,          \* per caller
          arg,         \* the chain id each caller passed
          lerr,        \* the error initEVM is about to return, per caller
          result,      \* what EVMAppOptions returned, per caller
          done,        \* evmInitOnce.done
          mutex,       \* the holder of evmInitOnce.m
          evmInitErr,
          registry,    \* the SDK denom registry
          configured,  \* the EVM configurator has been sealed
          evmChainID,  \* the EVM chain id configured by initEVM ("none": none)
          runs         \* history: how many times initEVM was entered

vars == << pc, arg, lerr, result, done, mutex, evmInitErr, registry,
           configured, evmChainID, runs >>

TypeOK ==
  /\ pc \in [Callers -> PCs]
  /\ arg \in [Callers -> ChainIDs \cup { << >> }]
  /\ lerr \in [Callers -> Errors]
  /\ result \in [Callers -> Errors]
  /\ done \in {0, 1}
  /\ mutex \in Callers \cup {NoCaller}
  /\ evmInitErr \in Errors
  /\ registry \subseteq Denoms
  /\ configured \in BOOLEAN
  /\ evmChainID \in Numerals \cup {"none"}
  /\ runs \in Nat

Init ==
  /\ pc = [c \in Callers |-> "idle"]
  /\ arg = [c \in Callers |-> << >>]
  /\ lerr = [c \in Callers |-> "nil"]
  /\ result = [c \in Callers |-> "nil"]
  /\ done = 0
  /\ mutex = NoCaller
  /\ evmInitErr = "nil"
  /\ registry \in SUBSET Denoms
  /\ configured \in BOOLEAN
  /\ evmChainID = "none"
  /\ runs = 0

-----------------------------------------------------------------------------
(* Actions of a caller c.                                                  *)

(* c calls EVMAppOptions(id).                                              *)
Call(c, id) ==
  /\ pc[c] = "idle"
  /\ pc' = [pc EXCEPT ![c] = "fast"]
  /\ arg' = [arg EXCEPT ![c] = id]
  /\ UNCHANGED << lerr, result, done, mutex, evmInitErr, registry,
                  configured, evmChainID, runs >>

(* Mutant of FastPath: Once done as a compare-and-swap of `done` followed
   by f, with no mutex: a second caller returns before f has finished.     *)
FastPathCAS(c) ==
  /\ pc[c] = "fast"
  /\ IF done = 0
       THEN /\ done' = 1
            /\ pc' = [pc EXCEPT ![c] = "display"]
            /\ runs' = runs + 1
       ELSE /\ pc' = [pc EXCEPT ![c] = "ret"]
            /\ UNCHANGED << done, runs >>
  /\ UNCHANGED << arg, lerr, result, mutex, evmInitErr, registry,
                  configured, evmChainID >>

(* Once.Do: the fast path returns if `done` is set, else takes the slow path. *)
FastPath(c) ==
  /\ pc[c] = "fast"
  /\ pc' = [pc EXCEPT ![c] = IF done = 1 THEN "ret" ELSE "lock"]
  /\ UNCHANGED << arg, lerr, result, done, mutex, evmInitErr, registry,
                  configured, evmChainID, runs >>

(* doSlow: o.m.Lock().                                                     *)
Lock(c) ==
  /\ pc[c] = "lock"
  /\ mutex = NoCaller
  /\ mutex' = c
  /\ pc' = [pc EXCEPT ![c] = "check"]
  /\ UNCHANGED << arg, lerr, result, done, evmInitErr, registry,
                  configured, evmChainID, runs >>

(* Mutant of Check: no second load of `done` under the mutex.              *)
CheckNoRecheck(c) ==
  /\ pc[c] = "check"
  /\ pc' = [pc EXCEPT ![c] = "display"]
  /\ runs' = runs + 1
  /\ UNCHANGED << arg, lerr, result, done, mutex, evmInitErr, registry,
                  configured, evmChainID >>

(* Mutant of Check: the unlock skipped when `done` is found set.           *)
CheckNoUnlock(c) ==
  /\ pc[c] = "check"
  /\ pc' = [pc EXCEPT ![c] = IF done = 1 THEN "ret" ELSE "display"]
  /\ runs' = IF done = 1 THEN runs ELSE runs + 1
  /\ UNCHANGED << arg, lerr, result, done, mutex, evmInitErr, registry,
                  configured, evmChainID >>

(* doSlow: `done` loaded again under the mutex; f is called if it is 0.    *)
Check(c) ==
  /\ pc[c] = "check"
  /\ pc' = [pc EXCEPT ![c] = IF done = 1 THEN "unlock" ELSE "display"]
  /\ runs' = IF done = 1 THEN runs ELSE runs + 1
  /\ UNCHANGED << arg, lerr, result, done, mutex, evmInitErr, registry,
                  configured, evmChainID >>

(* initEVM up to the first RegisterDenom: the chain id defaulted, the coin
   info looked up, and the display denom registered.                       *)
RegisterDisplay(c) ==
  LET id == EffectiveID(arg[c]) IN
  /\ pc[c] = "display"
  /\ IF ~CoinInfoFound(id)
       THEN /\ lerr' = [lerr EXCEPT ![c] = "unknownChainID"]
            /\ pc' = [pc EXCEPT ![c] = "finish"]
            /\ UNCHANGED registry
       ELSE IF DisplayDenom \in registry
       THEN /\ lerr' = [lerr EXCEPT ![c] = "displayDenom"]
            /\ pc' = [pc EXCEPT ![c] = "finish"]
            /\ UNCHANGED registry
       ELSE /\ registry' = registry \cup {DisplayDenom}
            /\ pc' = [pc EXCEPT ![c] = "base"]
            /\ UNCHANGED lerr
  /\ UNCHANGED << arg, result, done, mutex, evmInitErr, configured,
                  evmChainID, runs >>

(* setBaseDenom: the base denom registered.                                *)
RegisterBase(c) ==
  /\ pc[c] = "base"
  /\ IF BaseDenom \in registry
       THEN /\ lerr' = [lerr EXCEPT ![c] = "baseDenom"]
            /\ pc' = [pc EXCEPT ![c] = "finish"]
            /\ UNCHANGED registry
       ELSE /\ registry' = registry \cup {BaseDenom}
            /\ pc' = [pc EXCEPT ![c] = "configure"]
            /\ UNCHANGED lerr
  /\ UNCHANGED << arg, result, done, mutex, evmInitErr, configured,
                  evmChainID, runs >>

(* Mutant of Configure: the parse error dropped, initEVM returns nil.      *)
ConfigureParseErrDropped(c) ==
  LET id == EffectiveID(arg[c]) IN
  /\ pc[c] = "configure"
  /\ pc' = [pc EXCEPT ![c] = "finish"]
  /\ IF ~ParseOK(id)
       THEN UNCHANGED << lerr, configured, evmChainID >>
       ELSE IF configured
       THEN /\ lerr' = [lerr EXCEPT ![c] = "configure"]
            /\ UNCHANGED << configured, evmChainID >>
       ELSE /\ configured' = TRUE
            /\ evmChainID' = ParseEVMChainID(id)
            /\ UNCHANGED lerr
  /\ UNCHANGED << arg, result, done, mutex, evmInitErr, registry, runs >>

(* initEVM after setBaseDenom: the EVM chain id parsed, the configurator
   built and Configure called.                                             *)
Configure(c) ==
  LET id == EffectiveID(arg[c]) IN
  /\ pc[c] = "configure"
  /\ pc' = [pc EXCEPT ![c] = "finish"]
  /\ IF ~ParseOK(id)
       THEN /\ lerr' = [lerr EXCEPT ![c] = "parseChainID"]
            /\ UNCHANGED << configured, evmChainID >>
       ELSE IF configured
       THEN /\ lerr' = [lerr EXCEPT ![c] = "configure"]
            /\ UNCHANGED << configured, evmChainID >>
       ELSE /\ configured' = TRUE
            /\ evmChainID' = ParseEVMChainID(id)
            /\ UNCHANGED lerr
  /\ UNCHANGED << arg, result, done, mutex, evmInitErr, registry, runs >>

(* f returns: evmInitErr is assigned, then the deferred done.Store(1).     *)
Finish(c) ==
  /\ pc[c] = "finish"
  /\ evmInitErr' = lerr[c]
  /\ done' = 1
  /\ pc' = [pc EXCEPT ![c] = IF mutex = c THEN "unlock" ELSE "ret"]
  /\ UNCHANGED << arg, lerr, result, mutex, registry, configured,
                  evmChainID, runs >>

(* The deferred o.m.Unlock().                                              *)
Unlock(c) ==
  /\ pc[c] = "unlock"
  /\ mutex' = NoCaller
  /\ pc' = [pc EXCEPT ![c] = "ret"]
  /\ UNCHANGED << arg, lerr, result, done, evmInitErr, registry,
                  configured, evmChainID, runs >>

(* EVMAppOptions returns evmInitErr.                                       *)
Return(c) ==
  /\ pc[c] = "ret"
  /\ result' = [result EXCEPT ![c] = evmInitErr]
  /\ pc' = [pc EXCEPT ![c] = "done"]
  /\ UNCHANGED << arg, lerr, done, mutex, evmInitErr, registry, configured,
                  evmChainID, runs >>

(* Every caller has returned.                                              *)
Terminated ==
  /\ \A c \in Callers : pc[c] = "done"
  /\ UNCHANGED vars

Step(c) ==
  \/ \E id \in ChainIDs \cup { << >> } : Call(c, id)
  \/ FastPath(c) \/ Lock(c) \/ Check(c)
  \/ RegisterDisplay(c) \/ RegisterBase(c) \/ Configure(c)
  \/ Finish(c) \/ Unlock(c) \/ Return(c)

Next == (\E c \in Callers : Step(c)) \/ Terminated

(* Every goroutine is scheduled while it can run; Lock is taken strongly
   fairly, as sync.Mutex's starvation mode hands it to a waiter that has
   waited over 1ms.                                                        *)
Fairness ==
  \A c \in Callers :
    /\ WF_vars(Step(c) /\ pc[c] # "idle")
    /\ SF_vars(Lock(c))

Spec == Init /\ [][Next]_vars /\ Fairness

-----------------------------------------------------------------------------
(* Properties.                                                             *)

(* initEVM, which registers process-wide denoms and seals the EVM
   configurator, is entered at most once however the callers of
   EVMAppOptions interleave (spec: one-time setup executes exactly once
   per process).                                                           *)
InitRunsAtMostOnce == runs <= 1

(* All callers converge on one outcome: every caller that has returned
   from EVMAppOptions got the error initEVM returned, never the zero value
   read before initEVM finished (the property TestEVMAppOptionsInitializationOnce
   checks for two sequential calls).                                       *)
CallersConverge ==
  \A c \in Callers : pc[c] = "done" =>
    /\ done = 1
    /\ result[c] = evmInitErr

(* A nil return means the setup really happened: both denoms are
   registered and the EVM is configured with the EVM chain id parsed from
   the chain id of one of the callers.                                     *)
NilMeansConfigured ==
  \A c \in Callers : pc[c] = "done" /\ result[c] = "nil" =>
    /\ configured
    /\ Denoms \subseteq registry
    /\ \E d \in Callers :
         /\ ParseOK(EffectiveID(arg[d]))
         /\ evmChainID = ParseEVMChainID(EffectiveID(arg[d]))

(* Every goroutine that calls EVMAppOptions eventually returns: nobody is
   left blocked on the Once's mutex.                                       *)
AllCallersReturn ==
  \A c \in Callers : (pc[c] # "idle") ~> (pc[c] = "done")

=============================================================================
