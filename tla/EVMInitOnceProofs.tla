------------------------- MODULE EVMInitOnceProofs -------------------------
(***************************************************************************)
(* Proofs about the one-time EVM setup of EVMInitOnce, for every set of    *)
(* callers and every set of chain ids.                                     *)
(***************************************************************************)
EXTENDS EVMInitOnce, TLAPS

(* The mutex of the Once is held exactly by the caller inside doSlow.      *)
MutualExclusion ==
  /\ \A c \in Callers : pc[c] \in Locked => mutex = c
  /\ mutex # NoCaller => pc[mutex] \in Locked

(* The history count of initEVM runs is 1 exactly when `done` is set or a
   caller is inside initEVM, and `done` is never set while one is.        *)
RunsAccounted ==
  /\ runs = IF done = 1 \/ \E c \in Callers : pc[c] \in InitSteps THEN 1 ELSE 0
  /\ \A c \in Callers : pc[c] \in InitSteps => done = 0

IInv == TypeOK /\ MutualExclusion /\ RunsAccounted

-----------------------------------------------------------------------------
(* Every step of a caller of EVMAppOptions keeps the variables in their
   types.                                                                  *)
LEMMA TypeStep == TypeOK /\ [Next]_vars => TypeOK'
<1> SUFFICES ASSUME TypeOK, [Next]_vars PROVE TypeOK'
  OBVIOUS
<1>1. ASSUME NEW c \in Callers, NEW id \in ChainIDs \cup { << >> }, Call(c, id)
      PROVE TypeOK'
  BY <1>1 DEF Call, TypeOK, PCs
<1>2. ASSUME NEW c \in Callers, FastPath(c) PROVE TypeOK'
  BY <1>2 DEF FastPath, TypeOK, PCs
<1>3. ASSUME NEW c \in Callers, Lock(c) PROVE TypeOK'
  BY <1>3 DEF Lock, TypeOK, PCs, Locked
<1>4. ASSUME NEW c \in Callers, Check(c) PROVE TypeOK'
  BY <1>4 DEF Check, TypeOK, PCs, Locked, InitSteps
<1>5. ASSUME NEW c \in Callers, RegisterDisplay(c) PROVE TypeOK'
  BY <1>5 DEF RegisterDisplay, TypeOK, PCs, Locked, InitSteps, Errors, Denoms
<1>6. ASSUME NEW c \in Callers, RegisterBase(c) PROVE TypeOK'
  BY <1>6 DEF RegisterBase, TypeOK, PCs, Locked, InitSteps, Errors, Denoms
<1>7. ASSUME NEW c \in Callers, Configure(c) PROVE TypeOK'
  BY <1>7 DEF Configure, TypeOK, PCs, Locked, InitSteps, Errors,
              ParseOK, ParseEVMChainID, IsUint
<1>8. ASSUME NEW c \in Callers, Finish(c) PROVE TypeOK'
  BY <1>8 DEF Finish, TypeOK, PCs, Locked
<1>9. ASSUME NEW c \in Callers, Unlock(c) PROVE TypeOK'
  BY <1>9 DEF Unlock, TypeOK, PCs, Locked
<1>10. ASSUME NEW c \in Callers, Return(c) PROVE TypeOK'
  BY <1>10 DEF Return, TypeOK, PCs
<1>11. CASE Terminated
  BY <1>11 DEF Terminated, TypeOK, vars
<1>12. CASE UNCHANGED vars
  BY <1>12 DEF TypeOK, vars
<1>13. QED
  BY <1>1, <1>2, <1>3, <1>4, <1>5, <1>6, <1>7, <1>8, <1>9, <1>10, <1>11,
     <1>12 DEF Next, Step

(* Every state of the one-time setup is well typed: in particular the EVM
   chain id initEVM configures is always one parseEVMChainID returned.     *)
THEOREM TypeCorrect == Spec => []TypeOK
<1>1. Init => TypeOK
  BY DEF Init, TypeOK, PCs, Errors
<1>2. QED
  BY <1>1, TypeStep, PTL DEF Spec

-----------------------------------------------------------------------------
(* The strengthening holds initially and is kept by every step.            *)
LEMMA IInvInit == Init => IInv
BY DEF Init, IInv, TypeOK, PCs, Errors, MutualExclusion, RunsAccounted,
       Locked, InitSteps

(* Every step keeps the strengthening of InitRunsAtMostOnce.             *)
LEMMA IInvStep == IInv /\ [Next]_vars => IInv'
<1> SUFFICES ASSUME IInv, [Next]_vars PROVE IInv'
  OBVIOUS
<1>0. TypeOK'
  BY TypeStep DEF IInv
<1> USE DEF IInv, MutualExclusion, RunsAccounted, TypeOK, Locked, InitSteps, PCs
<1>1. ASSUME NEW c \in Callers, NEW id \in ChainIDs \cup { << >> }, Call(c, id)
      PROVE IInv'
  BY <1>0, <1>1, NoCallerAssumption DEF Call
<1>2. ASSUME NEW c \in Callers, FastPath(c) PROVE IInv'
  BY <1>0, <1>2, NoCallerAssumption DEF FastPath
<1>3. ASSUME NEW c \in Callers, Lock(c) PROVE IInv'
  (* The mutex was free, so nobody was inside doSlow.                      *)
  BY <1>0, <1>3, NoCallerAssumption DEF Lock
<1>4. ASSUME NEW c \in Callers, Check(c) PROVE IInv'
  <2>1. \A d \in Callers : pc[d] \notin InitSteps
    (* c holds the mutex, and only its holder can be inside initEVM.       *)
    BY <1>4, NoCallerAssumption DEF Check
  <2>2. done = 0 => runs = 0
    BY <2>1
  <2> QED
    BY <1>0, <1>4, <2>1, <2>2, NoCallerAssumption DEF Check
<1>5. ASSUME NEW c \in Callers, RegisterDisplay(c) PROVE IInv'
  BY <1>0, <1>5, NoCallerAssumption DEF RegisterDisplay
<1>6. ASSUME NEW c \in Callers, RegisterBase(c) PROVE IInv'
  BY <1>0, <1>6, NoCallerAssumption DEF RegisterBase
<1>7. ASSUME NEW c \in Callers, Configure(c) PROVE IInv'
  BY <1>0, <1>7, NoCallerAssumption DEF Configure
<1>8. ASSUME NEW c \in Callers, Finish(c) PROVE IInv'
  <2>1. mutex = c /\ runs = 1
    BY <1>8 DEF Finish
  <2>2. \A d \in Callers \ {c} : pc[d] \notin Locked
    BY <2>1, NoCallerAssumption
  <2> QED
    BY <1>0, <1>8, <2>1, <2>2, NoCallerAssumption DEF Finish
<1>9. ASSUME NEW c \in Callers, Unlock(c) PROVE IInv'
  <2>1. \A d \in Callers \ {c} : pc[d] \notin Locked
    BY <1>9, NoCallerAssumption DEF Unlock
  <2> QED
    BY <1>0, <1>9, <2>1, NoCallerAssumption DEF Unlock
<1>10. ASSUME NEW c \in Callers, Return(c) PROVE IInv'
  BY <1>0, <1>10, NoCallerAssumption DEF Return
<1>11. CASE Terminated
  BY <1>11 DEF Terminated, vars
<1>12. CASE UNCHANGED vars
  BY <1>12 DEF vars
<1>13. QED
  BY <1>1, <1>2, <1>3, <1>4, <1>5, <1>6, <1>7, <1>8, <1>9, <1>10, <1>11,
     <1>12 DEF Next, Step

(* However the goroutines calling EVMAppOptions interleave, initEVM (the
   denom registration and the Configure call behind sync.Once) is entered
   at most once.                                                           *)
THEOREM InitAtMostOnce == Spec => []InitRunsAtMostOnce
<1>1. IInv => InitRunsAtMostOnce
  BY DEF IInv, RunsAccounted, InitRunsAtMostOnce
<1>2. QED
  BY <1>1, IInvInit, IInvStep, PTL DEF Spec

-----------------------------------------------------------------------------
(* What EVMAppOptions returns.  evmInitErr is written only by the single
   run of initEVM, before `done` is stored; a caller leaves doSlow or the
   fast path only once `done` is set, so the value it reads is final.      *)
ResultsFinal ==
  /\ \A c \in Callers : pc[c] \in {"unlock", "ret", "done"} => done = 1
  /\ \A c \in Callers : pc[c] = "done" => result[c] = evmInitErr

(* Caller d has called EVMAppOptions, and the setup initEVM made with its
   chain id is in place.                                                  *)
SetUpWith(d) ==
  /\ pc[d] # "idle"
  /\ configured
  /\ Denoms \subseteq registry
  /\ ParseOK(EffectiveID(arg[d]))
  /\ evmChainID = ParseEVMChainID(EffectiveID(arg[d]))

(* The progress of the run of initEVM: no error before it is raised, each
   denom registered once its step is past, the whole setup in place when
   initEVM is about to return nil, and still in place once it has.        *)
NoErrorYet ==
  \A c \in Callers :
    pc[c] \in {"idle", "fast", "lock", "check", "display", "base",
              "configure"} => lerr[c] = "nil"
DisplayRegistered ==
  \A c \in Callers : pc[c] = "base" => DisplayDenom \in registry
DenomsRegistered ==
  \A c \in Callers : pc[c] = "configure" => Denoms \subseteq registry
ReadyToReturnNil ==
  \A c \in Callers : pc[c] = "finish" /\ lerr[c] = "nil" => SetUpWith(c)
NilIsSetUp ==
  done = 1 /\ evmInitErr = "nil" => \E d \in Callers : SetUpWith(d)

SetUpProgress ==
  NoErrorYet /\ DisplayRegistered /\ DenomsRegistered /\ ReadyToReturnNil
  /\ NilIsSetUp

RInv == IInv /\ ResultsFinal /\ SetUpProgress

-----------------------------------------------------------------------------
(* A setup made with d's chain id stays in place over a step that neither
   resets d nor touches the registries.                                    *)
LEMMA SetUpKept ==
  ASSUME NEW d \in Callers, SetUpWith(d), pc'[d] # "idle", arg'[d] = arg[d],
         UNCHANGED << configured, registry, evmChainID >>
  PROVE  SetUpWith(d)'
BY DEF SetUpWith

(* While c is inside doSlow, no other caller is.                          *)
LEMMA OnlyHolder ==
  ASSUME IInv, NEW c \in Callers, pc[c] \in Locked
  PROVE  \A d \in Callers : pc[d] \in Locked => d = c
BY DEF IInv, MutualExclusion

(* The initial state satisfies the strengthening of the result facts.     *)
LEMMA RInvInit == Init => RInv
<1> SUFFICES ASSUME Init PROVE RInv
  OBVIOUS
<1>1. IInv
  BY IInvInit
<1>2. ResultsFinal /\ NoErrorYet /\ DisplayRegistered /\ DenomsRegistered
      /\ ReadyToReturnNil /\ NilIsSetUp
  BY DEF Init, ResultsFinal, NoErrorYet, DisplayRegistered, DenomsRegistered,
         ReadyToReturnNil, NilIsSetUp
<1> QED
  BY <1>1, <1>2 DEF RInv, SetUpProgress

(* A step of c outside initEVM (it neither starts nor ends at "finish",
   and touches neither the registries nor the error) keeps the setup
   facts.                                                                  *)
LEMMA SetUpFrame ==
  ASSUME RInv, NEW c \in Callers,
         pc[c] # "finish", pc'[c] # "finish", pc'[c] # "idle",
         pc' = [pc EXCEPT ![c] = pc'[c]],
         \A d \in Callers \ {c} : arg'[d] = arg[d],
         pc[c] # "idle" => arg'[c] = arg[c],
         UNCHANGED << lerr, done, evmInitErr, configured, registry, evmChainID >>
  PROVE  ReadyToReturnNil' /\ NilIsSetUp'
<1>1. ReadyToReturnNil'
  <2> SUFFICES ASSUME NEW d \in Callers, pc'[d] = "finish", lerr'[d] = "nil"
               PROVE  SetUpWith(d)'
    BY DEF ReadyToReturnNil
  <2>1. d # c /\ pc[d] = "finish" /\ pc'[d] = pc[d]
    BY DEF RInv, IInv, TypeOK
  <2>2. SetUpWith(d)
    BY <2>1 DEF RInv, SetUpProgress, ReadyToReturnNil
  <2> QED
    BY <2>1, <2>2, SetUpKept
<1>2. NilIsSetUp'
  <2> SUFFICES ASSUME done' = 1, evmInitErr' = "nil"
               PROVE  \E d \in Callers : SetUpWith(d)'
    BY DEF NilIsSetUp
  <2>1. PICK d \in Callers : SetUpWith(d)
    BY DEF RInv, SetUpProgress, NilIsSetUp
  <2>2. pc[d] # "idle"
    BY <2>1 DEF SetUpWith
  <2>3. pc'[d] # "idle" /\ arg'[d] = arg[d]
    BY <2>2 DEF RInv, IInv, TypeOK
  <2> QED
    BY <2>1, <2>3, SetUpKept
<1> QED
  BY <1>1, <1>2

(* Every step keeps the strengthening of the result facts.                *)
LEMMA RInvStep == RInv /\ [Next]_vars => RInv'
<1> SUFFICES ASSUME RInv, [Next]_vars PROVE RInv'
  OBVIOUS
<1>0. IInv' /\ TypeOK'
  BY IInvStep, TypeStep DEF RInv, IInv
<1> USE DEF RInv, IInv, TypeOK, SetUpProgress
<1>1. ASSUME NEW c \in Callers, NEW id \in ChainIDs \cup { << >> }, Call(c, id)
      PROVE RInv'
  <2>1. ResultsFinal' /\ NoErrorYet' /\ DisplayRegistered' /\ DenomsRegistered'
    BY <1>1 DEF Call, ResultsFinal, NoErrorYet, DisplayRegistered,
                DenomsRegistered
  <2>2. ReadyToReturnNil' /\ NilIsSetUp'
    BY <1>1, SetUpFrame DEF Call
  <2> QED
    BY <1>0, <2>1, <2>2
<1>2. ASSUME NEW c \in Callers, FastPath(c) PROVE RInv'
  <2>1. ResultsFinal' /\ NoErrorYet' /\ DisplayRegistered' /\ DenomsRegistered'
    BY <1>2 DEF FastPath, ResultsFinal, NoErrorYet, DisplayRegistered,
                DenomsRegistered
  <2>2. ReadyToReturnNil' /\ NilIsSetUp'
    BY <1>2, SetUpFrame DEF FastPath
  <2> QED
    BY <1>0, <2>1, <2>2
<1>3. ASSUME NEW c \in Callers, Lock(c) PROVE RInv'
  <2>1. ResultsFinal' /\ NoErrorYet' /\ DisplayRegistered' /\ DenomsRegistered'
    BY <1>3 DEF Lock, ResultsFinal, NoErrorYet, DisplayRegistered,
                DenomsRegistered
  <2>2. ReadyToReturnNil' /\ NilIsSetUp'
    BY <1>3, SetUpFrame DEF Lock
  <2> QED
    BY <1>0, <2>1, <2>2
<1>4. ASSUME NEW c \in Callers, Check(c) PROVE RInv'
  <2>1. ResultsFinal' /\ NoErrorYet' /\ DisplayRegistered' /\ DenomsRegistered'
    BY <1>4 DEF Check, ResultsFinal, NoErrorYet, DisplayRegistered,
                DenomsRegistered
  <2>2. ReadyToReturnNil' /\ NilIsSetUp'
    BY <1>4, SetUpFrame DEF Check
  <2> QED
    BY <1>0, <2>1, <2>2
<1>5. ASSUME NEW c \in Callers, RegisterDisplay(c) PROVE RInv'
  <2>1. done = 0 /\ \A d \in Callers : pc[d] \in Locked => d = c
    BY <1>5, OnlyHolder DEF RegisterDisplay, RunsAccounted, InitSteps, Locked
  <2>2. registry \subseteq registry' /\ UNCHANGED << done, arg, configured,
                                                    evmChainID >>
    BY <1>5 DEF RegisterDisplay
  <2>3. ResultsFinal'
    BY <1>5, <2>1 DEF RegisterDisplay, ResultsFinal
  <2>4. NoErrorYet' /\ DisplayRegistered' /\ DenomsRegistered'
    BY <1>5, <2>2 DEF RegisterDisplay, NoErrorYet, DisplayRegistered,
                      DenomsRegistered
  <2>5. ReadyToReturnNil'
    BY <1>5, <2>1 DEF RegisterDisplay, ReadyToReturnNil, Locked, InitSteps
  <2>6. NilIsSetUp'
    BY <2>1, <2>2 DEF NilIsSetUp
  <2> QED
    BY <1>0, <2>3, <2>4, <2>5, <2>6
<1>6. ASSUME NEW c \in Callers, RegisterBase(c) PROVE RInv'
  <2>1. done = 0 /\ \A d \in Callers : pc[d] \in Locked => d = c
    BY <1>6, OnlyHolder DEF RegisterBase, RunsAccounted, InitSteps, Locked
  <2>2. registry \subseteq registry' /\ UNCHANGED << done, arg, configured,
                                                    evmChainID >>
    BY <1>6 DEF RegisterBase
  <2>3. ResultsFinal'
    BY <1>6, <2>1 DEF RegisterBase, ResultsFinal
  <2>4. NoErrorYet' /\ DisplayRegistered'
    BY <1>6, <2>2 DEF RegisterBase, NoErrorYet, DisplayRegistered
  <2>5. DenomsRegistered'
    (* c registered the display denom before reaching "base".             *)
    BY <1>6, <2>2 DEF RegisterBase, DisplayRegistered, DenomsRegistered, Denoms
  <2>6. ReadyToReturnNil'
    BY <1>6, <2>1 DEF RegisterBase, ReadyToReturnNil, Locked, InitSteps
  <2>7. NilIsSetUp'
    BY <2>1, <2>2 DEF NilIsSetUp
  <2> QED
    BY <1>0, <2>3, <2>4, <2>5, <2>6, <2>7
<1>7. ASSUME NEW c \in Callers, Configure(c) PROVE RInv'
  <2>1. done = 0 /\ \A d \in Callers : pc[d] \in Locked => d = c
    BY <1>7, OnlyHolder DEF Configure, RunsAccounted, InitSteps, Locked
  <2>2. UNCHANGED << done, arg, registry >>
    BY <1>7 DEF Configure
  <2>3. ResultsFinal' /\ NoErrorYet' /\ DisplayRegistered' /\ DenomsRegistered'
    BY <1>7, <2>1, <2>2 DEF Configure, ResultsFinal, NoErrorYet,
                            DisplayRegistered, DenomsRegistered
  <2>4. ReadyToReturnNil'
    <3> SUFFICES ASSUME NEW d \in Callers, pc'[d] = "finish", lerr'[d] = "nil"
                 PROVE  SetUpWith(d)'
      BY DEF ReadyToReturnNil
    <3>1. CASE d # c
      BY <3>1, <1>7, <2>1 DEF Configure, Locked, InitSteps
    <3>2. CASE d = c
      (* initEVM reaches "finish" without an error only by configuring the
         EVM with the chain id c parsed.                                   *)
      <4>1. ParseOK(EffectiveID(arg[c])) /\ ~configured
            /\ configured' /\ evmChainID' = ParseEVMChainID(EffectiveID(arg[c]))
        BY <3>2, <1>7 DEF Configure, NoErrorYet
      <4>2. Denoms \subseteq registry
        BY <1>7 DEF Configure, DenomsRegistered
      <4> QED
        BY <3>2, <4>1, <4>2, <2>2 DEF SetUpWith
    <3> QED
      BY <3>1, <3>2
  <2>5. NilIsSetUp'
    BY <2>1, <2>2 DEF Configure, NilIsSetUp
  <2> QED
    BY <1>0, <2>3, <2>4, <2>5
<1>8. ASSUME NEW c \in Callers, Finish(c) PROVE RInv'
  <2>1. done = 0 /\ \A d \in Callers : pc[d] \in Locked => d = c
    BY <1>8, OnlyHolder DEF Finish, RunsAccounted, InitSteps, Locked
  <2>2. \A d \in Callers : pc[d] # "done"
    BY <2>1 DEF ResultsFinal
  <2>3. ResultsFinal' /\ NoErrorYet' /\ DisplayRegistered' /\ DenomsRegistered'
    BY <1>8, <2>2 DEF Finish, ResultsFinal, NoErrorYet, DisplayRegistered,
                      DenomsRegistered
  <2>4. ReadyToReturnNil'
    BY <1>8, <2>1 DEF Finish, ReadyToReturnNil, Locked, InitSteps
  <2>5. NilIsSetUp'
    <3> SUFFICES ASSUME evmInitErr' = "nil"
                 PROVE  \E d \in Callers : SetUpWith(d)'
      BY DEF NilIsSetUp
    <3>1. SetUpWith(c)
      BY <1>8 DEF Finish, ReadyToReturnNil
    <3>2. pc'[c] # "idle" /\ arg'[c] = arg[c]
          /\ UNCHANGED << configured, registry, evmChainID >>
      BY <1>8 DEF Finish
    <3> QED
      BY <3>1, <3>2, SetUpKept
  <2> QED
    BY <1>0, <2>3, <2>4, <2>5
<1>9. ASSUME NEW c \in Callers, Unlock(c) PROVE RInv'
  <2>1. ResultsFinal' /\ NoErrorYet' /\ DisplayRegistered' /\ DenomsRegistered'
    BY <1>9 DEF Unlock, ResultsFinal, NoErrorYet, DisplayRegistered,
                DenomsRegistered
  <2>2. ReadyToReturnNil' /\ NilIsSetUp'
    BY <1>9, SetUpFrame DEF Unlock
  <2> QED
    BY <1>0, <2>1, <2>2
<1>10. ASSUME NEW c \in Callers, Return(c) PROVE RInv'
  <2>1. ResultsFinal' /\ NoErrorYet' /\ DisplayRegistered' /\ DenomsRegistered'
    BY <1>10 DEF Return, ResultsFinal, NoErrorYet, DisplayRegistered,
                 DenomsRegistered
  <2>2. ReadyToReturnNil' /\ NilIsSetUp'
    BY <1>10, SetUpFrame DEF Return
  <2> QED
    BY <1>0, <2>1, <2>2
<1>11. CASE Terminated
  BY <1>0, <1>11 DEF Terminated, vars, ResultsFinal, NoErrorYet, DisplayRegistered,
               DenomsRegistered, ReadyToReturnNil, NilIsSetUp, SetUpWith
<1>12. CASE UNCHANGED vars
  BY <1>0, <1>12 DEF vars, ResultsFinal, NoErrorYet, DisplayRegistered,
               DenomsRegistered, ReadyToReturnNil, NilIsSetUp, SetUpWith
<1>13. QED
  BY <1>1, <1>2, <1>3, <1>4, <1>5, <1>6, <1>7, <1>8, <1>9, <1>10, <1>11,
     <1>12 DEF Next, Step

(* The strengthening holds in every reachable state.                      *)
LEMMA RInvHolds == Spec => []RInv
BY RInvInit, RInvStep, PTL DEF Spec

(* However the goroutines calling EVMAppOptions interleave, every caller
   that has returned got the error of the one run of initEVM, and `done`
   is set: no caller returns the zero value of evmInitErr read before
   initEVM finished.                                                       *)
THEOREM CallersConvergeHolds == Spec => []CallersConverge
<1>1. RInv => CallersConverge
  BY DEF RInv, ResultsFinal, CallersConverge
<1> QED
  BY RInvHolds, <1>1, PTL

(* A caller of EVMAppOptions that got nil back may rely on the setup:
   both denoms are registered and the EVM is configured with the EVM chain
   id parsed from the chain id one of the callers passed.                  *)
THEOREM NilMeansConfiguredHolds == Spec => []NilMeansConfigured
<1>1. RInv => NilMeansConfigured
  <2> SUFFICES ASSUME RInv, NEW c \in Callers, pc[c] = "done",
                      result[c] = "nil"
               PROVE  \E d \in Callers : SetUpWith(d)
    BY DEF NilMeansConfigured, SetUpWith
  <2>1. done = 1 /\ evmInitErr = "nil"
    BY DEF RInv, ResultsFinal
  <2> QED
    BY <2>1 DEF RInv, SetUpProgress, NilIsSetUp
<1> QED
  BY RInvHolds, <1>1, PTL

=============================================================================
