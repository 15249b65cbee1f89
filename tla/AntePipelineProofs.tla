------------------------- MODULE AntePipelineProofs -------------------------
(***************************************************************************)
(* Proofs about the ante pipeline of AntePipeline, for every set of        *)
(* signers, transactions, bounds and fee.                                  *)
(***************************************************************************)
EXTENDS AntePipeline, TLAPS

(* A decorator that debits the fee passes only if the payer can pay it.    *)
LEMMA DebitNeedsFunds ==
  ASSUME NEW d, DebitsFee(d), ~Refuses(d)
  PROVE  brBal[tx.signer] >= Fee
BY DEF DebitsFee, Refuses, HasFunds

(* Appending an element of S to a sequence over S gives a sequence over S. *)
LEMMA AppendType ==
  ASSUME NEW S, NEW q \in Seq(S), NEW e \in S
  PROVE  Append(q, e) \in Seq(S)
OBVIOUS

(* The pipeline starts well typed.                                         *)
LEMMA TypeInit == Init => TypeOK
BY SignersAssumption, BoundsAssumption, CallsAssumption
   DEF Init, TypeOK, NoTx, Modes, Chains

(* Every step of the pipeline keeps the variables in their types.          *)
LEMMA TypeStep == TypeOK /\ [Next]_vars => TypeOK'
<1> SUFFICES ASSUME TypeOK, [Next]_vars PROVE TypeOK'
  OBVIOUS
<1>1. ASSUME NEW t \in Tx, NEW m \in Modes, Dispatch(t, m) PROVE TypeOK'
  BY <1>1, CallsAssumption DEF Dispatch, TypeOK, Route, Chains
<1>2. ASSUME NEW t \in Tx, NEW m \in Modes, RejectUnknownExtension(t, m)
      PROVE TypeOK'
  BY <1>2, CallsAssumption DEF RejectUnknownExtension, TypeOK
<1>3. CASE PassDecorator
  <2> DEFINE d == ChainOf(chain)[pc]
             s == tx.signer
  <2>1. ~Refuses(d) /\ s \in Signers
    BY <1>3, SignersAssumption DEF PassDecorator, TypeOK, NoTx, Tx
  <2>2. DebitsFee(d) => brBal[s] - Fee \in Nat
    BY <2>1, DebitNeedsFunds, BoundsAssumption DEF TypeOK
  <2>3. brBal' \in [Signers -> Nat]
    <3>1. CASE DebitsFee(d)
      BY <1>3, <2>1, <2>2, <3>1 DEF PassDecorator, TypeOK
    <3>2. CASE ~DebitsFee(d)
      BY <1>3, <3>2 DEF PassDecorator, TypeOK
    <3> QED
      BY <3>1, <3>2
  <2>4. notified' \subseteq Tx
    BY <1>3 DEF PassDecorator, TypeOK, NoTx
  <2>5. brSeq' \in [Signers -> Nat]
    <3>1. CASE AdvancesSeq(d)
      BY <1>3, <2>1, <3>1 DEF PassDecorator, TypeOK
    <3>2. CASE ~AdvancesSeq(d)
      BY <1>3, <3>2 DEF PassDecorator, TypeOK
    <3> QED
      BY <3>1, <3>2
  <2> QED
    BY <1>3, <2>3, <2>4, <2>5 DEF PassDecorator, TypeOK
<1>4. CASE FailDecorator
  BY <1>4 DEF FailDecorator, TypeOK
<1>5. CASE Admit
  <2>1. CASE mode = "simulate"
    BY <1>5, <2>1 DEF Admit, TypeOK
  <2>2. CASE mode # "simulate"
    <3>1. [tx |-> tx, chain |-> chain] \in [tx : Tx, chain : Chains]
      BY <1>5 DEF Admit, TypeOK
    <3>2. accepted' \in Seq([tx : Tx, chain : Chains])
      <4>1. accepted' = Append(accepted, [tx |-> tx, chain |-> chain])
        BY <1>5, <2>2 DEF Admit
      <4> QED
        BY <3>1, <4>1, AppendType DEF TypeOK
    <3>3. seq' \in [Signers -> Nat] /\ bal' \in [Signers -> Nat]
      BY <1>5, <2>2 DEF Admit, TypeOK
    <3> QED
      BY <1>5, <3>2, <3>3 DEF Admit, TypeOK
  <2> QED
    BY <2>1, <2>2
<1>6. CASE Quiescent
  BY <1>6 DEF Quiescent, TypeOK, vars
<1>7. CASE UNCHANGED vars
  BY <1>7 DEF TypeOK, vars
<1>8. QED
  BY <1>1, <1>2, <1>3, <1>4, <1>5, <1>6, <1>7 DEF Next

(* Every state the pipeline reaches is well typed; in particular no
   balance is ever driven below zero by DeductFee or the EVM mono
   decorator.                                                              *)
THEOREM TypeCorrect == Spec => []TypeOK
BY TypeInit, TypeStep, PTL DEF Spec

-----------------------------------------------------------------------------
(* Where the Cosmos chain debits the fee and where it advances the
   sequence: DeductFee is its 15th decorator, IncrementSequence its 20th,
   and no other decorator of it does either.                               *)
DeductIdx == 15
IncIdx == 20

LEMMA CosmosChainShape ==
  /\ Len(CosmosDecorators) = 22
  /\ \A i \in 1..22 : DebitsFee(CosmosDecorators[i]) <=> i = DeductIdx
  /\ \A i \in 1..22 : AdvancesSeq(CosmosDecorators[i]) <=> i = IncIdx
BY DEF CosmosDecorators, WasmDecorators, DebitsFee, AdvancesSeq,
       DeductIdx, IncIdx

(* The EVM mono decorator debits the fee and advances the nonce at once;
   the listener does neither.                                              *)
LEMMA EVMChainShape ==
  /\ Len(EVMDecorators) = 2
  /\ DebitsFee(EVMDecorators[1]) /\ AdvancesSeq(EVMDecorators[1])
  /\ ~DebitsFee(EVMDecorators[2]) /\ ~AdvancesSeq(EVMDecorators[2])
BY DEF EVMDecorators, DebitsFee, AdvancesSeq

(* The lengths of the two chains.                                          *)
LEMMA ChainLen ==
  \A c \in Chains : Len(ChainOf(c)) = IF c = "cosmos" THEN 22 ELSE 2
BY CosmosChainShape, EVMChainShape DEF ChainOf

(* A Cosmos-chain invocation is between its fee debit and its sequence
   increment: the branch holds one fee not yet matched by a sequence step. *)
Owed == IF chain = "cosmos" /\ DeductIdx < pc /\ pc <= IncIdx THEN Fee ELSE 0

(* The strengthening of FeePerSequence: on the branch of a running
   invocation, the payer's balance, its sequence and the fee owed add up. *)
BranchBalanced ==
  phase = "running" =>
    /\ pc <= Len(ChainOf(chain)) + 1
    /\ \A s \in Signers :
         brBal[s] + Fee * brSeq[s] + (IF s = tx.signer THEN Owed ELSE 0)
           = InitBal

FInv == TypeOK /\ FeePerSequence /\ BranchBalanced

(* The pipeline starts balanced.                                          *)
LEMMA FInvInit == Init => FInv
<1> SUFFICES ASSUME Init PROVE FInv
  OBVIOUS
<1>1. TypeOK
  BY TypeInit
<1> QED
  BY <1>1, BoundsAssumption DEF Init, FInv, FeePerSequence, BranchBalanced


(* Every step keeps the committed state and the branch balanced.          *)
LEMMA FInvStep == FInv /\ [Next]_vars => FInv'
<1> SUFFICES ASSUME FInv, [Next]_vars PROVE FInv'
  OBVIOUS
<1> USE BoundsAssumption
<1>0. TypeOK'
  BY TypeStep DEF FInv
<1>1. ASSUME NEW t \in Tx, NEW m \in Modes, Dispatch(t, m) PROVE FInv'
  (* The branch is a copy of the committed state and nothing is owed yet. *)
  <2>1. pc' = 1 /\ brBal' = bal /\ brSeq' = seq /\ phase' = "running"
    BY <1>1 DEF Dispatch
  <2>2. Owed' = 0
    BY <2>1 DEF Owed, DeductIdx, IncIdx
  <2>3. Len(ChainOf(chain')) >= 0
    BY DEF ChainOf, CosmosDecorators, WasmDecorators, EVMDecorators
  <2> QED
    BY <1>0, <1>1, <2>1, <2>2, <2>3
       DEF Dispatch, FInv, FeePerSequence, BranchBalanced, TypeOK
<1>2. ASSUME NEW t \in Tx, NEW m \in Modes, RejectUnknownExtension(t, m)
      PROVE FInv'
  BY <1>0, <1>2 DEF RejectUnknownExtension, FInv, FeePerSequence,
                     BranchBalanced
<1>3. CASE PassDecorator
  <2> DEFINE d == ChainOf(chain)[pc]
             p == tx.signer
  <2>1. /\ phase = "running" /\ pc <= Len(ChainOf(chain))
        /\ p \in Signers /\ tx' = tx /\ chain' = chain /\ pc' = pc + 1
        /\ phase' = phase /\ seq' = seq /\ bal' = bal
        /\ brBal' = IF DebitsFee(d) THEN [brBal EXCEPT ![p] = @ - Fee] ELSE brBal
        /\ brSeq' = IF AdvancesSeq(d) THEN [brSeq EXCEPT ![p] = @ + 1] ELSE brSeq
    BY <1>3 DEF PassDecorator, FInv, TypeOK, Tx
  <2>0. chain \in Chains /\ pc \in Nat \ {0}
    BY DEF FInv, TypeOK
  <2>2. pc' <= Len(ChainOf(chain')) + 1
    BY <2>0, <2>1, ChainLen
  (* What the step does to the payer's balance, sequence and debt.        *)
  <2>3. brBal'[p] + Fee * brSeq'[p] + Owed' = brBal[p] + Fee * brSeq[p] + Owed
    <3>1. CASE chain = "cosmos"
      <4>a. Len(ChainOf(chain)) = 22
        BY <2>0, <3>1, ChainLen
      <4>0. pc \in 1..22
        BY <2>0, <2>1, <4>a
      <4>1. pc \in 1..22 /\ d = CosmosDecorators[pc]
        BY <4>0, <3>1 DEF ChainOf
      <4>b. brBal[p] \in Nat /\ brSeq[p] \in Nat /\ Fee \in Nat
        BY <2>1 DEF FInv, TypeOK
      <4>2. CASE pc = DeductIdx
        <5>1. DebitsFee(d) /\ ~AdvancesSeq(d)
          BY <4>1, <4>2, CosmosChainShape DEF DeductIdx, IncIdx
        <5>2. brBal'[p] = brBal[p] - Fee /\ brSeq'[p] = brSeq[p]
          BY <2>1, <5>1 DEF FInv, TypeOK
        <5>3. Owed = 0 /\ Owed' = Fee
          BY <2>1, <3>1, <4>2 DEF Owed, DeductIdx, IncIdx
        <5> QED
          BY <4>b, <5>2, <5>3
      <4>3. CASE pc = IncIdx
        <5>1. ~DebitsFee(d) /\ AdvancesSeq(d)
          BY <4>1, <4>3, CosmosChainShape DEF DeductIdx, IncIdx
        <5>2. brBal'[p] = brBal[p] /\ brSeq'[p] = brSeq[p] + 1
          BY <2>1, <5>1 DEF FInv, TypeOK
        <5>3. Owed = Fee /\ Owed' = 0
          BY <2>1, <3>1, <4>3 DEF Owed, DeductIdx, IncIdx
        <5> QED
          BY <4>b, <5>2, <5>3
      <4>4. CASE pc # DeductIdx /\ pc # IncIdx
        <5>1. ~DebitsFee(d) /\ ~AdvancesSeq(d)
          BY <4>1, <4>4, CosmosChainShape
        <5>2. brBal' = brBal /\ brSeq' = brSeq
          BY <2>1, <5>1
        <5>3. Owed' = Owed
          BY <2>1, <3>1, <4>1, <4>4 DEF Owed, DeductIdx, IncIdx
        <5> QED
          BY <5>2, <5>3
      <4> QED
        BY <4>2, <4>3, <4>4
    <3>2. CASE chain # "cosmos"
      <4>0. pc \in 1..2
        BY <2>0, <2>1, <3>2, ChainLen
      <4>1. pc \in 1..2 /\ d = EVMDecorators[pc] /\ Owed = 0 /\ Owed' = 0
        BY <2>1, <3>2, <4>0 DEF ChainOf, Owed
      <4>2. CASE pc = 1
        BY <2>1, <4>1, <4>2, EVMChainShape DEF FInv, TypeOK
      <4>3. CASE pc = 2
        BY <2>1, <4>1, <4>3, EVMChainShape DEF FInv, TypeOK
      <4> QED
        BY <4>1, <4>2, <4>3
    <3> QED
      BY <3>1, <3>2
  (* Nobody else's branch entry moves.                                    *)
  <2>4. \A s \in Signers \ {p} : brBal'[s] = brBal[s] /\ brSeq'[s] = brSeq[s]
    BY <2>1 DEF FInv, TypeOK
  <2>5. BranchBalanced'
    BY <2>1, <2>2, <2>3, <2>4 DEF FInv, BranchBalanced
  <2> QED
    BY <1>0, <2>1, <2>5 DEF FInv, FeePerSequence
<1>4. CASE FailDecorator
  BY <1>0, <1>4 DEF FailDecorator, FInv, FeePerSequence, BranchBalanced
<1>5. CASE Admit
  (* At the end of either chain nothing is owed, so the branch balances. *)
  <2>1. phase = "running" /\ pc = Len(ChainOf(chain)) + 1 /\ phase' = "idle"
    BY <1>5 DEF Admit
  <2>2. Owed = 0
    <3>1. chain \in Chains
      BY DEF FInv, TypeOK
    <3>2. Len(ChainOf(chain)) = IF chain = "cosmos" THEN 22 ELSE 2
      BY <3>1, ChainLen
    <3>3. chain = "cosmos" => pc = 23
      BY <2>1, <3>2
    <3> QED
      BY <3>3 DEF Owed, IncIdx
  <2>3. \A s \in Signers : brBal[s] + Fee * brSeq[s] = InitBal
    BY <2>1, <2>2 DEF FInv, BranchBalanced, TypeOK
  <2> QED
    BY <1>0, <1>5, <2>1, <2>3 DEF Admit, FInv, FeePerSequence, BranchBalanced
<1>6. CASE Quiescent
  BY <1>0, <1>6 DEF Quiescent, FInv, FeePerSequence, BranchBalanced, vars
<1>7. CASE UNCHANGED vars
  BY <1>0, <1>7 DEF FInv, FeePerSequence, BranchBalanced, Owed, vars
<1>8. QED
  BY <1>1, <1>2, <1>3, <1>4, <1>5, <1>6, <1>7 DEF Next

(* Every committed state of the pipeline charges each signer exactly one
   fee per sequence step: DeductFee and IncrementSequence of the Cosmos
   chain, and the fused EVM mono decorator, commit together or not at all. *)
THEOREM FeePerSequenceHolds == Spec => []FeePerSequence
<1>1. FInv => FeePerSequence
  BY DEF FInv
<1>2. QED
  BY <1>1, FInvInit, FInvStep, PTL DEF Spec

-----------------------------------------------------------------------------
(* The transactions the EVM chain admitted in CheckTx, as the history
   records them.                                                           *)
EvmTxs(h) == { h[i].tx : i \in { j \in DOMAIN h : h[j].chain = "evm" } }

EvmAdmitted == EvmTxs(accepted)

(* What the decorators passed so far tell of the messages of a running
   transaction: past RejectMessages it carries no MsgEthereumTx, past the
   authz limiter no MsgExec wraps one, and past the EVM mono decorator it
   carries MsgEthereumTx only.                                             *)
FamilyChecked ==
  phase = "running" =>
    /\ chain = "cosmos" /\ pc > 1 => "EthTx" \notin tx.msgs
    /\ chain = "cosmos" /\ pc > 2 =>
         \A m \in tx.msgs \cap DOMAIN Inner : Inner[m] \notin AuthzLimited
    /\ chain = "evm" /\ pc > 1 => tx.msgs = {"EthTx"}

(* The listener has been told of the admitted EVM transactions, and of the
   running one once it has passed TxListener in CheckTx: from there only
   Admit remains.                                                          *)
ListenerInStep ==
  notified = IF phase = "running" /\ chain = "evm" /\ mode = "check" /\ pc > 2
             THEN EvmAdmitted \cup {tx} ELSE EvmAdmitted

EInv == TypeOK /\ EthMsgsOnlyThroughEVMChain /\ FamilyChecked /\ ListenerInStep

(* Where each family is checked: RejectMessages and the authz limiter open
   the Cosmos chain, the EVM mono decorator opens the EVM chain, and the
   listener is the EVM chain's second and last decorator, found nowhere in
   the Cosmos chain.                                                       *)
LEMMA FamilyPositions ==
  /\ CosmosDecorators[1] = "RejectMessages"
  /\ CosmosDecorators[2] = "AuthzLimiter"
  /\ EVMDecorators[1] = "EVMMono"
  /\ EVMDecorators[2] = "TxListener"
  /\ \A i \in 1..22 : CosmosDecorators[i] # "TxListener"
BY DEF CosmosDecorators, WasmDecorators, EVMDecorators

(* What passing each family check says of the transaction's messages.    *)
LEMMA FamilyVerdicts ==
  /\ ~Refuses("RejectMessages") => "EthTx" \notin tx.msgs
  /\ ~Refuses("AuthzLimiter") =>
       \A m \in tx.msgs \cap DOMAIN Inner : Inner[m] \notin AuthzLimited
  /\ ~Refuses("EVMMono") => tx.msgs = {"EthTx"}
BY DEF Refuses

(* Appending an admission to the history adds its transaction to the EVM
   admissions exactly when the EVM chain admitted it.                      *)
LEMMA EvmTxsAppend ==
  ASSUME NEW S, NEW h \in Seq(S), NEW e \in S
  PROVE  EvmTxs(Append(h, e)) =
           IF e.chain = "evm" THEN EvmTxs(h) \cup {e.tx} ELSE EvmTxs(h)
BY DEF EvmTxs

(* The pipeline starts with an empty history and a silent listener.       *)
LEMMA EInvInit == Init => EInv
<1> SUFFICES ASSUME Init PROVE EInv
  OBVIOUS
<1>1. TypeOK
  BY TypeInit
<1>2. EvmAdmitted = {}
  BY DEF Init, EvmAdmitted, EvmTxs
<1> QED
  BY <1>1, <1>2 DEF Init, EInv, EthMsgsOnlyThroughEVMChain, FamilyChecked,
                    ListenerInStep

(* Every step keeps the families apart and the listener in step with the
   history.                                                                *)
LEMMA EInvStep == EInv /\ [Next]_vars => EInv'
<1> SUFFICES ASSUME EInv, [Next]_vars PROVE EInv'
  OBVIOUS
<1>0. TypeOK'
  BY TypeStep DEF EInv
<1> USE DEF EInv, TypeOK
<1>1. ASSUME NEW t \in Tx, NEW m \in Modes, Dispatch(t, m) PROVE EInv'
  BY <1>0, <1>1 DEF Dispatch, EthMsgsOnlyThroughEVMChain, FamilyChecked,
                    ListenerInStep, EvmAdmitted
<1>2. ASSUME NEW t \in Tx, NEW m \in Modes, RejectUnknownExtension(t, m)
      PROVE EInv'
  BY <1>0, <1>2 DEF RejectUnknownExtension, EthMsgsOnlyThroughEVMChain,
                    FamilyChecked, ListenerInStep, EvmAdmitted
<1>3. CASE PassDecorator
  <2>1. /\ phase = "running" /\ pc \in 1..Len(ChainOf(chain))
        /\ ~Refuses(ChainOf(chain)[pc])
        /\ notified' = IF ChainOf(chain)[pc] = "TxListener" /\ mode = "check"
                         THEN notified \cup {tx} ELSE notified
    BY <1>3 DEF PassDecorator
  <2>2. pc' = pc + 1 /\ UNCHANGED << phase, tx, mode, chain, accepted >>
    BY <1>3 DEF PassDecorator
  <2>3. EthMsgsOnlyThroughEVMChain'
    BY <2>2 DEF EthMsgsOnlyThroughEVMChain
  <2>4. CASE chain = "cosmos"
    <3>1. ChainOf(chain) = CosmosDecorators
      BY <2>4 DEF ChainOf
    <3>2. pc \in 1..22 /\ notified' = notified
      BY <2>1, <3>1, CosmosChainShape, FamilyPositions
    <3>3. /\ pc = 1 => "EthTx" \notin tx.msgs
          /\ pc = 2 => \A m \in tx.msgs \cap DOMAIN Inner :
                          Inner[m] \notin AuthzLimited
      BY <2>1, <3>1, FamilyPositions, FamilyVerdicts
    <3>4. /\ pc' > 1 => pc = 1 \/ pc > 1
          /\ pc' > 2 => pc = 2 \/ pc > 2
      BY <2>2, <3>2
    <3>5. FamilyChecked'
      BY <2>2, <2>4, <3>3, <3>4, Zenon DEF FamilyChecked
    <3>6. ListenerInStep'
      BY <2>2, <2>4, <3>2, Zenon DEF ListenerInStep, EvmAdmitted
    <3> QED
      BY <1>0, <2>3, <3>5, <3>6
  <2>5. CASE chain = "evm"
    <3>1. ChainOf(chain) = EVMDecorators
      BY <2>5 DEF ChainOf
    <3>2. pc \in 1..2
      BY <2>1, <3>1, EVMChainShape
    <3>3. CASE pc = 1
      <4>1. tx.msgs = {"EthTx"} /\ notified' = notified
        BY <2>1, <3>1, <3>3, FamilyPositions, FamilyVerdicts
      <4>2. pc' = 2 /\ pc' > 1 /\ ~(pc' > 2) /\ ~(pc > 2)
        BY <2>2, <3>3
      <4>3. FamilyChecked'
        BY <2>2, <2>5, <4>1, <4>2, Zenon DEF FamilyChecked
      <4>4. ListenerInStep'
        BY <2>2, <4>1, <4>2, Zenon DEF ListenerInStep, EvmAdmitted
      <4> QED
        BY <1>0, <2>3, <4>3, <4>4
    <3>4. CASE pc = 2
      (* The listener is told of the transaction in CheckTx.              *)
      <4>1. notified' = IF mode = "check" THEN notified \cup {tx} ELSE notified
        BY <2>1, <3>1, <3>4, FamilyPositions
      <4>2. pc' > 1 /\ pc' > 2 /\ pc > 1 /\ ~(pc > 2)
        BY <2>2, <3>4
      <4>3. FamilyChecked'
        BY <2>2, <2>5, <4>2, Zenon DEF FamilyChecked
      <4>4. ListenerInStep'
        BY <2>1, <2>2, <2>5, <4>1, <4>2, Zenon DEF ListenerInStep, EvmAdmitted
      <4> QED
        BY <1>0, <2>3, <4>3, <4>4
    <3> QED
      BY <3>2, <3>3, <3>4
  <2> QED
    BY <2>4, <2>5 DEF Chains
<1>4. CASE FailDecorator
  (* No decorator fails past the listener: it is the EVM chain's last.     *)
  <2>1. pc <= Len(ChainOf(chain)) /\ phase' = "idle"
        /\ UNCHANGED << tx, mode, chain, notified, accepted >>
    BY <1>4 DEF FailDecorator
  <2>2. chain = "evm" => Len(ChainOf(chain)) = 2
    BY EVMChainShape DEF ChainOf
  <2>3. Len(ChainOf(chain)) = 2 => ~(pc > 2)
    BY <2>1
  <2> QED
    BY <1>0, <2>1, <2>2, <2>3, Zenon DEF EthMsgsOnlyThroughEVMChain,
                                        FamilyChecked, ListenerInStep,
                                        EvmAdmitted
<1>5. CASE Admit
  <2>1. /\ phase = "running" /\ pc = Len(ChainOf(chain)) + 1 /\ phase' = "idle"
        /\ UNCHANGED << tx, mode, chain, notified >>
    BY <1>5 DEF Admit
  <2>2. FamilyChecked'
    BY <2>1 DEF FamilyChecked
  <2>3. CASE mode = "simulate"
    <3>1. accepted' = accepted
      BY <1>5, <2>3 DEF Admit
    <3> QED
      BY <1>0, <2>1, <2>2, <2>3, <3>1 DEF EthMsgsOnlyThroughEVMChain,
                                          ListenerInStep, EvmAdmitted
  <2>4. CASE mode = "check"
    <3>1. /\ accepted' = Append(accepted, [tx |-> tx, chain |-> chain])
          /\ [tx |-> tx, chain |-> chain] \in [tx : Tx, chain : Chains]
      BY <1>5, <2>4 DEF Admit
    <3>2. CASE chain = "cosmos"
      (* Admit follows the whole chain, family checks included.           *)
      <4>1. ChainOf(chain) = CosmosDecorators
        BY <3>2 DEF ChainOf
      <4>2. pc > 1 /\ pc > 2
        BY <2>1, <4>1, CosmosChainShape
      <4>3. "EthTx" \notin tx.msgs
            /\ \A m \in tx.msgs \cap DOMAIN Inner : Inner[m] \notin AuthzLimited
        BY <2>1, <3>2, <4>2, Zenon DEF FamilyChecked
      <4>4. ~CarriesEthMsg(tx)
        BY <4>3 DEF CarriesEthMsg, AuthzLimited
      <4>5. EthMsgsOnlyThroughEVMChain'
        BY <3>1, <3>2, <4>4 DEF EthMsgsOnlyThroughEVMChain
      <4>6. EvmAdmitted' = EvmAdmitted
        BY <3>1, <3>2, EvmTxsAppend DEF EvmAdmitted
      <4>7. ListenerInStep'
        BY <2>1, <3>2, <4>6, Zenon DEF ListenerInStep
      <4> QED
        BY <1>0, <2>2, <4>5, <4>7
    <3>3. CASE chain = "evm"
      <4>1. ChainOf(chain) = EVMDecorators
        BY <3>3 DEF ChainOf
      <4>2. pc > 1 /\ pc > 2
        BY <2>1, <4>1, EVMChainShape
      <4>3. tx.msgs = {"EthTx"}
        BY <2>1, <3>3, <4>2, Zenon DEF FamilyChecked
      <4>4. CarriesEthMsg(tx)
        BY <4>3 DEF CarriesEthMsg
      <4>5. EthMsgsOnlyThroughEVMChain'
        BY <3>1, <3>3, <4>4 DEF EthMsgsOnlyThroughEVMChain
      <4>6. EvmAdmitted' = EvmAdmitted \cup {tx}
        <5>0. accepted \in Seq([tx : Tx, chain : Chains])
          OBVIOUS
        <5>1. EvmTxs(Append(accepted, [tx |-> tx, chain |-> chain]))
                = EvmTxs(accepted) \cup {tx}
          <6>1. EvmTxs(Append(accepted, [tx |-> tx, chain |-> chain]))
                  = IF [tx |-> tx, chain |-> chain].chain = "evm"
                    THEN EvmTxs(accepted) \cup {[tx |-> tx, chain |-> chain].tx}
                    ELSE EvmTxs(accepted)
            BY <3>1, <5>0, EvmTxsAppend
          <6> QED
            BY <3>3, <6>1
        <5> QED
          BY <3>1, <5>1 DEF EvmAdmitted
      <4>7. ListenerInStep'
        BY <2>1, <2>4, <3>3, <4>2, <4>6, Zenon DEF ListenerInStep
      <4> QED
        BY <1>0, <2>2, <4>5, <4>7
    <3> QED
      BY <3>2, <3>3 DEF Chains
  <2> QED
    BY <2>3, <2>4 DEF Modes
<1>6. CASE Quiescent
  BY <1>0, <1>6 DEF Quiescent, vars, EthMsgsOnlyThroughEVMChain,
                    FamilyChecked, ListenerInStep, EvmAdmitted
<1>7. CASE UNCHANGED vars
  BY <1>0, <1>7 DEF vars, EthMsgsOnlyThroughEVMChain, FamilyChecked,
                    ListenerInStep, EvmAdmitted
<1>8. QED
  BY <1>1, <1>2, <1>3, <1>4, <1>5, <1>6, <1>7 DEF Next

(* Execution families never mix in the committed history, for every set
   of signers, transactions and disabled message types: RejectMessages and
   the authz limiter keep MsgEthereumTx, sent or wrapped, out of the Cosmos
   chain, and the EVM mono decorator admits MsgEthereumTx only.            *)
THEOREM EthMsgsOnlyThroughEVMChainHolds == Spec => []EthMsgsOnlyThroughEVMChain
<1>1. EInv => EthMsgsOnlyThroughEVMChain
  BY DEF EInv
<1> QED
  BY <1>1, EInvInit, EInvStep, PTL DEF Spec

(* Between invocations, the pending-tx listener has been told of exactly
   the transactions the EVM chain admitted in CheckTx: the listener is the
   EVM chain's last decorator, so nothing can fail after it, and it is
   skipped in simulation, where nothing is committed.                      *)
THEOREM ListenerSeesExactlyAdmittedHolds == Spec => []ListenerSeesExactlyAdmitted
<1>1. EInv => ListenerSeesExactlyAdmitted
  BY DEF EInv, ListenerInStep, ListenerSeesExactlyAdmitted, EvmAdmitted, EvmTxs
<1> QED
  BY <1>1, EInvInit, EInvStep, PTL DEF Spec

-----------------------------------------------------------------------------
(* Where the Cosmos chain checks the signature and the sequence:
   SigVerification is its 19th decorator.                                  *)
SigIdx == 19

(* The payer's fee has been debited on the branch, its sequence advanced,
   and its signature and sequence checked, by the decorators passed so far:
   DeductFee, IncrementSequence and SigVerification in the Cosmos chain,
   the EVM mono decorator for all three in the EVM chain.                  *)
FeeDebited == \/ chain = "cosmos" /\ pc > DeductIdx
              \/ chain = "evm" /\ pc > 1

SeqAdvanced == \/ chain = "cosmos" /\ pc > IncIdx
               \/ chain = "evm" /\ pc > 1

SigChecked == \/ chain = "cosmos" /\ pc > SigIdx
              \/ chain = "evm" /\ pc > 1

(* The branch of a running invocation is the committed state with the
   payer's fee and sequence step applied as far as the chain has got, and
   every check passed so far was made against the committed state, which
   does not move while the invocation runs.                                *)
BranchTracks ==
  phase = "running" =>
    /\ pc <= Len(ChainOf(chain)) + 1
    /\ brBal = IF FeeDebited THEN [bal EXCEPT ![tx.signer] = @ - Fee] ELSE bal
    /\ brSeq = IF SeqAdvanced THEN [seq EXCEPT ![tx.signer] = @ + 1] ELSE seq
    /\ FeeDebited => bal[tx.signer] >= Fee
    /\ SigChecked => tx.seq = seq[tx.signer] /\ (mode = "check" => tx.sigOk)

AInv == EInv /\ BranchTracks

(* Where the Cosmos chain makes the payer's checks and debits.            *)
LEMMA PayerPositions ==
  /\ CosmosDecorators[DeductIdx] = "DeductFee"
  /\ CosmosDecorators[SigIdx] = "SigVerification"
  /\ CosmosDecorators[IncIdx] = "IncrementSequence"
BY DEF CosmosDecorators, WasmDecorators, DeductIdx, SigIdx, IncIdx

(* What passing each of the payer's checks says of the branch.            *)
LEMMA PayerVerdicts ==
  /\ ~Refuses("DeductFee") => brBal[tx.signer] >= Fee
  /\ ~Refuses("SigVerification") =>
       tx.seq = brSeq[tx.signer] /\ (mode # "simulate" => tx.sigOk)
  /\ ~Refuses("EVMMono") =>
       tx.seq = brSeq[tx.signer] /\ tx.sigOk /\ brBal[tx.signer] >= Fee
<1>1. ~Refuses("DeductFee") => brBal[tx.signer] >= Fee
  BY Zenon DEF Refuses, HasFunds
<1>2. ~Refuses("SigVerification") =>
        tx.seq = brSeq[tx.signer] /\ (mode # "simulate" => tx.sigOk)
  BY Zenon DEF Refuses
<1>3. ~Refuses("EVMMono") =>
        tx.seq = brSeq[tx.signer] /\ tx.sigOk /\ brBal[tx.signer] >= Fee
  BY Zenon DEF Refuses, HasFunds
<1> QED
  BY <1>1, <1>2, <1>3

(* Nothing runs before the first invocation.                               *)
LEMMA AInvInit == Init => AInv
<1> SUFFICES ASSUME Init PROVE AInv
  OBVIOUS
<1>1. EInv
  BY EInvInit
<1>2. BranchTracks
  BY DEF Init, BranchTracks
<1> QED
  BY <1>1, <1>2 DEF AInv

(* Every step keeps the branch in step with the committed state.         *)
LEMMA BranchStep == AInv /\ [Next]_vars => BranchTracks'
<1> SUFFICES ASSUME AInv, [Next]_vars PROVE BranchTracks'
  OBVIOUS
<1> USE DEF AInv, EInv, TypeOK
<1>1. ASSUME NEW t \in Tx, NEW m \in Modes, Dispatch(t, m) PROVE BranchTracks'
  (* The branch is a fresh copy of the committed state.                   *)
  <2>1. pc' = 1 /\ brBal' = bal /\ brSeq' = seq /\ UNCHANGED << seq, bal >>
    BY <1>1 DEF Dispatch
  <2>2. ~FeeDebited' /\ ~SeqAdvanced' /\ ~SigChecked'
    BY <2>1 DEF FeeDebited, SeqAdvanced, SigChecked, DeductIdx, IncIdx, SigIdx
  <2>3. pc' <= Len(ChainOf(chain')) + 1
    BY <2>1 DEF ChainOf, CosmosDecorators, WasmDecorators, EVMDecorators
  <2> QED
    BY <2>1, <2>2, <2>3 DEF BranchTracks
<1>2. ASSUME NEW t \in Tx, NEW m \in Modes, RejectUnknownExtension(t, m)
      PROVE BranchTracks'
  BY <1>2 DEF RejectUnknownExtension, BranchTracks
<1>3. CASE PassDecorator
  <2>1. /\ phase = "running" /\ pc \in 1..Len(ChainOf(chain))
        /\ ~Refuses(ChainOf(chain)[pc])
        /\ brBal' = IF DebitsFee(ChainOf(chain)[pc])
                      THEN [brBal EXCEPT ![tx.signer] = @ - Fee] ELSE brBal
        /\ brSeq' = IF AdvancesSeq(ChainOf(chain)[pc])
                      THEN [brSeq EXCEPT ![tx.signer] = @ + 1] ELSE brSeq
        /\ pc' = pc + 1
        /\ UNCHANGED << seq, bal, phase, tx, mode, chain >>
    BY <1>3 DEF PassDecorator
  <2>2. /\ brBal = IF FeeDebited THEN [bal EXCEPT ![tx.signer] = @ - Fee] ELSE bal
        /\ brSeq = IF SeqAdvanced THEN [seq EXCEPT ![tx.signer] = @ + 1] ELSE seq
        /\ FeeDebited => bal[tx.signer] >= Fee
        /\ SigChecked => tx.seq = seq[tx.signer] /\ (mode = "check" => tx.sigOk)
    BY <2>1 DEF BranchTracks
  <2>3. pc' <= Len(ChainOf(chain')) + 1
    BY <2>1
  <2>0. pc' = pc + 1 /\ pc \in Nat /\ chain' = chain
    BY <2>1
  <2>4. mode = "check" <=> mode # "simulate"
    BY DEF Modes
  <2>5. CASE chain = "cosmos"
    <3>1. ChainOf(chain) = CosmosDecorators
      BY <2>5 DEF ChainOf
    <3>2. pc \in 1..22
      BY <2>1, <3>1, CosmosChainShape
    <3>3. /\ (FeeDebited <=> pc > DeductIdx) /\ (FeeDebited' <=> pc' > DeductIdx)
          /\ (SeqAdvanced <=> pc > IncIdx) /\ (SeqAdvanced' <=> pc' > IncIdx)
          /\ (SigChecked <=> pc > SigIdx) /\ (SigChecked' <=> pc' > SigIdx)
      BY <2>0, <2>5 DEF FeeDebited, SeqAdvanced, SigChecked
    <3>4. CASE pc = DeductIdx
      <4>1. ChainOf(chain)[pc] = "DeductFee"
            /\ DebitsFee(ChainOf(chain)[pc]) /\ ~AdvancesSeq(ChainOf(chain)[pc])
        BY <3>1, <3>4, PayerPositions DEF DebitsFee, AdvancesSeq
      <4>2. ~FeeDebited /\ ~SeqAdvanced /\ ~SigChecked
            /\ FeeDebited' /\ ~SeqAdvanced' /\ ~SigChecked'
        BY <2>0, <3>3, <3>4 DEF DeductIdx, IncIdx, SigIdx
      <4>3. brBal = bal /\ brSeq = seq
        BY <2>2, <4>2
      <4>4. bal[tx.signer] >= Fee
        BY <2>1, <4>1, <4>3, PayerVerdicts
      <4>5. brBal' = [bal EXCEPT ![tx.signer] = @ - Fee] /\ brSeq' = seq
        BY <2>1, <4>1, <4>3
      <4> QED
        BY <2>1, <2>3, <4>2, <4>4, <4>5 DEF BranchTracks
    <3>5. CASE pc = SigIdx
      <4>1. ChainOf(chain)[pc] = "SigVerification"
            /\ ~DebitsFee(ChainOf(chain)[pc]) /\ ~AdvancesSeq(ChainOf(chain)[pc])
        BY <3>1, <3>5, PayerPositions DEF DebitsFee, AdvancesSeq
      <4>2. FeeDebited /\ ~SeqAdvanced /\ ~SigChecked
            /\ FeeDebited' /\ ~SeqAdvanced' /\ SigChecked'
        BY <2>0, <3>3, <3>5 DEF DeductIdx, IncIdx, SigIdx
      <4>3. brSeq = seq
        BY <2>2, <4>2
      <4>4. tx.seq = seq[tx.signer] /\ (mode = "check" => tx.sigOk)
        BY <2>1, <2>4, <4>1, <4>3, PayerVerdicts
      <4>5. brBal' = brBal /\ brSeq' = brSeq
        BY <2>1, <4>1
      <4> QED
        BY <2>1, <2>2, <2>3, <4>2, <4>4, <4>5 DEF BranchTracks
    <3>6. CASE pc = IncIdx
      <4>1. ChainOf(chain)[pc] = "IncrementSequence"
            /\ ~DebitsFee(ChainOf(chain)[pc]) /\ AdvancesSeq(ChainOf(chain)[pc])
        BY <3>1, <3>6, PayerPositions DEF DebitsFee, AdvancesSeq
      <4>2. FeeDebited /\ ~SeqAdvanced /\ SigChecked
            /\ FeeDebited' /\ SeqAdvanced' /\ SigChecked'
        BY <2>0, <3>3, <3>6 DEF DeductIdx, IncIdx, SigIdx
      <4>3. brSeq = seq
        BY <2>2, <4>2
      <4>4. brBal' = brBal /\ brSeq' = [seq EXCEPT ![tx.signer] = @ + 1]
        BY <2>1, <4>1, <4>3
      <4> QED
        BY <2>1, <2>2, <2>3, <4>2, <4>4 DEF BranchTracks
    <3>7. CASE pc \notin {DeductIdx, SigIdx, IncIdx}
      <4>1. ~DebitsFee(ChainOf(chain)[pc]) /\ ~AdvancesSeq(ChainOf(chain)[pc])
        BY <3>1, <3>2, <3>7, CosmosChainShape
      <4>2. /\ (FeeDebited' <=> FeeDebited) /\ (SeqAdvanced' <=> SeqAdvanced)
            /\ (SigChecked' <=> SigChecked)
        BY <2>0, <3>3, <3>7 DEF DeductIdx, IncIdx, SigIdx
      <4>3. brBal' = brBal /\ brSeq' = brSeq
        BY <2>1, <4>1
      <4> QED
        BY <2>1, <2>2, <2>3, <4>2, <4>3 DEF BranchTracks
    <3> QED
      BY <3>4, <3>5, <3>6, <3>7
  <2>6. CASE chain = "evm"
    <3>1. ChainOf(chain) = EVMDecorators
      BY <2>6 DEF ChainOf
    <3>2. pc \in 1..2
      BY <2>1, <3>1, EVMChainShape
    <3>3. /\ (FeeDebited <=> pc > 1) /\ (FeeDebited' <=> pc' > 1)
          /\ (SeqAdvanced <=> pc > 1) /\ (SeqAdvanced' <=> pc' > 1)
          /\ (SigChecked <=> pc > 1) /\ (SigChecked' <=> pc' > 1)
      BY <2>0, <2>6 DEF FeeDebited, SeqAdvanced, SigChecked
    <3>4. CASE pc = 1
      (* The EVM mono decorator checks, debits and advances at once.      *)
      <4>1. ChainOf(chain)[pc] = "EVMMono"
            /\ DebitsFee(ChainOf(chain)[pc]) /\ AdvancesSeq(ChainOf(chain)[pc])
        BY <3>1, <3>4, FamilyPositions DEF DebitsFee, AdvancesSeq
      <4>2. ~FeeDebited /\ ~SeqAdvanced /\ FeeDebited' /\ SeqAdvanced'
            /\ SigChecked'
        BY <2>0, <3>3, <3>4
      <4>3. brBal = bal /\ brSeq = seq
        BY <2>2, <4>2
      <4>4. tx.seq = seq[tx.signer] /\ tx.sigOk /\ bal[tx.signer] >= Fee
        BY <2>1, <4>1, <4>3, PayerVerdicts
      <4>5. /\ brBal' = [bal EXCEPT ![tx.signer] = @ - Fee]
            /\ brSeq' = [seq EXCEPT ![tx.signer] = @ + 1]
        BY <2>1, <4>1, <4>3
      <4> QED
        BY <2>1, <2>3, <4>2, <4>4, <4>5 DEF BranchTracks
    <3>5. CASE pc = 2
      <4>1. ~DebitsFee(ChainOf(chain)[pc]) /\ ~AdvancesSeq(ChainOf(chain)[pc])
        BY <3>1, <3>5, EVMChainShape
      <4>2. /\ (FeeDebited' <=> FeeDebited) /\ (SeqAdvanced' <=> SeqAdvanced)
            /\ (SigChecked' <=> SigChecked)
        BY <2>0, <3>3, <3>5
      <4>3. brBal' = brBal /\ brSeq' = brSeq
        BY <2>1, <4>1
      <4> QED
        BY <2>1, <2>2, <2>3, <4>2, <4>3 DEF BranchTracks
    <3> QED
      BY <3>2, <3>4, <3>5
  <2> QED
    BY <2>5, <2>6 DEF Chains
<1>4. CASE FailDecorator
  BY <1>4 DEF FailDecorator, BranchTracks
<1>5. CASE Admit
  BY <1>5 DEF Admit, BranchTracks
<1>6. CASE Quiescent
  BY <1>6 DEF Quiescent, vars, BranchTracks
<1>7. CASE UNCHANGED vars
  BY <1>7 DEF vars, BranchTracks, FeeDebited, SeqAdvanced, SigChecked
<1>8. QED
  BY <1>1, <1>2, <1>3, <1>4, <1>5, <1>6, <1>7 DEF Next

(* The strengthening holds in every reachable state.                      *)
LEMMA AInvHolds == Spec => []AInv
<1>1. AInv /\ [Next]_vars => AInv'
  BY EInvStep, BranchStep DEF AInv
<1> QED
  BY <1>1, AInvInit, PTL DEF Spec

(* Seen through the committed state and the history, every step of the
   pipeline is a step of the abstract admission specification or leaves
   them alone.                                                             *)
LEMMA AdmissionStep ==
  AInv /\ [Next]_vars => [Admission!Next]_<< seq, bal, accepted >>
<1> SUFFICES ASSUME AInv, [Next]_vars
             PROVE  [Admission!Next]_<< seq, bal, accepted >>
  OBVIOUS
<1>1. CASE Admit /\ mode = "check"
  <2>1. /\ phase = "running" /\ pc = Len(ChainOf(chain)) + 1
        /\ seq' = brSeq /\ bal' = brBal
        /\ accepted' = Append(accepted, [tx |-> tx, chain |-> chain])
    BY <1>1 DEF Admit
  <2>2. tx \in Tx /\ chain \in Chains /\ tx.signer \in Signers
    BY <2>1 DEF AInv, EInv, TypeOK, Tx
  (* Admit comes after the whole chain: every check has been passed.      *)
  <2>3. FeeDebited /\ SeqAdvanced /\ SigChecked
    <3>1. CASE chain = "cosmos"
      <4>1. Len(ChainOf(chain)) = 22
        BY <3>1, CosmosChainShape DEF ChainOf
      <4>2. pc = 23
        BY <2>1, <4>1
      <4> QED
        BY <3>1, <4>2 DEF FeeDebited, SeqAdvanced, SigChecked, DeductIdx,
                          IncIdx, SigIdx
    <3>2. CASE chain = "evm"
      <4>1. Len(ChainOf(chain)) = 2
        BY <3>2, EVMChainShape DEF ChainOf
      <4>2. pc = 3
        BY <2>1, <4>1
      <4> QED
        BY <3>2, <4>2 DEF FeeDebited, SeqAdvanced, SigChecked
    <3> QED
      BY <2>2, <3>1, <3>2 DEF Chains
  <2>4. /\ seq' = [seq EXCEPT ![tx.signer] = @ + 1]
        /\ bal' = [bal EXCEPT ![tx.signer] = @ - Fee]
        /\ bal[tx.signer] >= Fee
        /\ tx.seq = seq[tx.signer] /\ tx.sigOk
    BY <1>1, <2>1, <2>3 DEF AInv, BranchTracks
  (* The chain is the one of the transaction's execution family.          *)
  <2>5. chain = IF CarriesEthMsg(tx) THEN "evm" ELSE "cosmos"
    <3>1. CASE chain = "cosmos"
      <4>1. pc > 1 /\ pc > 2
        <5>1. Len(ChainOf(chain)) = 22
          BY <3>1, CosmosChainShape DEF ChainOf
        <5> QED
          BY <2>1, <5>1
      <4>2. "EthTx" \notin tx.msgs
            /\ \A m \in tx.msgs \cap DOMAIN Inner : Inner[m] \notin AuthzLimited
        BY <2>1, <3>1, <4>1, Zenon DEF AInv, EInv, FamilyChecked
      <4>3. ~CarriesEthMsg(tx)
        BY <4>2 DEF CarriesEthMsg, AuthzLimited
      <4> QED
        BY <3>1, <4>3
    <3>2. CASE chain = "evm"
      <4>1. pc > 1
        <5>1. Len(ChainOf(chain)) = 2
          BY <3>2, EVMChainShape DEF ChainOf
        <5> QED
          BY <2>1, <5>1
      <4>2. tx.msgs = {"EthTx"}
        BY <2>1, <3>2, <4>1, Zenon DEF AInv, EInv, FamilyChecked
      <4>3. CarriesEthMsg(tx)
        BY <4>2 DEF CarriesEthMsg
      <4> QED
        BY <3>2, <4>3
    <3> QED
      BY <2>2, <3>1, <3>2 DEF Chains
  <2>6. Admission!Admit(tx, chain)
    <3>1. /\ tx.sigOk /\ tx.seq = seq[tx.signer] /\ bal[tx.signer] >= Fee
          /\ chain = IF CarriesEthMsg(tx) THEN "evm" ELSE "cosmos"
          /\ seq' = [seq EXCEPT ![tx.signer] = @ + 1]
          /\ bal' = [bal EXCEPT ![tx.signer] = @ - Fee]
          /\ accepted' = Append(accepted, [tx |-> tx, chain |-> chain])
      BY <2>1, <2>4, <2>5
    <3>2. Admission!CarriesEthMsg(tx) <=> CarriesEthMsg(tx)
      BY DEF Admission!CarriesEthMsg, CarriesEthMsg, Admission!Inner, Inner
    <3> QED
      BY <3>1, <3>2, Zenon DEF Admission!Admit
  <2> QED
    BY <2>2, <2>6 DEF Admission!Next, Admission!Tx, Tx, Chains
<1>2. CASE Admit /\ mode # "check"
  BY <1>2 DEF Admit, AInv, EInv, TypeOK, Modes
<1>3. CASE ~Admit
  BY <1>3 DEF Next, vars, Dispatch, RejectUnknownExtension, PassDecorator,
              FailDecorator, Quiescent
<1> QED
  BY <1>1, <1>2, <1>3

(* The ante pipeline implements its abstract admission specification, for
   every set of signers, transactions, bounds and fee: each invocation of
   the handler either leaves the committed state and the history alone or
   admits its transaction in one step, signed, with the signer's current
   sequence, its fee paid, by the chain of its execution family.  The
   branch the caller writes back at the end is the committed state with
   exactly one fee debited and one sequence step, because every check of
   the chain was made against the committed state, which no other step
   moves while the invocation runs (BranchTracks).                         *)
THEOREM AdmissionRefinedHolds == Spec => AdmissionRefined
<1>1. Init => Admission!Init
  BY DEF Init, Admission!Init
<1>2. AInv /\ [Next]_vars => [Admission!Next]_<< seq, bal, accepted >>
  BY AdmissionStep
<1> QED
  BY <1>1, <1>2, AInvHolds, PTL DEF Spec, AdmissionRefined, Admission!Spec

=============================================================================
