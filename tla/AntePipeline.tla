---------------------------- MODULE AntePipeline ----------------------------
(***************************************************************************)
(* The transaction admission ("ante") pipeline of Kudora.                  *)
(*                                                                         *)
(* NewAnteHandler returns a closure that looks at the first extension      *)
(* option of a transaction and hands it to the Cosmos decorator chain      *)
(* (NewCosmosAnteHandler) or to the EVM decorator chain                    *)
(* (NewMonoEVMAnteHandler), or rejects it.  A chain runs its decorators    *)
(* one after the other on the cached branch of the state the caller made   *)
(* for this transaction; the first decorator that fails aborts the chain.  *)
(* The caller (BaseApp) writes the branch back only when the whole chain   *)
(* passed and the call is not a simulation.  The pending-tx listener that  *)
(* the EVM chain calls is a side effect outside the branch: it is never    *)
(* rolled back.                                                            *)
(*                                                                         *)
(* Invocations are serial, as BaseApp runs CheckTx and block execution one *)
(* transaction at a time; within one invocation every decorator is a step. *)
(***************************************************************************)
EXTENDS AnteTypes

CONSTANTS
  MaxCalls,   \* bound on the number of invocations of the handler
  Disabled    \* message type URLs the circuit breaker has tripped

ASSUME CallsAssumption == MaxCalls \in Nat
ASSUME DisabledAssumption == Disabled \subseteq {"Send", "EthTx", "Vesting", "Exec"}

Modes == {"check", "simulate"}

Chains == {"cosmos", "evm"}

-----------------------------------------------------------------------------
(* The decorator chains, in the order the source lists them.               *)

(* Mutant of CosmosDecorators: IncrementSequence placed before
   SigVerification.                                                        *)
CosmosDecoratorsIncrementFirst ==
  << "RejectMessages", "AuthzLimiter", "SetUpContext",
     "LimitSimulationGas", "CountTX", "GasRegister", "TxContracts",
     "CircuitBreaker", "ExtensionOptions", "ValidateBasic",
     "TxTimeoutHeight", "ValidateMemo", "MinGasPrice",
     "ConsumeGasForTxSize", "DeductFee", "SetPubKey", "ValidateSigCount",
     "SigGasConsume", "IncrementSequence", "SigVerification",
     "RedundantRelay", "GasWanted" >>

(* Mutant of CosmosDecorators: SigVerification left out of the chain.     *)
CosmosDecoratorsNoSigVerification ==
  << "RejectMessages", "AuthzLimiter", "SetUpContext",
     "LimitSimulationGas", "CountTX", "GasRegister", "TxContracts",
     "CircuitBreaker", "ExtensionOptions", "ValidateBasic",
     "TxTimeoutHeight", "ValidateMemo", "MinGasPrice",
     "ConsumeGasForTxSize", "DeductFee", "SetPubKey", "ValidateSigCount",
     "SigGasConsume", "IncrementSequence",
     "RedundantRelay", "GasWanted" >>

(* Mutant of EVMDecorators: the listener placed before the mono decorator. *)
EVMDecoratorsListenerFirst == << "TxListener", "EVMMono" >>

WasmDecorators ==
  << "LimitSimulationGas", "CountTX", "GasRegister", "TxContracts" >>

CosmosDecorators ==
  << "RejectMessages", "AuthzLimiter", "SetUpContext" >>
  \o WasmDecorators
  \o << "CircuitBreaker", "ExtensionOptions", "ValidateBasic",
        "TxTimeoutHeight", "ValidateMemo", "MinGasPrice",
        "ConsumeGasForTxSize", "DeductFee", "SetPubKey", "ValidateSigCount",
        "SigGasConsume", "SigVerification", "IncrementSequence",
        "RedundantRelay", "GasWanted" >>

EVMDecorators == << "EVMMono", "TxListener" >>

ChainOf(c) == IF c = "cosmos" THEN CosmosDecorators ELSE EVMDecorators

(* The routing of the closure NewAnteHandler returns: only the first
   extension option is looked at; a transaction without extension options
   (or without the HasExtensionOptionsTx interface) goes to the Cosmos chain. *)
Route(exts) ==
  IF exts = << >> THEN "cosmos"
  ELSE CASE Head(exts) = "EthTx"  -> "evm"
         [] Head(exts) = "DynFee" -> "cosmos"
         [] OTHER                 -> "reject"

(* Mutant of AuthzLimited: MsgEthereumTx left out of the limiter's list.  *)
AuthzLimitedVestingOnly == {"Vesting"}

(* Message types that the authz limiter refuses inside a MsgExec.          *)
AuthzLimited == {"EthTx", "Vesting"}

(* The extension-option checker the Cosmos chain is built with
   (evmtypes.HasDynamicFeeExtensionOption).                                *)
HasDynamicFeeExtensionOption(e) == e = "DynFee"

-----------------------------------------------------------------------------
VARIABLES
  seq,        \* committed sequence (EVM nonce) of each signer
  bal,        \* committed balance of each signer
  phase,      \* "idle" between invocations, "running" while a chain runs
  tx,         \* the transaction of the current invocation
  mode,       \* "check" or "simulate"
  chain,      \* the chain the dispatcher chose
  pc,         \* index of the next decorator of the chain to run
  brSeq,      \* sequences in the cached branch of this invocation
  brBal,      \* balances in the cached branch of this invocation
  notified,   \* transactions handed to the pending-tx listener
  accepted,   \* history: the committed admissions, [tx, chain], in order
  calls       \* number of invocations so far

vars == << seq, bal, phase, tx, mode, chain, pc, brSeq, brBal,
           notified, accepted, calls >>

NoTx == [signer |-> CHOOSE s \in Signers : TRUE, seq |-> 0, sigOk |-> FALSE,
         exts |-> << >>, msgs |-> {"Send"}]

TypeOK ==
  /\ seq \in [Signers -> Nat]
  /\ bal \in [Signers -> Nat]
  /\ phase \in {"idle", "running"}
  /\ tx \in Tx \cup {NoTx}
  /\ phase = "running" => tx \in Tx
  /\ mode \in Modes
  /\ chain \in Chains
  /\ pc \in Nat \ {0}
  /\ brSeq \in [Signers -> Nat]
  /\ brBal \in [Signers -> Nat]
  /\ notified \subseteq Tx
  /\ accepted \in Seq([tx : Tx, chain : Chains])
  /\ calls \in 0..MaxCalls

Init ==
  /\ seq = [s \in Signers |-> 0]
  /\ bal = [s \in Signers |-> InitBal]
  /\ phase = "idle"
  /\ tx = NoTx
  /\ mode = "check"
  /\ chain = "cosmos"
  /\ pc = 1
  /\ brSeq = seq
  /\ brBal = bal
  /\ notified = {}
  /\ accepted = << >>
  /\ calls = 0

-----------------------------------------------------------------------------
(* Mutant of HasFunds: the balance is not checked before the fee is taken. *)
HasFundsUnchecked(s) == TRUE

(* The fee payer can pay the fee on the branch (DeductFee, and the balance
   check of the EVM mono decorator).                                       *)
HasFunds(s) == brBal[s] >= Fee

(* The verdicts the model interprets: decorator d refuses the current
   transaction on the current branch.  Every decorator but the listener may
   also fail for reasons the model does not interpret (a malformed
   transaction, too low a gas price, running out of gas, ...).             *)
Refuses(d) ==
  LET s == tx.signer IN
  CASE d = "RejectMessages"   -> "EthTx" \in tx.msgs
    [] d = "AuthzLimiter"     -> \E m \in tx.msgs \cap DOMAIN Inner :
                                     Inner[m] \in AuthzLimited
    [] d = "CircuitBreaker"   -> \E m \in tx.msgs : TopType(m) \in Disabled
    [] d = "ExtensionOptions" -> \E i \in DOMAIN tx.exts :
                                     ~HasDynamicFeeExtensionOption(tx.exts[i])
    [] d = "DeductFee"        -> ~HasFunds(s)
    [] d = "SigVerification"  -> \/ tx.seq # brSeq[s]
                                 \/ mode # "simulate" /\ ~tx.sigOk
    [] d = "EVMMono"          -> \/ tx.msgs # {"EthTx"}
                                 \/ tx.seq # brSeq[s]
                                 \/ ~tx.sigOk
                                 \/ ~HasFunds(s)
    [] OTHER                  -> FALSE

MayFail(d) == d # "TxListener"

(* Decorators that debit the fee and advance the sequence of the signer.  *)
DebitsFee(d) == d \in {"DeductFee", "EVMMono"}

(* Mutant of AdvancesSeq: the EVM mono decorator leaves the nonce alone.  *)
AdvancesSeqCosmosOnly(d) == d = "IncrementSequence"

AdvancesSeq(d) == d \in {"IncrementSequence", "EVMMono"}

-----------------------------------------------------------------------------
(* The handler is called on transaction t in mode m.  The caller caches a
   branch of the committed state; the dispatcher routes on the first
   extension option.                                                       *)
Dispatch(t, m) ==
  /\ phase = "idle"
  /\ calls < MaxCalls
  /\ Route(t.exts) # "reject"
  /\ phase' = "running"
  /\ tx' = t
  /\ mode' = m
  /\ chain' = Route(t.exts)
  /\ pc' = 1
  /\ brSeq' = seq
  /\ brBal' = bal
  /\ calls' = calls + 1
  /\ UNCHANGED << seq, bal, notified, accepted >>

(* An unsupported first extension option: ErrUnknownExtensionOptions is
   returned with the context as it was; no decorator runs.                 *)
RejectUnknownExtension(t, m) ==
  /\ phase = "idle"
  /\ calls < MaxCalls
  /\ Route(t.exts) = "reject"
  /\ tx' = t
  /\ mode' = m
  /\ calls' = calls + 1
  /\ UNCHANGED << seq, bal, phase, chain, pc, brSeq, brBal, notified, accepted >>

(* The next decorator passes: its effect is applied to the branch, and the
   listener (in CheckTx, not in simulation) is told of the transaction.    *)
PassDecorator ==
  /\ phase = "running"
  /\ pc <= Len(ChainOf(chain))
  /\ LET d == ChainOf(chain)[pc]
         s == tx.signer
     IN /\ ~Refuses(d)
        /\ brBal' = IF DebitsFee(d) THEN [brBal EXCEPT ![s] = @ - Fee] ELSE brBal
        /\ brSeq' = IF AdvancesSeq(d) THEN [brSeq EXCEPT ![s] = @ + 1] ELSE brSeq
        /\ notified' = IF d = "TxListener" /\ mode = "check"
                         THEN notified \cup {tx} ELSE notified
  /\ pc' = pc + 1
  /\ UNCHANGED << seq, bal, phase, tx, mode, chain, accepted, calls >>

(* The next decorator fails: the chain stops and the branch is dropped.    *)
FailDecorator ==
  /\ phase = "running"
  /\ pc <= Len(ChainOf(chain))
  /\ MayFail(ChainOf(chain)[pc])
  /\ phase' = "idle"
  /\ UNCHANGED << seq, bal, tx, mode, chain, pc, brSeq, brBal, notified,
                  accepted, calls >>

(* Every decorator passed: the chain returns without error and the caller
   writes the branch back, unless the call was a simulation.               *)
Admit ==
  /\ phase = "running"
  /\ pc = Len(ChainOf(chain)) + 1
  /\ phase' = "idle"
  /\ IF mode = "simulate"
       THEN UNCHANGED << seq, bal, accepted >>
       ELSE /\ seq' = brSeq
            /\ bal' = brBal
            /\ accepted' = Append(accepted, [tx |-> tx, chain |-> chain])
  /\ UNCHANGED << tx, mode, chain, pc, brSeq, brBal, notified, calls >>

(* The node has handled the MaxCalls transactions of the model.           *)
Quiescent ==
  /\ phase = "idle"
  /\ calls = MaxCalls
  /\ UNCHANGED vars

Next ==
  \/ \E t \in Tx, m \in Modes : Dispatch(t, m) \/ RejectUnknownExtension(t, m)
  \/ PassDecorator
  \/ FailDecorator
  \/ Admit
  \/ Quiescent

Spec == Init /\ [][Next]_vars

-----------------------------------------------------------------------------
(* Properties.                                                             *)

AcceptedOf(s) == SelectSeq(accepted, LAMBDA e : e.tx.signer = s)

(* No replay and no gap: the committed admissions of each signer carry the
   sequence numbers 0, 1, 2, ... in order, as many as the signer's committed
   sequence.  This is what the placement of SigVerification before
   IncrementSequence in the Cosmos chain, and the fused nonce check of the
   EVM chain, must give.                                                   *)
LedgerMatchesHistory ==
  \A s \in Signers :
    /\ Len(AcceptedOf(s)) = seq[s]
    /\ \A i \in 1..seq[s] : AcceptedOf(s)[i].tx.seq = i - 1

(* Fee and sequence move together in the committed state: every signer has
   paid exactly one fee per step of its sequence, although the Cosmos chain
   debits the fee (DeductFee) several decorators before it advances the
   sequence (IncrementSequence), and a failure in between drops both.      *)
FeePerSequence ==
  \A s \in Signers : bal[s] + Fee * seq[s] = InitBal

(* Execution families never mix: a transaction carrying an Ethereum
   message, even nested in an authz MsgExec, is admitted only by the EVM
   chain, and the EVM chain admits nothing else.  The dispatcher, the
   RejectMessages and AuthzLimiter decorators and the extension-option
   checker together must give this.                                        *)
EthMsgsOnlyThroughEVMChain ==
  \A i \in DOMAIN accepted :
    CarriesEthMsg(accepted[i].tx) <=> accepted[i].chain = "evm"

(* The pending-tx listener, whose effect is never rolled back, is told of
   exactly the transactions the EVM chain admitted in CheckTx.             *)
ListenerSeesExactlyAdmitted ==
  phase = "idle" =>
    notified = { accepted[i].tx : i \in { j \in DOMAIN accepted :
                                            accepted[j].chain = "evm" } }

(* The pipeline implements the abstract admission specification: seen
   through the committed state and the history, each invocation either
   leaves no trace or admits its transaction in one step, with a valid
   signature and sequence, a paid fee, and the right execution family.     *)
Admission == INSTANCE AnteAdmission

AdmissionRefined == Admission!Spec

=============================================================================
