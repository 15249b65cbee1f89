------------------------------ MODULE AnteTypes ------------------------------
(***************************************************************************)
(* The vocabulary shared by the ante pipeline and its abstract admission   *)
(* specification: signers, extension options, messages and transactions.  *)
(***************************************************************************)
EXTENDS Naturals, Sequences

CONSTANTS
  Signers,    \* accounts that sign, and pay the fee of, transactions
  TxExts,     \* the extension-option lists a transaction may carry
  TxMsgs,     \* the sets of messages a transaction may carry
  MaxSeq,     \* largest sequence number (EVM nonce) a transaction is signed with
  InitBal,    \* balance of every signer in the initial state
  Fee         \* the fee every transaction offers

(* Extension options, by type URL: "/cosmos.evm.vm.v1.ExtensionOptionsEthereumTx",
   "/cosmos.evm.types.v1.ExtensionOptionDynamicFeeTx", and any other URL.  *)
ExtKinds == {"EthTx", "DynFee", "Unknown"}

(* Messages: a bank send, an Ethereum transaction, a vesting-account
   creation, and an authz MsgExec wrapping one of them.                    *)
Inner == [ExecSend |-> "Send", ExecEthTx |-> "EthTx", ExecVesting |-> "Vesting"]
MsgKinds == {"Send", "EthTx", "Vesting"} \cup DOMAIN Inner

(* The type URL a message has at the top level of the transaction.         *)
TopType(m) == IF m \in DOMAIN Inner THEN "Exec" ELSE m

ASSUME SignersAssumption == Signers # {}
ASSUME TxExtsAssumption == TxExts \subseteq Seq(ExtKinds)
ASSUME TxMsgsAssumption == TxMsgs \subseteq (SUBSET MsgKinds) \ {{}}
ASSUME BoundsAssumption ==
  /\ MaxSeq \in Nat /\ InitBal \in Nat /\ Fee \in Nat \ {0}

Tx == [signer : Signers, seq : 0..MaxSeq, sigOk : BOOLEAN,
       exts : TxExts, msgs : TxMsgs]

(* A transaction carries an Ethereum message, sent directly or wrapped in
   an authz MsgExec.                                                       *)
CarriesEthMsg(t) ==
  \E m \in t.msgs : m = "EthTx" \/ (m \in DOMAIN Inner /\ Inner[m] = "EthTx")

=============================================================================
