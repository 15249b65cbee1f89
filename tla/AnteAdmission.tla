---------------------------- MODULE AnteAdmission ----------------------------
(***************************************************************************)
(* What the ante pipeline promises the rest of the node, with the chains   *)
(* and the branch left out: a transaction is admitted in one step or not   *)
(* at all.  It is admitted only when it is signed by its signer with the   *)
(* signer's current sequence (EVM nonce), the signer can pay its fee, and  *)
(* it is handled by the execution family of its messages: the EVM chain    *)
(* for Ethereum messages, the Cosmos chain for the rest.  Admission        *)
(* advances the signer's sequence by one and debits one fee, together.     *)
(***************************************************************************)
EXTENDS AnteTypes

VARIABLES
  seq,        \* committed sequence of each signer
  bal,        \* committed balance of each signer
  accepted    \* the admissions so far, [tx, chain], in order

Init ==
  /\ seq = [s \in Signers |-> 0]
  /\ bal = [s \in Signers |-> InitBal]
  /\ accepted = << >>

Admit(t, c) ==
  LET s == t.signer IN
  /\ t.sigOk
  /\ t.seq = seq[s]
  /\ bal[s] >= Fee
  /\ c = IF CarriesEthMsg(t) THEN "evm" ELSE "cosmos"
  /\ seq' = [seq EXCEPT ![s] = @ + 1]
  /\ bal' = [bal EXCEPT ![s] = @ - Fee]
  /\ accepted' = Append(accepted, [tx |-> t, chain |-> c])

Next == \E t \in Tx, c \in {"cosmos", "evm"} : Admit(t, c)

Spec == Init /\ [][Next]_<< seq, bal, accepted >>

=============================================================================
