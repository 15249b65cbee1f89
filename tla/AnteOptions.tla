---------------------------- MODULE AnteOptions ----------------------------
(***************************************************************************)
(* Construction of the ante handler: NewAnteHandler checks the fields of   *)
(* HandlerOptions one after the other and returns a named error at the     *)
(* first one that is nil; only then are the two chains built.  The options *)
(* reaching it are the ones setAnteHandler assembled from the app's        *)
(* keepers, any one of which may still be unset at that point of startup.  *)
(***************************************************************************)
EXTENDS Naturals, Sequences

(* The nillable fields of HandlerOptions (FeeMarketKeeper and             *)
(* MaxTxGasWanted are values and cannot be nil).                           *)
Fields == { "AccountKeeper", "BankKeeper", "FeegrantKeeper",
            "SignModeHandler", "SignatureGasConsumer", "TxFeeChecker",
            "ExtensionOptionChecker", "Cdc", "EvmKeeper",
            "PendingTxListener", "IBCKeeper", "NodeConfig", "WasmKeeper",
            "TXCounterStoreService", "CircuitKeeper" }

(* The nil checks of NewAnteHandler, in the order they are made.           *)
Checks == << "AccountKeeper", "BankKeeper", "SignModeHandler",
             "ExtensionOptionChecker", "TxFeeChecker", "SignatureGasConsumer",
             "Cdc", "EvmKeeper", "NodeConfig", "TXCounterStoreService",
             "WasmKeeper", "CircuitKeeper", "IBCKeeper" >>

VARIABLES set,      \* the fields of the options that are non-nil
          pc,       \* the next check to make
          outcome,  \* "none", "checking", "error" or "built"
          errField  \* the field named by the returned error

vars == << set, pc, outcome, errField >>

Init ==
  /\ set = {}
  /\ pc = 1
  /\ outcome = "none"
  /\ errField = "none"

(* setAnteHandler calls NewAnteHandler with options in which at most one
   field is still nil.                                                     *)
Call ==
  /\ outcome = "none"
  /\ \E missing \in Fields \cup {"none"} : set' = Fields \ {missing}
  /\ outcome' = "checking"
  /\ UNCHANGED << pc, errField >>

(* One nil check: a nil field returns its named error.                     *)
CheckField ==
  /\ outcome = "checking"
  /\ pc <= Len(Checks)
  /\ IF Checks[pc] \in set
       THEN /\ pc' = pc + 1
            /\ UNCHANGED << outcome, errField >>
       ELSE /\ outcome' = "error"
            /\ errField' = Checks[pc]
            /\ UNCHANGED pc
  /\ UNCHANGED set

(* Every check passed: the Cosmos and EVM chains are built and the
   dispatching closure returned.                                           *)
Build ==
  /\ outcome = "checking"
  /\ pc = Len(Checks) + 1
  /\ outcome' = "built"
  /\ UNCHANGED << set, pc, errField >>

Done ==
  /\ outcome \in {"error", "built"}
  /\ UNCHANGED vars

Next == Call \/ CheckField \/ Build \/ Done

Spec == Init /\ [][Next]_vars

-----------------------------------------------------------------------------
(* The configuration bundle is validated before first use: an ante handler
   is built only from options in which every field is non-nil (spec: any
   missing field makes construction fail with a named error).              *)
BuiltOnlyWhenComplete == outcome = "built" => set = Fields

=============================================================================
