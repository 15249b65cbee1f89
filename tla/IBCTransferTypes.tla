-------------------------- MODULE IBCTransferTypes --------------------------
(***************************************************************************)
(* Constants and data shared by the ICS20 receive contract (ICS20Receive)  *)
(* and by the middleware stacks that implement it (IBCTransferStack).      *)
(*                                                                         *)
(* A packet reaches Kudora either over an IBC classic (v1) channel or over *)
(* an IBC v2 (Eureka) client.  Its data is abstracted to what the stacks   *)
(* tell apart: the amount, the ERC20 token pair of its denom, the forward   *)
(* memo for the packet-forward middleware, and whether the ICS20           *)
(* application accepts it (receiver and denom parse).                      *)
(***************************************************************************)
EXTENDS Naturals

CONSTANTS
  MaxPackets,   \* bound on the packets the counterparty sends
  MaxAmt,       \* largest amount of one packet
  Quota,        \* inflow a rate limit allows in one window
  LimitPaths,   \* the paths governance may put a rate limit on
  PacketKinds   \* the packet data the counterparty may send

Versions == {"v1", "v2"}

(* pair: no token pair, a pair whose conversion succeeds, or one whose
   ERC20 contract call reverts; fwd: no forward memo, a memo naming an
   open next hop, or one naming a hop the forward transfer cannot use.    *)
PacketData == [via : Versions, amt : 1..MaxAmt,
               pair : {"none", "ok", "reverts"},
               fwd : {"none", "hop", "badhop"}, valid : BOOLEAN]

ASSUME BoundsAssumption ==
  MaxPackets \in Nat /\ MaxAmt \in Nat \ {0} /\ Quota \in Nat
ASSUME LimitPathsAssumption == LimitPaths \subseteq Versions
ASSUME KindsAssumption == PacketKinds \subseteq PacketData

Seqs == 1..MaxPackets

Packets == [seq : Seqs, data : PacketKinds]

NoPacket == [seq |-> 0]

Acks == {"none", "ok", "async", "err"}

(* The transfer state of the chain: vouchers held by receivers, vouchers
   held by the forward middleware's intermediate account, ERC20 balances
   converted from vouchers, the inflow the rate limiter counted per path in
   this window, and the forwarded packets still waiting for their ack.     *)
State == [voucher : Nat, hold : Nat, erc20 : Nat,
          flow : [Versions -> Nat], out : SUBSET Seqs]

InitState == [voucher |-> 0, hold |-> 0, erc20 |-> 0,
              flow |-> [v \in Versions |-> 0], out |-> {}]
=============================================================================
