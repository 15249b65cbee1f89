-------------------------- MODULE IBCTransferStack --------------------------
(***************************************************************************)
(* The IBC transfer middleware stacks that configureIBCMiddlewareStacks    *)
(* (src/app/ibc.go) builds, and a packet received through them.           *)
(*                                                                         *)
(* The v1 router sends port "transfer" to ERC20 -> RateLimit -> PFM ->     *)
(* Transfer (outermost first); the v2 router sends it to ERC20 ->          *)
(* Transfer.  Core IBC hands a received packet to the outermost layer;     *)
(* every middleware does its part on the way down, calls the layer below,  *)
(* and does the rest on the way up with the acknowledgement it got back.   *)
(* The whole callback runs on a cached branch that core writes back only   *)
(* when the acknowledgement is a success or asynchronous.  Each layer is a *)
(* step; packets are received one at a time (one message at a time in a   *)
(* block), in any order the relayer picks.                                 *)
(*                                                                         *)
(* What each layer does follows the libraries the stacks are built from:   *)
(* the rate limit refuses a packet that would take the window's inflow     *)
(* over the quota, PFM receives a forward into its own account and sends   *)
(* it on, ERC20 converts the minted voucher when the ICS20 ack is a        *)
(* success and the denom has a token pair.                                 *)
(***************************************************************************)
EXTENDS IBCTransferTypes, Sequences

VARIABLES
  sent,       \* packets the counterparty has sent
  inflight,   \* sent packets not yet delivered by a relayer
  acks,       \* acknowledgement written for each sequence
  st,         \* committed transfer state
  recvd,      \* amount received per path in this window (history)
  limits,     \* the paths with a rate limit (ratelimit store)
  cur,        \* the packet being received, or NoPacket
  i,          \* index of the layer currently running, outermost is 1
  dir,        \* "down" before the layer has called the one below
  ack,        \* acknowledgement on its way up
  dest,       \* account ICS20 credits: "voucher" (receiver) or "hold" (PFM)
  br          \* the cached branch of st the callback works on

vars == << sent, inflight, acks, st, recvd, limits, cur, i, dir, ack, dest, br >>

-----------------------------------------------------------------------------
(* Mutant of TransferStack: the rate limit middleware left out.            *)
TransferStackNoRateLimit == << "ERC20", "PFM", "Transfer" >>

(* Mutant of TransferStack: ERC20 wrapped under PFM instead of outermost.  *)
TransferStackERC20Inner == << "RateLimit", "PFM", "ERC20", "Transfer" >>

TransferStack == << "ERC20", "RateLimit", "PFM", "Transfer" >>

TransferStackV2 == << "ERC20", "Transfer" >>

(* The stack the v1 or the v2 router gives port "transfer".                *)
Route(v) == IF v = "v1" THEN TransferStack ELSE TransferStackV2

(* A packet is inside the stack, at layer i.                             *)
InLayer == cur # NoPacket /\ i >= 1

Layer == Route(cur.data.via)[i]

Amt == cur.data.amt

TypeOK ==
  /\ sent \in 0..MaxPackets
  /\ inflight \subseteq Packets
  /\ acks \in [Seqs -> Acks]
  /\ st \in State /\ br \in State
  /\ recvd \in [Versions -> Nat]
  /\ limits \subseteq LimitPaths
  /\ cur \in Packets \cup {NoPacket}
  /\ i \in Nat
  /\ dir \in {"down", "up"}
  /\ ack \in Acks
  /\ dest \in {"voucher", "hold"}

Init ==
  /\ sent = 0
  /\ inflight = {}
  /\ acks = [s \in Seqs |-> "none"]
  /\ st = InitState
  /\ recvd = [v \in Versions |-> 0]
  /\ limits = {}
  /\ cur = NoPacket
  /\ i = 0
  /\ dir = "down"
  /\ ack = "none"
  /\ dest = "voucher"
  /\ br = InitState

-----------------------------------------------------------------------------
(* The counterparty sends a transfer packet.                               *)
Send(d) ==
  /\ sent < MaxPackets
  /\ sent' = sent + 1
  /\ inflight' = inflight \cup {[seq |-> sent + 1, data |-> d]}
  /\ UNCHANGED << acks, st, recvd, limits, cur, i, dir, ack, dest, br >>

(* A relayer delivers a packet; core checks there is no receipt yet,
   routes it by version and port, and calls the outermost layer.           *)
RecvPacket(p) ==
  /\ cur = NoPacket
  /\ p \in inflight
  /\ acks[p.seq] = "none"
  /\ inflight' = inflight \ {p}
  /\ cur' = p
  /\ i' = 1
  /\ dir' = "down"
  /\ ack' = "none"
  /\ dest' = "voucher"
  /\ br' = st
  /\ UNCHANGED << sent, acks, st, recvd, limits >>

(* ERC20 does nothing before the layers below have run.                    *)
ERC20Recv ==
  /\ InLayer /\ dir = "down" /\ Layer = "ERC20"
  /\ i' = i + 1
  /\ UNCHANGED << sent, inflight, acks, st, recvd, limits, cur, dir, ack, dest, br >>

(* The rate limit counts the packet into the path's inflow, or refuses it
   with an error ack without calling the layers below.                     *)
RateLimitRecv ==
  LET v == cur.data.via IN
  /\ InLayer /\ dir = "down" /\ Layer = "RateLimit"
  /\ \/ /\ v \notin limits
        /\ i' = i + 1
        /\ UNCHANGED << dir, ack, br >>
     \/ /\ v \in limits /\ br.flow[v] + Amt <= Quota
        /\ br' = [br EXCEPT !.flow[v] = @ + Amt]
        /\ i' = i + 1
        /\ UNCHANGED << dir, ack >>
     \/ /\ v \in limits /\ br.flow[v] + Amt > Quota
        /\ ack' = "err"
        /\ dir' = "up"
        /\ i' = i - 1
        /\ UNCHANGED br
  /\ UNCHANGED << sent, inflight, acks, st, recvd, limits, cur, dest >>

(* PFM sends a packet with a forward memo to its own account.              *)
PFMRecv ==
  /\ InLayer /\ dir = "down" /\ Layer = "PFM"
  /\ dest' = IF cur.data.fwd # "none" THEN "hold" ELSE "voucher"
  /\ i' = i + 1
  /\ UNCHANGED << sent, inflight, acks, st, recvd, limits, cur, dir, ack, br >>

(* ICS20 mints the voucher to the receiver, or fails the packet.           *)
TransferRecv ==
  /\ InLayer /\ dir = "down" /\ Layer = "Transfer"
  /\ \/ /\ cur.data.valid
        /\ br' = [br EXCEPT ![dest] = @ + Amt]
        /\ ack' = "ok"
     \/ /\ ~cur.data.valid
        /\ ack' = "err"
        /\ UNCHANGED br
  /\ dir' = "up"
  /\ i' = i - 1
  /\ UNCHANGED << sent, inflight, acks, st, recvd, limits, cur, dest >>

(* Mutant of PFMAck: the held voucher is sent on whatever the ack of the
   layers below was.                                                       *)
PFMAckIgnoringAck ==
  LET fwd == cur.data.fwd IN
  /\ InLayer /\ dir = "up" /\ Layer = "PFM"
  /\ \/ /\ fwd = "none"
        /\ UNCHANGED << ack, br >>
     \/ /\ fwd = "hop"
        /\ br' = [br EXCEPT !.hold = @ - Amt, !.out = @ \cup {cur.seq}]
        /\ ack' = "async"
     \/ /\ fwd = "badhop"
        /\ ack' = "err"
        /\ UNCHANGED br
  /\ i' = i - 1
  /\ UNCHANGED << sent, inflight, acks, st, recvd, limits, cur, dir, dest >>

(* With a success ack PFM sends the held voucher on to the next hop and
   answers asynchronously; a failed send is an error ack.                  *)
PFMAck ==
  LET fwd == cur.data.fwd IN
  /\ InLayer /\ dir = "up" /\ Layer = "PFM"
  /\ \/ /\ ~(fwd # "none" /\ ack = "ok")
        /\ UNCHANGED << ack, br >>
     \/ /\ fwd = "hop" /\ ack = "ok" /\ br.hold >= Amt
        /\ br' = [br EXCEPT !.hold = @ - Amt, !.out = @ \cup {cur.seq}]
        /\ ack' = "async"
     \/ /\ fwd # "none" /\ ack = "ok" /\ (fwd = "badhop" \/ br.hold < Amt)
        /\ ack' = "err"
        /\ UNCHANGED br
  /\ i' = i - 1
  /\ UNCHANGED << sent, inflight, acks, st, recvd, limits, cur, dir, dest >>

(* The rate limit has nothing to do for a received packet on the way up.   *)
RateLimitAck ==
  /\ InLayer /\ dir = "up" /\ Layer = "RateLimit"
  /\ i' = i - 1
  /\ UNCHANGED << sent, inflight, acks, st, recvd, limits, cur, dir, ack, dest, br >>

(* With a success ack and a token pair ERC20 converts the credited
   voucher; a conversion that fails turns the ack into an error.           *)
ERC20Ack ==
  LET pair == cur.data.pair IN
  /\ InLayer /\ dir = "up" /\ Layer = "ERC20"
  /\ \/ /\ ~(ack = "ok" /\ pair # "none")
        /\ UNCHANGED << ack, br >>
     \/ /\ ack = "ok" /\ pair = "ok" /\ br[dest] >= Amt
        /\ br' = [br EXCEPT ![dest] = @ - Amt, !.erc20 = @ + Amt]
        /\ UNCHANGED ack
     \/ /\ ack = "ok" /\ pair # "none" /\ (pair = "reverts" \/ br[dest] < Amt)
        /\ ack' = "err"
        /\ UNCHANGED br
  /\ i' = i - 1
  /\ UNCHANGED << sent, inflight, acks, st, recvd, limits, cur, dir, dest >>

(* Core writes the receipt and the ack, and the branch when the ack is not
   an error; an asynchronous ack is written later by PFM.                  *)
WriteAck ==
  /\ cur # NoPacket /\ dir = "up" /\ i = 0
  /\ acks' = [acks EXCEPT ![cur.seq] = ack]
  /\ \/ /\ ack = "err"
        /\ UNCHANGED << st, recvd >>
     \/ /\ ack # "err"
        /\ st' = br
        /\ recvd' = [recvd EXCEPT ![cur.data.via] = @ + Amt]
  /\ cur' = NoPacket
  /\ UNCHANGED << sent, inflight, limits, i, dir, ack, dest, br >>

(* The next hop acks a forwarded packet, or it fails or times out; with no
   retries PFM writes the origin's delayed ack at once.                    *)
ForwardDone(s, ok) ==
  /\ cur = NoPacket
  /\ s \in st.out
  /\ st' = [st EXCEPT !.out = @ \ {s}]
  /\ acks' = [acks EXCEPT ![s] = IF ok THEN "ok" ELSE "err"]
  /\ UNCHANGED << sent, inflight, recvd, limits, cur, i, dir, ack, dest, br >>

(* The rate limiter's window ends between transactions.                    *)
EpochReset ==
  /\ cur = NoPacket
  /\ st' = [st EXCEPT !.flow = [v \in Versions |-> 0]]
  /\ recvd' = [v \in Versions |-> 0]
  /\ UNCHANGED << sent, inflight, acks, limits, cur, i, dir, ack, dest, br >>

(* Governance adds a rate limit on a path (MsgAddRateLimit, signed by the
   gov authority the keeper was built with); the limiter counts the path's
   flow from zero.                                                         *)
AddRateLimit(v) ==
  /\ cur = NoPacket
  /\ v \in LimitPaths \ limits
  /\ limits' = limits \cup {v}
  /\ st' = [st EXCEPT !.flow[v] = 0]
  /\ recvd' = [recvd EXCEPT ![v] = 0]
  /\ UNCHANGED << sent, inflight, acks, cur, i, dir, ack, dest, br >>

Next ==
  \/ \E d \in PacketKinds : Send(d)
  \/ \E p \in inflight : RecvPacket(p)
  \/ ERC20Recv \/ RateLimitRecv \/ PFMRecv \/ TransferRecv
  \/ PFMAck \/ RateLimitAck \/ ERC20Ack \/ WriteAck
  \/ \E s \in Seqs, ok \in BOOLEAN : ForwardDone(s, ok)
  \/ EpochReset
  \/ \E v \in LimitPaths : AddRateLimit(v)

Spec == Init /\ [][Next]_vars

-----------------------------------------------------------------------------
(* Within one window of the rate limiter, the amount received over a path
   governance has put a rate limit on never exceeds the quota, whatever
   the relayer delivers and in whatever order.  It is the guarantee the
   RateLimit middleware of configureIBCMiddlewareStacks is there for.     *)
InflowWithinQuota == \A v \in limits : recvd[v] <= Quota

(* The stacks implement the receive contract of ICS20Receive: a packet in
   the middle of the stack is still in flight, and the steps of the layers
   are stutters of the contract; ERC20 being outermost makes a forwarded
   packet leave unconverted and a converted one be one ICS20 minted.      *)
Contract == INSTANCE ICS20Receive
  WITH inflight <- IF cur = NoPacket THEN inflight ELSE inflight \cup {cur}

ReceiveRefinesContract == Contract!Spec
=============================================================================
