----------------------- MODULE IBCTransferStackProofs -----------------------
(***************************************************************************)
(* Proofs about the IBC transfer stacks of IBCTransferStack, for every     *)
(* bound, quota and set of packet kinds.                                   *)
(***************************************************************************)
EXTENDS IBCTransferStack, TLAPS

(* The packet has gone through the rate limit and was counted: it is below
   the rate limit on the way down, or on its way up with a success or an
   asynchronous ack.                                                       *)
Counted == (dir = "down" /\ i >= 3) \/ (dir = "up" /\ ack \in {"ok", "async"})

(* The layer index stays inside the packet's stack, and the ack is "none"
   exactly on the way down.                                                *)
InStack ==
  cur # NoPacket =>
    /\ i \in 0..Len(Route(cur.data.via))
    /\ dir = "down" => i >= 1 /\ ack = "none"
    /\ dir = "up" => ack # "none"

(* The rate limiter's count of a limited path covers what was received on
   it, in the committed state and in the branch of the packet being
   received, where it also covers the packet itself once counted.         *)
FlowCovers ==
  /\ \A v \in limits : recvd[v] <= st.flow[v] /\ st.flow[v] <= Quota
  /\ cur # NoPacket =>
       \A v \in limits :
         /\ recvd[v] <= br.flow[v] /\ br.flow[v] <= Quota
         /\ (Counted /\ cur.data.via = v) => recvd[v] + Amt <= br.flow[v]

QInv == TypeOK /\ InStack /\ FlowCovers

-----------------------------------------------------------------------------
(* A packet of the model carries a positive amount.                        *)
LEMMA PacketAmt == ASSUME NEW p \in Packets
                   PROVE p.seq \in Seqs /\ p.data \in PacketData /\ p.data.amt \in Nat
BY KindsAssumption DEF Packets, PacketData

(* Setting a balance, the flow of a path or the forwarded packets of a
   transfer state to a value of their type gives a transfer state.        *)
LEMMA StateBalance ==
  ASSUME NEW s \in State, NEW f \in {"voucher", "hold", "erc20"}, NEW n \in Nat
  PROVE [s EXCEPT ![f] = n] \in State
BY DEF State

LEMMA StateFlow ==
  ASSUME NEW s \in State, NEW v \in Versions, NEW n \in Nat
  PROVE [s EXCEPT !.flow[v] = n] \in State
BY DEF State

LEMMA StateOut ==
  ASSUME NEW s \in State, NEW o \in SUBSET Seqs
  PROVE [s EXCEPT !.out = o] \in State
BY DEF State

(* The packet inside the stack is one the counterparty sent.             *)
LEMMA CurFacts ==
  ASSUME TypeOK, cur # NoPacket
  PROVE /\ cur \in Packets /\ cur.seq \in Seqs
        /\ cur.data.amt \in Nat /\ cur.data.via \in Versions
        /\ cur.data.amt = Amt
BY KindsAssumption DEF TypeOK, Packets, PacketData, Amt

(* Every step of the stacks keeps the variables in their types.            *)
LEMMA TypeStep == TypeOK /\ [Next]_vars => TypeOK'
<1> SUFFICES ASSUME TypeOK, [Next]_vars PROVE TypeOK'
  OBVIOUS
<1> USE DEF TypeOK, Acks
<1>1. ASSUME NEW d \in PacketKinds, Send(d) PROVE TypeOK'
  BY <1>1, BoundsAssumption DEF Send, Packets, Seqs
<1>2. ASSUME NEW p \in inflight, RecvPacket(p) PROVE TypeOK'
  BY <1>2 DEF RecvPacket
<1>3. CASE ERC20Recv
  BY <1>3 DEF ERC20Recv, InLayer
<1>4. CASE RateLimitRecv
  <2>1. cur # NoPacket /\ Amt \in Nat /\ cur.data.via \in Versions
    BY <1>4, CurFacts DEF RateLimitRecv, InLayer
  <2>2. [br EXCEPT !.flow[cur.data.via] = br.flow[cur.data.via] + Amt] \in State
    BY <2>1 DEF State
  <2>3. br' \in State
    BY <1>4, <2>2 DEF RateLimitRecv
  <2> QED
    BY <1>4, <2>3 DEF RateLimitRecv, InLayer
<1>5. CASE PFMRecv
  BY <1>5 DEF PFMRecv, InLayer
<1>6. CASE TransferRecv
  <2>1. cur # NoPacket /\ Amt \in Nat
    BY <1>6, CurFacts DEF TransferRecv, InLayer
  <2>2. [br EXCEPT ![dest] = br[dest] + Amt] \in State
    BY <2>1 DEF State
  <2>3. br' \in State
    BY <1>6, <2>2 DEF TransferRecv
  <2> QED
    BY <1>6, <2>3 DEF TransferRecv, InLayer
<1>7. CASE PFMAck
  <2>1. cur # NoPacket /\ Amt \in Nat /\ cur.seq \in Seqs
    BY <1>7, CurFacts DEF PFMAck, InLayer
  <2>2. br.hold >= Amt => [br EXCEPT !.hold = @ - Amt, !.out = @ \cup {cur.seq}] \in State
    <3> HAVE br.hold >= Amt
    <3> DEFINE r == [br EXCEPT !.hold = br.hold - Amt]
    <3>1. r \in State /\ r.out = br.out
      BY <2>1 DEF State
    <3>2. [r EXCEPT !.out = br.out \cup {cur.seq}] \in State
      BY <2>1, <3>1 DEF State
    <3> QED
      BY <3>1, <3>2
  <2>3. br' \in State
    BY <1>7, <2>2 DEF PFMAck
  <2> QED
    BY <1>7, <2>3 DEF PFMAck, InLayer
<1>8. CASE RateLimitAck
  BY <1>8 DEF RateLimitAck, InLayer
<1>9. CASE ERC20Ack
  <2>1. cur # NoPacket /\ Amt \in Nat
    BY <1>9, CurFacts DEF ERC20Ack, InLayer
  <2>2. br[dest] >= Amt => [br EXCEPT ![dest] = @ - Amt, !.erc20 = @ + Amt] \in State
    <3> HAVE br[dest] >= Amt
    <3> DEFINE r == [br EXCEPT ![dest] = br[dest] - Amt]
    <3>1. r \in State /\ r.erc20 = br.erc20
      BY <2>1 DEF State
    <3>2. br.erc20 + Amt \in Nat
      BY <2>1 DEF State
    <3>3. [r EXCEPT !.erc20 = br.erc20 + Amt] \in State
      BY <3>1, <3>2, StateBalance
    <3> QED
      BY <3>1, <3>3
  <2>3. br' \in State
    BY <1>9, <2>2 DEF ERC20Ack
  <2>4. ack' \in Acks
    BY <1>9, Zenon DEF ERC20Ack, Acks
  <2>5. i' = i - 1 /\ i >= 1
    BY <1>9, Zenon DEF ERC20Ack, InLayer
  <2>6. i' \in Nat
    BY <2>5
  <2> QED
    BY <1>9, <2>3, <2>4, <2>6, Zenon DEF ERC20Ack
<1>10. CASE WriteAck
  BY <1>10, PacketAmt DEF WriteAck, Amt, Versions
<1>11. ASSUME NEW s \in Seqs, NEW ok \in BOOLEAN, ForwardDone(s, ok) PROVE TypeOK'
  BY <1>11, StateOut DEF ForwardDone, State
<1>12. CASE EpochReset
  BY <1>12 DEF EpochReset, State
<1>13. ASSUME NEW v \in LimitPaths, AddRateLimit(v) PROVE TypeOK'
  BY <1>13, LimitPathsAssumption, StateFlow DEF AddRateLimit, Versions
<1>14. CASE UNCHANGED vars
  BY <1>14 DEF vars
<1>15. QED
  BY <1>1, <1>2, <1>3, <1>4, <1>5, <1>6, <1>7, <1>8, <1>9, <1>10, <1>11,
     <1>12, <1>13, <1>14 DEF Next

(* The initial state is well typed.                                        *)
LEMMA TypeInit == Init => TypeOK
<1> SUFFICES ASSUME Init PROVE TypeOK
  OBVIOUS
<1>1. InitState \in State
  BY DEF InitState, State
<1>2. acks \in [Seqs -> Acks] /\ recvd \in [Versions -> Nat]
  BY DEF Init, Acks
<1>3. cur \in Packets \cup {NoPacket}
  BY Zenon DEF Init
<1>4. sent \in 0..MaxPackets /\ i \in Nat
  BY BoundsAssumption DEF Init
<1> QED
  BY <1>1, <1>2, <1>3, <1>4, Zenon DEF Init, TypeOK, Acks

(* Every state of the stacks is well typed: no balance of the committed
   state or of a callback's branch ever goes below zero, whatever the
   relayer delivers and the layers answer.                                 *)
THEOREM TypeCorrect == Spec => []TypeOK
BY TypeInit, TypeStep, PTL DEF Spec

-----------------------------------------------------------------------------
(* Where each middleware sits in the stack of a version: ERC20 is first,
   the rate limit and PFM are the second and third layer of v1 only, and
   ICS20 is last, below at least one other layer.                          *)
LEMMA RouteLen ==
  ASSUME NEW v \in Versions
  PROVE /\ Len(Route(v)) \in {2, 4}
        /\ Len(Route(v)) = 4 <=> v = "v1"
BY DEF Route, TransferStack, TransferStackV2, Versions

LEMMA LayerFacts ==
  ASSUME NEW v \in Versions, NEW k \in 1..Len(Route(v))
  PROVE /\ Route(v)[k] = "ERC20" => k = 1
        /\ Route(v)[k] = "RateLimit" => v = "v1" /\ k = 2
        /\ Route(v)[k] = "PFM" => v = "v1" /\ k = 3
        /\ Route(v)[k] = "Transfer" => k = Len(Route(v))
BY DEF Route, TransferStack, TransferStackV2, Versions

(* The strengthening holds initially.                                      *)
LEMMA QInvInit == Init => QInv
<1> SUFFICES ASSUME Init PROVE QInv
  OBVIOUS
<1>1. TypeOK
  BY TypeInit
<1>2. InStack
  BY Zenon DEF Init, InStack
<1>3. FlowCovers
  BY Zenon DEF Init, FlowCovers
<1> QED
  BY <1>1, <1>2, <1>3 DEF QInv

(* A packet inside a layer is a sent packet at a layer of its stack.       *)
LEMMA InLayerFacts ==
  ASSUME TypeOK, InStack, InLayer
  PROVE /\ cur \in Packets /\ cur.seq \in Seqs
        /\ cur.data.via \in Versions /\ Amt \in Nat
        /\ i \in 1..Len(Route(cur.data.via))
        /\ Layer = Route(cur.data.via)[i]
BY CurFacts DEF InStack, InLayer, Layer

(* Changing a balance or the forwarded packets of a branch leaves the
   flows the rate limiter counted as they were.                            *)
LEMMA KeepsFlow ==
  ASSUME NEW s \in State, NEW f \in {"voucher", "hold", "erc20", "out"}, NEW n
  PROVE [s EXCEPT ![f] = n].flow = s.flow
BY DEF State

-----------------------------------------------------------------------------
(* When governance limits only paths of the v1 route, every step of the
   stacks keeps the strengthening.                                         *)
LEMMA QInvStep ==
  ASSUME LimitPaths \subseteq {"v1"}
  PROVE QInv /\ [Next]_vars => QInv'
<1> SUFFICES ASSUME QInv, [Next]_vars PROVE QInv'
  OBVIOUS
<1>0. TypeOK /\ TypeOK' /\ InStack /\ FlowCovers
  BY TypeStep DEF QInv
<1> SUFFICES InStack' /\ FlowCovers'
  BY <1>0 DEF QInv
<1>1. ASSUME NEW d \in PacketKinds, Send(d) PROVE InStack' /\ FlowCovers'
  BY <1>0, <1>1 DEF Send, InStack, FlowCovers, Counted, Amt
<1>2. ASSUME NEW p \in inflight, RecvPacket(p) PROVE InStack' /\ FlowCovers'
  <2>1. p.data.via \in Versions
    BY <1>0, PacketAmt DEF TypeOK, PacketData
  <2>2. InStack'
    BY <1>2, <2>1, RouteLen DEF RecvPacket, InStack
  <2>3. ~Counted'
    BY <1>2 DEF RecvPacket, Counted
  <2> QED
    BY <1>0, <1>2, <2>2, <2>3 DEF RecvPacket, FlowCovers
<1>3. CASE ERC20Recv
  <2>1. /\ cur.data.via \in Versions /\ i \in 1..Len(Route(cur.data.via))
        /\ Layer = Route(cur.data.via)[i]
    BY <1>0, <1>3, InLayerFacts DEF ERC20Recv
  <2>2. i = 1 /\ Len(Route(cur.data.via)) >= 2
    BY <1>3, <2>1, LayerFacts, RouteLen DEF ERC20Recv
  <2>3. InStack'
    BY <1>0, <1>3, <2>2 DEF ERC20Recv, InStack
  <2>4. ~Counted'
    BY <1>3, <2>2 DEF ERC20Recv, Counted
  <2> QED
    BY <1>0, <1>3, <2>3, <2>4 DEF ERC20Recv, FlowCovers, Amt
<1>4. CASE RateLimitRecv
  <2> DEFINE v == cur.data.via
  <2>1. /\ v \in Versions /\ i \in 1..Len(Route(v)) /\ Layer = Route(v)[i]
        /\ Amt \in Nat /\ cur # NoPacket
    BY <1>0, <1>4, InLayerFacts DEF RateLimitRecv, InLayer
  <2>2. v = "v1" /\ i = 2 /\ Len(Route(v)) = 4
    BY <1>4, <2>1, LayerFacts, RouteLen DEF RateLimitRecv
  <2>3. /\ br.flow \in [Versions -> Nat] /\ recvd \in [Versions -> Nat]
        /\ Quota \in Nat
    BY <1>0, BoundsAssumption DEF TypeOK, State
  <2>4. UNCHANGED << st, recvd, limits, cur >> /\ dir = "down" /\ ack = "none"
    BY <1>0, <1>4, <2>1 DEF RateLimitRecv, InStack, InLayer
  <2>5. CASE v \notin limits
    <3>1. i' = i + 1 /\ UNCHANGED << dir, ack, br >>
      BY <1>4, <2>5 DEF RateLimitRecv
    <3>2. InStack'
      BY <2>2, <2>4, <3>1 DEF InStack
    <3> QED
      BY <1>0, <2>4, <2>5, <3>1, <3>2 DEF FlowCovers, Amt
  <2>6. CASE v \in limits /\ br.flow[v] + Amt <= Quota
    <3>1. i' = i + 1 /\ UNCHANGED << dir, ack >>
          /\ br' = [br EXCEPT !.flow[v] = @ + Amt]
      BY <1>4, <2>1, <2>3, <2>6 DEF RateLimitRecv
    <3>2. br'.flow = [br.flow EXCEPT ![v] = @ + Amt]
      BY <1>0, <3>1 DEF TypeOK, State
    <3>3. InStack'
      BY <2>2, <2>4, <3>1 DEF InStack
    <3>4. ASSUME NEW w \in limits
          PROVE /\ recvd[w] <= br'.flow[w] /\ br'.flow[w] <= Quota
                /\ (Counted' /\ v = w) => recvd[w] + Amt <= br'.flow[w]
      <4>1. w \in Versions /\ recvd[w] <= br.flow[w] /\ br.flow[w] <= Quota
        BY <1>0, <2>1, LimitPathsAssumption DEF FlowCovers, TypeOK
      <4> QED
        BY <2>1, <2>3, <2>6, <3>2, <4>1
    <3> QED
      BY <1>0, <2>4, <3>3, <3>4 DEF FlowCovers, Amt
  <2>7. CASE v \in limits /\ br.flow[v] + Amt > Quota
    <3>1. i' = i - 1 /\ dir' = "up" /\ ack' = "err" /\ UNCHANGED br
      BY <1>4, <2>1, <2>3, <2>7 DEF RateLimitRecv
    <3>2. InStack'
      BY <2>2, <2>4, <3>1 DEF InStack
    <3>3. ~Counted'
      BY <3>1 DEF Counted
    <3> QED
      BY <1>0, <2>4, <3>1, <3>2, <3>3 DEF FlowCovers, Amt
  <2> QED
    BY <2>1, <2>3, <2>5, <2>6, <2>7
<1>5. CASE PFMRecv
  <2>1. /\ cur.data.via \in Versions /\ i \in 1..Len(Route(cur.data.via))
        /\ Layer = Route(cur.data.via)[i]
    BY <1>0, <1>5, InLayerFacts DEF PFMRecv
  <2>2. i = 3 /\ Len(Route(cur.data.via)) = 4
    BY <1>5, <2>1, LayerFacts, RouteLen DEF PFMRecv
  <2>3. InStack'
    BY <1>0, <1>5, <2>2 DEF PFMRecv, InStack
  <2>4. Counted /\ Counted'
    BY <1>5, <2>2 DEF PFMRecv, Counted
  <2> QED
    BY <1>0, <1>5, <2>3, <2>4 DEF PFMRecv, FlowCovers, Amt
<1>6. CASE TransferRecv
  <2> DEFINE v == cur.data.via
  <2>1. /\ v \in Versions /\ i \in 1..Len(Route(v)) /\ Layer = Route(v)[i]
        /\ cur # NoPacket /\ Amt \in Nat
    BY <1>0, <1>6, InLayerFacts DEF TransferRecv, InLayer
  <2>2. i = Len(Route(v)) /\ Len(Route(v)) \in {2, 4} /\ (Len(Route(v)) = 4 <=> v = "v1")
    BY <1>6, <2>1, LayerFacts, RouteLen DEF TransferRecv
  <2>3. /\ i' = i - 1 /\ dir' = "up" /\ ack' \in {"ok", "err"}
        /\ UNCHANGED << st, recvd, limits, cur >> /\ dir = "down"
    BY <1>6 DEF TransferRecv
  <2>4. br'.flow = br.flow
    <3>1. dest \in {"voucher", "hold"} /\ br \in State
      BY <1>0 DEF TypeOK
    <3>2. CASE cur.data.valid
      <4>1. br' = [br EXCEPT ![dest] = br[dest] + Amt]
        BY <1>6, <3>2 DEF TransferRecv
      <4> QED
        BY <3>1, <4>1, KeepsFlow
    <3>3. CASE ~cur.data.valid
      BY <1>6, <3>3 DEF TransferRecv
    <3> QED
      BY <3>2, <3>3
  <2>5. InStack'
    BY <2>1, <2>2, <2>3 DEF InStack
  <2>6. ASSUME NEW w \in limits, Counted', v = w PROVE Counted
    (* Only a v1 path is limited, and ICS20 is the fourth layer of v1.     *)
    <3>1. v = "v1"
      BY <1>0, <2>6 DEF TypeOK
    <3>2. i = 4
      BY <2>2, <3>1
    <3> QED
      BY <2>3, <3>2 DEF Counted
  <2> QED
    BY <1>0, <2>1, <2>3, <2>4, <2>5, <2>6 DEF FlowCovers, Amt
<1>7. CASE PFMAck
  <2> DEFINE fwd == cur.data.fwd
  <2>1. /\ cur.data.via \in Versions /\ i \in 1..Len(Route(cur.data.via))
        /\ Layer = Route(cur.data.via)[i] /\ cur # NoPacket /\ Amt \in Nat
    BY <1>0, <1>7, InLayerFacts DEF PFMAck, InLayer
  <2>2. i = 3 /\ Len(Route(cur.data.via)) = 4
    BY <1>7, <2>1, LayerFacts, RouteLen DEF PFMAck
  <2>3. /\ i' = i - 1 /\ dir = "up" /\ ack # "none" /\ br.hold \in Nat
        /\ UNCHANGED << st, recvd, limits, cur, dir >>
    BY <1>0, <1>7, <2>1 DEF PFMAck, InStack, TypeOK, State
  <2>4. /\ br'.flow = br.flow /\ ack' # "none"
        /\ Counted' => Counted
    <3>1. CASE ~(fwd # "none" /\ ack = "ok")
      BY <1>7, <2>3, <3>1 DEF PFMAck, Counted
    <3>2. CASE fwd = "hop" /\ ack = "ok" /\ br.hold >= Amt
      <4>1. br' = [br EXCEPT !.hold = @ - Amt, !.out = @ \cup {cur.seq}]
            /\ ack' = "async"
        BY <1>7, <2>1, <2>3, <3>2 DEF PFMAck
      <4> QED
        BY <1>0, <2>3, <3>2, <4>1 DEF Counted, TypeOK, State
    <3>3. CASE fwd # "none" /\ ack = "ok" /\ (fwd = "badhop" \/ br.hold < Amt)
      <4>1. ack' = "err" /\ br' = br
        BY <1>7, <2>1, <2>3, <3>3 DEF PFMAck
      <4> QED
        BY <2>3, <4>1 DEF Counted
    <3>4. fwd \in {"none", "hop", "badhop"}
      BY <1>0, <2>1, CurFacts, KindsAssumption DEF Packets, PacketData
    <3> QED
      BY <2>1, <2>3, <3>1, <3>2, <3>3, <3>4
  <2>5. InStack'
    BY <2>1, <2>2, <2>3, <2>4 DEF InStack
  <2> QED
    BY <1>0, <2>1, <2>3, <2>4, <2>5 DEF FlowCovers, Amt
<1>8. CASE RateLimitAck
  <2>1. /\ cur.data.via \in Versions /\ i \in 1..Len(Route(cur.data.via))
        /\ Layer = Route(cur.data.via)[i]
    BY <1>0, <1>8, InLayerFacts DEF RateLimitAck
  <2>2. i = 2 /\ Len(Route(cur.data.via)) = 4
    BY <1>8, <2>1, LayerFacts, RouteLen DEF RateLimitAck
  <2>3. InStack'
    BY <1>0, <1>8, <2>2 DEF RateLimitAck, InStack
  <2>4. Counted' = Counted
    BY <1>8 DEF RateLimitAck, Counted
  <2> QED
    BY <1>0, <1>8, <2>3, <2>4 DEF RateLimitAck, FlowCovers, Amt
<1>9. CASE ERC20Ack
  <2> DEFINE pair == cur.data.pair
  <2>1. /\ cur.data.via \in Versions /\ i \in 1..Len(Route(cur.data.via))
        /\ Layer = Route(cur.data.via)[i] /\ cur # NoPacket /\ Amt \in Nat
    BY <1>0, <1>9, InLayerFacts DEF ERC20Ack, InLayer
  <2>2. i = 1
    BY <1>9, <2>1, LayerFacts DEF ERC20Ack
  <2>3. /\ i' = i - 1 /\ dir = "up" /\ ack # "none"
        /\ br[dest] \in Nat /\ dest \in {"voucher", "hold"}
        /\ UNCHANGED << st, recvd, limits, cur, dir >>
    BY <1>0, <1>9, <2>1 DEF ERC20Ack, InStack, TypeOK, State
  <2>4. /\ br'.flow = br.flow /\ ack' # "none"
        /\ Counted' => Counted
    <3>1. CASE ~(ack = "ok" /\ pair # "none")
      BY <1>9, <2>3, <3>1 DEF ERC20Ack, Counted
    <3>2. CASE ack = "ok" /\ pair = "ok" /\ br[dest] >= Amt
      <4>1. ~(br[dest] < Amt)
        BY <2>1, <2>3, <3>2
      <4>2. br' = [br EXCEPT ![dest] = @ - Amt, !.erc20 = @ + Amt]
            /\ ack' = ack
        BY <1>9, <3>2, <4>1, Zenon DEF ERC20Ack
      <4> DEFINE r == [br EXCEPT ![dest] = br[dest] - Amt]
      <4>0. /\ br \in State /\ dest \in {"voucher", "hold"}
            /\ Amt \in Nat /\ br[dest] >= Amt
        BY <1>0, <2>1, <3>2 DEF TypeOK
      <4>3. r \in State
        BY <4>0 DEF State
      <4>5. r.flow = br.flow
        BY <1>0, <2>3, KeepsFlow DEF TypeOK
      <4>4. br'.flow = br.flow
        BY <4>2, <4>3, <4>5, KeepsFlow, Zenon
      <4> QED
        BY <2>3, <4>2, <4>4 DEF Counted
    <3>3. CASE ack = "ok" /\ pair # "none" /\ (pair = "reverts" \/ br[dest] < Amt)
      <4>1. ~(pair = "ok" /\ br[dest] >= Amt)
        BY <2>1, <2>3, <3>3
      <4>2. ack' = "err" /\ br' = br
        BY <1>9, <3>3, <4>1, Zenon DEF ERC20Ack
      <4> QED
        BY <2>3, <4>2 DEF Counted
    <3>4. pair \in {"none", "ok", "reverts"}
      BY <1>0, <2>1, CurFacts, KindsAssumption DEF Packets, PacketData
    <3> QED
      BY <2>1, <2>3, <3>1, <3>2, <3>3, <3>4
  <2>5. InStack'
    BY <2>1, <2>2, <2>3, <2>4 DEF InStack
  <2> QED
    BY <1>0, <2>1, <2>3, <2>4, <2>5 DEF FlowCovers, Amt
<1>10. CASE WriteAck
  <2>1. /\ cur # NoPacket /\ dir = "up" /\ ack \in Acks \ {"none"}
        /\ cur.data.via \in Versions /\ Amt \in Nat
        /\ cur' = NoPacket /\ UNCHANGED limits
    BY <1>0, <1>10, CurFacts DEF WriteAck, InStack, TypeOK
  <2>2. InStack'
    BY <2>1 DEF InStack
  <2>3. CASE ack = "err"
    <3>1. UNCHANGED << st, recvd >>
      BY <1>10, <2>3 DEF WriteAck
    <3> QED
      BY <1>0, <2>1, <2>2, <3>1 DEF FlowCovers
  <2>4. CASE ack # "err"
    <3>1. st' = br /\ recvd' = [recvd EXCEPT ![cur.data.via] = @ + Amt]
      BY <1>10, <2>4 DEF WriteAck
    <3>2. Counted
      BY <2>1, <2>4 DEF Counted, Acks
    <3>3. ASSUME NEW w \in limits
          PROVE recvd'[w] <= st'.flow[w] /\ st'.flow[w] <= Quota
      <4>1. /\ w \in Versions /\ recvd \in [Versions -> Nat]
            /\ br.flow \in [Versions -> Nat]
            /\ recvd[w] <= br.flow[w] /\ br.flow[w] <= Quota
            /\ (cur.data.via = w => recvd[w] + Amt <= br.flow[w])
        BY <1>0, <2>1, <3>2, LimitPathsAssumption DEF FlowCovers, TypeOK, State
      <4>2. CASE w = cur.data.via
        BY <2>1, <3>1, <4>1, <4>2
      <4>3. CASE w # cur.data.via
        BY <2>1, <3>1, <4>1, <4>3
      <4> QED
        BY <4>2, <4>3
    <3> QED
      BY <2>1, <2>2, <3>3 DEF FlowCovers
  <2> QED
    BY <2>2, <2>3, <2>4
<1>11. ASSUME NEW s \in Seqs, NEW ok \in BOOLEAN, ForwardDone(s, ok)
       PROVE InStack' /\ FlowCovers'
  <2>1. st'.flow = st.flow
    BY <1>0, <1>11, KeepsFlow DEF ForwardDone, TypeOK
  <2> QED
    BY <1>0, <1>11, <2>1 DEF ForwardDone, InStack, FlowCovers
<1>12. CASE EpochReset
  <2>1. st'.flow = [v \in Versions |-> 0] /\ recvd' = [v \in Versions |-> 0]
    BY <1>0, <1>12 DEF EpochReset, TypeOK, State
  <2>2. UNCHANGED << limits, cur >> /\ cur = NoPacket
    BY <1>12 DEF EpochReset
  <2>3. \A w \in limits' : recvd'[w] <= st'.flow[w] /\ st'.flow[w] <= Quota
    BY <1>0, <2>1, <2>2, BoundsAssumption, LimitPathsAssumption DEF TypeOK
  <2> QED
    BY <2>2, <2>3 DEF InStack, FlowCovers
<1>13. ASSUME NEW v \in LimitPaths, AddRateLimit(v) PROVE InStack' /\ FlowCovers'
  <2>1. /\ st'.flow = [st.flow EXCEPT ![v] = 0]
        /\ recvd' = [recvd EXCEPT ![v] = 0]
    BY <1>0, <1>13 DEF AddRateLimit, TypeOK, State
  <2>2. \A w \in limits' : recvd'[w] <= st'.flow[w] /\ st'.flow[w] <= Quota
    BY <1>0, <1>13, <2>1, BoundsAssumption, LimitPathsAssumption
       DEF AddRateLimit, FlowCovers, TypeOK, State
  <2> QED
    BY <1>13, <2>2 DEF AddRateLimit, InStack, FlowCovers
<1>14. CASE UNCHANGED vars
  BY <1>0, <1>14 DEF vars, InStack, FlowCovers, Counted, Amt
<1>15. QED
  BY <1>1, <1>2, <1>3, <1>4, <1>5, <1>6, <1>7, <1>8, <1>9, <1>10, <1>11,
     <1>12, <1>13, <1>14 DEF Next

(* When governance puts rate limits on paths of the v1 route only, the
   amount received over a limited path within one window of the limiter
   never exceeds its quota, however the relayer orders and interleaves the
   packets and whatever PFM and ERC20 do with them on the way up: the
   RateLimit middleware of configureIBCMiddlewareStacks holds its quota.  *)
THEOREM InflowWithinQuotaHolds ==
  ASSUME LimitPaths \subseteq {"v1"}
  PROVE Spec => []InflowWithinQuota
<1>1. QInv => InflowWithinQuota
  <2> SUFFICES ASSUME QInv, NEW v \in limits PROVE recvd[v] <= Quota
    BY DEF InflowWithinQuota
  <2>1. /\ v \in Versions /\ recvd \in [Versions -> Nat]
        /\ st.flow \in [Versions -> Nat] /\ Quota \in Nat
    BY LimitPathsAssumption, BoundsAssumption DEF QInv, TypeOK, State
  <2>2. recvd[v] <= st.flow[v] /\ st.flow[v] <= Quota
    BY DEF QInv, FlowCovers
  <2> QED
    BY <2>1, <2>2
<1>2. QED
  BY <1>1, QInvInit, QInvStep, PTL DEF Spec

-----------------------------------------------------------------------------
(* The receive contract's view of the packet inside the stack: its path,
   whether a rate limit covers it, whether PFM forwards it, and whether the
   contract refuses it.                                                    *)
Via == cur.data.via

Limited == Via = "v1" /\ Via \in limits

Fwd == cur.data.fwd # "none" /\ Via = "v1"

Refused ==
  \/ Limited /\ st.flow[Via] + Amt > Quota
  \/ ~cur.data.valid
  \/ Fwd /\ cur.data.fwd = "badhop"
  \/ ~Fwd /\ cur.data.pair = "reverts"

(* How far the packet has got: past the rate limit, past PFM's work on the
   way up (at once on v2, which has no PFM), and past ERC20's.              *)
FlowDone == dir = "up" \/ i >= 3

PFMDone == dir = "up" /\ (Via = "v2" \/ i <= 2)

ERC20Done == dir = "up" /\ i = 0

(* No packet is sent twice: every packet in flight, and the one in the
   stack, has a sequence the counterparty has used, and the one in the
   stack is no longer in flight.                                           *)
Fresh ==
  /\ \A p \in inflight : p.seq <= sent
  /\ cur # NoPacket => cur \notin inflight /\ cur.seq <= sent

(* The branch of the packet in the stack is the committed state with the
   effects of the layers run so far: the inflow counted by the rate limit,
   the voucher ICS20 minted to the receiver or to PFM, PFM's send to the
   next hop, and ERC20's conversion; an error ack is one the contract
   refuses the packet with.  One definition per part of the branch.        *)
ErrRefused == ack = "err" => Refused

FlowTrack ==
  /\ br.flow = IF FlowDone /\ Limited
                 THEN [st.flow EXCEPT ![Via] = @ + Amt] ELSE st.flow
  /\ FlowDone /\ Limited => st.flow[Via] + Amt <= Quota

DestTrack ==
  dest = IF (dir = "up" \/ i = Len(Route(Via))) /\ Fwd THEN "hold" ELSE "voucher"

DownTrack ==
  dir = "down" =>
    /\ br.voucher = st.voucher /\ br.hold = st.hold
    /\ br.erc20 = st.erc20 /\ br.out = st.out

UpTrack ==
  dir = "up" =>
    /\ cur.data.valid
    /\ Fwd =>
         /\ br.voucher = st.voucher /\ br.erc20 = st.erc20
         /\ ~PFMDone => br.hold = st.hold + Amt /\ br.out = st.out /\ ack = "ok"
         /\ PFMDone => /\ br.hold = st.hold /\ br.out = st.out \cup {cur.seq}
                       /\ ack = "async" /\ cur.data.fwd = "hop"
    /\ ~Fwd =>
         /\ br.hold = st.hold /\ br.out = st.out /\ ack = "ok"
         /\ ~(ERC20Done /\ cur.data.pair = "ok") =>
              br.voucher = st.voucher + Amt /\ br.erc20 = st.erc20
         /\ ERC20Done /\ cur.data.pair = "ok" =>
              br.voucher = st.voucher /\ br.erc20 = st.erc20 + Amt
         /\ ERC20Done => cur.data.pair # "reverts"

OnTrack ==
  cur # NoPacket =>
    /\ ErrRefused
    /\ ack # "err" => FlowTrack /\ DestTrack /\ DownTrack /\ UpTrack

CInv == TypeOK /\ InStack /\ Fresh /\ OnTrack

(* Two transfer states with the same balances, flows and forwarded packets
   are equal.                                                              *)
LEMMA StateExt ==
  ASSUME NEW a \in State, NEW b \in State,
         a.voucher = b.voucher, a.hold = b.hold, a.erc20 = b.erc20,
         a.flow = b.flow, a.out = b.out
  PROVE  a = b
BY DEF State

(* What the rate limit's count, ICS20's mint, PFM's send and ERC20's
   conversion do to the parts of a transfer state.                         *)
LEMMA CountFields ==
  ASSUME NEW s \in State, NEW v \in Versions, NEW n
  PROVE  LET r == [s EXCEPT !.flow[v] = n]
         IN  /\ r.flow = [s.flow EXCEPT ![v] = n]
             /\ r.voucher = s.voucher /\ r.hold = s.hold
             /\ r.erc20 = s.erc20 /\ r.out = s.out
BY DEF State

LEMMA MintFields ==
  ASSUME NEW s \in State, NEW f \in {"voucher", "hold"}, NEW n
  PROVE  LET r == [s EXCEPT ![f] = n]
         IN  /\ r.voucher = IF f = "voucher" THEN n ELSE s.voucher
             /\ r.hold = IF f = "hold" THEN n ELSE s.hold
             /\ r.flow = s.flow /\ r.erc20 = s.erc20 /\ r.out = s.out
BY DEF State

LEMMA SendFields ==
  ASSUME NEW s \in State, NEW a, NEW q
  PROVE  LET r == [s EXCEPT !.hold = @ - a, !.out = @ \cup {q}]
         IN  /\ r.hold = s.hold - a /\ r.out = s.out \cup {q}
             /\ r.flow = s.flow /\ r.voucher = s.voucher /\ r.erc20 = s.erc20
BY DEF State

LEMMA ConvertFields ==
  ASSUME NEW s \in State, NEW a
  PROVE  LET r == [s EXCEPT !.voucher = @ - a, !.erc20 = @ + a]
         IN  /\ r.voucher = s.voucher - a /\ r.erc20 = s.erc20 + a
             /\ r.flow = s.flow /\ r.hold = s.hold /\ r.out = s.out
BY DEF State

(* Nothing is in the stack initially.                                      *)
LEMMA CInvInit == Init => CInv
<1> SUFFICES ASSUME Init PROVE CInv
  OBVIOUS
<1>1. TypeOK /\ InStack
  BY QInvInit DEF QInv
<1>2. Fresh /\ OnTrack
  BY DEF Init, Fresh, OnTrack
<1> QED
  BY <1>1, <1>2 DEF CInv

(* A layer's step leaves the contract's view of the packet alone.          *)
LEMMA ViewKept ==
  ASSUME UNCHANGED << st, limits, cur >>
  PROVE  /\ Via' = Via /\ Amt' = Amt
         /\ (Limited' <=> Limited) /\ (Fwd' <=> Fwd) /\ (Refused' <=> Refused)
BY DEF Via, Limited, Fwd, Refused, Amt

(* The data of the packet in the stack.                                    *)
LEMMA DataFacts ==
  ASSUME TypeOK, cur # NoPacket
  PROVE  /\ cur.data.fwd \in {"none", "hop", "badhop"}
         /\ cur.data.pair \in {"none", "ok", "reverts"}
         /\ cur.data.valid \in BOOLEAN
BY KindsAssumption DEF TypeOK, Packets, PacketData

(* The forward memo counts on the v1 route only.                           *)
LEMMA FwdOnV1 == Fwd => Via = "v1"
BY DEF Fwd

(* ERC20 passes the packet down untouched.                                 *)
LEMMA ERC20RecvStep ==
  ASSUME CInv, ERC20Recv
  PROVE  CInv'
<1>0. TypeOK /\ InStack /\ Fresh /\ OnTrack /\ TypeOK'
  BY TypeStep DEF CInv, Next
<1>1. /\ cur # NoPacket /\ Via \in Versions /\ Amt \in Nat
      /\ i \in 1..Len(Route(Via)) /\ Layer = Route(Via)[i]
  BY <1>0, InLayerFacts DEF ERC20Recv, InLayer, Via
<1>2. i = 1 /\ Len(Route(Via)) \in {2, 4} /\ (Len(Route(Via)) = 4 <=> Via = "v1")
  BY <1>1, LayerFacts, RouteLen DEF ERC20Recv
<1>3. /\ i' = i + 1 /\ dir = "down" /\ ack = "none"
      /\ UNCHANGED << sent, inflight, st, limits, cur, dir, ack, dest, br >>
  BY <1>0, <1>1 DEF ERC20Recv, InStack
<1>4. /\ Via' = Via /\ Amt' = Amt
      /\ (Limited' <=> Limited) /\ (Fwd' <=> Fwd) /\ (Refused' <=> Refused)
  BY <1>3, ViewKept
<1>5. InStack'
  BY <1>2, <1>3 DEF InStack, Via
<1>6. Fresh'
  BY <1>0, <1>3 DEF Fresh
<1>7. /\ FlowTrack /\ DestTrack /\ DownTrack
  BY <1>0, <1>1, <1>3 DEF OnTrack
<1>8. ~FlowDone /\ ~FlowDone' /\ dest = "voucher"
  BY <1>2, <1>3, <1>7 DEF FlowDone, DestTrack
<1>9. FlowTrack'
  BY <1>3, <1>4, <1>7, <1>8 DEF FlowTrack
<1>10. DestTrack'
  (* The second layer is ICS20 only on v2, where nothing is forwarded.     *)
  <2>1. i' = Len(Route(Via')) => ~Fwd'
    BY <1>2, <1>3, <1>4, FwdOnV1
  <2> QED
    BY <1>3, <1>8, <2>1 DEF DestTrack
<1>11. DownTrack' /\ UpTrack' /\ ErrRefused'
  BY <1>3, <1>7 DEF DownTrack, UpTrack, ErrRefused
<1> QED
  BY <1>0, <1>5, <1>6, <1>9, <1>10, <1>11 DEF CInv, OnTrack

(* The rate limit counts the packet into the branch or refuses it.        *)
LEMMA RateLimitRecvStep ==
  ASSUME CInv, RateLimitRecv
  PROVE  CInv'
<1>0. TypeOK /\ InStack /\ Fresh /\ OnTrack /\ TypeOK'
  BY TypeStep DEF CInv, Next
<1>1. /\ cur # NoPacket /\ Via \in Versions /\ Amt \in Nat
      /\ i \in 1..Len(Route(Via)) /\ Layer = Route(Via)[i]
  BY <1>0, InLayerFacts DEF RateLimitRecv, InLayer, Via
<1>2. Via = "v1" /\ i = 2 /\ Len(Route(Via)) = 4
  BY <1>1, LayerFacts, RouteLen DEF RateLimitRecv
<1>3. /\ dir = "down" /\ ack = "none"
      /\ UNCHANGED << sent, inflight, st, limits, cur, dest >>
  BY <1>0, <1>1 DEF RateLimitRecv, InStack
<1>4. /\ Via' = Via /\ Amt' = Amt
      /\ (Limited' <=> Limited) /\ (Fwd' <=> Fwd) /\ (Refused' <=> Refused)
  BY <1>3, ViewKept
<1>5. /\ FlowTrack /\ DestTrack /\ DownTrack /\ ~FlowDone
      /\ br.flow = st.flow /\ dest = "voucher"
  <2>1. FlowTrack /\ DestTrack /\ DownTrack
    BY <1>0, <1>1, <1>3 DEF OnTrack
  <2>2. ~FlowDone
    BY <1>2, <1>3 DEF FlowDone
  <2>3. br.flow = st.flow
    BY <2>1, <2>2 DEF FlowTrack
  <2>4. dest = "voucher"
    BY <1>2, <1>3, <2>1 DEF DestTrack
  <2> QED
    BY <2>1, <2>2, <2>3, <2>4
<1>6. Limited <=> Via \in limits
  BY <1>2 DEF Limited
<1>7. /\ br \in State /\ st \in State /\ Quota \in Nat
      /\ st.flow \in [Versions -> Nat]
  BY <1>0, BoundsAssumption DEF TypeOK, State
<1>8. Fresh'
  BY <1>0, <1>3 DEF Fresh
<1>9. CASE Via \notin limits
  <2>1. i' = 3 /\ UNCHANGED << dir, ack, br >>
    BY <1>2, <1>9 DEF RateLimitRecv, Via
  <2>2. InStack'
    BY <1>2, <1>3, <2>1 DEF InStack, Via
  <2>3. FlowDone' /\ ~Limited'
    BY <1>4, <1>6, <1>9, <2>1 DEF FlowDone
  <2>4. FlowTrack'
    BY <1>3, <1>4, <1>5, <2>1, <2>3 DEF FlowTrack
  <2>5. DestTrack'
    BY <1>2, <1>3, <1>4, <1>5, <2>1 DEF DestTrack
  <2>6. DownTrack' /\ UpTrack' /\ ErrRefused'
    BY <1>3, <1>5, <2>1 DEF DownTrack, UpTrack, ErrRefused
  <2> QED
    BY <1>0, <1>8, <2>2, <2>4, <2>5, <2>6 DEF CInv, OnTrack
<1>10. CASE Via \in limits /\ br.flow[Via] + Amt <= Quota
  <2>1. i' = 3 /\ UNCHANGED << dir, ack >>
        /\ br' = [br EXCEPT !.flow[Via] = @ + Amt]
    BY <1>1, <1>2, <1>5, <1>7, <1>10 DEF RateLimitRecv, Via
  <2>2. /\ br'.flow = [br.flow EXCEPT ![Via] = br.flow[Via] + Amt]
        /\ br'.voucher = br.voucher /\ br'.hold = br.hold
        /\ br'.erc20 = br.erc20 /\ br'.out = br.out
    BY <1>1, <1>7, <2>1, CountFields
  <2>3. InStack'
    BY <1>2, <1>3, <2>1 DEF InStack, Via
  <2>4. FlowDone' /\ Limited'
    BY <1>4, <1>6, <1>10, <2>1 DEF FlowDone
  <2>5. FlowTrack'
    BY <1>3, <1>4, <1>5, <1>10, <2>2, <2>4 DEF FlowTrack
  <2>6. DestTrack'
    BY <1>2, <1>3, <1>4, <1>5, <2>1 DEF DestTrack
  <2>7. DownTrack' /\ UpTrack' /\ ErrRefused'
    BY <1>3, <1>5, <2>1, <2>2 DEF DownTrack, UpTrack, ErrRefused
  <2> QED
    BY <1>0, <1>8, <2>3, <2>5, <2>6, <2>7 DEF CInv, OnTrack
<1>11. CASE Via \in limits /\ br.flow[Via] + Amt > Quota
  (* The refusal is the contract's: the committed inflow is the branch's. *)
  <2>1. i' = 1 /\ dir' = "up" /\ ack' = "err"
    BY <1>1, <1>2, <1>5, <1>7, <1>11 DEF RateLimitRecv, Via
  <2>2. InStack'
    BY <1>2, <1>3, <2>1 DEF InStack, Via
  <2>3. Refused
    BY <1>5, <1>6, <1>11 DEF Refused
  <2>4. ErrRefused'
    BY <1>4, <2>1, <2>3 DEF ErrRefused
  <2> QED
    BY <1>0, <1>8, <2>1, <2>2, <2>4 DEF CInv, OnTrack
<1> QED
  BY <1>1, <1>5, <1>7, <1>9, <1>10, <1>11

(* PFM has the voucher of a forwarded packet minted to its own account.    *)
LEMMA PFMRecvStep ==
  ASSUME CInv, PFMRecv
  PROVE  CInv'
<1>0. TypeOK /\ InStack /\ Fresh /\ OnTrack /\ TypeOK'
  BY TypeStep DEF CInv, Next
<1>1. /\ cur # NoPacket /\ Via \in Versions /\ Amt \in Nat
      /\ i \in 1..Len(Route(Via)) /\ Layer = Route(Via)[i]
  BY <1>0, InLayerFacts DEF PFMRecv, InLayer, Via
<1>2. Via = "v1" /\ i = 3 /\ Len(Route(Via)) = 4
  BY <1>1, LayerFacts, RouteLen DEF PFMRecv
<1>3. /\ i' = 4 /\ dir = "down" /\ ack = "none"
      /\ UNCHANGED << sent, inflight, st, limits, cur, dir, ack, br >>
  BY <1>0, <1>1, <1>2 DEF PFMRecv, InStack
<1>12. dest' = IF cur.data.fwd # "none" THEN "hold" ELSE "voucher"
  BY DEF PFMRecv
<1>4. /\ Via' = Via /\ Amt' = Amt
      /\ (Limited' <=> Limited) /\ (Fwd' <=> Fwd) /\ (Refused' <=> Refused)
  BY <1>3, ViewKept
<1>5. Fwd <=> cur.data.fwd # "none"
  BY <1>2 DEF Fwd
<1>6. InStack'
  <2>1. 4 \in 0..4 /\ 4 >= 1
    OBVIOUS
  <2> QED
    BY <1>2, <1>3, <2>1, Zenon DEF InStack, Via
<1>7. Fresh'
  BY <1>0, <1>3 DEF Fresh
<1>8. FlowTrack /\ DownTrack /\ FlowDone /\ FlowDone'
  BY <1>0, <1>1, <1>2, <1>3 DEF OnTrack, FlowDone
<1>9. FlowTrack'
  BY <1>3, <1>4, <1>8 DEF FlowTrack
<1>10. DestTrack'
  BY <1>2, <1>3, <1>4, <1>5, <1>12 DEF DestTrack
<1>11. DownTrack' /\ UpTrack' /\ ErrRefused'
  BY <1>3, <1>8 DEF DownTrack, UpTrack, ErrRefused
<1> QED
  BY <1>0, <1>6, <1>7, <1>9, <1>10, <1>11 DEF CInv, OnTrack

(* ICS20 mints the voucher to the receiver or to PFM, or fails the packet. *)
LEMMA TransferRecvStep ==
  ASSUME CInv, TransferRecv
  PROVE  CInv'
<1>0. TypeOK /\ InStack /\ Fresh /\ OnTrack /\ TypeOK'
  BY TypeStep DEF CInv, Next
<1>1. /\ cur # NoPacket /\ Via \in Versions /\ Amt \in Nat
      /\ i \in 1..Len(Route(Via)) /\ Layer = Route(Via)[i]
  BY <1>0, InLayerFacts DEF TransferRecv, InLayer, Via
<1>2. i = Len(Route(Via)) /\ Len(Route(Via)) \in {2, 4}
      /\ (Len(Route(Via)) = 4 <=> Via = "v1")
  BY <1>1, LayerFacts, RouteLen DEF TransferRecv
<1>3. /\ i' = i - 1 /\ dir' = "up" /\ dir = "down" /\ ack = "none"
      /\ ack' \in {"ok", "err"}
      /\ UNCHANGED << sent, inflight, st, limits, cur, dest >>
  BY <1>0, <1>1 DEF TransferRecv, InStack
<1>4. /\ Via' = Via /\ Amt' = Amt
      /\ (Limited' <=> Limited) /\ (Fwd' <=> Fwd) /\ (Refused' <=> Refused)
  BY <1>3, ViewKept
<1>5. FlowTrack /\ DownTrack /\ dest = IF Fwd THEN "hold" ELSE "voucher"
  <2>1. FlowTrack /\ DestTrack /\ DownTrack
    BY <1>0, <1>1, <1>3 DEF OnTrack
  <2> QED
    BY <1>2, <2>1 DEF DestTrack
<1>6. InStack'
  <2>1. i' \in 0..Len(Route(Via)) /\ ack' # "none"
    BY <1>1, <1>2, <1>3
  <2> QED
    BY <1>3, <2>1, Zenon DEF InStack, Via
<1>7. Fresh'
  BY <1>0, <1>3 DEF Fresh
<1>8. CASE ~cur.data.valid
  <2>1. ack' = "err"
    BY <1>8 DEF TransferRecv
  <2>2. ErrRefused'
    BY <1>4, <1>8, <2>1 DEF ErrRefused, Refused
  <2> QED
    BY <1>0, <1>6, <1>7, <2>1, <2>2 DEF CInv, OnTrack
<1>9. CASE cur.data.valid
  <2>1. ack' = "ok" /\ br' = [br EXCEPT ![dest] = br[dest] + Amt]
    BY <1>9 DEF TransferRecv
  <2>2. /\ br \in State /\ st \in State /\ dest \in {"voucher", "hold"}
        /\ st.flow \in [Versions -> Nat]
    BY <1>0 DEF TypeOK, State
  <2>3. /\ br'.voucher = IF dest = "voucher" THEN br.voucher + Amt ELSE br.voucher
        /\ br'.hold = IF dest = "hold" THEN br.hold + Amt ELSE br.hold
        /\ br'.flow = br.flow /\ br'.erc20 = br.erc20 /\ br'.out = br.out
    BY <2>1, <2>2, MintFields
  (* The rate limit, when it covers the packet, has already counted it.   *)
  <2>4. FlowDone' /\ (Limited => FlowDone)
    <3>1. Limited => i = 4
      BY <1>2 DEF Limited
    <3> QED
      BY <1>3, <3>1 DEF FlowDone
  <2>5. FlowTrack'
    BY <1>3, <1>4, <1>5, <2>3, <2>4 DEF FlowTrack
  <2>6. ~ERC20Done' /\ (Fwd => ~PFMDone')
    <3>1. i' >= 1 /\ (Via = "v1" => i' = 3)
      BY <1>1, <1>2, <1>3
    <3>2. Fwd => Via = "v1"
      BY FwdOnV1
    <3> QED
      BY <1>4, <3>1, <3>2 DEF ERC20Done, PFMDone
  <2>7. UpTrack'
    <3>1. cur'.data.valid /\ ack' = "ok" /\ br'.out = st'.out
          /\ br'.erc20 = st'.erc20 /\ dir' = "up"
      BY <1>3, <1>9, <2>1, <2>3, <1>5 DEF DownTrack
    <3>2. CASE Fwd
      <4>1. br'.hold = st'.hold + Amt' /\ br'.voucher = st'.voucher
        BY <1>3, <1>4, <1>5, <2>3, <3>2 DEF DownTrack
      <4>2. Fwd' /\ ~PFMDone'
        BY <1>4, <2>6, <3>2
      <4> QED
        BY <3>1, <4>1, <4>2, Zenon DEF UpTrack
    <3>3. CASE ~Fwd
      <4>1. br'.voucher = st'.voucher + Amt' /\ br'.hold = st'.hold
        BY <1>3, <1>4, <1>5, <2>3, <3>3 DEF DownTrack
      <4>2. ~Fwd' /\ ~ERC20Done'
        BY <1>4, <2>6, <3>3
      <4> QED
        BY <3>1, <4>1, <4>2, Zenon DEF UpTrack
    <3> QED
      BY <3>2, <3>3
  <2>8. DestTrack' /\ DownTrack' /\ ErrRefused'
    BY <1>3, <1>4, <1>5, <2>1 DEF DestTrack, DownTrack, ErrRefused
  <2> QED
    BY <1>0, <1>6, <1>7, <2>5, <2>7, <2>8 DEF CInv, OnTrack
<1> QED
  BY <1>8, <1>9

(* On the way up PFM sends a forwarded packet on and answers later, or
   refuses a forward it cannot send.                                       *)
LEMMA PFMAckStep ==
  ASSUME CInv, PFMAck
  PROVE  CInv'
<1>0. TypeOK /\ InStack /\ Fresh /\ OnTrack /\ TypeOK'
  BY TypeStep DEF CInv, Next
<1>1. /\ cur # NoPacket /\ Via \in Versions /\ Amt \in Nat
      /\ i \in 1..Len(Route(Via)) /\ Layer = Route(Via)[i]
  BY <1>0, InLayerFacts DEF PFMAck, InLayer, Via
<1>2. Via = "v1" /\ i = 3 /\ Len(Route(Via)) = 4
  BY <1>1, LayerFacts, RouteLen DEF PFMAck
<1>3. /\ i' = 2 /\ dir = "up" /\ ack # "none"
      /\ UNCHANGED << sent, inflight, st, limits, cur, dir, dest >>
  BY <1>0, <1>1, <1>2 DEF PFMAck, InStack
<1>4. /\ Via' = Via /\ Amt' = Amt
      /\ (Limited' <=> Limited) /\ (Fwd' <=> Fwd) /\ (Refused' <=> Refused)
  BY <1>3, ViewKept
<1>5. /\ Fwd <=> cur.data.fwd # "none"
      /\ ~PFMDone /\ PFMDone' /\ ~ERC20Done /\ ~ERC20Done' /\ FlowDone'
  BY <1>2, <1>3 DEF Fwd, PFMDone, ERC20Done, FlowDone
<1>6. /\ br \in State /\ st \in State /\ cur.data.fwd \in {"none", "hop", "badhop"}
      /\ cur.seq \in Seqs
  BY <1>0, <1>1, DataFacts, CurFacts DEF TypeOK
<1>7. Fresh'
  BY <1>0, <1>3 DEF Fresh
<1>8. ack' \in {ack, "async", "err"} /\ br'.flow = br.flow
  <2>1. \/ ack' = ack /\ br' = br
        \/ br' = [br EXCEPT !.hold = @ - Amt, !.out = @ \cup {cur.seq}]
           /\ ack' = "async"
        \/ ack' = "err" /\ br' = br
    BY Zenon DEF PFMAck
  <2>2. [br EXCEPT !.hold = @ - Amt, !.out = @ \cup {cur.seq}].flow = br.flow
    BY <1>6, SendFields
  <2> QED
    BY <2>1, <2>2, Zenon
<1>9. InStack'
  <2>1. 2 \in 0..4 /\ ack' # "none"
    BY <1>3, <1>8
  <2> QED
    BY <1>2, <1>3, <2>1, Zenon DEF InStack, Via
<1>10. CASE ack = "err"
  <2>1. ack' = "err"
    BY <1>10 DEF PFMAck
  <2>2. ErrRefused'
    BY <1>0, <1>1, <1>4, <1>10, <2>1 DEF OnTrack, ErrRefused
  <2> QED
    BY <1>0, <1>7, <1>9, <2>1, <2>2 DEF CInv, OnTrack
<1>11. CASE ack # "err"
  <2>1. FlowTrack /\ DestTrack /\ UpTrack
    BY <1>0, <1>1, <1>11 DEF OnTrack
  (* On the way up through PFM the ack is ICS20's success.                *)
  <2>2. /\ ack = "ok" /\ cur.data.valid /\ br.erc20 = st.erc20
        /\ br.out = st.out
    BY <1>3, <1>5, <2>1, Zenon DEF UpTrack
  <2>3. FlowTrack' /\ DestTrack'
    BY <1>3, <1>4, <1>5, <1>8, <2>1 DEF FlowTrack, DestTrack, FlowDone
  <2>4. DownTrack'
    BY <1>3 DEF DownTrack
  (* PFM's three answers, by the three disjuncts of PFMAck.               *)
  <2>5. CASE cur.data.fwd = "none"
    <3>1. ~(cur.data.fwd # "none" /\ ack = "ok")
      BY <2>5
    <3>2. ack' = ack /\ br' = br
      BY <3>1, Zenon DEF PFMAck
    <3>3. ~Fwd /\ ~Fwd'
      BY <1>4, <1>5, <2>5
    <3>4. br.hold = st.hold /\ br.out = st.out /\ ack = "ok"
          /\ br.voucher = st.voucher + Amt /\ br.erc20 = st.erc20
      BY <1>3, <1>5, <2>1, <3>3, Zenon DEF UpTrack
    <3>5. UpTrack'
      BY <1>3, <1>4, <1>5, <2>2, <3>2, <3>3, <3>4, Zenon DEF UpTrack
    <3>6. ack' # "err"
      BY <3>2, <3>4
    <3> QED
      BY <1>0, <1>7, <1>9, <2>3, <2>4, <3>5, <3>6, Zenon
         DEF CInv, OnTrack, ErrRefused
  <2>6. CASE cur.data.fwd = "hop"
    (* PFM holds the minted voucher and sends it on to the next hop.      *)
    <3>1. Fwd /\ Fwd'
      BY <1>4, <1>5, <2>6
    <3>2. br.hold = st.hold + Amt /\ br.voucher = st.voucher /\ ack = "ok"
      BY <1>3, <1>5, <2>1, <3>1, Zenon DEF UpTrack
    <3>3. br.hold >= Amt
      BY <1>1, <1>6, <3>2 DEF State
    <3>4. ~(cur.data.fwd = "badhop" \/ br.hold < Amt)
      <4>1. ~(br.hold < Amt)
        BY <1>1, <1>6, <3>3 DEF State
      <4> QED
        BY <2>6, <4>1
    <3>5. br' = [br EXCEPT !.hold = @ - Amt, !.out = @ \cup {cur.seq}]
          /\ ack' = "async"
      BY <2>6, <3>2, <3>3, <3>4, Zenon DEF PFMAck
    <3>6. /\ br'.hold = br.hold - Amt /\ br'.out = br.out \cup {cur.seq}
          /\ br'.voucher = br.voucher /\ br'.erc20 = br.erc20
      BY <1>6, <3>5, SendFields
    <3>7. br'.hold = st.hold
      BY <1>1, <1>6, <3>2, <3>6 DEF State
    <3>8. UpTrack'
      BY <1>3, <1>4, <1>5, <2>2, <2>6, <3>1, <3>2, <3>5, <3>6, <3>7, Zenon
         DEF UpTrack
    <3>9. ack' # "err"
      BY <3>5
    <3> QED
      BY <1>0, <1>7, <1>9, <2>3, <2>4, <3>8, <3>9, Zenon
         DEF CInv, OnTrack, ErrRefused
  <2>7. CASE cur.data.fwd = "badhop"
    <3>1. ack' = "err"
      BY <2>2, <2>7, Zenon DEF PFMAck
    <3>2. Refused
      BY <1>5, <2>7 DEF Refused
    <3> QED
      BY <1>0, <1>4, <1>7, <1>9, <3>1, <3>2 DEF CInv, OnTrack, ErrRefused
  <2> QED
    BY <1>6, <2>5, <2>6, <2>7
<1> QED
  BY <1>10, <1>11


(* The rate limit passes the ack up untouched.                             *)
LEMMA RateLimitAckStep ==
  ASSUME CInv, RateLimitAck
  PROVE  CInv'
<1>0. TypeOK /\ InStack /\ Fresh /\ OnTrack /\ TypeOK'
  BY TypeStep DEF CInv, Next
<1>1. /\ cur # NoPacket /\ Via \in Versions /\ Amt \in Nat
      /\ i \in 1..Len(Route(Via)) /\ Layer = Route(Via)[i]
  BY <1>0, InLayerFacts DEF RateLimitAck, InLayer, Via
<1>2. Via = "v1" /\ i = 2
  BY <1>1, LayerFacts DEF RateLimitAck
<1>3. /\ i' = 1 /\ dir = "up" /\ dir' = "up"
      /\ UNCHANGED << sent, inflight, st, limits, cur, ack, dest, br >>
  BY <1>2 DEF RateLimitAck
<1>4. /\ Via' = Via /\ Amt' = Amt
      /\ (Limited' <=> Limited) /\ (Fwd' <=> Fwd) /\ (Refused' <=> Refused)
  BY <1>3, ViewKept
<1>5. FlowDone /\ FlowDone' /\ PFMDone /\ PFMDone' /\ ~ERC20Done /\ ~ERC20Done'
  BY <1>2, <1>3 DEF FlowDone, PFMDone, ERC20Done
<1>6. InStack'
  <2>1. Len(Route(Via)) = 4
    BY <1>1, <1>2, RouteLen
  <2>2. 1 \in 0..Len(Route(Via)) /\ ack' # "none"
    BY <1>0, <1>1, <1>3, <2>1 DEF InStack
  <2> QED
    BY <1>3, <2>2, Zenon DEF InStack, Via
<1>7. Fresh'
  BY <1>0, <1>3 DEF Fresh
<1>8. OnTrack'
  <2>1. ErrRefused'
    BY <1>0, <1>1, <1>3, <1>4 DEF OnTrack, ErrRefused
  <2>2. ack # "err" => FlowTrack /\ DestTrack /\ UpTrack
    BY <1>0, <1>1 DEF OnTrack
  <2>3. FlowTrack => FlowTrack'
    BY <1>3, <1>4, <1>5 DEF FlowTrack
  <2>4. DestTrack => DestTrack'
    BY <1>3, <1>4, Zenon DEF DestTrack
  <2>5. DownTrack'
    BY <1>3 DEF DownTrack
  <2>6. UpTrack => UpTrack'
    BY <1>3, <1>4, <1>5, Zenon DEF UpTrack
  <2> QED
    BY <1>3, <2>1, <2>2, <2>3, <2>4, <2>5, <2>6 DEF OnTrack
<1> QED
  BY <1>0, <1>6, <1>7, <1>8 DEF CInv


(* ERC20 converts the receiver's voucher of a success ack with a token
   pair, or turns the ack into an error when the conversion reverts.       *)
LEMMA ERC20AckStep ==
  ASSUME CInv, ERC20Ack
  PROVE  CInv'
<1>0. TypeOK /\ InStack /\ Fresh /\ OnTrack /\ TypeOK'
  BY TypeStep DEF CInv, Next
<1>1. /\ cur # NoPacket /\ Via \in Versions /\ Amt \in Nat
      /\ i \in 1..Len(Route(Via)) /\ Layer = Route(Via)[i]
  BY <1>0, InLayerFacts DEF ERC20Ack, InLayer, Via
<1>2. i = 1
  BY <1>1, LayerFacts DEF ERC20Ack
<1>3. /\ i' = 0 /\ dir = "up" /\ dir' = "up"
      /\ UNCHANGED << sent, inflight, st, limits, cur, dest >>
  <2>1. i' = i - 1 /\ dir = "up" /\ dir' = "up"
        /\ UNCHANGED << sent, inflight, st, limits, cur, dest >>
    BY Zenon DEF ERC20Ack
  <2>2. i' = 0
    BY <1>2, <2>1
  <2> QED
    BY <2>1, <2>2
<1>4. /\ Via' = Via /\ Amt' = Amt
      /\ (Limited' <=> Limited) /\ (Fwd' <=> Fwd) /\ (Refused' <=> Refused)
  BY <1>3, ViewKept
<1>5. FlowDone /\ FlowDone' /\ PFMDone /\ PFMDone' /\ ~ERC20Done /\ ERC20Done'
  BY <1>2, <1>3 DEF FlowDone, PFMDone, ERC20Done
<1>6. /\ br \in State /\ st \in State /\ ack \in Acks
      /\ cur.data.pair \in {"none", "ok", "reverts"}
  BY <1>0, <1>1, DataFacts DEF TypeOK
(* The three answers of ERC20Ack, as disjuncts.                            *)
<1>7. \/ ~(ack = "ok" /\ cur.data.pair # "none") /\ ack' = ack /\ br' = br
      \/ /\ ack = "ok" /\ cur.data.pair = "ok" /\ br[dest] >= Amt
         /\ br' = [br EXCEPT ![dest] = @ - Amt, !.erc20 = @ + Amt]
         /\ ack' = ack
      \/ /\ ack = "ok" /\ cur.data.pair = "reverts"
         /\ ack' = "err" /\ br' = br
      \/ /\ ack = "ok" /\ cur.data.pair # "none" /\ br[dest] < Amt
         /\ ack' = "err" /\ br' = br
  BY Zenon DEF ERC20Ack
<1>8. InStack'
  <2>1. 0 \in 0..Len(Route(Via))
    BY <1>1
  <2>2. ack # "none"
    BY <1>0, <1>1, <1>3 DEF InStack
  <2>3. ack' # "none"
    BY <1>7, <2>2
  <2> QED
    BY <1>3, <2>1, <2>3, Zenon DEF InStack, Via
<1>9. Fresh'
  BY <1>0, <1>3 DEF Fresh
<1>10. DownTrack'
  BY <1>3 DEF DownTrack
(* An error ack stays one and the branch is left alone.                    *)
<1>11. CASE ack = "err"
  <2>1. ack' = "err"
    BY <1>7, <1>11
  <2>2. ErrRefused'
    BY <1>0, <1>1, <1>4, <1>11, <2>1 DEF OnTrack, ErrRefused
  <2> QED
    BY <1>0, <1>8, <1>9, <2>1, <2>2 DEF CInv, OnTrack
<1>12. CASE ack # "err"
  <2>1. FlowTrack /\ DestTrack /\ UpTrack
    BY <1>0, <1>1, <1>12 DEF OnTrack
  <2>2. cur.data.valid
    BY <1>3, <2>1 DEF UpTrack
  <2>3. DestTrack'
    BY <1>3, <1>4, <2>1, Zenon DEF DestTrack
  (* A forwarded packet's ack is PFM's asynchronous one: ERC20 skips it.   *)
  <2>4. CASE Fwd
    <3>1. ack = "async"
      BY <1>3, <1>5, <2>1, <2>4, Zenon DEF UpTrack
    <3>2. ack' = ack /\ br' = br
      BY <1>7, <3>1
    <3>3. FlowTrack' /\ UpTrack'
      BY <1>3, <1>4, <1>5, <2>1, <2>4, <3>2, Zenon DEF FlowTrack, UpTrack
    <3> QED
      BY <1>0, <1>8, <1>9, <1>10, <2>3, <3>1, <3>2, <3>3
         DEF CInv, OnTrack, ErrRefused
  <2>5. CASE ~Fwd
    <3>1. /\ ack = "ok" /\ br.hold = st.hold /\ br.out = st.out
          /\ br.voucher = st.voucher + Amt /\ br.erc20 = st.erc20
      BY <1>3, <1>5, <2>1, <2>5, Zenon DEF UpTrack
    <3>2. dest = "voucher"
      BY <2>1, <2>5, Zenon DEF DestTrack
    <3>3. br[dest] = br.voucher /\ br.voucher >= Amt
      <4>1. st.voucher \in Nat
        BY <1>6 DEF State
      <4> QED
        BY <1>1, <3>1, <3>2, <4>1
    <3>4. ~Fwd' /\ br'.flow = br.flow
      <4>1. [br EXCEPT ![dest] = @ - Amt, !.erc20 = @ + Amt].flow = br.flow
        BY <1>6, <3>2 DEF State
      <4> QED
        BY <1>4, <1>7, <2>5, <4>1, Zenon
    <3>5. FlowTrack'
      BY <1>3, <1>4, <1>5, <2>1, <3>4, Zenon DEF FlowTrack
    <3>6. CASE cur.data.pair = "none"
      <4>1. ack' = ack /\ br' = br
        BY <1>7, <3>1, <3>6
      <4>2. UpTrack'
        BY <1>3, <1>4, <1>5, <2>2, <3>1, <3>4, <3>6, <4>1, Zenon DEF UpTrack
      <4> QED
        BY <1>0, <1>8, <1>9, <1>10, <2>3, <3>1, <3>5, <4>1, <4>2
           DEF CInv, OnTrack, ErrRefused
    (* The conversion moves the minted amount from voucher to ERC20.       *)
    <3>7. CASE cur.data.pair = "ok"
      <4>1. ~(br[dest] < Amt)
        <5>1. br.voucher \in Nat
          BY <1>6 DEF State
        <5> QED
          BY <1>1, <3>3, <5>1
      <4>2. br' = [br EXCEPT ![dest] = @ - Amt, !.erc20 = @ + Amt]
            /\ ack' = ack
        BY <1>7, <3>1, <3>7, <4>1, Zenon
      <4>3. /\ br'.voucher = br.voucher - Amt /\ br'.erc20 = br.erc20 + Amt
            /\ br'.hold = br.hold /\ br'.out = br.out
        BY <1>6, <3>2, <4>2 DEF State
      <4>4. br'.voucher = st.voucher
        BY <1>1, <1>6, <3>1, <4>3 DEF State
      <4>5. br'.erc20 = st.erc20 + Amt
        BY <3>1, <4>3
      <4>6. UpTrack'
        BY <1>3, <1>4, <1>5, <2>2, <3>1, <3>4, <3>7, <4>2, <4>3, <4>4, <4>5,
           Zenon DEF UpTrack
      <4> QED
        BY <1>0, <1>8, <1>9, <1>10, <2>3, <3>1, <3>5, <4>2, <4>6
           DEF CInv, OnTrack, ErrRefused
    (* A reverting conversion is refused by the contract.                  *)
    <3>8. CASE cur.data.pair = "reverts"
      <4>1. ack' = "err"
        BY <1>7, <3>1, <3>8
      <4>2. Refused'
        BY <1>4, <2>5, <3>8 DEF Refused
      <4> QED
        BY <1>0, <1>8, <1>9, <4>1, <4>2 DEF CInv, OnTrack, ErrRefused
    <3> QED
      BY <1>6, <3>6, <3>7, <3>8
  <2> QED
    BY <2>4, <2>5
<1> QED
  BY <1>11, <1>12


(* A step that leaves no packet in the stack and sends and delivers
   nothing keeps the strengthening: core writing the ack, a forwarded
   packet's delayed ack, the end of a window, a new rate limit.           *)
LEMMA IdleStep ==
  ASSUME CInv, TypeOK', cur' = NoPacket, UNCHANGED << sent, inflight >>
  PROVE  CInv'
<1>1. InStack' /\ OnTrack'
  BY DEF InStack, OnTrack
<1>2. Fresh'
  BY DEF CInv, Fresh
<1> QED
  BY <1>1, <1>2 DEF CInv

(* The counterparty's new packet has a sequence not used before.          *)
LEMMA SendStep ==
  ASSUME CInv, NEW d \in PacketKinds, Send(d)
  PROVE  CInv'
<1>0. TypeOK /\ InStack /\ Fresh /\ OnTrack /\ TypeOK'
  BY TypeStep DEF CInv, Next
<1>1. /\ sent \in Nat /\ sent' = sent + 1
      /\ inflight' = inflight \cup {[seq |-> sent + 1, data |-> d]}
      /\ UNCHANGED << st, limits, cur, i, dir, ack, dest, br >>
  BY <1>0 DEF Send, TypeOK
<1>2. InStack' /\ OnTrack'
  BY <1>0, <1>1 DEF InStack, OnTrack, ErrRefused, Refused, FlowTrack, DestTrack,
     DownTrack, UpTrack, Via, Limited, Fwd, Amt, FlowDone, PFMDone, ERC20Done
<1>3. \A p \in inflight' : p.seq <= sent'
  <2>1. \A p \in inflight : p.seq \in Nat
    BY <1>0 DEF TypeOK, Packets, Seqs
  <2> QED
    BY <1>0, <1>1, <2>1 DEF Fresh
<1>4. cur' # NoPacket => cur' \notin inflight' /\ cur'.seq <= sent'
  <2> SUFFICES ASSUME cur # NoPacket PROVE cur \notin inflight' /\ cur.seq <= sent'
    BY <1>1
  <2>1. cur \notin inflight /\ cur.seq <= sent /\ cur.seq \in Nat
    BY <1>0, CurFacts DEF Fresh, Seqs
  <2>2. cur # [seq |-> sent + 1, data |-> d]
    BY <1>1, <2>1
  <2> QED
    BY <1>1, <2>1, <2>2
<1> QED
  BY <1>0, <1>2, <1>3, <1>4 DEF CInv, Fresh

(* A relayer's delivery starts the packet at the outermost layer, on a
   branch equal to the committed state.                                   *)
LEMMA RecvPacketStep ==
  ASSUME CInv, NEW p \in inflight, RecvPacket(p)
  PROVE  CInv'
<1>0. TypeOK /\ InStack /\ Fresh /\ OnTrack /\ TypeOK'
  BY TypeStep DEF CInv, Next
<1>1. /\ cur = NoPacket /\ cur' = p /\ inflight' = inflight \ {p}
      /\ i' = 1 /\ dir' = "down" /\ ack' = "none" /\ dest' = "voucher"
      /\ br' = st /\ UNCHANGED << sent, st, limits >>
  BY DEF RecvPacket
<1>2. /\ p \in Packets /\ p # NoPacket /\ p.seq <= sent
      /\ p.data.via \in Versions
  <2>1. p \in Packets
    BY <1>0 DEF TypeOK
  <2>2. p # NoPacket
    <3>1. p.seq \in 1..MaxPackets /\ NoPacket.seq = 0
      BY <2>1 DEF Packets, Seqs, NoPacket
    <3> QED
      BY <3>1
  <2> QED
    BY <1>0, <2>1, <2>2, KindsAssumption DEF Fresh, Packets, PacketData
<1>3. Len(Route(Via')) \in {2, 4}
  BY <1>1, <1>2, RouteLen DEF Via
<1>4. InStack'
  <2>1. 1 \in 0..Len(Route(cur'.data.via))
    BY <1>1, <1>3 DEF Via
  <2> QED
    BY <1>1, <2>1 DEF InStack
<1>5. Fresh'
  BY <1>0, <1>1, <1>2 DEF Fresh
<1>6. ~FlowDone' /\ ~((dir' = "up" \/ i' = Len(Route(Via'))) /\ Fwd')
  BY <1>1, <1>3 DEF FlowDone
<1>7. FlowTrack' /\ DestTrack' /\ DownTrack' /\ UpTrack' /\ ErrRefused'
  BY <1>1, <1>6, Zenon DEF FlowTrack, DestTrack, DownTrack, UpTrack, ErrRefused
<1> QED
  BY <1>0, <1>4, <1>5, <1>7 DEF CInv, OnTrack

(* Every step of the stacks keeps the strengthening.                       *)
LEMMA CInvStep == CInv /\ [Next]_vars => CInv'
<1> SUFFICES ASSUME CInv, [Next]_vars PROVE CInv'
  OBVIOUS
<1>0. TypeOK'
  BY TypeStep DEF CInv
<1>1. ASSUME NEW d \in PacketKinds, Send(d) PROVE CInv'
  BY <1>1, SendStep
<1>2. ASSUME NEW p \in inflight, RecvPacket(p) PROVE CInv'
  BY <1>2, RecvPacketStep
<1>3. CASE ERC20Recv \/ RateLimitRecv \/ PFMRecv \/ TransferRecv
  BY <1>3, ERC20RecvStep, RateLimitRecvStep, PFMRecvStep, TransferRecvStep
<1>4. CASE PFMAck \/ RateLimitAck \/ ERC20Ack
  BY <1>4, PFMAckStep, RateLimitAckStep, ERC20AckStep
<1>5. CASE WriteAck
  BY <1>0, <1>5, IdleStep DEF WriteAck
<1>6. ASSUME NEW s \in Seqs, NEW ok \in BOOLEAN, ForwardDone(s, ok) PROVE CInv'
  BY <1>0, <1>6, IdleStep DEF ForwardDone
<1>7. CASE EpochReset
  BY <1>0, <1>7, IdleStep DEF EpochReset
<1>8. ASSUME NEW v \in LimitPaths, AddRateLimit(v) PROVE CInv'
  BY <1>0, <1>8, IdleStep DEF AddRateLimit
<1>9. CASE UNCHANGED vars
  BY <1>9 DEF vars, CInv, TypeOK, InStack, Fresh, OnTrack, ErrRefused,
     Refused, FlowTrack, DestTrack, DownTrack, UpTrack, Via, Limited, Fwd,
     Amt, FlowDone, PFMDone, ERC20Done
<1> QED
  BY <1>1, <1>2, <1>3, <1>4, <1>5, <1>6, <1>7, <1>8, <1>9 DEF Next

LEMMA CInvHolds == Spec => []CInv
BY CInvInit, CInvStep, PTL DEF Spec


-----------------------------------------------------------------------------
(* The contract's view of the stacks: the packet in the stack is still in
   flight, and the state ICS20Receive's Recv commits for it.              *)
CInflight == IF cur = NoPacket THEN inflight ELSE inflight \cup {cur}

RecvState ==
  [st EXCEPT !.flow[Via] = IF Limited THEN @ + Amt ELSE @,
             !.voucher = IF Fwd \/ cur.data.pair = "ok" THEN @ ELSE @ + Amt,
             !.erc20 = IF ~Fwd /\ cur.data.pair = "ok" THEN @ + Amt ELSE @,
             !.out = IF Fwd THEN @ \cup {cur.seq} ELSE @]

(* The parts of the committed state after a successful receive.           *)
LEMMA RecvStateFields ==
  ASSUME st \in State, Via \in Versions, Amt \in Nat, cur.seq \in Seqs
  PROVE  /\ RecvState \in State
         /\ RecvState.flow = IF Limited THEN [st.flow EXCEPT ![Via] = @ + Amt]
                                        ELSE st.flow
         /\ RecvState.voucher = IF Fwd \/ cur.data.pair = "ok"
                                  THEN st.voucher ELSE st.voucher + Amt
         /\ RecvState.erc20 = IF ~Fwd /\ cur.data.pair = "ok"
                                THEN st.erc20 + Amt ELSE st.erc20
         /\ RecvState.hold = st.hold
         /\ RecvState.out = IF Fwd THEN st.out \cup {cur.seq} ELSE st.out
<1>1. RecvState.flow = IF Limited THEN [st.flow EXCEPT ![Via] = @ + Amt]
                                  ELSE st.flow
  <2>1. CASE Limited
    BY <2>1 DEF RecvState, State
  <2>2. CASE ~Limited
    BY <2>2 DEF RecvState, State
  <2> QED
    BY <2>1, <2>2
<1>2. RecvState.voucher = IF Fwd \/ cur.data.pair = "ok"
                            THEN st.voucher ELSE st.voucher + Amt
  BY DEF RecvState, State
<1>3. RecvState.erc20 = IF ~Fwd /\ cur.data.pair = "ok"
                          THEN st.erc20 + Amt ELSE st.erc20
  BY DEF RecvState, State
<1>4. RecvState.hold = st.hold /\ RecvState.out = IF Fwd THEN st.out \cup {cur.seq} ELSE st.out
  BY DEF RecvState, State
<1>5. RecvState \in State
  <2> DEFINE r1 == [st EXCEPT !.flow[Via] = IF Limited THEN @ + Amt ELSE @]
             r2 == [r1 EXCEPT !.voucher = IF Fwd \/ cur.data.pair = "ok"
                                            THEN @ ELSE @ + Amt]
             r3 == [r2 EXCEPT !.erc20 = IF ~Fwd /\ cur.data.pair = "ok"
                                          THEN @ + Amt ELSE @]
             r4 == [r3 EXCEPT !.out = IF Fwd THEN @ \cup {cur.seq} ELSE @]
  <2>1. r1 \in State
    <3>1. (IF Limited THEN st.flow[Via] + Amt ELSE st.flow[Via]) \in Nat
      BY DEF State
    <3> QED
      BY <3>1, StateFlow
  <2>2. r1.voucher \in Nat /\ r1.erc20 \in Nat /\ r1.out \in SUBSET Seqs
    BY <2>1 DEF State
  <2>3. r2 \in State
    <3>1. (IF Fwd \/ cur.data.pair = "ok" THEN r1.voucher ELSE r1.voucher + Amt)
            \in Nat
      BY <2>2 DEF Fwd, Via
    <3> QED
      BY <2>1, <3>1, StateBalance
  <2>4. r2.erc20 \in Nat /\ r2.out \in SUBSET Seqs
    BY <2>3 DEF State
  <2>5. r3 \in State
    <3>1. (IF ~Fwd /\ cur.data.pair = "ok" THEN r2.erc20 + Amt ELSE r2.erc20)
            \in Nat
      BY <2>4 DEF Fwd, Via
    <3> QED
      BY <2>3, <3>1, StateBalance
  <2>6. r4 \in State
    <3>1. (IF Fwd THEN r3.out \cup {cur.seq} ELSE r3.out) \in SUBSET Seqs
      BY <2>5 DEF State
    <3> QED
      BY <2>5, <3>1, StateOut
  <2>7. RecvState = r4
    BY DEF RecvState
  <2> QED
    BY <2>6, <2>7
<1> QED
  BY <1>1, <1>2, <1>3, <1>4, <1>5

(* Writing the packet's ack and its branch, as core does, is the
   contract's receive of the packet.                                       *)
LEMMA WriteAckIsRecv ==
  ASSUME cur \in CInflight, CInflight' = CInflight \ {cur},
         UNCHANGED << sent, limits >>,
         \/ /\ Refused
            /\ acks' = [acks EXCEPT ![cur.seq] = "err"]
            /\ UNCHANGED << st, recvd >>
         \/ /\ ~Refused
            /\ acks' = [acks EXCEPT ![cur.seq] = IF Fwd THEN "async" ELSE "ok"]
            /\ st' = RecvState
            /\ recvd' = [recvd EXCEPT ![Via] = @ + Amt]
  PROVE  Contract!Recv(cur)
BY DEF Contract!Recv, CInflight, Refused, Limited, Fwd, Via, Amt, RecvState


(* When core writes the ack, the packet has been through every layer: an
   error ack is one the contract refuses the packet with, and any other
   ack comes with a branch that is the state the contract commits.        *)
LEMMA WriteAckRefines ==
  ASSUME CInv, WriteAck
  PROVE  cur \in CInflight /\ Contract!Recv(cur)
<1>0. TypeOK /\ InStack /\ Fresh /\ OnTrack
  BY DEF CInv
<1>1. /\ cur # NoPacket /\ i = 0 /\ dir = "up" /\ cur' = NoPacket
      /\ UNCHANGED << sent, inflight, limits >>
      /\ acks' = [acks EXCEPT ![cur.seq] = ack]
      /\ \/ ack = "err" /\ UNCHANGED << st, recvd >>
         \/ ack # "err" /\ st' = br /\ recvd' = [recvd EXCEPT ![Via] = @ + Amt]
  BY Zenon DEF WriteAck, Via
<1>2. /\ Via \in Versions /\ Amt \in Nat /\ cur.seq \in Seqs
      /\ st \in State /\ br \in State /\ Quota \in Nat
  BY <1>0, <1>1, CurFacts, BoundsAssumption DEF TypeOK, Via
<1>3. cur \in CInflight /\ CInflight' = CInflight \ {cur}
  BY <1>0, <1>1 DEF CInflight, Fresh
<1>4. FlowDone /\ PFMDone /\ ERC20Done
  BY <1>1 DEF FlowDone, PFMDone, ERC20Done
<1>5. CASE ack = "err"
  <2>1. Refused
    BY <1>0, <1>1, <1>5 DEF OnTrack, ErrRefused
  <2>2. acks' = [acks EXCEPT ![cur.seq] = "err"] /\ UNCHANGED << st, recvd >>
    BY <1>1, <1>5
  <2> QED
    BY <1>1, <1>3, <2>1, <2>2, WriteAckIsRecv
<1>6. CASE ack # "err"
  <2>1. FlowTrack /\ UpTrack
    BY <1>0, <1>1, <1>6 DEF OnTrack
  <2>2. cur.data.valid
    BY <1>1, <2>1 DEF UpTrack
  (* The branch's count of a limited path.                                 *)
  <2>3. br.flow = RecvState.flow /\ (Limited => st.flow[Via] + Amt <= Quota)
    <3>1. CASE Limited
      <4>1. br.flow = [st.flow EXCEPT ![Via] = @ + Amt]
            /\ st.flow[Via] + Amt <= Quota
        BY <1>4, <2>1, <3>1, Zenon DEF FlowTrack
      <4>2. RecvState.flow = [st.flow EXCEPT ![Via] = @ + Amt]
        BY <1>2, <3>1, RecvStateFields, Zenon
      <4> QED
        BY <4>1, <4>2
    <3>2. CASE ~Limited
      <4>1. br.flow = st.flow
        BY <1>4, <2>1, <3>2, Zenon DEF FlowTrack
      <4>2. RecvState.flow = st.flow
        BY <1>2, <3>2, RecvStateFields, Zenon
      <4> QED
        BY <3>2, <4>1, <4>2
    <3> QED
      BY <3>1, <3>2
  (* The balances, PFM's sends and the ack, by what the layers did.        *)
  <2>9. /\ br.voucher = RecvState.voucher /\ br.erc20 = RecvState.erc20
        /\ br.hold = RecvState.hold /\ br.out = RecvState.out
        /\ ack = IF Fwd THEN "async" ELSE "ok"
        /\ ~(Fwd /\ cur.data.fwd = "badhop") /\ ~(~Fwd /\ cur.data.pair = "reverts")
    <3>1. CASE Fwd
      <4>1. /\ br.voucher = st.voucher /\ br.erc20 = st.erc20
            /\ br.hold = st.hold /\ br.out = st.out \cup {cur.seq}
            /\ ack = "async" /\ cur.data.fwd = "hop"
        BY <1>1, <1>4, <2>1, <3>1, Zenon DEF UpTrack
      <4>2. /\ RecvState.voucher = st.voucher /\ RecvState.erc20 = st.erc20
            /\ RecvState.hold = st.hold /\ RecvState.out = st.out \cup {cur.seq}
        BY <1>2, <3>1, RecvStateFields, Zenon
      <4>3. ~(Fwd /\ cur.data.fwd = "badhop") /\ ~(~Fwd /\ cur.data.pair = "reverts")
        BY <3>1, <4>1
      <4> QED
        BY <4>1, <4>2, <4>3, <3>1, Zenon
    <3>2. CASE ~Fwd /\ cur.data.pair = "ok"
      <4>1. /\ br.voucher = st.voucher /\ br.erc20 = st.erc20 + Amt
            /\ br.hold = st.hold /\ br.out = st.out /\ ack = "ok"
        BY <1>1, <1>4, <2>1, <3>2, Zenon DEF UpTrack
      <4>2. /\ RecvState.voucher = st.voucher /\ RecvState.erc20 = st.erc20 + Amt
            /\ RecvState.hold = st.hold /\ RecvState.out = st.out
        BY <1>2, <3>2, RecvStateFields, Zenon
      <4> QED
        BY <4>1, <4>2, <3>2, Zenon
    <3>3. CASE ~Fwd /\ cur.data.pair # "ok"
      <4>1. /\ br.voucher = st.voucher + Amt /\ br.erc20 = st.erc20
            /\ br.hold = st.hold /\ br.out = st.out /\ ack = "ok"
            /\ cur.data.pair # "reverts"
        BY <1>1, <1>4, <2>1, <3>3, Zenon DEF UpTrack
      <4>2. /\ RecvState.voucher = st.voucher + Amt /\ RecvState.erc20 = st.erc20
            /\ RecvState.hold = st.hold /\ RecvState.out = st.out
        BY <1>2, <3>3, RecvStateFields, Zenon
      <4> QED
        BY <4>1, <4>2, <3>3, Zenon
    <3> QED
      BY <3>1, <3>2, <3>3
  <2>10. br = RecvState
    BY <1>2, <2>3, <2>9, RecvStateFields, StateExt
  <2>11. ~Refused
    <3>1. ~(Limited /\ st.flow[Via] + Amt > Quota)
      <4>1. st.flow[Via] \in Nat
        BY <1>2 DEF State
      <4> QED
        BY <1>2, <2>3, <4>1
    <3> QED
      BY <2>2, <2>9, <3>1 DEF Refused
  <2>12. /\ acks' = [acks EXCEPT ![cur.seq] = IF Fwd THEN "async" ELSE "ok"]
         /\ st' = RecvState /\ recvd' = [recvd EXCEPT ![Via] = @ + Amt]
    BY <1>1, <1>6, <2>9, <2>10
  <2> QED
    BY <1>1, <1>3, <2>11, <2>12, WriteAckIsRecv
<1> QED
  BY <1>3, <1>5, <1>6


(* Every step of the stacks is a step of the receive contract or leaves
   the contract's variables alone.                                        *)
LEMMA ReceiveStep == CInv /\ [Next]_vars => [Contract!Next]_Contract!vars
<1> SUFFICES ASSUME CInv, [Next]_vars PROVE [Contract!Next]_Contract!vars
  OBVIOUS
<1> DEFINE Kept == UNCHANGED << sent, inflight, acks, st, recvd, limits, cur >>
<1>0. Kept => UNCHANGED Contract!vars
  BY DEF Contract!vars, CInflight
<1>1. ASSUME NEW d \in PacketKinds, Send(d) PROVE Contract!Next
  <2>1. Contract!Send(d)
    BY <1>1 DEF Send, Contract!Send, CInflight
  <2> QED
    BY <2>1 DEF Contract!Next
<1>2. ASSUME NEW p \in inflight, RecvPacket(p) PROVE UNCHANGED Contract!vars
  <2>1. p # NoPacket
    <3>1. p.seq \in 1..MaxPackets /\ NoPacket.seq = 0
      BY DEF CInv, TypeOK, Packets, Seqs, NoPacket
    <3> QED
      BY <3>1
  <2>2. CInflight' = CInflight
    BY <1>2, <2>1 DEF RecvPacket, CInflight
  <2> QED
    BY <1>2, <2>2 DEF RecvPacket, Contract!vars, CInflight
<1>3. CASE ERC20Recv \/ RateLimitRecv \/ PFMRecv \/ TransferRecv
  BY <1>0, <1>3 DEF ERC20Recv, RateLimitRecv, PFMRecv, TransferRecv
<1>4. CASE PFMAck \/ RateLimitAck \/ ERC20Ack
  BY <1>0, <1>4 DEF PFMAck, RateLimitAck, ERC20Ack
<1>5. CASE WriteAck
  BY <1>5, WriteAckRefines DEF Contract!Next, CInflight
<1>6. ASSUME NEW s \in Seqs, NEW ok \in BOOLEAN, ForwardDone(s, ok)
      PROVE  Contract!Next
  <2>1. Contract!ForwardDone(s, ok)
    BY <1>6 DEF ForwardDone, Contract!ForwardDone, CInflight
  <2>2. s \in Contract!Seqs
    BY DEF Seqs, Contract!Seqs
  <2> QED
    BY <2>1, <2>2 DEF Contract!Next
<1>7. CASE EpochReset
  <2>1. Contract!EpochReset
    BY <1>7 DEF EpochReset, Contract!EpochReset, CInflight, Contract!Versions,
       Versions
  <2> QED
    BY <2>1 DEF Contract!Next
<1>8. ASSUME NEW v \in LimitPaths, AddRateLimit(v) PROVE Contract!Next
  <2>1. Contract!AddRateLimit(v)
    BY <1>8 DEF AddRateLimit, Contract!AddRateLimit, CInflight
  <2> QED
    BY <2>1 DEF Contract!Next
<1>9. CASE UNCHANGED vars
  BY <1>0, <1>9 DEF vars
<1> QED
  BY <1>1, <1>2, <1>3, <1>4, <1>5, <1>6, <1>7, <1>8, <1>9 DEF Next

(* The middleware stacks of configureIBCMiddlewareStacks implement the
   receive contract of ICS20Receive: whatever the relayer delivers, and
   with the packet's effects spread over ERC20, the rate limit, PFM and
   ICS20 on a cached branch, what core commits for a packet is what the
   contract's one-step receive commits, an error ack changes nothing but
   the ack, and every other step of a layer is invisible to the contract. *)
THEOREM ReceiveRefinesContractHolds == Spec => ReceiveRefinesContract
<1>1. Init => Contract!Init
  BY DEF Init, Contract!Init, CInflight, Contract!Seqs, Seqs,
     Contract!InitState, InitState, Contract!Versions, Versions
<1>2. CInv /\ [Next]_vars => [Contract!Next]_Contract!vars
  BY ReceiveStep
<1> QED
  BY <1>1, <1>2, CInvHolds, PTL DEF Spec, ReceiveRefinesContract, Contract!Spec

====
