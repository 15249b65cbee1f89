---------------------------- MODULE ICS20Receive ----------------------------
(***************************************************************************)
(* What Kudora's IBC transfer routes promise, with the middleware layers   *)
(* left out: a packet is received in one step.  The comments of            *)
(* configureIBCMiddlewareStacks give the contract: on the v1 route the     *)
(* rate limit refuses a packet over the window's quota, a packet with a    *)
(* forward memo is sent on by PFM and acknowledged later (or refused when   *)
(* its next hop cannot be used), and the ERC20 middleware converts what    *)
(* ICS20 minted when the denom has a token pair (or refuses the packet     *)
(* when the conversion reverts);                                           *)
(* the v2 route has only ICS20 and ERC20.  A refused packet changes        *)
(* nothing but its acknowledgement.                                        *)
(***************************************************************************)
EXTENDS IBCTransferTypes

VARIABLES
  sent,       \* packets the counterparty has sent
  inflight,   \* sent packets not yet received
  acks,       \* acknowledgement written for each sequence
  st,         \* committed transfer state
  recvd,      \* amount received per path in this window (history)
  limits      \* the paths with a rate limit (ratelimit store)

vars == << sent, inflight, acks, st, recvd, limits >>

Init ==
  /\ sent = 0
  /\ inflight = {}
  /\ acks = [s \in Seqs |-> "none"]
  /\ st = InitState
  /\ recvd = [v \in Versions |-> 0]
  /\ limits = {}

Send(d) ==
  /\ sent < MaxPackets
  /\ sent' = sent + 1
  /\ inflight' = inflight \cup {[seq |-> sent + 1, data |-> d]}
  /\ UNCHANGED << acks, st, recvd, limits >>

Recv(p) ==
  LET d == p.data
      v == d.via
      limited == v = "v1" /\ v \in limits
      fwd == d.fwd # "none" /\ v = "v1"
      refused == \/ limited /\ st.flow[v] + d.amt > Quota
                 \/ ~d.valid
                 \/ fwd /\ d.fwd = "badhop"
                 \/ ~fwd /\ d.pair = "reverts"
  IN
  /\ p \in inflight
  /\ inflight' = inflight \ {p}
  /\ UNCHANGED << sent, limits >>
  /\ \/ /\ refused
        /\ acks' = [acks EXCEPT ![p.seq] = "err"]
        /\ UNCHANGED << st, recvd >>
     \/ /\ ~refused
        /\ acks' = [acks EXCEPT ![p.seq] = IF fwd THEN "async" ELSE "ok"]
        /\ st' = [st EXCEPT !.flow[v] = IF limited THEN @ + d.amt ELSE @,
                            !.voucher = IF fwd \/ d.pair = "ok" THEN @ ELSE @ + d.amt,
                            !.erc20 = IF ~fwd /\ d.pair = "ok" THEN @ + d.amt ELSE @,
                            !.out = IF fwd THEN @ \cup {p.seq} ELSE @]
        /\ recvd' = [recvd EXCEPT ![v] = @ + d.amt]

(* The next hop acknowledges a forwarded packet (ok) or fails or times it
   out (with no retry); PFM then writes the delayed ack for the origin.    *)
ForwardDone(s, ok) ==
  /\ s \in st.out
  /\ st' = [st EXCEPT !.out = @ \ {s}]
  /\ acks' = [acks EXCEPT ![s] = IF ok THEN "ok" ELSE "err"]
  /\ UNCHANGED << sent, inflight, recvd, limits >>

(* The rate limiter's window ends: the flows it counted start again.      *)
EpochReset ==
  /\ st' = [st EXCEPT !.flow = [v \in Versions |-> 0]]
  /\ recvd' = [v \in Versions |-> 0]
  /\ UNCHANGED << sent, inflight, acks, limits >>

(* Governance puts a rate limit on a path; its flow starts from zero.     *)
AddRateLimit(v) ==
  /\ v \in LimitPaths \ limits
  /\ limits' = limits \cup {v}
  /\ st' = [st EXCEPT !.flow[v] = 0]
  /\ recvd' = [recvd EXCEPT ![v] = 0]
  /\ UNCHANGED << sent, inflight, acks >>

Next ==
  \/ \E d \in PacketKinds : Send(d)
  \/ \E p \in inflight : Recv(p)
  \/ \E s \in Seqs, ok \in BOOLEAN : ForwardDone(s, ok)
  \/ EpochReset
  \/ \E v \in LimitPaths : AddRateLimit(v)

Spec == Init /\ [][Next]_vars
=============================================================================
