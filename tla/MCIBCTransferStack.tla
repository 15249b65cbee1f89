------------------------ MODULE MCIBCTransferStack -------------------------
(* Small instances of the IBC transfer stacks for TLC.                     *)
EXTENDS IBCTransferStack

K(v, a, p, f, ok) == [via |-> v, amt |-> a, pair |-> p, fwd |-> f, valid |-> ok]

(* On v1: a plain transfer, a paired denom of the full amount, a paired
   denom with a forward memo, a forward to a hop that cannot be used, and a
   forward ICS20 refuses; on v2: a paired denom of the full amount, a pair
   whose conversion reverts, and a packet with a forward memo.            *)
MCPacketKinds ==
  { K("v1", 1, "none", "none", TRUE), K("v1", 2, "ok", "none", TRUE),
    K("v1", 1, "ok", "hop", TRUE), K("v1", 1, "none", "badhop", TRUE),
    K("v1", 1, "none", "hop", FALSE),
    K("v2", 2, "ok", "none", TRUE), K("v2", 1, "reverts", "none", TRUE),
    K("v2", 1, "none", "hop", TRUE) }
=============================================================================
