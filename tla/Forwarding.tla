----------------------------- MODULE Forwarding -----------------------------
(***************************************************************************)
(* Delivery with the envelope sender its SMTP transactions use: a message  *)
(* that was handed to a server may come back to that address as a bounce.  *)
(***************************************************************************)
EXTENDS Delivery, SRS

(* Once a copy has been sent over SMTP, its bounces find their way back    *)
(* (SRS): the rewritten sender is reversed to the original one while it is *)
(* valid and to nothing afterwards.  LMTP keeps the sender as it is. The   *)
(* sender is one that no forwarder with another secret has rewritten.      *)
BouncesReturn ==
    SMTP /\ txs # <<>> => Astray = {}
=============================================================================
