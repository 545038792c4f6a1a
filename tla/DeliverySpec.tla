---------------------------- MODULE DeliverySpec ----------------------------
(***************************************************************************)
(* What one call of Deliverer.DeliverMessage promises its caller, without  *)
(* saying how: the gateway may hand the complete message to a remote       *)
(* server several times, but a new copy is sent only after every earlier   *)
(* one was refused, and the status it reports is true of the copies.       *)
(***************************************************************************)
EXTENDS Naturals, Sequences

CONSTANT FinalReplies   \* the replies a server gives to a complete message

(***************************************************************************)
(* Replies are kept as classes: "ok" is the reply the client expects (250  *)
(* at the end of the message), "other2xx" any other success code.          *)
(***************************************************************************)
Accepting == {"ok", "other2xx"}

VARIABLES
    txs,      \* the complete copies sent so far: "inflight", or the reply
    outcome   \* "none" until the call returns, then the status it returned

vars == <<txs, outcome>>

Statuses == {"delivered", "hard_bounce", "temp_fail", "timeout", "unknown", "error", "rate_limit", "empty"}

TxState == {"inflight"} \cup FinalReplies

Refused(t) == t \in {"4xx", "5xx"}

AllRefused == \A i \in 1..Len(txs) : Refused(txs[i])

TypeOK ==
    /\ txs \in Seq(TxState)
    /\ outcome \in {"none"} \cup Statuses

Init ==
    /\ txs = <<>>
    /\ outcome = "none"

(* A complete copy leaves the gateway, all earlier copies being refused.   *)
Transmit ==
    /\ outcome = "none"
    /\ AllRefused
    /\ txs' = Append(txs, "inflight")
    /\ UNCHANGED outcome

(* A server decides about a copy it holds, at any time, even after the     *)
(* gateway stopped listening.                                              *)
Decide(i) ==
    /\ txs[i] = "inflight"
    /\ \E r \in FinalReplies : txs' = [txs EXCEPT ![i] = r]
    /\ UNCHANGED outcome

(* The call returns: "delivered" needs an accepted copy, "unknown" commits *)
(* to nothing, every other status says that no copy was or will be taken.  *)
Conclude(s) ==
    /\ outcome = "none"
    /\ s = "delivered" => \E i \in 1..Len(txs) : txs[i] \in Accepting
    /\ s \notin {"delivered", "unknown"} => AllRefused
    /\ outcome' = s
    /\ UNCHANGED txs

Next ==
    \/ Transmit
    \/ \E i \in 1..Len(txs) : Decide(i)
    \/ \E s \in Statuses : Conclude(s)

Spec == Init /\ [][Next]_vars
=============================================================================
