-------------------------- MODULE Handshake_proofs --------------------------
(***************************************************************************)
(* Proofs about Handshake, for any set of transports.                      *)
(*                                                                         *)
(* Three places close the first connection: the goroutine, the select and  *)
(* the deferred function. Which of them may still act is a matter of where *)
(* the goroutine and the function are and of what the channel holds; the   *)
(* flag and the channel are what they know of each other.                  *)
(***************************************************************************)
EXTENDS Handshake, TLAPS

(* The flag is set only by who closes the connection.                      *)
FlagIsTrue == connClosed => state["first"] = "closed"

(* The goroutine has sent its one result exactly when it is about to end,  *)
(* and runs only once the function is past its preparation.                *)
ChannelMatches ==
    /\ resultCh # "empty" <=> gr \in {"deferred", "exited"}
    /\ main = "prepare" => gr = "none"
    /\ gr = "none" => main # "succeeded"
    /\ main = "select" => gr # "none"

(* While the function waits for the channel, nobody but the goroutine      *)
(* closes the connection, and the goroutine offers an open one only.       *)
OfferIsOpen ==
    /\ resultCh = "first" /\ main \in {"select", "succeeded"} => state["first"] = "open"
    /\ gr = "hello2" \/ resultCh = "second" => state["second"] = "open"

(* The function took what the channel held.                                *)
TakenFromChannel ==
    /\ main \in {"prepare", "select", "failed"} => got = "none"
    /\ main = "succeeded" => got # "none"
    /\ main \in {"command", "answered"} => got # "none"
    /\ got # "none" => got = resultCh /\ state[got] = "open"

HandshakeInv ==
    TypeOK /\ FlagIsTrue /\ ChannelMatches /\ OfferIsOpen /\ TakenFromChannel /\ FirstClosedOnFailure

-----------------------------------------------------------------------------
LEMMA HandshakeInit == Init => HandshakeInv
<1> SUFFICES ASSUME Init PROVE HandshakeInv
  OBVIOUS
<1>1. state \in [Conns -> {"none", "open", "closed"}]
  BY DEF Init, Conns
<1>2. deadline \in [Conns -> {"none", "handshake", "command"}]
  BY DEF Init, Conns
<1> QED
BY <1>1, <1>2 DEF Init, HandshakeInv, TypeOK, Conns, FlagIsTrue, ChannelMatches, OfferIsOpen,
       TakenFromChannel, FirstClosedOnFailure, Returned

LEMMA TypeNext == TypeOK /\ TakenFromChannel /\ [Next]_vars => TypeOK'
<1> SUFFICES ASSUME TypeOK, TakenFromChannel, [Next]_vars PROVE TypeOK'
  OBVIOUS
<1> USE DEF TypeOK, Conns
<1>1. CASE BeginHandshake
  BY <1>1 DEF BeginHandshake
<1>2. CASE ImplicitTLS
  BY <1>2 DEF ImplicitTLS
<1>3. CASE HelloSucceeds
  BY <1>3 DEF HelloSucceeds, Send
<1>4. CASE HandshakeFails
  BY <1>4 DEF HandshakeFails, Send
<1>5. CASE NoStartTLS
  BY <1>5 DEF NoStartTLS
<1>6. CASE Redial
  BY <1>6 DEF Redial, Send
<1>7. CASE PlaintextHello
  BY <1>7 DEF PlaintextHello, Send
<1>8. CASE ClearDeadline
  BY <1>8 DEF ClearDeadline
<1>9. CASE Prepare
  BY <1>9 DEF Prepare
<1>10. CASE TakeResult
  BY <1>10 DEF TakeResult
<1>11. CASE TakeContext
  BY <1>11 DEF TakeContext
<1>12. CASE DeferredClose
  BY <1>12 DEF DeferredClose
<1>13. CASE Command
  BY <1>13 DEF Command, TakenFromChannel
<1>14. CASE CommandEnds
  BY <1>14 DEF CommandEnds, TakenFromChannel
<1>15. CASE ContextEnds
  BY <1>15 DEF ContextEnds
<1>16. CASE UNCHANGED vars
  BY <1>16 DEF vars
<1> QED
  BY <1>1, <1>2, <1>3, <1>4, <1>5, <1>6, <1>7, <1>8,
     <1>9, <1>10, <1>11, <1>12, <1>13, <1>14, <1>15, <1>16
     DEF Next, Goroutine, Main

(* The steps of the goroutine: none of them touches a connection that was  *)
(* offered or taken, since it has sent nothing before.                     *)
LEMMA GoroutineKeeps ==
  ASSUME HandshakeInv, Goroutine
  PROVE  FlagIsTrue' /\ ChannelMatches' /\ OfferIsOpen' /\ TakenFromChannel' /\ FirstClosedOnFailure'
<1> USE DEF HandshakeInv, TypeOK, Conns, FlagIsTrue, ChannelMatches, OfferIsOpen,
            TakenFromChannel, FirstClosedOnFailure, Returned
<1>1. CASE BeginHandshake \/ ImplicitTLS
  BY <1>1 DEF BeginHandshake, ImplicitTLS
<1>2. CASE HelloSucceeds
  BY <1>2 DEF HelloSucceeds, Send
<1>3. CASE HandshakeFails
  BY <1>3 DEF HandshakeFails, Send
<1>4. CASE NoStartTLS
  BY <1>4 DEF NoStartTLS
<1>5. CASE Redial
  BY <1>5 DEF Redial, Send
<1>6. CASE PlaintextHello
  BY <1>6 DEF PlaintextHello, Send
<1>7. CASE ClearDeadline
  BY <1>7 DEF ClearDeadline
<1> QED
  BY <1>1, <1>2, <1>3, <1>4, <1>5, <1>6, <1>7 DEF Goroutine

(* The steps of the function and of its caller.                            *)
LEMMA MainKeeps ==
  ASSUME HandshakeInv, Main \/ ContextEnds
  PROVE  FlagIsTrue' /\ ChannelMatches' /\ OfferIsOpen' /\ TakenFromChannel' /\ FirstClosedOnFailure'
<1> USE DEF HandshakeInv, TypeOK, Conns, FlagIsTrue, ChannelMatches, OfferIsOpen,
            TakenFromChannel, FirstClosedOnFailure, Returned
<1>1. CASE Prepare
  BY <1>1 DEF Prepare
<1>2. CASE TakeResult
  BY <1>2 DEF TakeResult
<1>3. CASE TakeContext
  BY <1>3 DEF TakeContext
<1>4. CASE DeferredClose
  BY <1>4 DEF DeferredClose
<1>5. CASE Command \/ CommandEnds \/ ContextEnds
  BY <1>5 DEF Command, CommandEnds, ContextEnds
<1> QED
  BY <1>1, <1>2, <1>3, <1>4, <1>5 DEF Main

LEMMA HandshakeNext == HandshakeInv /\ [Next]_vars => HandshakeInv'
<1> SUFFICES ASSUME HandshakeInv, [Next]_vars PROVE HandshakeInv'
  OBVIOUS
<1>1. TypeOK'
  BY TypeNext DEF HandshakeInv
<1>2. CASE Next
  BY <1>1, <1>2, GoroutineKeeps, MainKeeps DEF Next, HandshakeInv
<1>3. CASE UNCHANGED vars
  BY <1>3 DEF vars, HandshakeInv, TypeOK, FlagIsTrue, ChannelMatches, OfferIsOpen,
              TakenFromChannel, FirstClosedOnFailure, Returned
<1> QED
  BY <1>2, <1>3

LEMMA HandshakeInvariant == Spec => []HandshakeInv
BY HandshakeInit, HandshakeNext, PTL DEF Spec

-----------------------------------------------------------------------------
(***************************************************************************)
(* The results.                                                            *)
(***************************************************************************)
(* Every variable keeps its type, and no deadline is set on a connection   *)
(* that dialAndHello did not return.                                       *)
THEOREM TypeCorrect == Spec => []TypeOK
BY HandshakeInvariant, PTL DEF HandshakeInv

(* The connection dialAndHello returned stays open while its caller uses   *)
(* it: the goroutine, the select and the deferred function have closed     *)
(* theirs before or never will.                                            *)
THEOREM ReturnedStaysOpen == Spec => []ReturnedIsOpen
<1>1. HandshakeInv => ReturnedIsOpen
  BY DEF HandshakeInv, TakenFromChannel, ReturnedIsOpen
<1> QED
  BY <1>1, HandshakeInvariant, PTL

(* A failed dialAndHello leaves the connection it dialled closed: the flag *)
(* that lets the deferred function skip the close is never wrong.          *)
THEOREM FailureCloses == Spec => []FirstClosedOnFailure
<1>1. HandshakeInv => FirstClosedOnFailure
  BY DEF HandshakeInv
<1> QED
  BY <1>1, HandshakeInvariant, PTL
=============================================================================
