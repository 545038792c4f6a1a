-------------------------- MODULE Delivery_proofs ---------------------------
(***************************************************************************)
(* Proofs about Delivery, for every set of configurations, any number of   *)
(* MX hosts and source IPs and any replies.                                *)
(*                                                                         *)
(* The three properties of the copies are not inductive: that a new copy   *)
(* is harmless depends on how the goroutine got to where it is. IInv ties  *)
(* the program counter and the result of the last attempt to the copies:   *)
(* up to the final dot every earlier copy has been refused, and an attempt *)
(* that leaves a copy behind ends in a result that ends the search.        *)
(***************************************************************************)
EXTENDS Forwarding, SequenceTheorems, WellFoundedInduction, TLAPS

NoneTaken == \A i \in 1..Len(txs) : ~MayBeTaken(i)

SomeAccepted == \E i \in 1..Len(txs) : txs[i] \in Accepting

(* Places up to the final dot of an attempt.                               *)
BeforeDot == {"start", "limit", "sign", "dest", "mx", "pass", "source", "attempt", "dial", "txn",
              "mail", "rcpt", "data", "body", "dot"}

(* Places after the message was accepted.                                  *)
Winding == {"reset", "handback", "dirty", "quit"}

Committed == {"delivered", "unknown"}

CopiesInv ==
    /\ \A i \in 1..Len(txs) : MayBeTaken(i) => i = Len(txs)
    /\ pc \in BeforeDot => NoneTaken
    /\ pc \in {"final"} \cup Winding => Len(txs) > 0
    /\ pc \in Winding => txs[Len(txs)] \in Accepting

ResultInv ==
    /\ pc \notin {"result", "done"} => result \notin Committed
    /\ lastResult \notin Committed
    /\ pc = "result" /\ result = "delivered" => SomeAccepted
    /\ pc = "result" /\ result \notin Committed => NoneTaken

StatusInv ==
    /\ (status = "none") <=> (pc # "done")
    /\ DeliveredMeansAccepted
    /\ FailureMeansRefused

IInv == TypeOK /\ CopiesInv /\ ResultInv /\ StatusInv

-----------------------------------------------------------------------------
(* The passes over an MX host are a sequence of passes.                    *)
LEMMA PassesType ==
  ASSUME NEW A
  PROVE  PassesFor(A) \in Seq({"v4", "v6", "system"})
<1> DEFINE S == {"v4", "v6", "system"}
           six  == IF tryIPv6 /\ "v6" \in A THEN <<"v6">> ELSE <<>>
           four == IF tryIPv4 /\ "v4" \in A THEN <<"v4">> ELSE <<>>
<1>0. /\ <<"v4">> \in Seq(S) /\ <<"v6">> \in Seq(S) /\ <<"system">> \in Seq(S)
      /\ <<>> \in Seq(S)
  OBVIOUS
<1>1. six \in Seq(S) /\ four \in Seq(S)
  <2>1. CASE tryIPv6 /\ "v6" \in A
    BY <1>0, <2>1, Zenon
  <2> QED
    BY <1>0
<1>2. six \o four \in Seq(S) /\ four \o six \in Seq(S)
  BY <1>1, ConcatProperties
<1> QED
  BY <1>0, <1>2, Zenon DEF PassesFor

(* The statuses the mapping functions produce.                             *)
LEMMA MapTypes ==
  ASSUME NEW r, NEW b \in BOOLEAN
  PROVE  /\ mapSMTPError(r, b) \in Statuses \ {"delivered"}
         /\ classifyLMTPResult(r) \in Statuses
BY DEF mapSMTPError, classifyLMTPResult, Statuses

(* The replies of the protocol in effect.                                  *)
LEMMA RepliesOf ==
  ASSUME TypeOK
  PROVE  /\ conf.protocol \in Protocols
         /\ FinalReplies[conf.protocol] \subseteq {"ok", "other2xx", "4xx", "5xx"}
         /\ FinalReplies[conf.protocol] \subseteq AnyFinalReply
<1>1. conf.protocol \in Protocols
  BY ConstantsAssumption DEF ConstantsAssumption, ConfigType, TypeOK
<1> QED
  BY <1>1, ConstantsAssumption DEF ConstantsAssumption, AnyFinalReply

LEMMA TypeInit == Init => TypeOK
<1> SUFFICES ASSUME Init PROVE TypeOK
  OBVIOUS
<1>1. passes \in Seq({"v4", "v6", "system"}) /\ txs \in Seq({"inflight"} \cup FinalReplies[conf.protocol])
  BY EmptySeq DEF Init
<1>2. mxLeft \in 0..MaxMX /\ srcLeft \in 0..MaxSources
  BY ConstantsAssumption DEF Init, ConstantsAssumption
<1> QED
  BY <1>1, <1>2 DEF Init, TypeOK, Statuses

(* Steps that only move the goroutine, end the call, or end the attempt.   *)
LEMMA TypeGoto ==
  ASSUME TypeOK, NEW l \in {"limit", "sign", "dest", "mx", "dot", "reset", "handback", "dirty", "rcpt", "data", "body"},
         Goto(l)
  PROVE  TypeOK'
BY DEF Goto, TypeOK, loopVars, connVars

LEMMA TypeReturn ==
  ASSUME TypeOK, NEW s \in Statuses, Return(s)
  PROVE  TypeOK'
BY DEF Return, TypeOK, loopVars, connVars

LEMMA TypeTxnFailed ==
  ASSUME TypeOK, NEW s \in Statuses, TxnFailed(s)
  PROVE  TypeOK'
BY DEF TxnFailed, StopHook, TypeOK, loopVars, connVars

LEMMA TypeDialFailed ==
  ASSUME TypeOK, NEW s \in Statuses, DialFailed(s)
  PROVE  TypeOK'
BY DEF DialFailed, TypeOK, loopVars, connVars

(* A copy joins the list, or changes its state.                            *)
LEMMA TxsType ==
  ASSUME TypeOK
  PROVE  /\ Append(txs, "inflight") \in Seq({"inflight"} \cup FinalReplies[conf.protocol])
         /\ \A i \in 1..Len(txs) : \A r \in FinalReplies[conf.protocol] :
                [txs EXCEPT ![i] = r] \in Seq({"inflight"} \cup FinalReplies[conf.protocol])
BY AppendProperties, ExceptSeq DEF TypeOK

LEMMA TypeEntry ==
  ASSUME TypeOK,
         CheckRecipient \/ RateLimit \/ Sign \/ FixedDestination \/ LookupMX
         \/ MXExhausted \/ MXContextEnded \/ PassesDone
  PROVE  TypeOK'
<1> USE DEF Statuses
<1>1. CASE CheckRecipient
  BY <1>1, TypeGoto, TypeReturn DEF CheckRecipient
<1>2. CASE RateLimit
  BY <1>2, TypeGoto, TypeReturn DEF RateLimit
<1>3. CASE Sign
  BY <1>3, TypeGoto, TypeReturn DEF Sign
<1>4. CASE FixedDestination
  <2>1. CASE Return("error")
    BY <2>1, TypeReturn
  <2>2. CASE mxLeft' = 1 /\ pc' = "mx" /\ UNCHANGED <<conf, addrs, passes, bound, srcLeft, connVars,
                  ctxDone, result, lastResult, status, txs>>
    <3>1. 1 \in 0..MaxMX
      BY ConstantsAssumption DEF ConstantsAssumption
    <3> QED
      BY <2>2, <3>1 DEF TypeOK, connVars
  <2> QED
    BY <1>4, <2>1, <2>2 DEF FixedDestination
<1>5. CASE LookupMX
  <2>1. CASE Return("hard_bounce") \/ Return("temp_fail")
    BY <2>1, TypeReturn
  <2>2. CASE mxLeft' \in 1..MaxMX /\ pc' = "mx" /\ UNCHANGED <<conf, addrs, passes, bound, srcLeft,
                  connVars, ctxDone, result, lastResult, status, txs>>
    <3>1. mxLeft' \in 0..MaxMX
      BY <2>2, ConstantsAssumption DEF ConstantsAssumption
    <3> QED
      BY <2>2, <3>1 DEF TypeOK, connVars
  <2> QED
    BY <1>5, <2>1, <2>2 DEF LookupMX
<1>6. CASE MXExhausted
  BY <1>6, TypeReturn DEF MXExhausted, TypeOK
<1>7. CASE MXContextEnded
  BY <1>7, TypeReturn DEF MXContextEnded
<1>8. CASE PassesDone
  BY <1>8, TypeGoto DEF PassesDone
<1> QED
  BY <1>1, <1>2, <1>3, <1>4, <1>5, <1>6, <1>7, <1>8

LEMMA TypeLoops ==
  ASSUME TypeOK,
         ResolveMX \/ BeginSourcePass \/ BeginSystemPass \/ NextSource
  PROVE  TypeOK'
<1>1. CASE ResolveMX
  <2>1. mxLeft' \in 0..MaxMX
    BY <1>1, ConstantsAssumption DEF ResolveMX, TypeOK, ConstantsAssumption
  <2>2. passes' \in Seq({"v4", "v6", "system"}) /\ addrs' \subseteq {"v4", "v6"}
    BY <1>1, PassesType DEF ResolveMX, TypeOK
  <2> QED
    BY <1>1, <2>1, <2>2 DEF ResolveMX, TypeOK, connVars, Statuses
<1>2. CASE BeginSourcePass \/ BeginSystemPass
  <2>1. passes' \in Seq({"v4", "v6", "system"})
    <3>1. passes # <<>> /\ passes \in Seq({"v4", "v6", "system"}) /\ passes' = Tail(passes)
      BY <1>2 DEF BeginSourcePass, BeginSystemPass, TypeOK
    <3> QED
      BY <3>1, HeadTailProperties
  <2>2. srcLeft' \in 0..MaxSources
    <3>1. conf.n4 \in 0..MaxSources /\ conf.n6 \in 0..MaxSources
      BY ConstantsAssumption DEF ConstantsAssumption, TypeOK, ConfigType
    <3> QED
      BY <1>2, <3>1, ConstantsAssumption DEF BeginSourcePass, BeginSystemPass, TypeOK, ConstantsAssumption
  <2> QED
    BY <1>2, <2>1, <2>2 DEF BeginSourcePass, BeginSystemPass, TypeOK, connVars
<1>3. CASE NextSource
  <2>1. srcLeft' \in 0..MaxSources
    BY <1>3, ConstantsAssumption DEF NextSource, TypeOK, ConstantsAssumption
  <2> QED
    BY <1>3, <2>1 DEF NextSource, TypeOK, connVars, Statuses
<1> QED
  BY <1>1, <1>2, <1>3

LEMMA TypeTransaction ==
  ASSUME TypeOK, Transaction
  PROVE  TypeOK'
<1> USE DEF Statuses
<1>1. CASE StartTransaction
  <2>1. CASE TxnFailed("timeout")
    BY <2>1, TypeTxnFailed
  <2>2. CASE /\ hook' = IF ctxDone THEN "running" ELSE "armed"
             /\ pc' = "mail"
             /\ UNCHANGED <<conf, loopVars, conn, reused, ctxDone, result, lastResult, status, txs>>
    BY <2>2 DEF TypeOK, loopVars
  <2> QED
    BY <1>1, <2>1, <2>2, Zenon DEF StartTransaction
<1>2. CASE \E r \in CmdReplies[conf.protocol] : CommandReply(r)
  <2> PICK r \in CmdReplies[conf.protocol] : CommandReply(r)
    BY <1>2
  <2>1. CASE r = "ok"
    <3>1. AfterCommand[pc] \in {"rcpt", "data", "body"}
      BY DEF CommandReply, Commands, AfterCommand
    <3> QED
      BY <2>1, <3>1, TypeGoto DEF CommandReply
  <2>2. CASE r # "ok"
    BY <2>2, MapTypes, TypeTxnFailed DEF CommandReply
  <2> QED
    BY <2>1, <2>2
<1>3. CASE CommandLost
  BY <1>3, MapTypes, TypeTxnFailed DEF CommandLost
<1>4. CASE WriteBody
  <2>1. CASE Goto("dot")
    BY <2>1, TypeGoto
  <2>2. CASE /\ txs' = Append(txs, "inflight")
             /\ pc' = "final"
             /\ UNCHANGED <<conf, loopVars, connVars, ctxDone, result, lastResult, status>>
    BY <2>2, TxsType DEF TypeOK, loopVars, connVars
  <2> QED
    BY <1>4, <2>1, <2>2, Zenon DEF WriteBody
<1>5. CASE WriteBodyFailed
  BY <1>5, MapTypes, TypeTxnFailed DEF WriteBodyFailed
<1>6. CASE SendDot
  BY <1>6, TxsType DEF SendDot, TypeOK, loopVars, connVars
<1>7. CASE SendDotFailed
  BY <1>7, MapTypes, TypeTxnFailed DEF SendDotFailed
<1>8. CASE FinalReply
  BY <1>8, MapTypes, TypeTxnFailed, TypeGoto DEF FinalReply
<1>9. CASE FinalLost
  BY <1>9, MapTypes, TypeTxnFailed DEF FinalLost
<1>10. CASE Reset
  BY <1>10, TypeGoto DEF Reset
<1>11. CASE HandBack
  BY <1>11 DEF HandBack, StopHook, TypeOK, loopVars
<1>12. CASE Quit
  <2>1. conn' \in {"none", "open", "closed", "pooled", "left"}
    BY <1>12 DEF Quit, TypeOK
  <2> QED
    BY <1>12, <2>1 DEF Quit, TypeOK, loopVars
<1> QED
  BY <1>1, <1>2, <1>3, <1>4, <1>5, <1>6, <1>7, <1>8, <1>9, <1>10, <1>11, <1>12 DEF Transaction

LEMMA TypeNext == TypeOK /\ [Next]_vars => TypeOK'
<1> SUFFICES ASSUME TypeOK, [Next]_vars PROVE TypeOK'
  OBVIOUS
<1>1. CASE Attempt
  BY <1>1 DEF Attempt, TypeOK, loopVars
<1>2. CASE Dial
  <2>1. CASE DialFailed("temp_fail") \/ DialFailed("error") \/ DialFailed("timeout")
    BY <2>1, TypeDialFailed DEF Statuses
  <2>2. CASE /\ conn' = "open" /\ reused' = FALSE /\ hook' = "none"
             /\ pc' = "txn"
             /\ UNCHANGED <<conf, loopVars, ctxDone, result, lastResult, status, txs>>
    BY <2>2 DEF TypeOK, loopVars
  <2> QED
    BY <1>2, <2>1, <2>2, Zenon DEF Dial
<1>3. CASE HandleResult
  <2> USE DEF TypeOK, loopVars, connVars
  <2>1. UNCHANGED <<conf, loopVars, ctxDone, result, txs>>
    BY <1>3 DEF HandleResult
  <2>2. CASE /\ conn' = "none" /\ reused' = FALSE /\ hook' = "none"
             /\ pc' = "dial" /\ UNCHANGED <<lastResult, status>>
    BY <2>1, <2>2
  <2>3. CASE /\ status' = result /\ pc' = "done"
             /\ UNCHANGED <<connVars, lastResult>>
    BY <2>1, <2>3
  <2>4. CASE pc' = "source" /\ UNCHANGED <<connVars, lastResult, status>>
    BY <2>1, <2>4
  <2>5. CASE /\ lastResult' = result /\ pc' = "pass"
             /\ UNCHANGED <<connVars, status>>
    BY <2>1, <2>5
  <2> HIDE DEF TypeOK, loopVars, connVars
  <2> QED
    BY <1>3, <2>2, <2>3, <2>4, <2>5, Zenon DEF HandleResult
<1>4. CASE ContextEnds \/ HookCloses
  <2>1. CASE ContextEnds
    BY <2>1 DEF ContextEnds, TypeOK, loopVars
  <2>2. CASE HookCloses
    BY <2>2 DEF HookCloses, TypeOK, loopVars
  <2> QED
    BY <1>4, <2>1, <2>2
<1>5. CASE \E i \in 1..Len(txs) : ServerDecides(i)
  BY <1>5, TxsType DEF ServerDecides, TypeOK, loopVars, connVars
<1>6. CASE UNCHANGED vars
  BY <1>6 DEF vars, TypeOK, loopVars, connVars
<1> QED
  BY <1>1, <1>2, <1>3, <1>4, <1>5, <1>6, TypeEntry, TypeLoops, TypeTransaction DEF Next, Deliver

(* Every variable keeps its type: in particular the counters of MX hosts   *)
(* and source IPs stay in range, and only named statuses are produced.     *)
THEOREM TypeCorrect == Spec => []TypeOK
BY TypeInit, TypeNext, PTL DEF Spec

-----------------------------------------------------------------------------
(***************************************************************************)
(* The copies. The lemmas are one per kind of step.                        *)
(***************************************************************************)
LEMMA IInvInit == Init => IInv
<1> SUFFICES ASSUME Init PROVE IInv
  OBVIOUS
<1>1. Len(txs) = 0
  BY DEF Init
<1> QED
  BY <1>1, TypeInit
     DEF Init, IInv, CopiesInv, ResultInv, StatusInv, NoneTaken, SomeAccepted, BeforeDot, Winding, Committed,
         DeliveredMeansAccepted, FailureMeansRefused

(* A step that touches neither copies nor results.                         *)
LEMMA KeepsIInv ==
  ASSUME IInv, TypeOK', UNCHANGED <<pc, txs, result, lastResult, status>>
  PROVE  IInv'
BY DEF IInv, CopiesInv, ResultInv, StatusInv, NoneTaken, SomeAccepted, MayBeTaken,
       DeliveredMeansAccepted, FailureMeansRefused

(* A step from one place before the dot to another.                        *)
LEMMA MoveIInv ==
  ASSUME IInv, TypeOK', pc \in BeforeDot, pc' \in BeforeDot,
         UNCHANGED <<txs, result, status>>, lastResult' \notin Committed
  PROVE  IInv'
BY DEF IInv, CopiesInv, ResultInv, StatusInv, NoneTaken, SomeAccepted, MayBeTaken, BeforeDot, Winding,
       DeliveredMeansAccepted, FailureMeansRefused

(* The call ends before the dot.                                           *)
LEMMA ReturnIInv ==
  ASSUME IInv, TypeOK', pc \in BeforeDot, NEW s \in Statuses \ Committed, Return(s)
  PROVE  IInv'
BY DEF Return, IInv, CopiesInv, ResultInv, StatusInv, NoneTaken, SomeAccepted, MayBeTaken, BeforeDot, Winding,
       Committed, Statuses, DeliveredMeansAccepted, FailureMeansRefused

(* An attempt ends before the dot, without a success.                      *)
LEMMA FailIInv ==
  ASSUME IInv, TypeOK', pc \in BeforeDot, pc' = "result", result' # "delivered",
         UNCHANGED <<txs, lastResult, status>>
  PROVE  IInv'
BY DEF IInv, CopiesInv, ResultInv, StatusInv, NoneTaken, SomeAccepted, MayBeTaken, BeforeDot, Winding,
       Committed, DeliveredMeansAccepted, FailureMeansRefused

(* The dot: a copy joins copies that were all refused.                     *)
LEMMA DotIInv ==
  ASSUME IInv, TypeOK', pc \in BeforeDot, pc' = "final", txs' = Append(txs, "inflight"),
         UNCHANGED <<result, lastResult, status>>
  PROVE  IInv'
<1>1. /\ txs \in Seq({"inflight"} \cup FinalReplies[conf.protocol])
      /\ Len(txs) \in Nat
      /\ Len(txs') = Len(txs) + 1
      /\ \A i \in 1..Len(txs) : txs'[i] = txs[i]
  BY AppendProperties DEF IInv, TypeOK
<1>2. NoneTaken
  BY DEF IInv, CopiesInv
<1>3. \A i \in 1..Len(txs') : MayBeTaken(i)' => i = Len(txs')
  BY <1>1, <1>2 DEF NoneTaken, MayBeTaken
<1>4. CopiesInv'
  BY <1>1, <1>3 DEF CopiesInv, BeforeDot, Winding
<1>5. ResultInv' /\ StatusInv'
  BY DEF IInv, ResultInv, StatusInv, BeforeDot, DeliveredMeansAccepted, FailureMeansRefused
<1> QED
  BY <1>4, <1>5 DEF IInv

(* A server decides: a copy that was in flight may stop being takable.     *)
LEMMA DecideIInv ==
  ASSUME IInv, TypeOK', NEW i \in 1..Len(txs), ServerDecides(i)
  PROVE  IInv'
<1> PICK r \in FinalReplies[conf.protocol] : txs' = [txs EXCEPT ![i] = r]
  BY DEF ServerDecides
<1>1. /\ Len(txs') = Len(txs)
      /\ Len(txs) \in Nat
      /\ \A j \in 1..Len(txs) : txs'[j] = IF j = i THEN r ELSE txs[j]
  BY ExceptSeq DEF IInv, TypeOK
<1>2. txs[i] = "inflight" /\ UNCHANGED <<pc, result, lastResult, status>>
  BY DEF ServerDecides
<1>3. \A j \in 1..Len(txs) : MayBeTaken(j)' => MayBeTaken(j)
  BY <1>1, <1>2 DEF MayBeTaken
<1>4. \A j \in 1..Len(txs) : txs[j] \in Accepting => txs'[j] = txs[j]
  BY <1>1, <1>2 DEF Accepting
<1>5. NoneTaken => NoneTaken'
  BY <1>1, <1>3 DEF NoneTaken
<1>6. SomeAccepted => SomeAccepted'
  BY <1>1, <1>4 DEF SomeAccepted
<1>7. CopiesInv'
  <2>1. \A j \in 1..Len(txs') : MayBeTaken(j)' => j = Len(txs')
    BY <1>1, <1>3 DEF IInv, CopiesInv
  <2>2. Len(txs) > 0 => Len(txs) \in 1..Len(txs)
    BY <1>1
  <2>3. pc \in Winding => Len(txs) > 0 /\ txs[Len(txs)] \in Accepting
    BY DEF IInv, CopiesInv
  <2>4. pc' \in Winding => txs'[Len(txs')] \in Accepting
    BY <1>1, <1>2, <1>4, <2>2, <2>3
  <2> QED
    BY <1>1, <1>2, <1>5, <2>1, <2>4 DEF IInv, CopiesInv
<1>8. ResultInv'
  BY <1>2, <1>5, <1>6 DEF IInv, ResultInv
<1>9. StatusInv'
  BY <1>2, <1>5, <1>6
     DEF IInv, StatusInv, DeliveredMeansAccepted, FailureMeansRefused, NoneTaken, SomeAccepted
<1> QED
  BY <1>7, <1>8, <1>9 DEF IInv

LEMMA EntryIInv ==
  ASSUME IInv, TypeOK',
         CheckRecipient \/ RateLimit \/ Sign \/ FixedDestination \/ LookupMX
         \/ MXExhausted \/ MXContextEnded \/ PassesDone
  PROVE  IInv'
<1>1. CASE /\ pc \in BeforeDot /\ pc' \in BeforeDot
           /\ UNCHANGED <<txs, result, lastResult, status>>
  BY <1>1, MoveIInv DEF IInv, ResultInv
<1>2. CASE /\ pc \in BeforeDot
           /\ \E s \in Statuses \ Committed : Return(s)
  BY <1>2, ReturnIInv
<1>3. MXExhausted => Return(lastResult) /\ lastResult \in Statuses \ Committed
  BY DEF MXExhausted, IInv, TypeOK, ResultInv
<1>4. /\ "hard_bounce" \in Statuses \ Committed /\ "rate_limit" \in Statuses \ Committed
      /\ "error" \in Statuses \ Committed /\ "temp_fail" \in Statuses \ Committed
      /\ "timeout" \in Statuses \ Committed
  BY DEF Statuses, Committed
<1>5. pc \in BeforeDot
  BY DEF CheckRecipient, RateLimit, Sign, FixedDestination, LookupMX, MXExhausted, MXContextEnded,
         PassesDone, BeforeDot
<1>6. \/ \E s \in Statuses \ Committed : Return(s)
      \/ pc' \in BeforeDot /\ UNCHANGED <<txs, result, lastResult, status>>
  BY <1>3, <1>4
     DEF CheckRecipient, RateLimit, Sign, FixedDestination, LookupMX, MXExhausted, MXContextEnded,
         PassesDone, Goto, BeforeDot
<1> QED
  BY <1>1, <1>2, <1>5, <1>6

LEMMA LoopsIInv ==
  ASSUME IInv, TypeOK',
         ResolveMX \/ BeginSourcePass \/ BeginSystemPass \/ NextSource \/ Attempt
  PROVE  IInv'
<1>1. pc \in BeforeDot /\ pc' \in BeforeDot /\ UNCHANGED <<txs, result, status>>
  BY DEF ResolveMX, BeginSourcePass, BeginSystemPass, NextSource, Attempt, BeforeDot, connVars, loopVars
<1>2. lastResult' \notin Committed
  BY DEF ResolveMX, BeginSourcePass, BeginSystemPass, NextSource, Attempt, IInv, ResultInv, Committed
<1> QED
  BY <1>1, <1>2, MoveIInv

LEMMA DialIInv ==
  ASSUME IInv, TypeOK', Dial
  PROVE  IInv'
<1>1. pc \in BeforeDot
  BY DEF Dial, BeforeDot
<1>2. CASE \E s \in Statuses \ Committed : DialFailed(s)
  BY <1>1, <1>2, FailIInv DEF DialFailed, Committed
<1>3. CASE pc' = "txn" /\ UNCHANGED <<result, lastResult, status, txs>>
  BY <1>1, <1>3, MoveIInv DEF BeforeDot, IInv, ResultInv
<1> QED
  BY <1>2, <1>3 DEF Dial, Statuses, Committed

(* The commands: under StandardReplies no reply that ends the transaction  *)
(* before the dot is classified as a delivery.                             *)
LEMMA CommandsIInv ==
  ASSUME IInv, TypeOK', StandardReplies,
         StartTransaction \/ (\E r \in CmdReplies[conf.protocol] : CommandReply(r)) \/ CommandLost
         \/ WriteBodyFailed \/ SendDotFailed
  PROVE  IInv'
<1>1. pc \in BeforeDot
  BY DEF StartTransaction, CommandReply, CommandLost, WriteBodyFailed, SendDotFailed, Commands, BeforeDot
<1>2. CASE \E s \in Statuses \ {"delivered"} : TxnFailed(s)
  BY <1>1, <1>2, FailIInv DEF TxnFailed
<1>3. CASE pc' \in BeforeDot /\ UNCHANGED <<result, lastResult, status, txs>>
  BY <1>1, <1>3, MoveIInv DEF IInv, ResultInv
<1>4. "timeout" \in Statuses \ {"delivered"} /\ "error" \in Statuses \ {"delivered"}
  BY DEF Statuses
<1>5. CASE StartTransaction
  BY <1>2, <1>3, <1>4, <1>5 DEF StartTransaction, BeforeDot
<1>6. CASE \E r \in CmdReplies[conf.protocol] : CommandReply(r)
  <2> PICK r \in CmdReplies[conf.protocol] : CommandReply(r)
    BY <1>6
  <2>1. CASE r = "ok"
    <3>1. AfterCommand[pc] \in BeforeDot
      BY DEF CommandReply, Commands, AfterCommand, BeforeDot
    <3> QED
      BY <1>3, <2>1, <3>1 DEF CommandReply, Goto
  <2>2. CASE r # "ok"
    <3>1. CASE SMTP
      BY <1>2, <2>2, <3>1, MapTypes DEF CommandReply
    <3>2. CASE ~SMTP
      <4>1. r \notin Accepting
        <5>1. conf \in Configs /\ conf.protocol = "lmtp"
          BY <3>2, RepliesOf DEF Protocols, SMTP, IInv, TypeOK
        <5> QED
          BY <2>2, <5>1 DEF StandardReplies, Accepting
      <4>2. classifyLMTPResult(r) \in Statuses \ {"delivered"}
        BY <4>1 DEF classifyLMTPResult, Statuses
      <4> QED
        BY <1>2, <2>2, <3>2, <4>2 DEF CommandReply
    <3> QED
      BY <3>1, <3>2
  <2> QED
    BY <2>1, <2>2
<1>7. CASE CommandLost \/ WriteBodyFailed \/ SendDotFailed
  BY <1>2, <1>4, <1>7, MapTypes DEF CommandLost, WriteBodyFailed, SendDotFailed
<1> QED
  BY <1>5, <1>6, <1>7

(* After the dot: what the attempt's result says of the copies.            *)
LEMMA FinalIInv ==
  ASSUME IInv, TypeOK', StandardReplies,
         FinalReply \/ FinalLost \/ Reset \/ HandBack \/ Quit
  PROVE  IInv'
<1>1. /\ Len(txs) > 0 /\ Len(txs) \in Nat /\ Len(txs) \in 1..Len(txs)
      /\ txs[Len(txs)] \in {"inflight"} \cup FinalReplies[conf.protocol]
      /\ result \notin Committed /\ lastResult \notin Committed /\ status = "none"
      /\ txs' = txs /\ lastResult' = lastResult /\ status' = "none"
  <2>1. pc \in {"final"} \cup Winding
    BY DEF FinalReply, FinalLost, Reset, HandBack, Quit, Winding
  <2>2. txs' = txs /\ lastResult' = lastResult /\ status' = status
    BY DEF FinalReply, FinalLost, Reset, HandBack, Quit, Goto, TxnFailed, loopVars
  <2>3. Len(txs) > 0 /\ Len(txs) \in Nat
    BY <2>1, LenProperties DEF IInv, CopiesInv, TypeOK
  <2>4. status = "none" /\ result \notin Committed /\ lastResult \notin Committed
    BY <2>1 DEF IInv, StatusInv, ResultInv, Winding
  <2>5. txs[Len(txs)] \in {"inflight"} \cup FinalReplies[conf.protocol]
    BY <2>3, ElementOfSeq DEF IInv, TypeOK
  <2> QED
    BY <2>2, <2>3, <2>4, <2>5
<1>2. \A i \in 1..Len(txs') : MayBeTaken(i)' => i = Len(txs')
  BY <1>1 DEF IInv, CopiesInv, MayBeTaken
<1>3. ASSUME pc' = "result",
             result' = "delivered" => txs[Len(txs)] \in Accepting,
             result' \notin Committed => ~MayBeTaken(Len(txs))
      PROVE  IInv'
  <2>1. result' = "delivered" => SomeAccepted'
    BY <1>1, <1>3 DEF SomeAccepted
  <2>2. result' \notin Committed => NoneTaken'
    BY <1>1, <1>2, <1>3 DEF NoneTaken, MayBeTaken
  <2>3. CopiesInv'
    BY <1>2, <1>3 DEF CopiesInv, BeforeDot, Winding
  <2>4. ResultInv'
    BY <1>1, <1>3, <2>1, <2>2 DEF ResultInv
  <2>5. StatusInv'
    BY <1>1, <1>3 DEF StatusInv, DeliveredMeansAccepted, FailureMeansRefused
  <2> QED
    BY <2>3, <2>4, <2>5 DEF IInv
<1>4. ASSUME pc' \in Winding, result' = result, txs[Len(txs)] \in Accepting
      PROVE  IInv'
  <2>1. CopiesInv'
    BY <1>1, <1>2, <1>4 DEF CopiesInv, BeforeDot, Winding
  <2>2. ResultInv' /\ StatusInv'
    BY <1>1, <1>4 DEF ResultInv, StatusInv, DeliveredMeansAccepted, FailureMeansRefused, Winding
  <2> QED
    BY <2>1, <2>2 DEF IInv
<1>5. CASE FinalReply
  <2> DEFINE r == txs[Len(txs)]
  <2>1. r \in FinalReplies[conf.protocol] /\ r \in {"ok", "other2xx", "4xx", "5xx"} /\ r # "inflight"
    BY <1>1, <1>5, RepliesOf DEF FinalReply, IInv
  <2>2. CASE SMTP
    <3>1. r # "other2xx"
      BY <2>1, <2>2 DEF StandardReplies, SMTP, IInv, TypeOK
    <3>2. CASE r = "ok"
      BY <1>4, <1>5, <2>2, <3>2 DEF FinalReply, Goto, Accepting, Winding
    <3>3. CASE r # "ok"
      <4>1. r \in {"4xx", "5xx"} /\ ~MayBeTaken(Len(txs))
        BY <2>1, <3>1, <3>3 DEF MayBeTaken, Accepting
      <4>2. pc' = "result" /\ result' # "delivered"
        BY <1>5, <2>2, <3>3, MapTypes DEF FinalReply, TxnFailed
      <4> QED
        BY <1>3, <4>1, <4>2
    <3> QED
      BY <3>2, <3>3
  <2>3. CASE ~SMTP
    <3>1. pc' = "result" /\ result' = classifyLMTPResult(r)
      BY <1>5, <2>3 DEF FinalReply, TxnFailed
    <3>2. r \in Accepting => result' = "delivered"
      BY <2>1, <3>1 DEF classifyLMTPResult, Accepting
    <3>3. r \notin Accepting => result' # "delivered" /\ ~MayBeTaken(Len(txs))
      BY <2>1, <3>1 DEF classifyLMTPResult, MayBeTaken, Accepting
    <3> QED
      BY <1>3, <3>1, <3>2, <3>3 DEF Committed
  <2> QED
    BY <2>2, <2>3
<1>6. CASE FinalLost
  <2>1. pc' = "result" /\ result' = "unknown"
    BY <1>6 DEF FinalLost, TxnFailed, mapSMTPError, Accepting
  <2> QED
    BY <1>3, <2>1 DEF Committed
<1>7. CASE Reset
  BY <1>4, <1>7 DEF Reset, Goto, IInv, CopiesInv, Winding
<1>8. CASE HandBack
  BY <1>3, <1>4, <1>8 DEF HandBack, IInv, CopiesInv, Committed, Winding
<1>9. CASE Quit
  BY <1>3, <1>9 DEF Quit, IInv, CopiesInv, Committed, Winding
<1> QED
  BY <1>5, <1>6, <1>7, <1>8, <1>9

(* What the callers make of a result: a copy that may have been taken ends *)
(* the search.                                                             *)
LEMMA ResultIInv ==
  ASSUME IInv, TypeOK', HandleResult
  PROVE  IInv'
<1>1. /\ pc = "result" /\ status = "none" /\ txs' = txs /\ result' = result
      /\ lastResult \notin Committed /\ result \in Statuses
  BY DEF HandleResult, IInv, TypeOK, StatusInv, ResultInv
<1>2. CASE pc' = "done" /\ status' = result /\ UNCHANGED lastResult
  <2>1. CopiesInv' /\ ResultInv'
    BY <1>1, <1>2 DEF IInv, CopiesInv, ResultInv, BeforeDot, Winding, MayBeTaken
  <2>2. StatusInv'
    BY <1>1, <1>2 DEF IInv, StatusInv, ResultInv, DeliveredMeansAccepted, FailureMeansRefused,
                      NoneTaken, SomeAccepted, MayBeTaken, Committed, Statuses
  <2> QED
    BY <2>1, <2>2 DEF IInv
<1>3. CASE /\ pc' \in BeforeDot /\ UNCHANGED status
           /\ result \notin Committed /\ lastResult' \in {lastResult, result}
  <2>1. NoneTaken'
    BY <1>1, <1>3 DEF IInv, ResultInv, NoneTaken, MayBeTaken
  <2>2. CopiesInv'
    BY <1>1, <1>3, <2>1 DEF CopiesInv, NoneTaken, BeforeDot, Winding
  <2>3. ResultInv' /\ StatusInv'
    BY <1>1, <1>3 DEF ResultInv, StatusInv, BeforeDot, Winding, DeliveredMeansAccepted, FailureMeansRefused
  <2> QED
    BY <2>2, <2>3 DEF IInv
<1> QED
  BY <1>2, <1>3 DEF HandleResult, RetryFresh, isFinalResult, Committed, BeforeDot, Winding

LEMMA IInvNext ==
  ASSUME StandardReplies
  PROVE  IInv /\ [Next]_vars => IInv'
<1> SUFFICES ASSUME IInv, [Next]_vars PROVE IInv'
  OBVIOUS
<1>1. TypeOK'
  BY TypeNext DEF IInv
<1>2. CASE WriteBody \/ SendDot
  <2>1. pc \in BeforeDot
    BY <1>2 DEF WriteBody, SendDot, BeforeDot
  <2>2. CASE pc' = "dot" /\ UNCHANGED <<txs, result, lastResult, status>>
    BY <1>1, <2>1, <2>2, MoveIInv DEF BeforeDot, IInv, ResultInv
  <2>3. CASE pc' = "final" /\ txs' = Append(txs, "inflight") /\ UNCHANGED <<result, lastResult, status>>
    BY <1>1, <2>1, <2>3, DotIInv
  <2> QED
    BY <1>2, <2>2, <2>3 DEF WriteBody, SendDot, Goto
<1>3. CASE Transaction
  BY <1>1, <1>2, <1>3, CommandsIInv, FinalIInv DEF Transaction
<1>4. CASE ContextEnds \/ HookCloses \/ UNCHANGED vars
  BY <1>1, <1>4, KeepsIInv DEF ContextEnds, HookCloses, vars
<1>5. CASE \E i \in 1..Len(txs) : ServerDecides(i)
  BY <1>1, <1>5, DecideIInv
<1> QED
  BY <1>1, <1>3, <1>4, <1>5, EntryIInv, LoopsIInv, DialIInv, ResultIInv DEF Next, Deliver

LEMMA IInvAlways ==
  ASSUME StandardReplies
  PROVE  Spec => []IInv
BY IInvInit, IInvNext, PTL DEF Spec

(* DeliverMessage never leaves two copies of a message that servers have   *)
(* taken or may still take, through all its loops and retries.             *)
THEOREM NoDuplicate ==
  ASSUME StandardReplies
  PROVE  Spec => []AtMostOneCopy
<1>1. IInv => AtMostOneCopy
  BY DEF IInv, CopiesInv, AtMostOneCopy
<1> QED
  BY <1>1, IInvAlways, PTL

(* The status DeliverMessage returns is true of the copies: "delivered"    *)
(* comes with an accepted copy.                                            *)
THEOREM DeliveredIsTrue ==
  ASSUME StandardReplies
  PROVE  Spec => []DeliveredMeansAccepted
<1>1. IInv => DeliveredMeansAccepted
  BY DEF IInv, StatusInv
<1> QED
  BY <1>1, IInvAlways, PTL

(* ... and every failure but "unknown" with none that was or can be taken. *)
THEOREM FailureIsTrue ==
  ASSUME StandardReplies
  PROVE  Spec => []FailureMeansRefused
<1>1. IInv => FailureMeansRefused
  BY DEF IInv, StatusInv
<1> QED
  BY <1>1, IInvAlways, PTL

-----------------------------------------------------------------------------
(***************************************************************************)
(* Refinement of DeliverySpec.                                             *)
(***************************************************************************)
(* What a step may do to the copies and the status.                        *)
LEMMA StepEffect ==
  ASSUME IInv, Next
  PROVE  \/ txs' = txs /\ (status' = status \/ status = "none")
         \/ pc \in BeforeDot /\ status' = status /\ txs' = Append(txs, "inflight")
         \/ status' = status /\ \E i \in 1..Len(txs) : DS!Decide(i)
<1>1. pc # "done" => status = "none"
  BY DEF IInv, StatusInv
<1>2. CASE CheckRecipient \/ RateLimit \/ Sign \/ FixedDestination \/ LookupMX \/ MXExhausted
           \/ MXContextEnded \/ PassesDone
  BY <1>1, <1>2 DEF CheckRecipient, RateLimit, Sign, FixedDestination, LookupMX, MXExhausted,
                    MXContextEnded, PassesDone, Goto, Return
<1>3. CASE ResolveMX \/ BeginSourcePass \/ BeginSystemPass \/ NextSource \/ Attempt \/ Dial \/ HandleResult
  BY <1>1, <1>3 DEF ResolveMX, BeginSourcePass, BeginSystemPass, NextSource, Attempt, Dial, DialFailed,
                    HandleResult
<1>4. CASE WriteBody \/ SendDot
  BY <1>4 DEF WriteBody, SendDot, Goto, BeforeDot
<1>5. CASE StartTransaction \/ (\E r \in CmdReplies[conf.protocol] : CommandReply(r)) \/ CommandLost
           \/ WriteBodyFailed \/ SendDotFailed
  BY <1>5 DEF StartTransaction, CommandReply, CommandLost, WriteBodyFailed, SendDotFailed, Goto, TxnFailed
<1>6. CASE FinalReply \/ FinalLost \/ Reset \/ HandBack \/ Quit
  BY <1>6 DEF FinalReply, FinalLost, Reset, HandBack, Quit, Goto, TxnFailed
<1>7. CASE ContextEnds \/ HookCloses
  BY <1>7 DEF ContextEnds, HookCloses
<1>8. CASE \E i \in 1..Len(txs) : ServerDecides(i)
  BY <1>8, RepliesOf DEF ServerDecides, DS!Decide, IInv
<1> QED
  BY <1>2, <1>3, <1>4, <1>5, <1>6, <1>7, <1>8 DEF Next, Deliver, Transaction

(* Copies that cannot be taken have been refused.                          *)
LEMMA NoneTakenRefused ==
  ASSUME TypeOK, NoneTaken
  PROVE  DS!AllRefused
<1>1. \A i \in 1..Len(txs) : txs[i] \in {"inflight"} \cup FinalReplies[conf.protocol]
  BY ElementOfSeq DEF TypeOK
<1> QED
  BY <1>1, RepliesOf
     DEF NoneTaken, MayBeTaken, Accepting, DS!AllRefused, DS!Refused

LEMMA StepRefines ==
  ASSUME IInv, IInv', [Next]_vars
  PROVE  [DS!Next]_(DS!vars)
<1>1. CASE UNCHANGED <<txs, status>>
  BY <1>1 DEF DS!vars
<1>2. CASE txs' = txs /\ status = "none" /\ status' # "none"
  <2>1. status' \in DS!Statuses
    BY <1>2 DEF IInv, TypeOK, Statuses, DS!Statuses
  <2>2. status' = "delivered" => \E i \in 1..Len(txs) : txs[i] \in DS!Accepting
    BY <1>2 DEF IInv, StatusInv, DeliveredMeansAccepted, Accepting, DS!Accepting
  <2>3. status' \notin {"delivered", "unknown"} => NoneTaken
    BY <1>2 DEF IInv, StatusInv, FailureMeansRefused, NoneTaken, MayBeTaken
  <2>4. DS!Conclude(status')
    BY <1>2, <2>2, <2>3, NoneTakenRefused DEF DS!Conclude, IInv
  <2> QED
    BY <2>1, <2>4 DEF DS!Next
<1>3. CASE pc \in BeforeDot /\ status' = status /\ txs' = Append(txs, "inflight")
  <2>1. status = "none" /\ NoneTaken
    BY <1>3 DEF IInv, StatusInv, CopiesInv, BeforeDot
  <2> QED
    BY <1>3, <2>1, NoneTakenRefused DEF DS!Next, DS!Transmit, IInv
<1>4. CASE \E i \in 1..Len(txs) : DS!Decide(i)
  BY <1>4 DEF DS!Next
<1>5. CASE UNCHANGED vars
  BY <1>1, <1>5 DEF vars
<1> QED
  BY <1>1, <1>2, <1>3, <1>4, <1>5, StepEffect

(* DeliverMessage implements DeliverySpec: a copy leaves the gateway only  *)
(* after all earlier ones were refused, and the status returned is one     *)
(* that the copies justify.                                                *)
THEOREM Refinement ==
  ASSUME StandardReplies
  PROVE  Spec => RefinesDeliverySpec
<1>1. Init => DS!Init
  BY DEF Init, DS!Init
<1>2. IInv /\ IInv' /\ [Next]_vars => [DS!Next]_(DS!vars)
  BY StepRefines
<1> QED
  BY <1>1, <1>2, IInvAlways, PTL DEF Spec, RefinesDeliverySpec, DS!Spec

-----------------------------------------------------------------------------
(***************************************************************************)
(* The connection of the call. A pooled one is out of reach: its hook was  *)
(* stopped before it started, and the attempt that handed it back was the  *)
(* last one.                                                               *)
(***************************************************************************)
Pooled ==
    conn = "pooled" =>
        /\ hook = "stopped"
        /\ pc = "done" \/ (pc = "result" /\ result = "delivered")

ConnInv == NoConnectionAbandoned /\ Pooled

LEMMA ConnInit == Init => ConnInv
BY DEF Init, ConnInv, NoConnectionAbandoned, Pooled

LEMMA ConnStep ==
  ASSUME ConnInv, [Next]_vars
  PROVE  ConnInv' /\ (conn = "pooled" => conn' = "pooled")
<1> USE DEF ConnInv, NoConnectionAbandoned, Pooled
<1>1. CASE CheckRecipient \/ RateLimit \/ Sign \/ FixedDestination \/ LookupMX \/ MXExhausted
           \/ MXContextEnded \/ PassesDone
  BY <1>1 DEF CheckRecipient, RateLimit, Sign, FixedDestination, LookupMX, MXExhausted,
              MXContextEnded, PassesDone, Goto, Return, connVars, Commands
<1>2. CASE ResolveMX \/ BeginSourcePass \/ BeginSystemPass \/ NextSource
  BY <1>2 DEF ResolveMX, BeginSourcePass, BeginSystemPass, NextSource, connVars, Commands
<1>3. CASE Attempt \/ Dial
  BY <1>3 DEF Attempt, Dial, DialFailed, connVars, Commands
<1>4. CASE StartTransaction \/ CommandLost \/ WriteBody \/ WriteBodyFailed \/ SendDot \/ SendDotFailed
  BY <1>4 DEF StartTransaction, CommandLost, WriteBody, WriteBodyFailed, SendDot, SendDotFailed,
              Goto, TxnFailed, StopHook, connVars, Commands
<1>5. CASE \E r \in CmdReplies[conf.protocol] : CommandReply(r)
  <2> PICK r \in CmdReplies[conf.protocol] : CommandReply(r)
    BY <1>5
  <2>1. CASE \E st : TxnFailed(st)
    BY <2>1 DEF CommandReply, Commands, TxnFailed
  <2>2. CASE Goto(AfterCommand[pc])
    <3>1. AfterCommand[pc] \in {"rcpt", "data", "body"}
      BY DEF CommandReply, Commands, AfterCommand
    <3> QED
      BY <2>2, <3>1 DEF CommandReply, Commands, Goto, connVars
  <2> QED
    BY <2>1, <2>2 DEF CommandReply
<1>6. CASE FinalReply \/ FinalLost \/ Reset \/ HandBack \/ Quit
  BY <1>6 DEF FinalReply, FinalLost, Reset, HandBack, Quit, Goto, TxnFailed, StopHook, connVars, Commands
<1>7. CASE HandleResult
  BY <1>7 DEF HandleResult, RetryFresh, isFinalResult, connVars, Commands
<1>8. CASE ContextEnds \/ HookCloses
  BY <1>8 DEF ContextEnds, HookCloses, Commands
<1>9. CASE (\E i \in 1..Len(txs) : ServerDecides(i)) \/ UNCHANGED vars
  BY <1>9 DEF ServerDecides, vars, connVars
<1> QED
  BY <1>1, <1>2, <1>3, <1>4, <1>5, <1>6, <1>7, <1>8, <1>9 DEF Next, Deliver, Transaction

(* Every way out of a transaction closes the connection, hands it to the   *)
(* pool or, after a delivery, has sent QUIT on it.                         *)
THEOREM ConnectionsAccounted == Spec => []NoConnectionAbandoned
<1>1. ConnInv /\ [Next]_vars => ConnInv'
  BY ConnStep
<1>2. ConnInv => NoConnectionAbandoned
  BY DEF ConnInv
<1> QED
  BY <1>1, <1>2, ConnInit, PTL DEF Spec

(* The context hook of a finished call never closes a pooled connection.   *)
THEOREM HookSparesPool == Spec => PooledStaysOpen
<1>1. ConnInv /\ [Next]_vars => ConnInv'
  BY ConnStep
<1>2. ConnInv /\ [Next]_vars => [conn = "pooled" => conn' = "pooled"]_vars
  BY ConnStep
<1> QED
  BY <1>1, <1>2, ConnInit, PTL DEF Spec, PooledStaysOpen

-----------------------------------------------------------------------------
(***************************************************************************)
(* The envelope sender.  Reverse is a recursive function over the parts of *)
(* the local part: it exists because every SRS1 layer takes three parts    *)
(* off, and its rounds are then unfolded one by one.                       *)
(***************************************************************************)
(* Every set of natural numbers has a smallest element.                    *)
LEMMA LeastNat ==
  ASSUME NEW S \in SUBSET Nat, S # {}
  PROVE  \E x \in S : \A y \in S : x <= y
<1>1. PICK x \in S : \A y \in S : <<y, x>> \notin OpToRel(<, Nat)
  BY NatLessThanWellFounded, WFMin
<1>2. \A y \in S : ~(y < x)
  BY <1>1 DEF OpToRel
<1> QED
  BY <1>2

(* Induction downwards from position n to position 1.                      *)
LEMMA DownTo ==
  ASSUME NEW n \in Nat, NEW S, n + 1 \in S, \A i \in 1..n : i + 1 \in S => i \in S
  PROVE  \A i \in 1..(n + 1) : i \in S
<1> DEFINE Bad == {k \in 0..n : n + 1 - k \notin S}
<1> SUFFICES ASSUME Bad # {} PROVE FALSE
  <2> SUFFICES ASSUME NEW i \in 1..(n + 1), i \notin S PROVE FALSE
    OBVIOUS
  <2>1. n + 1 - i \in 0..n /\ n + 1 - (n + 1 - i) = i
    OBVIOUS
  <2>2. n + 1 - i \in Bad
    BY <2>1
  <2> QED
    BY <2>2
<1>1. PICK m \in Bad : \A k \in Bad : m <= k
  <2>1. Bad \in SUBSET Nat
    OBVIOUS
  <2> QED
    BY <2>1, LeastNat
<1>2. m # 0
  BY <1>1
<1>3. m - 1 \in 0..n /\ m - 1 \notin Bad
  BY <1>1, <1>2
<1>4. n + 1 - (m - 1) \in S
  BY <1>3
<1>5. n + 1 - m \in 1..n /\ n + 1 - (m - 1) = (n + 1 - m) + 1
  BY <1>2
<1>6. n + 1 - m \in S
  BY <1>4, <1>5
<1> QED
  BY <1>1, <1>6

-----------------------------------------------------------------------------
(* What follows a prefix.                                                  *)
LEMMA RestOfConcat ==
  ASSUME NEW S, NEW u \in Seq(S), NEW v \in Seq(S), Len(v) > 0
  PROVE  Rest(u \o v, Len(u) + 1) = v
<1>1. u \o v \in Seq(S) /\ Len(u \o v) = Len(u) + Len(v) /\ Len(u) \in Nat /\ Len(v) \in Nat
  BY ConcatProperties
<1>2. SubSeq(u \o v, Len(u) + 1, Len(u) + Len(v)) = SubSeq(v, 1, Len(v))
  BY <1>1, SubSeqOfConcat2
<1>3. SubSeq(v, 1, Len(v)) = v
  BY SubSeqFull
<1> QED
  BY <1>1, <1>2, <1>3 DEF Rest

LEMMA RestType ==
  ASSUME NEW S, NEW text \in Seq(S), NEW p \in 1..(Len(text) + 1)
  PROVE  /\ Rest(text, p) \in Seq(S)
         /\ Len(Rest(text, p)) = Len(text) + 1 - p
         /\ \A i \in 1..(Len(text) + 1 - p) : Rest(text, p)[i] = text[p + i - 1]
<1>1. \A i \in p..Len(text) : text[i] \in S
  OBVIOUS
<1>2. p \in Int /\ Len(text) \in Int
  OBVIOUS
<1> QED
  BY <1>1, <1>2, SubSeqProperties DEF Rest

-----------------------------------------------------------------------------
(* One round of Reverse, and the function its rounds define.               *)
BackStep(secret, text, day, p, inner) == ReverseLocal(secret, Rest(text, p), day, inner)

Rounds(f, secret, text, day) ==
  [p \in 1..(Len(text) + 1) |-> BackStep(secret, text, day, p, f[p + 3])]

IsBack(g, secret, text, day, q) ==
  \A p \in q..(Len(text) + 1) : g[p] = BackStep(secret, text, day, p, g[p + 3])

LEMMA BackStepInner ==
  ASSUME NEW S, NEW text \in Seq(S), NEW p \in 1..(Len(text) + 1), p + 3 > Len(text) + 1,
         NEW secret, NEW day, NEW x, NEW y
  PROVE  BackStep(secret, text, day, p, x) = BackStep(secret, text, day, p, y)
<1>1. ~(Len(Rest(text, p)) >= 4)
  BY RestType
<1> QED
  BY <1>1 DEF BackStep, ReverseLocal, reverseSRS1

LEMMA BackExists ==
  ASSUME NEW S, NEW text \in Seq(S), NEW secret, NEW day
  PROVE  \E g : g = Rounds(g, secret, text, day)
<1> DEFINE L == Len(text) + 1
           Good == {q \in 1..L : \E h : IsBack([p \in q..L |-> h[p]], secret, text, day, q)}
<1>0. Len(text) \in Nat
  OBVIOUS
<1>1. L \in Good
  <2> DEFINE h == [p \in L..L |-> BackStep(secret, text, day, L, 0)]
             g == [p \in L..L |-> h[p]]
  <2>1. L \in 1..L
    BY <1>0
  <2>2. L \in L..L /\ \A p \in L..L : p = L
    BY <1>0
  <2>3. g[L] = BackStep(secret, text, day, L, 0)
    BY <2>2
  <2>4. BackStep(secret, text, day, L, 0) = BackStep(secret, text, day, L, g[L + 3])
    <3>1. L + 3 > L /\ L \in 1..L
      BY <1>0
    <3> QED
      BY <3>1, BackStepInner
  <2>5. IsBack(g, secret, text, day, L)
    BY <2>2, <2>3, <2>4 DEF IsBack
  <2> HIDE DEF h
  <2> QED
    BY <2>1, <2>5
<1>2. ASSUME NEW q \in 1..Len(text), q + 1 \in Good PROVE q \in Good
  <2>1. PICK h : IsBack([p \in (q + 1)..L |-> h[p]], secret, text, day, q + 1)
    BY <1>2
  <2> DEFINE g == [p \in (q + 1)..L |-> h[p]]
             k == [p \in q..L |-> IF p = q THEN BackStep(secret, text, day, q, g[q + 3]) ELSE g[p]]
             f == [p \in q..L |-> k[p]]
  <2>2. q \in 1..L /\ q \in q..L
    BY <1>0
  <2>3. f[q] = BackStep(secret, text, day, q, g[q + 3])
    BY <2>2
  <2>4. \A p \in (q + 1)..L : p \in q..L /\ p # q
    BY <1>0
  <2>5. \A p \in (q + 1)..L : f[p] = g[p]
    BY <2>4
  <2>6. ASSUME NEW p \in q..L
        PROVE  BackStep(secret, text, day, p, f[p + 3]) = BackStep(secret, text, day, p, g[p + 3])
    <3>1. CASE p + 3 <= L
      <4>1. p + 3 \in (q + 1)..L
        BY <1>0, <3>1
      <4> QED
        BY <2>5, <4>1
    <3>2. CASE p + 3 > L
      <4>1. p \in 1..L
        BY <1>0
      <4> HIDE DEF f, g
      <4> QED
        BY <3>2, <4>1, BackStepInner
    <3> QED
      BY <1>0, <3>1, <3>2
  <2>7. \A p \in (q + 1)..L : g[p] = BackStep(secret, text, day, p, g[p + 3])
    <3> HIDE DEF g
    <3>1. IsBack(g, secret, text, day, q + 1)
      BY <2>1 DEF g
    <3> QED
      BY <3>1 DEF IsBack
  <2> HIDE DEF g, k
  <2>8. IsBack(f, secret, text, day, q)
    <3> HIDE DEF f
    <3> SUFFICES ASSUME NEW p \in q..L PROVE f[p] = BackStep(secret, text, day, p, f[p + 3])
      BY DEF IsBack
    <3>1. CASE p = q
      BY <2>3, <2>6, <3>1
    <3>2. CASE p # q
      <4>1. p \in (q + 1)..L
        BY <1>0, <3>2
      <4> QED
        BY <2>5, <2>6, <2>7, <4>1
    <3> QED
      BY <3>1, <3>2
  <2> QED
    BY <2>2, <2>8
<1>3. 1 \in Good
  <2>1. \A q \in 1..(Len(text) + 1) : q \in Good
    <3> HIDE DEF Good
    <3> QED
      BY <1>0, <1>1, <1>2, DownTo
  <2>2. 1 \in 1..(Len(text) + 1)
    BY <1>0
  <2> QED
    BY <2>1, <2>2
<1>4. PICK h : IsBack([p \in 1..L |-> h[p]], secret, text, day, 1)
  BY <1>3
<1> DEFINE g == [p \in 1..L |-> h[p]]
<1>5. \A p \in 1..L : g[p] = BackStep(secret, text, day, p, g[p + 3])
  <2> HIDE DEF g
  <2>1. IsBack(g, secret, text, day, 1)
    BY <1>4 DEF g
  <2> QED
    BY <2>1 DEF IsBack
<1>6. g = [p \in 1..L |-> g[p]]
  OBVIOUS
<1> HIDE DEF g
<1>7. g = Rounds(g, secret, text, day)
  BY <1>5, <1>6 DEF Rounds
<1> QED
  BY <1>7

(* Reverse is the result of the first round, and every round is one        *)
(* BackStep.                                                               *)
LEMMA ReverseRounds ==
  ASSUME NEW S, NEW text \in Seq(S), NEW a, a.local = text, NEW secret, NEW day
  PROVE  \E g : IsBack(g, secret, text, day, 1) /\ Reverse(secret, a, day) = g[1]
<1> DEFINE back == CHOOSE f : f = Rounds(f, secret, text, day)
<1>1. back = Rounds(back, secret, text, day)
  BY BackExists
<1>2. Reverse(secret, a, day) = back[1]
  BY DEF Reverse, Rounds, BackStep
<1> HIDE DEF back
<1>3. IsBack(back, secret, text, day, 1)
  BY <1>1 DEF Rounds, IsBack
<1> QED
  BY <1>2, <1>3

(* The codes of days, and the age that validateTimestamp computes.         *)
DayCodes == 0..1023

AgeAt(current, issued) ==
  IF current >= issued THEN current - issued ELSE (1024 - issued) + current

(* The code c of a day that comes n days after one with code i, e cycles   *)
(* later.                                                                  *)
Apart(n, i, c, e) == 1024 * e = n + i - c

LEMMA OneCycle ==
  ASSUME NEW n \in DayCodes, NEW i \in DayCodes, NEW c \in DayCodes, NEW e \in Int, Apart(n, i, c, e)
  PROVE  AgeAt(c, i) = n
<1>1. PICK x \in Int : x = n + i - c
  BY DEF DayCodes
<1>2. x > -1024 /\ x < 2048
  BY <1>1 DEF DayCodes
<1>3. x = 1024 * e
  BY <1>1 DEF Apart
<1>4. e >= 2 => 1024 * e >= 2048
  OBVIOUS
<1>5. e <= -1 => 1024 * e <= -1024
  OBVIOUS
<1>6. e = 0 \/ e = 1
  <2>1. e < 2 /\ e > -1
    BY <1>1, <1>2, <1>3, <1>4, <1>5
  <2> QED
    BY <2>1
<1>7. x = 0 \/ x = 1024
  BY <1>3, <1>6
<1> QED
  BY <1>1, <1>7 DEF AgeAt, DayCodes

(* The two digits of a timestamp give its day back, and the age is the     *)
(* number of days since, for one cycle.                                    *)
LEMMA Age ==
  ASSUME NEW day \in Nat, NEW d \in DayCodes
  PROVE  validateTimestamp(generateTimestamp(day), day + d) <=> d <= MaxAge
<1> DEFINE issued == day % 1024
           current == (day + d) % 1024
<1>0. d \in Nat
  BY DEF DayCodes
<1>1. issued \in 0..1023 /\ current \in 0..1023
  BY <1>0
<1>2. (issued \div 32) * 32 + (issued % 32) = issued
  BY <1>1
<1>3. AgeAt(current, issued) = d
  <2>1. PICK q \in Int : day = 1024 * q + issued
    OBVIOUS
  <2>2. PICK r \in Int : day + d = 1024 * r + current
    BY <1>0
  <2> HIDE DEF issued, current
  <2>3. PICK e \in Int : e = r - q
    BY <2>1, <2>2
  <2>4. Apart(d, issued, current, e)
    BY <1>0, <1>1, <2>1, <2>2, <2>3 DEF Apart
  <2>5. issued \in DayCodes /\ current \in DayCodes
    BY <1>1 DEF DayCodes
  <2> QED
    BY <2>3, <2>4, <2>5, OneCycle
<1>4. validateTimestamp(generateTimestamp(day), day + d) <=> AgeAt(current, issued) <= MaxAge
  BY <1>2 DEF validateTimestamp, generateTimestamp, Cycle, AgeAt
<1> QED
  BY <1>3, <1>4

(* f is v behind two parts.                                                *)
Behind(f, S, a, b, v) ==
  /\ f \in Seq(S) /\ Len(f) = Len(v) + 2
  /\ f[1] = a /\ f[2] = b /\ \A i \in 1..Len(v) : f[i + 2] = v[i]
  /\ Rest(f, 3) = v

LEMMA Prefixed ==
  ASSUME NEW S, NEW a \in S, NEW b \in S, NEW v \in Seq(S), Len(v) > 0
  PROVE  Behind(<<a, b>> \o v, S, a, b, v)
<1> DEFINE u == <<a, b>>
           f == u \o v
<1>1. u \in Seq(S) /\ Len(u) = 2 /\ u[1] = a /\ u[2] = b
  OBVIOUS
<1> HIDE DEF u
<1>2. Len(v) \in Nat
  OBVIOUS
<1>3. Rest(f, 3) = v
  <2>1. Rest(f, Len(u) + 1) = v
    BY <1>1, RestOfConcat, Zenon
  <2>2. Len(u) + 1 = 3
    BY <1>1
  <2> QED
    BY <2>1, <2>2, Zenon
<1>4. /\ f \in Seq(S) /\ Len(f) = Len(v) + 2
      /\ \A i \in 1..(2 + Len(v)) : f[i] = IF i <= 2 THEN u[i] ELSE v[i - 2]
  <2>1. /\ u \o v \in Seq(S) /\ Len(u \o v) = Len(u) + Len(v)
        /\ \A i \in 1..Len(u) + Len(v) : (u \o v)[i] = IF i <= Len(u) THEN u[i] ELSE v[i - Len(u)]
    BY <1>1, ConcatProperties
  <2> HIDE DEF f
  <2>2. /\ f \in Seq(S) /\ Len(f) = Len(u) + Len(v)
        /\ \A i \in 1..Len(u) + Len(v) : f[i] = IF i <= Len(u) THEN u[i] ELSE v[i - Len(u)]
    BY <2>1, Zenon DEF f
  <2> QED
    BY <1>1, <1>2, <2>2
<1> HIDE DEF f
<1>5. f[1] = u[1] /\ f[2] = u[2]
  BY <1>2, <1>4
<1>6. ASSUME NEW i \in 1..Len(v) PROVE f[i + 2] = v[i]
  <2>1. i + 2 \in 1..(2 + Len(v)) /\ ~(i + 2 <= 2) /\ (i + 2) - 2 = i
    BY <1>2
  <2> QED
    BY <1>4, <2>1
<1>7. Behind(f, S, a, b, v)
  BY <1>1, <1>3, <1>4, <1>5, <1>6 DEF Behind
<1> QED
  BY <1>7 DEF f, u

LEMMA Pair ==
  ASSUME NEW a, NEW b
  PROVE  <<a>> \o <<b>> = <<a, b>>
<1> DEFINE S == {a, b}
           u == <<a>>
           w == <<b>>
<1>1. u \in Seq(S) /\ Len(u) = 1 /\ u[1] = a /\ w \in Seq(S) /\ Len(w) = 1 /\ w[1] = b
  OBVIOUS
<1>2. <<a, b>> \in Seq(S) /\ Len(<<a, b>>) = 2 /\ <<a, b>>[1] = a /\ <<a, b>>[2] = b
  OBVIOUS
<1> HIDE DEF u, w, S
<1>3. /\ u \o w \in Seq(S) /\ Len(u \o w) = Len(u) + Len(w)
      /\ \A i \in 1..Len(u) + Len(w) : (u \o w)[i] = IF i <= Len(u) THEN u[i] ELSE w[i - Len(u)]
  BY <1>1, ConcatProperties
<1> DEFINE x == u \o w
           y == <<a, b>>
<1>4. /\ x \in Seq(S) /\ Len(x) = Len(u) + Len(w)
      /\ \A i \in 1..Len(u) + Len(w) : x[i] = IF i <= Len(u) THEN u[i] ELSE w[i - Len(u)]
  BY <1>3, Zenon
<1>5. y \in Seq(S) /\ Len(y) = 2 /\ y[1] = a /\ y[2] = b
  BY <1>2
<1> HIDE DEF x, y
<1>6. \A i \in 1..Len(x) : x[i] = y[i]
  <2>1. Len(x) = 2 /\ \A i \in 1..2 : i = 1 \/ i = 2
    BY <1>1, <1>4
  <2>2. x[1] = a /\ x[2] = b
    BY <1>1, <1>4
  <2> QED
    BY <1>5, <2>1, <2>2
<1>7. x = y
  <2>1. Len(x) = Len(y)
    BY <1>1, <1>4, <1>5
  <2> QED
    BY <1>4, <1>5, <1>6, <2>1, SeqEqual
<1> QED
  BY <1>7 DEF x, y, u, w

(* The rest of a rest.                                                     *)
LEMMA RestOfRest ==
  ASSUME NEW S, NEW f \in Seq(S), NEW p \in 1..Len(f), NEW q \in 1..(Len(f) + 1 - p),
         NEW r \in Nat, r = p + q - 1
  PROVE  Rest(Rest(f, p), q) = Rest(f, r)
<1>0. Len(f) \in Nat /\ p \in 1..(Len(f) + 1) /\ p + q - 1 \in 1..(Len(f) + 1)
  OBVIOUS
<1>1. /\ Rest(f, p) \in Seq(S) /\ Len(Rest(f, p)) = Len(f) + 1 - p
      /\ \A i \in 1..(Len(f) + 1 - p) : Rest(f, p)[i] = f[p + i - 1]
  BY <1>0, RestType
<1>2. /\ Rest(f, p + q - 1) \in Seq(S) /\ Len(Rest(f, p + q - 1)) = Len(f) + 1 - (p + q - 1)
      /\ \A i \in 1..(Len(f) + 1 - (p + q - 1)) : Rest(f, p + q - 1)[i] = f[(p + q - 1) + i - 1]
  BY <1>0, RestType
<1> DEFINE g == Rest(f, p)
<1>3. g \in Seq(S) /\ Len(g) = Len(f) + 1 - p /\ q \in 1..(Len(g) + 1)
  BY <1>0, <1>1
<1>4. /\ Rest(g, q) \in Seq(S) /\ Len(Rest(g, q)) = Len(g) + 1 - q
      /\ \A i \in 1..(Len(g) + 1 - q) : Rest(g, q)[i] = g[q + i - 1]
  <2> HIDE DEF g
  <2> QED
    BY <1>3, RestType, Zenon
<1>5. ASSUME NEW i \in 1..(Len(g) + 1 - q) PROVE Rest(g, q)[i] = Rest(f, p + q - 1)[i]
  <2>1. /\ q + i - 1 \in 1..(Len(f) + 1 - p) /\ p + (q + i - 1) - 1 = (p + q - 1) + i - 1
        /\ i \in 1..(Len(f) + 1 - (p + q - 1))
    BY <1>0, <1>3
  <2> QED
    BY <1>1, <1>2, <1>4, <2>1
<1>6. Len(Rest(g, q)) = Len(Rest(f, p + q - 1))
  BY <1>0, <1>2, <1>3, <1>4
<1>7. \A i \in 1..Len(Rest(g, q)) : Rest(g, q)[i] = Rest(f, p + q - 1)[i]
  BY <1>4, <1>5
<1>8. Rest(g, q) = Rest(f, p + q - 1)
  <2> HIDE DEF g
  <2> QED
    BY <1>2, <1>4, <1>6, <1>7, SeqEqual
<1> QED
  BY <1>8, Zenon

(* A text behind twice two parts.                                          *)
Within(f, c, d, l) == Len(f) = Len(l) + 4 /\ f[3] = c /\ f[4] = d /\ Rest(f, 5) = l

LEMMA BehindFour ==
  ASSUME NEW T, NEW f, NEW v, NEW l, NEW a, NEW b, NEW c, NEW d, Len(l) \in Nat, Len(l) > 0,
         Behind(f, T, a, b, v), Behind(v, T, c, d, l)
  PROVE  Within(f, c, d, l)
<1>1. v \in Seq(T) /\ Len(v) = Len(l) + 2 /\ v[1] = c /\ v[2] = d /\ Rest(v, 3) = l
  BY DEF Behind
<1>2. f \in Seq(T) /\ Len(f) = Len(v) + 2 /\ Rest(f, 3) = v
  BY DEF Behind
<1>3. f[1 + 2] = v[1] /\ f[2 + 2] = v[2]
  <2>1. 1 \in 1..Len(v) /\ 2 \in 1..Len(v)
    BY <1>1
  <2> QED
    BY <2>1 DEF Behind
<1>4. Len(f) = Len(l) + 4 /\ 1 + 2 = 3 /\ 2 + 2 = 4
  BY <1>1, <1>2
<1>5. Rest(Rest(f, 3), 3) = Rest(f, 5)
  <2> DEFINE p == 3  r == 5
  <2>1. p \in 1..Len(f) /\ p \in 1..(Len(f) + 1 - p) /\ r = p + p - 1 /\ r \in Nat
    BY <1>1, <1>4
  <2>2. f \in Seq(T)
    BY <1>2
  <2> HIDE DEF p, r
  <2>3. Rest(Rest(f, p), p) = Rest(f, r)
    BY <2>1, <2>2, RestOfRest
  <2> QED
    BY <2>3 DEF p, r
<1> QED
  BY <1>1, <1>2, <1>3, <1>4, <1>5 DEF Within

-----------------------------------------------------------------------------
(* Addresses of parts in S: the domain is one part.                        *)
Addresses(S) == [local : Seq(S) \ {<<>>}, domain : {<<p>> : p \in S}]

LEMMA AddressParts ==
  ASSUME NEW S, NEW s \in Addresses(S)
  PROVE  /\ s.local \in Seq(S) /\ Len(s.local) \in Nat /\ Len(s.local) > 0
         /\ s.domain = <<s.domain[1]>> /\ s.domain[1] \in S
         /\ s = [local |-> s.local, domain |-> s.domain]
         /\ s # NoAddress
<1>1. s.local \in Seq(S) /\ s.local # <<>> /\ s = [local |-> s.local, domain |-> s.domain]
  BY DEF Addresses
<1>2. PICK p \in S : s.domain = <<p>>
  BY DEF Addresses
<1>3. s.domain = <<s.domain[1]>> /\ s.domain[1] \in S
  BY <1>2
<1>4. Len(s.local) \in Nat /\ Len(s.local) > 0
  BY <1>1
<1>5. s # NoAddress
  BY <1>1 DEF NoAddress
<1> QED
  BY <1>1, <1>3, <1>4, <1>5

(* f is an SRS0 local part for s with timestamp t and hash h.              *)
IsSRS0(f, T, s, t, h, signed) ==
  /\ f \in Seq(T) /\ Len(f) >= 5 /\ HasTag(SRS0, f)
  /\ f[2] = h /\ f[3] = t /\ <<f[4]>> = s.domain
  /\ Rest(f, 3) = signed /\ Rest(f, 5) = s.local

(* What forwardSRS0 signs, and the local part it makes of it.              *)
LEMMA SRS0Parts ==
  ASSUME NEW S, NEW s \in Addresses(S), NEW t, NEW h, NEW signed, NEW f,
         signed = <<t>> \o s.domain \o s.local, f = <<SRS0, h>> \o signed
  PROVE  IsSRS0(f, S \cup {SRS0, t, h}, s, t, h, signed)
<1> DEFINE T == S \cup {SRS0, t, h}
           d == s.domain[1]
           l == s.local
           v == <<t, d>> \o l
<1>0. l \in Seq(S) /\ Len(l) \in Nat /\ Len(l) > 0 /\ s.domain = <<d>> /\ d \in S
  BY AddressParts
<1>1. l \in Seq(T) /\ t \in T /\ d \in T /\ SRS0 \in T /\ h \in T
  <2>1. S \subseteq T
    OBVIOUS
  <2>2. \A i \in 1..Len(l) : l[i] \in T
    BY <1>0, <2>1
  <2>3. l \in Seq(T)
    <3> HIDE DEF T, l
    <3> QED
      BY <1>0, <2>1, SeqMonotonic
  <2> QED
    BY <1>0, <2>3
<1> HIDE DEF T, d, l
<1>2. Behind(v, T, t, d, l)
  BY <1>0, <1>1, Prefixed
<1>3. signed = v
  <2>1. signed = <<t>> \o <<d>> \o l
    BY <1>0 DEF l
  <2>2. <<t>> \o <<d>> = <<t, d>>
    BY Pair
  <2> QED
    BY <2>1, <2>2
<1> HIDE DEF v
<1>4. f = <<SRS0, h>> \o v
  BY <1>3
<1>5. v \in Seq(T) /\ Len(v) > 0
  BY <1>0, <1>2 DEF Behind
<1>6. Behind(f, T, SRS0, h, v)
  BY <1>1, <1>4, <1>5, Prefixed
<1>7. Len(f) = Len(l) + 4 /\ f[3] = t /\ f[4] = d /\ Rest(f, 5) = l
  <2>1. Within(f, t, d, l)
    BY <1>0, <1>2, <1>6, BehindFour, Zenon
  <2> QED
    BY <2>1 DEF Within
<1>8. f \in Seq(T) /\ f[1] = SRS0 /\ f[2] = h /\ Rest(f, 3) = v
  BY <1>6 DEF Behind
<1>9. Len(f) >= 5 /\ Len(f) > 1
  BY <1>0, <1>7
<1>10. HasTag(SRS0, f)
  BY <1>8, <1>9 DEF HasTag
<1> QED
  BY <1>0, <1>3, <1>7, <1>8, <1>9, <1>10 DEF T, l, IsSRS0

LEMMA TagsDiffer == SRS0 # SRS1
BY DEF SRS0, SRS1

LEMMA WholeText ==
  ASSUME NEW S, NEW text \in Seq(S)
  PROVE  Rest(text, 1) = text
BY SubSeqFull DEF Rest

(* The first round of Reverse decides an SRS0 address.                     *)
LEMMA ReverseOfSRS0 ==
  ASSUME NEW S, NEW a, a.local \in Seq(S), HasTag(SRS0, a.local), NEW secret, NEW day
  PROVE  Reverse(secret, a, day) = reverseSRS0(secret, a.local, day)
<1>1. PICK g : IsBack(g, secret, a.local, day, 1) /\ Reverse(secret, a, day) = g[1]
  BY ReverseRounds
<1>2. 1 \in 1..(Len(a.local) + 1)
  OBVIOUS
<1>3. g[1] = ReverseLocal(secret, a.local, day, g[1 + 3])
  BY <1>1, <1>2, WholeText DEF BackStep, IsBack
<1>4. ReverseLocal(secret, a.local, day, g[1 + 3]) = reverseSRS0(secret, a.local, day)
  BY TagsDiffer DEF ReverseLocal, HasTag
<1> QED
  BY <1>1, <1>3, <1>4

(* Reverse takes one SRS1 layer off an SRS0 address if the hash of the     *)
(* layer is right.                                                         *)
LEMMA ReverseOfSRS1 ==
  ASSUME NEW S, NEW a, a.local \in Seq(S), HasTag(SRS1, a.local), Len(a.local) >= 5,
         HasTag(SRS0, Rest(a.local, 4)), NEW secret, NEW day
  PROVE  Reverse(secret, a, day) =
           IF a.local[2] = generateHash(secret, Append(Rest(a.local, 3), Empty))
             THEN reverseSRS0(secret, Rest(a.local, 4), day)
             ELSE NoAddress
<1> DEFINE f == a.local
<1>1. PICK g : IsBack(g, secret, a.local, day, 1) /\ Reverse(secret, a, day) = g[1]
  BY ReverseRounds
<1>2. f \in Seq(S) /\ Len(f) \in Nat /\ Len(f) >= 5 /\ HasTag(SRS1, f) /\ HasTag(SRS0, Rest(f, 4))
  OBVIOUS
<1>3. IsBack(g, secret, f, day, 1)
  BY <1>1
<1> HIDE DEF f
<1>4. g[4] = reverseSRS0(secret, Rest(f, 4), day)
  <2>1. 4 \in 1..(Len(f) + 1)
    BY <1>2
  <2>2. g[4] = ReverseLocal(secret, Rest(f, 4), day, g[4 + 3])
    BY <1>3, <2>1 DEF BackStep, IsBack
  <2>3. ReverseLocal(secret, Rest(f, 4), day, g[4 + 3]) = reverseSRS0(secret, Rest(f, 4), day)
    BY <1>2, TagsDiffer DEF ReverseLocal, HasTag
  <2> QED
    BY <2>2, <2>3
<1>5. g[1] = IF f[2] = generateHash(secret, Append(Rest(f, 3), Empty)) THEN g[4] ELSE NoAddress
  <2>1. 1 \in 1..(Len(f) + 1) /\ 1 + 3 = 4
    BY <1>2
  <2>2. g[1] = ReverseLocal(secret, f, day, g[1 + 3])
    BY <1>2, <1>3, <2>1, WholeText DEF BackStep, IsBack
  <2>3. ReverseLocal(secret, f, day, g[4]) = reverseSRS1(secret, f, g[4])
    BY <1>2, TagsDiffer DEF ReverseLocal, HasTag
  <2>4. reverseSRS1(secret, f, g[4]) =
          IF f[2] = generateHash(secret, Append(Rest(f, 3), Empty)) THEN g[4] ELSE NoAddress
    BY <1>2 DEF reverseSRS1
  <2> QED
    BY <2>1, <2>2, <2>3, <2>4
<1> QED
  BY <1>1, <1>4, <1>5 DEF f

(* A local part x-and-inner in an SRS1 layer.                              *)
IsSRS1(f, T, h, x, inner) ==
  /\ f \in Seq(T) /\ Len(f) >= 5 /\ HasTag(SRS1, f) /\ f[2] = h
  /\ Rest(f, 3) = <<x>> \o inner /\ Rest(f, 4) = inner

(* The local part forwardSRS1 makes.                                       *)
LEMMA SRS1Parts ==
  ASSUME NEW S, NEW h, NEW x, NEW inner \in Seq(S), HasTag(SRS0, inner)
  PROVE  IsSRS1(<<SRS1, h>> \o (<<x>> \o inner), S \cup {SRS1, h, x}, h, x, inner)
<1> DEFINE T == S \cup {SRS1, h, x}
           u == <<x>>
           v == u \o inner
           f == <<SRS1, h>> \o v
<1>1. inner \in Seq(T) /\ x \in T /\ SRS1 \in T /\ h \in T
  <2>1. S \subseteq T
    OBVIOUS
  <2>2. inner \in Seq(T)
    <3> HIDE DEF T
    <3> QED
      BY <2>1, SeqMonotonic
  <2> QED
    BY <2>2
<1>2. Len(inner) \in Nat /\ Len(inner) > 1
  BY DEF HasTag
<1>3. u \in Seq(T) /\ Len(u) = 1
  <2> HIDE DEF T
  <2> QED
    BY <1>1
<1> HIDE DEF T, u
<1>4. v \in Seq(T) /\ Len(v) = Len(inner) + 1
  <2>1. u \o inner \in Seq(T) /\ Len(u \o inner) = Len(u) + Len(inner)
    BY <1>1, <1>3, ConcatProperties
  <2> QED
    BY <1>2, <1>3, <2>1
<1>5. Rest(v, 2) = inner
  <2>1. Len(inner) > 0 /\ Len(u) + 1 = 2
    BY <1>2, <1>3
  <2>2. Rest(v, Len(u) + 1) = inner
    BY <1>1, <1>3, <2>1, RestOfConcat, Zenon
  <2> QED
    BY <2>1, <2>2, Zenon
<1> HIDE DEF v
<1>7. /\ f \in Seq(T) /\ Len(f) = Len(v) + 2 /\ f[1] = SRS1 /\ f[2] = h /\ Rest(f, 3) = v
  <2>1. Len(v) > 0
    BY <1>2, <1>4
  <2>2. Behind(f, T, SRS1, h, v)
    BY <1>1, <1>4, <2>1, Prefixed
  <2> HIDE DEF f
  <2> QED
    BY <2>2 DEF Behind
<1> HIDE DEF f
<1>8. Len(f) >= 5 /\ Len(f) \in Nat
  BY <1>2, <1>4, <1>7
<1>9. Rest(f, 4) = inner
  <2>1. 3 \in 1..Len(f) /\ 2 \in 1..(Len(f) + 1 - 3) /\ 4 = 3 + 2 - 1 /\ 4 \in Nat
    BY <1>8
  <2>2. Rest(Rest(f, 3), 2) = Rest(f, 4)
    <3>1. f \in Seq(T)
      BY <1>7
    <3> QED
      BY <2>1, <3>1, RestOfRest, Zenon
  <2> QED
    BY <1>5, <1>7, <2>2
<1>10. HasTag(SRS1, f)
  BY <1>7, <1>8 DEF HasTag
<1>11. Rest(f, 3) = <<x>> \o inner
  BY <1>7 DEF v, u
<1>12. IsSRS1(f, T, h, x, inner)
  BY <1>7, <1>8, <1>9, <1>10, <1>11 DEF IsSRS1
<1> QED
  BY <1>12 DEF f, v, u, T

-----------------------------------------------------------------------------
(* Senders that have not been rewritten: any local part without a tag.     *)
Originals(S) == {s \in Addresses(S) : ~HasTag(SRS0, s.local) /\ ~HasTag(SRS1, s.local)}

LEMMA HashInjective ==
  ASSUME NEW j, NEW k, NEW text
  PROVE  generateHash(j, text) = generateHash(k, text) <=> j = k
BY DEF generateHash

LEMMA DomainIsOnePart ==
  ASSUME NEW counter \in Nat
  PROVE  selectDomain(counter) = <<selectDomain(counter)[1]>>
<1> DEFINE n == Len(SRSDomains)
           i == 1 + (counter % n)
<1>1. n \in Nat \ {0}
  BY SRSAssumption
<1> HIDE DEF n
<1>2. i \in 1..n
  BY <1>1
<1> HIDE DEF i
<1>3. SRSDomains[i] = <<SRSDomains[i][1]>>
  BY <1>2, SRSAssumption DEF n
<1> QED
  BY <1>3, Zenon DEF selectDomain, i, n

(* Address a carries s, signed with k on a day, and reverseSRS0 gives it   *)
(* back d days later to who has the secret.                                *)
Carries(a, s, j, k, day, d) ==
  /\ \E T : a.local \in Seq(T)
  /\ HasTag(SRS0, a.local)
  /\ a.domain = <<a.domain[1]>>
  /\ reverseSRS0(j, a.local, day + d) = IF j = k /\ d <= MaxAge THEN s ELSE NoAddress

(* What reverseSRS0 makes of the result of forwardSRS0.                    *)
LEMMA SRS0RoundTrip ==
  ASSUME NEW S, NEW s \in Addresses(S), NEW j, NEW k, NEW day \in Nat, NEW d \in DayCodes,
         NEW counter \in Nat, NEW a, a = forwardSRS0(k, s, day, counter)
  PROVE  Carries(a, s, j, k, day, d)
<1> DEFINE t == generateTimestamp(day)
           signed == <<t>> \o s.domain \o s.local
           h == generateHash(k, signed)
           f == <<SRS0, h>> \o signed
<1>1. a = [local |-> f, domain |-> selectDomain(counter)]
  BY Zenon DEF forwardSRS0
<1>2. a.local = f /\ a.domain = selectDomain(counter)
  <2> HIDE DEF f
  <2> QED
    BY <1>1
<1>3. validateTimestamp(t, day + d) <=> d <= MaxAge
  BY Age
<1>4. h = generateHash(j, signed) <=> j = k
  <2> HIDE DEF signed
  <2> QED
    BY HashInjective
<1> HIDE DEF t
<1>5. signed = <<t>> \o s.domain \o s.local /\ f = <<SRS0, h>> \o signed
  OBVIOUS
<1> HIDE DEF h, f, signed
<1>6. IsSRS0(f, S \cup {SRS0, t, h}, s, t, h, signed)
  BY <1>5, SRS0Parts, Zenon
<1>7. reverseSRS0(j, f, day + d) =
        IF j = k /\ d <= MaxAge THEN [local |-> s.local, domain |-> s.domain] ELSE NoAddress
  BY <1>3, <1>4, <1>6 DEF reverseSRS0, IsSRS0
<1>8. s = [local |-> s.local, domain |-> s.domain]
  BY AddressParts
<1>9. a.domain = <<a.domain[1]>>
  BY <1>2, DomainIsOnePart
<1> QED
  BY <1>2, <1>6, <1>7, <1>8, <1>9 DEF IsSRS0, Carries

LEMMA ForwardOriginal ==
  ASSUME NEW S, NEW s \in Originals(S), NEW k, NEW day, NEW counter
  PROVE  Forward(k, s, day, counter) = forwardSRS0(k, s, day, counter)
<1>1. s \in Addresses(S) /\ ~HasTag(SRS0, s.local) /\ ~HasTag(SRS1, s.local)
  BY DEF Originals
<1>2. s # NoAddress
  BY <1>1, AddressParts
<1> QED
  BY <1>1, <1>2 DEF Forward

(* A sender that was rewritten once is found back from an address with our *)
(* hash, for MaxAge days and not in the rest of the cycle; with another    *)
(* secret nothing is found (Forward and Reverse in srs.go).                *)
THEOREM ReverseForward ==
  ASSUME NEW S, NEW s \in Originals(S), NEW j, NEW k,
         NEW day \in Nat, NEW d \in 0..(Cycle - 1), NEW counter \in Nat
  PROVE  Reverse(j, Forward(k, s, day, counter), day + d) =
           IF j = k /\ d <= MaxAge THEN s ELSE NoAddress
<1>1. s \in Addresses(S) /\ d \in DayCodes
  BY DEF Originals, DayCodes, Cycle
<1> DEFINE a == forwardSRS0(k, s, day, counter)
<1>2. Forward(k, s, day, counter) = a
  BY ForwardOriginal
<1>3. a = forwardSRS0(k, s, day, counter)
  OBVIOUS
<1> HIDE DEF a
<1>4. /\ \E T : a.local \in Seq(T)
      /\ HasTag(SRS0, a.local)
      /\ reverseSRS0(j, a.local, day + d) = IF j = k /\ d <= MaxAge THEN s ELSE NoAddress
  <2>1. Carries(a, s, j, k, day, d)
    BY <1>1, <1>3, SRS0RoundTrip, Zenon
  <2> QED
    BY <2>1 DEF Carries
<1>5. Reverse(j, a, day + d) = reverseSRS0(j, a.local, day + d)
  BY <1>4, ReverseOfSRS0
<1> QED
  BY <1>2, <1>4, <1>5

(* What a second and a third forwarder and Reverse make of the address.    *)
CarriesTwice(twice, s, i, j, k, day, d) ==
  /\ Reverse(j, twice, day + d) = IF i = j /\ j = k /\ d <= MaxAge THEN s ELSE NoAddress
  /\ \A m, day3, counter3 : Forward(m, twice, day3, counter3) = twice

LEMMA ForwardedTwice ==
  ASSUME NEW S, NEW s \in Originals(S), NEW i, NEW j, NEW k,
         NEW day \in Nat, NEW d \in 0..(Cycle - 1), NEW counter \in Nat,
         NEW day2, NEW counter2, NEW twice,
         twice = Forward(i, Forward(k, s, day, counter), day2, counter2)
  PROVE  CarriesTwice(twice, s, i, j, k, day, d)
<1>1. s \in Addresses(S) /\ d \in DayCodes
  BY DEF Originals, DayCodes, Cycle
<1> DEFINE a == forwardSRS0(k, s, day, counter)
           b == forwardSRS1(i, a)
<1>2. Forward(k, s, day, counter) = a
  BY ForwardOriginal
<1>3. a = forwardSRS0(k, s, day, counter)
  OBVIOUS
<1> HIDE DEF a
<1>4. /\ \E T : a.local \in Seq(T)
      /\ HasTag(SRS0, a.local)
      /\ a.domain = <<a.domain[1]>>
      /\ reverseSRS0(j, a.local, day + d) = IF j = k /\ d <= MaxAge THEN s ELSE NoAddress
  <2>1. Carries(a, s, j, k, day, d)
    BY <1>1, <1>3, SRS0RoundTrip, Zenon
  <2> QED
    BY <2>1 DEF Carries
<1>5. twice = b
  <2>1. a # NoAddress
    BY <1>4 DEF NoAddress, HasTag
  <2>2. Forward(i, a, day2, counter2) = b
    BY <1>4, <2>1, TagsDiffer DEF Forward, HasTag
  <2> QED
    BY <1>2, <2>2
<1>6. PICK T : a.local \in Seq(T)
  BY <1>4
<1> DEFINE x == a.domain[1]
           inner == a.local
           wrapped == <<x>> \o inner
           h == generateHash(i, Append(wrapped, Empty))
           f == <<SRS1, h>> \o wrapped
<1>7. b.local = f
  <2>1. b = [local |-> <<SRS1, generateHash(i, Append(a.domain \o a.local, Empty))>> \o (a.domain \o a.local),
             domain |-> SRSDomains[1]]
    BY Zenon DEF forwardSRS1
  <2>2. a.domain \o a.local = wrapped
    BY <1>4
  <2>3. b = [local |-> f, domain |-> SRSDomains[1]]
    BY <2>1, <2>2, Zenon
  <2> HIDE DEF f
  <2> QED
    BY <2>3
<1>8. h = generateHash(j, Append(wrapped, Empty)) <=> i = j
  <2> HIDE DEF wrapped
  <2> QED
    BY HashInjective
<1>9. wrapped = <<x>> \o inner /\ f = <<SRS1, h>> \o wrapped /\ inner \in Seq(T) /\ HasTag(SRS0, inner)
  BY <1>4, <1>6
<1> HIDE DEF h, x, f, wrapped, b
<1>10. IsSRS1(f, T \cup {SRS1, h, x}, h, x, inner)
  <2> HIDE DEF inner
  <2> QED
    BY <1>9, SRS1Parts
<1>11. Reverse(j, twice, day + d) = IF i = j THEN reverseSRS0(j, a.local, day + d) ELSE NoAddress
  <2>1. /\ f \in Seq(T \cup {SRS1, h, x}) /\ Len(f) >= 5 /\ HasTag(SRS1, f) /\ f[2] = h
        /\ Rest(f, 3) = wrapped /\ Rest(f, 4) = inner /\ HasTag(SRS0, Rest(f, 4))
    <3> HIDE DEF inner
    <3> QED
      BY <1>9, <1>10 DEF IsSRS1
  <2>2. twice.local = f
    BY <1>5, <1>7
  <2>3. Reverse(j, twice, day + d) =
           IF f[2] = generateHash(j, Append(Rest(f, 3), Empty))
             THEN reverseSRS0(j, Rest(f, 4), day + d)
             ELSE NoAddress
    BY <2>1, <2>2, ReverseOfSRS1
  <2> QED
    BY <1>8, <2>1, <2>3
<1>12. ASSUME NEW m, NEW day3, NEW counter3 PROVE Forward(m, twice, day3, counter3) = twice
  <2>1. HasTag(SRS1, twice.local)
    BY <1>5, <1>7, <1>10 DEF IsSRS1
  <2>2. ~HasTag(SRS0, twice.local) /\ twice # NoAddress
    BY <2>1, TagsDiffer DEF HasTag, NoAddress
  <2> QED
    BY <2>1, <2>2 DEF Forward
<1> QED
  BY <1>4, <1>11, <1>12 DEF CarriesTwice

(* The same after a second forwarder put an SRS1 layer around the address, *)
(* on any day: both hashes must be ours, and the age counts from the first *)
(* rewriting (forwardSRS1, reverseSRS1).                                   *)
THEOREM ReverseForwardTwice ==
  ASSUME NEW S, NEW s \in Originals(S), NEW i, NEW j, NEW k,
         NEW day \in Nat, NEW d \in 0..(Cycle - 1), NEW counter \in Nat, NEW day2, NEW counter2
  PROVE  Reverse(j, Forward(i, Forward(k, s, day, counter), day2, counter2), day + d) =
           IF i = j /\ j = k /\ d <= MaxAge THEN s ELSE NoAddress
<1> DEFINE twice == Forward(i, Forward(k, s, day, counter), day2, counter2)
<1>1. twice = Forward(i, Forward(k, s, day, counter), day2, counter2)
  OBVIOUS
<1> HIDE DEF twice
<1>2. Reverse(j, twice, day + d) = IF i = j /\ j = k /\ d <= MaxAge THEN s ELSE NoAddress
  <2>1. CarriesTwice(twice, s, i, j, k, day, d)
    BY <1>1, ForwardedTwice, Zenon
  <2> QED
    BY <2>1 DEF CarriesTwice
<1> QED
  BY <1>2 DEF twice

(* From the second forwarder on, the address stays as it is (Forward).     *)
THEOREM ForwardSettles ==
  ASSUME NEW S, NEW s \in Originals(S), NEW i, NEW j, NEW k, NEW day \in Nat, NEW counter \in Nat,
         NEW day2, NEW counter2, NEW day3, NEW counter3
  PROVE  Forward(j, Forward(i, Forward(k, s, day, counter), day2, counter2), day3, counter3) =
           Forward(i, Forward(k, s, day, counter), day2, counter2)
<1> DEFINE twice == Forward(i, Forward(k, s, day, counter), day2, counter2)
<1>1. twice = Forward(i, Forward(k, s, day, counter), day2, counter2)
  OBVIOUS
<1> HIDE DEF twice
<1>2. 0 \in 0..(Cycle - 1)
  BY DEF Cycle
<1>3. \A m, day4, counter4 : Forward(m, twice, day4, counter4) = twice
  <2>1. CarriesTwice(twice, s, i, j, k, day, 0)
    BY <1>1, <1>2, ForwardedTwice, Zenon
  <2> QED
    BY <2>1 DEF CarriesTwice
<1> QED
  BY <1>3 DEF twice

-----------------------------------------------------------------------------
(* Part t and r, signed with the secret: what forwardSRS0 makes of r.      *)
SignedFor(secret, t, r) ==
  <<SRS0, generateHash(secret, <<t>> \o r.domain \o r.local)>> \o (<<t>> \o r.domain \o r.local)

(* A local part that ends in a valid signature of r.                       *)
Vouched(secret, text, day, r) ==
  \E p \in 1..Len(text), t \in {text[i] : i \in 1..Len(text)} :
    validateTimestamp(t, day) /\ Rest(text, p) = SignedFor(secret, t, r)

LEMMA FirstTwo ==
  ASSUME NEW S, NEW f \in Seq(S), NEW p \in 1..(Len(f) - 1)
  PROVE  Rest(f, p) = <<f[p], f[p + 1]>> \o Rest(f, p + 2)
<1> DEFINE n == Len(f)
           x == SubSeq(f, p, p + 1)
           y == <<f[p], f[p + 1]>>
<1>1. n \in Nat /\ p \in Int /\ p + 1 \in Int /\ p <= p + 1 /\ f[p] \in S /\ f[p + 1] \in S
  OBVIOUS
<1>2. /\ x \in Seq(S) /\ Len(x) = 2 /\ x[1] = f[p] /\ x[2] = f[p + 1]
  <2>1. PICK k \in Int : k = p + 1
    BY <1>1
  <2>2. \A i \in p..k : f[i] \in S
    BY <2>1
  <2>3. /\ SubSeq(f, p, k) \in Seq(S)
        /\ Len(SubSeq(f, p, k)) = IF p <= k THEN k - p + 1 ELSE 0
        /\ \A i \in 1..k - p + 1 : SubSeq(f, p, k)[i] = f[p + i - 1]
    BY <1>1, <2>1, <2>2, SubSeqProperties
  <2>4. PICK z : z = SubSeq(f, p, k)
    OBVIOUS
  <2>5. /\ z \in Seq(S) /\ Len(z) = IF p <= k THEN k - p + 1 ELSE 0
        /\ \A i \in 1..k - p + 1 : z[i] = f[p + i - 1]
    BY <2>3, <2>4, Zenon
  <2>6. Len(z) = 2 /\ z[1] = f[p + 1 - 1] /\ z[2] = f[p + 2 - 1]
    BY <1>1, <2>1, <2>5
  <2>7. z = x /\ p + 1 - 1 = p /\ p + 2 - 1 = p + 1
    BY <1>1, <2>1, <2>4
  <2> QED
    BY <2>5, <2>6, <2>7, Zenon
<1>3. y \in Seq(S) /\ Len(y) = 2 /\ y[1] = f[p] /\ y[2] = f[p + 1]
  BY <1>1
<1>4. SubSeq(f, p, n) = x \o SubSeq(f, p + 2, n)
  <2>1. PICK k \in Int : k = p + 1
    BY <1>1
  <2>2. p \in 1..n + 1 /\ k \in p - 1..n /\ n \in k..n /\ k + 1 = p + 2
    BY <1>1, <2>1
  <2>3. SubSeq(f, p, k) \o SubSeq(f, k + 1, n) = SubSeq(f, p, n)
    BY <2>2, ConcatAdjacentSubSeq
  <2> QED
    BY <2>1, <2>2, <2>3, Zenon
<1> HIDE DEF x, y
<1>5. x = y
  <2>1. \A i \in 1..Len(x) : x[i] = y[i]
    BY <1>2, <1>3
  <2> QED
    BY <1>2, <1>3, <2>1, SeqEqual
<1> QED
  BY <1>4, <1>5, Zenon DEF Rest, y

LEMMA reverseSRS0Vouched ==
  ASSUME NEW S, NEW local \in Seq(S), local[1] = SRS0, NEW secret, NEW day, NEW r,
         r = reverseSRS0(secret, local, day), r # NoAddress
  PROVE  /\ Len(local) >= 5
         /\ validateTimestamp(local[3], day)
         /\ local = SignedFor(secret, local[3], r)
<1> DEFINE t == local[3]
           v == Rest(local, 3)
           l == Rest(local, 5)
<1>1. Len(local) >= 5 /\ validateTimestamp(t, day) /\ local[2] = generateHash(secret, v)
  BY DEF reverseSRS0
<1>2. r = [local |-> l, domain |-> <<local[4]>>]
  <2>1. reverseSRS0(secret, local, day) = [local |-> l, domain |-> <<local[4]>>]
    BY <1>1 DEF reverseSRS0
  <2> QED
    BY <2>1
<1>3. r.local = l /\ r.domain = <<local[4]>>
  <2> HIDE DEF l
  <2> QED
    BY <1>2
<1>4. v = <<t, local[4]>> \o l
  <2>1. 3 \in 1..(Len(local) - 1) /\ 3 + 1 = 4 /\ 3 + 2 = 5
    BY <1>1
  <2>2. Rest(local, 3) = <<local[3], local[3 + 1]>> \o Rest(local, 3 + 2)
    BY <2>1, FirstTwo, Zenon
  <2> QED
    BY <2>1, <2>2, Zenon
<1>5. v = <<t>> \o r.domain \o r.local
  <2>1. <<t>> \o <<local[4]>> = <<t, local[4]>>
    BY Pair
  <2> HIDE DEF v, l, t
  <2> QED
    BY <1>3, <1>4, <2>1, Zenon
<1>6. local = <<local[1], local[2]>> \o v
  <2>1. 1 \in 1..(Len(local) - 1) /\ 1 + 1 = 2 /\ 1 + 2 = 3
    BY <1>1
  <2>2. Rest(local, 1) = <<local[1], local[1 + 1]>> \o Rest(local, 1 + 2)
    BY <2>1, FirstTwo, Zenon
  <2>3. Rest(local, 1) = local
    BY WholeText
  <2> QED
    BY <2>1, <2>2, <2>3, Zenon
<1> HIDE DEF v
<1>7. local = SignedFor(secret, t, r)
  BY <1>1, <1>5, <1>6, Zenon DEF SignedFor
<1> QED
  BY <1>1, <1>7

(* Reverse never makes an address up: what it returns was signed with our  *)
(* secret, and the signature in the address is still valid (reverseSRS0,   *)
(* reverseSRS1), whatever local part the caller presents.                  *)
THEOREM ReverseVouched ==
  ASSUME NEW S, NEW text \in Seq(S), NEW a, a.local = text, NEW secret, NEW day,
         Reverse(secret, a, day) # NoAddress
  PROVE  Vouched(secret, text, day, Reverse(secret, a, day))
<1>1. PICK g : IsBack(g, secret, text, day, 1) /\ Reverse(secret, a, day) = g[1]
  BY ReverseRounds
<1> DEFINE L == Len(text) + 1
           Ok(q) == g[q] # NoAddress => Vouched(secret, text, day, g[q])
           Good == {p \in 1..L : \A q \in p..L : Ok(q)}
<1>0. Len(text) \in Nat
  OBVIOUS
<1>2. ASSUME NEW p \in 1..L, \A q \in (p + 1)..L : Ok(q) PROVE Ok(p)
  <2> SUFFICES ASSUME g[p] # NoAddress PROVE Vouched(secret, text, day, g[p])
    OBVIOUS
  <2> DEFINE local == Rest(text, p)
  <2>1. g[p] = ReverseLocal(secret, local, day, g[p + 3])
    BY <1>1 DEF IsBack, BackStep
  <2>2. /\ local \in Seq(S) /\ Len(local) = L - p
        /\ \A i \in 1..(Len(text) + 1 - p) : local[i] = text[p + i - 1]
    BY RestType
  <2> HIDE DEF local
  <2>3. CASE HasTag(SRS0, local)
    <3>1. g[p] = reverseSRS0(secret, local, day) /\ local[1] = SRS0
      BY <2>1, <2>3, TagsDiffer DEF ReverseLocal, HasTag
    <3>2. /\ Len(local) >= 5 /\ validateTimestamp(local[3], day)
          /\ local = SignedFor(secret, local[3], g[p])
      BY <2>2, <3>1, reverseSRS0Vouched
    <3>3. 3 \in 1..(Len(text) + 1 - p) /\ p + 3 - 1 \in 1..Len(text) /\ p \in 1..Len(text)
      BY <1>0, <2>2, <3>2
    <3>4. local[3] \in {text[i] : i \in 1..Len(text)}
      <4>1. local[3] = text[p + 3 - 1]
        BY <2>2, <3>3
      <4> QED
        BY <3>3, <4>1
    <3> QED
      BY <3>2, <3>3, <3>4, Zenon DEF Vouched, local
  <2>4. CASE ~HasTag(SRS0, local)
    <3>1. HasTag(SRS1, local)
      BY <2>1, <2>4 DEF ReverseLocal
    <3>2. g[p] = reverseSRS1(secret, local, g[p + 3])
      BY <2>1, <2>4, <3>1 DEF ReverseLocal
    <3>3. Len(local) >= 4 /\ g[p] = g[p + 3]
      BY <3>2 DEF reverseSRS1
    <3>4. p + 3 \in (p + 1)..L
      BY <1>0, <2>2, <3>3
    <3>5. Ok(p + 3)
      BY <1>2, <3>4
    <3> QED
      BY <3>3, <3>5
  <2> QED
    BY <2>3, <2>4
<1>3. L \in Good
  <2>1. L \in 1..L /\ \A q \in L..L : q = L
    BY <1>0
  <2>2. \A q \in (L + 1)..L : Ok(q)
    <3>1. (L + 1)..L = {}
      BY <1>0
    <3> QED
      BY <3>1
  <2>3. Ok(L)
    BY <1>2, <2>1, <2>2
  <2> HIDE DEF Ok
  <2> QED
    BY <2>1, <2>3
<1>4. ASSUME NEW p \in 1..Len(text), p + 1 \in Good PROVE p \in Good
  <2> HIDE DEF Ok
  <2>1. p \in 1..L /\ \A q \in p..L : q = p \/ q \in (p + 1)..L
    BY <1>0
  <2>2. \A q \in (p + 1)..L : Ok(q)
    BY <1>4
  <2>3. Ok(p)
    BY <1>2, <2>1, <2>2
  <2> QED
    BY <2>1, <2>2, <2>3
<1>5. \A p \in 1..(Len(text) + 1) : p \in Good
  <2> HIDE DEF Good
  <2> QED
    BY <1>0, <1>3, <1>4, DownTo
<1>6. Ok(1)
  <2>1. 1 \in 1..L
    BY <1>0
  <2>2. 1 \in Good /\ 1 \in 1..L
    BY <1>5, <2>1
  <2> HIDE DEF Ok
  <2> QED
    BY <2>2
<1> QED
  BY <1>1, <1>6

-----------------------------------------------------------------------------
Parts == Words \cup {SRS0, SRS1}

LEMMA WordsAreNoTags ==
  ASSUME NEW w \in Words
  PROVE  w # SRS0 /\ w # SRS1
BY DEF Words, SRS0, SRS1

LEMMA SendersAreOriginal ==
  ASSUME NEW s \in Senders
  PROVE  s \in Originals(Parts)
<1>1. s \in [local : {<<w>> : w \in Words} \cup (Words \X Words) \cup {<<SRS0>>, <<SRS1>>},
             domain : {<<w>> : w \in Words}]
  BY DEF Senders
<1>2. s = [local |-> s.local, domain |-> s.domain]
  BY <1>1
<1>3. s.domain \in {<<p>> : p \in Parts}
  BY <1>1 DEF Parts
<1>4. /\ s.local \in Seq(Parts) \ {<<>>}
      /\ ~HasTag(SRS0, s.local) /\ ~HasTag(SRS1, s.local)
  <2>1. CASE s.local \in {<<w>> : w \in Words} \cup {<<SRS0>>, <<SRS1>>}
    <3>1. PICK w \in Parts : s.local = <<w>>
      BY <2>1 DEF Parts
    <3>2. s.local \in Seq(Parts) /\ Len(s.local) = 1 /\ s.local # <<>>
      BY <3>1
    <3> QED
      BY <3>2 DEF HasTag
  <2>2. CASE s.local \in Words \X Words
    <3>1. PICK w \in Words, x \in Words : s.local = <<w, x>>
      BY <2>2
    <3>2. w # SRS0 /\ w # SRS1
      BY <3>1, WordsAreNoTags
    <3>3. w \in Parts /\ x \in Parts
      BY <3>1 DEF Parts
    <3>4. s.local \in Seq(Parts) /\ s.local[1] = w /\ s.local # <<>>
      BY <3>1, <3>3
    <3> QED
      BY <3>2, <3>4 DEF HasTag
  <2> QED
    BY <1>1, <2>1, <2>2
<1>5. s \in Addresses(Parts)
  BY <1>2, <1>3, <1>4 DEF Addresses
<1> QED
  BY <1>4, <1>5 DEF Originals

(* Whatever the settings, the message leaves with its own sender or with   *)
(* the rewritten one, and for some settings it is rewritten.               *)
LEMMA MailSenders ==
  ASSUME NEW s \in Senders, NEW i \in Nat, NEW c \in Nat
  PROVE  Mail(s, i, c) \ {s} = {Forward("ours", s, i, c)}
<1> DEFINE F == Forward("ours", s, i, c)
           One == {t \in Senders : Len(t.local) = 1}
<1>1. HasTag(SRS0, F.local) /\ ~HasTag(SRS0, s.local)
  <2>1. s \in Originals(Parts) /\ s \in Addresses(Parts) /\ ~HasTag(SRS0, s.local)
    BY SendersAreOriginal DEF Originals
  <2>2. F = forwardSRS0("ours", s, i, c)
    BY <2>1, ForwardOriginal
  <2>3. 0 \in DayCodes
    BY DEF DayCodes
  <2> HIDE DEF F
  <2>4. Carries(F, s, "ours", "ours", i, 0)
    BY <2>1, <2>2, <2>3, SRS0RoundTrip, Zenon
  <2> QED
    BY <2>1, <2>4 DEF Carries
<1>2. F # s /\ F # NoAddress
  <2> HIDE DEF F
  <2> QED
    BY <1>1 DEF NoAddress, HasTag
<1>3. \A skip, auto, to, dkim :
        MailFrom("ours", skip, auto, s, to, dkim, i, c) =
          IF auto \/ ShouldSkip(skip, s, to, dkim) THEN s ELSE F
  BY <1>2 DEF MailFrom
<1>4. F \in Mail(s, i, c)
  <2> DEFINE none == [domains |-> {}, ifDKIMPass |-> FALSE, ifSameDomain |-> FALSE]
  <2>1. PICK w \in Words : s.domain = <<w>>
    BY DEF Senders
  <2> DEFINE to == [local |-> <<w>>, domain |-> <<w>>]
  <2>2. to \in Senders
    BY <2>1 DEF Senders
  <2>3. Len(to.local) = 1
    OBVIOUS
  <2>4. none \in Settings
    BY DEF Settings
  <2>5. ~ShouldSkip(none, s, to, "none")
    BY DEF ShouldSkip
  <2> HIDE DEF none, to
  <2>6. MailFrom("ours", none, FALSE, s, to, "none", i, c) = F
    BY <1>3, <2>5
  <2>7. to \in One /\ FALSE \in BOOLEAN /\ "none" \in {"pass", "none"}
    BY <2>2, <2>3
  <2> HIDE DEF F, One
  <2>8. \E skip \in Settings, auto \in BOOLEAN, t \in One, dkim \in {"pass", "none"} :
          F = MailFrom("ours", skip, auto, s, t, dkim, i, c)
    BY <2>4, <2>6, <2>7, Zenon
  <2> QED
    BY <2>8 DEF Mail, One
<1>5. \A m \in Mail(s, i, c) : m = s \/ m = F
  <2> SUFFICES ASSUME NEW m \in Mail(s, i, c) PROVE m = s \/ m = F
    OBVIOUS
  <2>1. PICK skip \in Settings, auto \in BOOLEAN, t \in One, dkim \in {"pass", "none"} :
          m = MailFrom("ours", skip, auto, s, t, dkim, i, c)
    BY DEF Mail
  <2> HIDE DEF F
  <2> QED
    BY <1>3, <2>1
<1> HIDE DEF F
<1> QED
  BY <1>2, <1>4, <1>5 DEF F

LEMMA FindsBackAlways ==
  ASSUME NEW s \in Senders, NEW i \in Nat, NEW d \in 0..(Cycle - 1), NEW c \in Nat
  PROVE  FindsBack(s, i, d, c)
<1> DEFINE once == Forward("ours", s, i, c)
           twice == Forward("ours", once, i + 1, c)
           thrice == Forward("ours", twice, i + 2, c)
           expected == IF d <= MaxAge THEN s ELSE NoAddress
<1>1. s \in Originals(Parts)
  BY SendersAreOriginal
<1>2. Mail(s, i, c) \ {s} = {once}
  BY MailSenders
<1>3. Reverse("ours", once, i + d) = expected /\ Reverse("theirs", once, i + d) = NoAddress
  <2>1. \A j : Reverse(j, once, i + d) = IF j = "ours" /\ d <= MaxAge THEN s ELSE NoAddress
    BY <1>1, ReverseForward
  <2> HIDE DEF once
  <2> QED
    BY <2>1
<1>4. /\ thrice = twice
      /\ Reverse("ours", twice, i + d) = expected /\ Reverse("theirs", twice, i + d) = NoAddress
  <2>1. \A j : Reverse(j, twice, i + d) = IF "ours" = j /\ j = "ours" /\ d <= MaxAge THEN s ELSE NoAddress
    BY <1>1, ReverseForwardTwice
  <2>2. thrice = twice
    BY <1>1, ForwardSettles
  <2> HIDE DEF twice, thrice
  <2> QED
    BY <2>1, <2>2
<1> QED
  BY <1>2, <1>3, <1>4 DEF FindsBack

LEMMA NoneAstray ==
  ASSUME MaxAge + 1 < Cycle
  PROVE  Astray = {}
<1>1. IssueDays \subseteq Nat
  BY DEF IssueDays
<1>2. Delays \subseteq 0..(Cycle - 1)
  BY SRSAssumption DEF Delays, Cycle
<1>3. SUFFICES ASSUME NEW x \in [day : IssueDays, delay : Delays], NEW s \in Senders, NEW c \in 0..1
               PROVE  FindsBack(s, x.day, x.delay, c)
  BY DEF Astray
<1>4. x.day \in Nat /\ x.delay \in 0..(Cycle - 1) /\ c \in Nat
  <2>1. x.day \in IssueDays /\ x.delay \in Delays
    OBVIOUS
  <2>2. c \in Nat
    OBVIOUS
  <2> QED
    BY <1>1, <1>2, <2>1, <2>2, Zenon
<1> QED
  BY <1>4, FindsBackAlways

(* Once a copy was sent over SMTP, its bounces find their way back: with   *)
(* any domains and words, if maxAge is shorter than a cycle of timestamps  *)
(* (deliverPayload's use of Forward, and Reverse).                         *)
THEOREM BouncesAlwaysReturn ==
  ASSUME MaxAge + 1 < Cycle
  PROVE  Spec => []BouncesReturn
<1>1. BouncesReturn
  BY NoneAstray DEF BouncesReturn
<1> QED
  BY <1>1, PTL
=============================================================================
