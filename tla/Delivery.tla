------------------------------ MODULE Delivery ------------------------------
(***************************************************************************)
(* One call of Deliverer.DeliverMessage: the choice of the destination,    *)
(* the loops over MX hosts, IP versions and source IPs, the attempt on a   *)
(* pooled and on a fresh connection, the SMTP or LMTP transaction and the  *)
(* mapping of its outcome to the status the caller sees.                   *)
(*                                                                         *)
(* Three parties take steps: the goroutine that runs DeliverMessage, the   *)
(* request's context with the close hook armed on it, and the remote       *)
(* servers, which decide about a complete message when they like.          *)
(*                                                                         *)
(* A server reply is one of the classes "ok" (the code the client expects  *)
(* at that point), "other2xx", "4xx", "5xx" and "other" (an unexpected 1xx *)
(* or 3xx); "lost" stands for a read or write that failed.                 *)
(***************************************************************************)
EXTENDS Naturals, Sequences

CONSTANTS
    Configs,        \* the configurations and transports a call may run under
    MaxMX,          \* most MX hosts a domain publishes
    MaxSources,     \* most source IPs per version
    CmdReplies,     \* per protocol, the replies servers give to MAIL, RCPT and DATA
    FinalReplies    \* per protocol, the replies servers give to the complete message

Accepting == {"ok", "other2xx"}

Protocols == {"smtp", "lmtp"}

ReplyClasses == {"ok", "other2xx", "4xx", "5xx", "other"}

(***************************************************************************)
(* A configuration: the protocol in effect, whether a fixed destination is *)
(* set, the IP mode and preference, how many source IPs of each version    *)
(* the rotator holds, and whether connections are pooled.                  *)
(***************************************************************************)
ConfigType == [protocol : Protocols, fixed : BOOLEAN, ipMode : {"dual", "ipv4", "ipv6"},
               preferIPv6 : BOOLEAN, n4 : 0..MaxSources, n6 : 0..MaxSources, pool : BOOLEAN]

ASSUME ConstantsAssumption ==
    /\ MaxMX \in Nat \ {0}
    /\ MaxSources \in Nat \ {0}
    /\ Configs \subseteq ConfigType
    /\ CmdReplies \in [Protocols -> SUBSET ReplyClasses]
    /\ FinalReplies \in [Protocols -> SUBSET {"ok", "other2xx", "4xx", "5xx"}]

VARIABLES
    conf,         \* the configuration snapshot the call works with
    pc,           \* where the delivering goroutine is
    mxLeft,       \* MX hosts not tried yet
    addrs,        \* IP versions the current MX host has addresses for
    passes,       \* passes left over the current MX: "v4", "v6" or "system"
    bound,        \* is the attempt bound to a source IP of the pool?
    srcLeft,      \* source IPs left in the current pass
    conn,         \* the connection: "none", "open", "closed", "pooled", or "left"
                  \* open by a QUIT that failed
    reused,       \* did it come from the pool?
    hook,         \* context.AfterFunc: "none", "armed", "running", "stopped"
    ctxDone,      \* has the request's context ended?
    result,       \* status of the attempt that just ended
    lastResult,   \* lastResult of DeliverMessage; "empty" is the zero value
    status,       \* what the call returned, "none" before
    txs           \* complete copies handed to servers, as in DeliverySpec

loopVars == <<mxLeft, addrs, passes, bound, srcLeft>>
connVars == <<conn, reused, hook>>
vars == <<conf, pc, loopVars, connVars, ctxDone, result, lastResult, status, txs>>

Statuses == {"delivered", "hard_bounce", "temp_fail", "timeout", "unknown", "error", "rate_limit", "empty"}

TypeOK ==
    /\ conf \in Configs
    /\ pc \in {"start", "limit", "sign", "dest", "mx", "pass", "source", "attempt", "dial", "txn",
               "mail", "rcpt", "data", "body", "dot", "final", "reset", "handback", "dirty", "quit",
               "result", "done"}
    /\ mxLeft \in 0..MaxMX
    /\ addrs \subseteq {"v4", "v6"}
    /\ passes \in Seq({"v4", "v6", "system"})
    /\ bound \in BOOLEAN
    /\ srcLeft \in 0..MaxSources
    /\ conn \in {"none", "open", "closed", "pooled", "left"}
    /\ reused \in BOOLEAN
    /\ hook \in {"none", "armed", "running", "stopped"}
    /\ ctxDone \in BOOLEAN
    /\ result \in Statuses
    /\ lastResult \in Statuses
    /\ status \in {"none"} \cup Statuses
    /\ txs \in Seq({"inflight"} \cup FinalReplies[conf.protocol])

Init ==
    /\ conf \in Configs
    /\ pc = "start"
    /\ mxLeft = 0 /\ addrs = {} /\ passes = <<>> /\ bound = FALSE /\ srcLeft = 0
    /\ conn = "none" /\ reused = FALSE /\ hook = "none"
    /\ ctxDone = FALSE
    /\ result = "empty" /\ lastResult = "empty" /\ status = "none"
    /\ txs = <<>>

SMTP == conf.protocol = "smtp"

(* Mutant of isFinalResult: an unknown outcome lets the search go on.      *)
isFinalResultWithoutUnknown(s) == s \in {"delivered", "hard_bounce", "temp_fail"}

(* isFinalResult: statuses that end the search for another way to deliver. *)
isFinalResult(s) == s \in {"delivered", "hard_bounce", "temp_fail", "unknown"}

(***************************************************************************)
(* mapSMTPError for a failed SMTP transaction. reply is the code the       *)
(* server gave, or "lost" when the error carries none; indeterminate says  *)
(* that the error came after the end of the message was sent.              *)
(***************************************************************************)
mapSMTPError(reply, indeterminate) ==
    CASE reply = "lost" /\ indeterminate -> "unknown"
      [] reply = "lost" /\ ~indeterminate -> "timeout"
      [] reply \in Accepting -> "error"
      [] reply = "5xx" -> "hard_bounce"
      [] OTHER -> "temp_fail"

(* Mutant of classifyLMTPResult: 4xx and 5xx share the success branch.     *)
classifyLMTPResultLenient(reply) == IF reply = "other" THEN "error" ELSE "delivered"

(* classifyLMTPResult, by reply class.                                     *)
classifyLMTPResult(reply) ==
    CASE reply \in Accepting -> "delivered"
      [] reply = "4xx" -> "temp_fail"
      [] reply = "5xx" -> "hard_bounce"
      [] OTHER -> "error"

-----------------------------------------------------------------------------
(***************************************************************************)
(* The way into DeliverMessage: recipient domain, per-domain rate limit,   *)
(* signing, destination.                                                   *)
(***************************************************************************)
Return(s) ==
    /\ pc' = "done"
    /\ status' = s
    /\ UNCHANGED <<conf, loopVars, connVars, ctxDone, result, lastResult, txs>>

Goto(l) ==
    /\ pc' = l
    /\ UNCHANGED <<conf, loopVars, connVars, ctxDone, result, lastResult, status, txs>>

(* A recipient without a domain bounces at once.                           *)
CheckRecipient ==
    /\ pc = "start"
    /\ Return("hard_bounce") \/ Goto("limit")

(* waitForDomainRateLimit refuses or lets the call through. The "timeout"  *)
(* for any other error of it is left out: it needs a map entry of a wrong  *)
(* type, and only limiters are stored.                                     *)
RateLimit ==
    /\ pc = "limit"
    /\ Return("rate_limit") \/ Goto("sign")

(* DKIM and ARC signing: only an explicit key whose domain cannot be found *)
(* fails the call, every other problem delivers the message unsigned.      *)
Sign ==
    /\ pc = "sign"
    /\ Return("error") \/ Goto("dest")

(* A fixed destination replaces the MX lookup; a malformed one is an error.*)
FixedDestination ==
    /\ pc = "dest" /\ conf.fixed
    /\ \/ Return("error")
       \/ /\ mxLeft' = 1
          /\ pc' = "mx"
          /\ UNCHANGED <<conf, addrs, passes, bound, srcLeft, connVars, ctxDone, result,
                         lastResult, status, txs>>

(* MX lookup: the domain has no MX, the lookup fails, or hosts are found.  *)
LookupMX ==
    /\ pc = "dest" /\ ~conf.fixed
    /\ \/ Return("hard_bounce")
       \/ Return("temp_fail")
       \/ /\ mxLeft' \in 1..MaxMX
          /\ pc' = "mx"
          /\ UNCHANGED <<conf, addrs, passes, bound, srcLeft, connVars, ctxDone, result,
                         lastResult, status, txs>>

-----------------------------------------------------------------------------
(***************************************************************************)
(* The loop over MX hosts and, inside it, over IP versions and source IPs. *)
(***************************************************************************)
tryIPv4 == SMTP /\ conf.ipMode \in {"dual", "ipv4"} /\ conf.n4 > 0
tryIPv6 == SMTP /\ conf.ipMode \in {"dual", "ipv6"} /\ conf.n6 > 0
tryIPv6First == tryIPv6 /\ (conf.ipMode = "ipv6" \/ (conf.ipMode = "dual" /\ conf.preferIPv6))

(* The passes DeliverMessage makes over an MX host with addresses A.       *)
PassesFor(A) ==
    LET six  == IF tryIPv6 /\ "v6" \in A THEN <<"v6">> ELSE <<>>
        four == IF tryIPv4 /\ "v4" \in A THEN <<"v4">> ELSE <<>>
    IN  IF tryIPv6First THEN six \o four
        ELSE IF tryIPv4 THEN four \o six
        ELSE <<"system">>

MXExhausted ==
    /\ pc = "mx" /\ mxLeft = 0
    /\ Return(lastResult)

MXContextEnded ==
    /\ pc = "mx" /\ mxLeft > 0 /\ ctxDone
    /\ Return("timeout")

(* resolveMXHost for the next MX host. An empty set stands for a host that *)
(* resolved to nothing usable.                                             *)
ResolveMX ==
    /\ pc = "mx" /\ mxLeft > 0 /\ ~ctxDone
    /\ mxLeft' = mxLeft - 1
    /\ \/ /\ lastResult' = "temp_fail"
          /\ UNCHANGED <<pc, addrs, passes>>
       \/ \E A \in SUBSET {"v4", "v6"} :
            /\ addrs' = A
            /\ passes' = PassesFor(A)
            /\ pc' = "pass"
            /\ UNCHANGED lastResult
    /\ UNCHANGED <<conf, bound, srcLeft, connVars, ctxDone, result, status, txs>>

PassesDone ==
    /\ pc = "pass" /\ passes = <<>>
    /\ Goto("mx")

(* tryDeliveryWithIPVersion: the healthy source IPs in rotation order, or  *)
(* all of them when every one is degraded, so never none.                  *)
BeginSourcePass ==
    /\ pc = "pass" /\ passes # <<>> /\ Head(passes) # "system"
    /\ srcLeft' \in 1..(IF Head(passes) = "v4" THEN conf.n4 ELSE conf.n6)
    /\ bound' = TRUE
    /\ passes' = Tail(passes)
    /\ pc' = "source"
    /\ UNCHANGED <<conf, mxLeft, addrs, connVars, ctxDone, result, lastResult, status, txs>>

(* The attempt without a source IP, bound by the system.                   *)
BeginSystemPass ==
    /\ pc = "pass" /\ passes # <<>> /\ Head(passes) = "system"
    /\ bound' = FALSE
    /\ passes' = Tail(passes)
    /\ pc' = "attempt"
    /\ UNCHANGED <<conf, mxLeft, addrs, srcLeft, connVars, ctxDone, result, lastResult, status, txs>>

(* The next source IP, unless none is left or the context has ended.       *)
NextSource ==
    /\ pc = "source"
    /\ \/ /\ srcLeft > 0 /\ ~ctxDone
          /\ srcLeft' = srcLeft - 1
          /\ pc' = "attempt"
          /\ UNCHANGED lastResult
       \/ /\ srcLeft > 0 /\ ctxDone
          /\ lastResult' = "timeout"
          /\ pc' = "pass"
          /\ UNCHANGED srcLeft
       \/ /\ srcLeft = 0
          /\ lastResult' = result
          /\ pc' = "pass"
          /\ UNCHANGED srcLeft
    /\ UNCHANGED <<conf, mxLeft, addrs, passes, bound, connVars, ctxDone, result, status, txs>>

-----------------------------------------------------------------------------
(***************************************************************************)
(* attemptDelivery: a pooled connection if there is one, else a fresh one. *)
(***************************************************************************)
Attempt ==
    /\ pc = "attempt"
    /\ \/ /\ SMTP /\ conf.pool
          /\ conn' = "open" /\ reused' = TRUE /\ hook' = "none"
          /\ pc' = "txn"
       \/ /\ conn' = "none" /\ reused' = FALSE /\ hook' = "none"
          /\ pc' = "dial"
    /\ UNCHANGED <<conf, loopVars, ctxDone, result, lastResult, status, txs>>

DialFailed(s) ==
    /\ result' = s
    /\ pc' = "result"
    /\ UNCHANGED <<conf, loopVars, connVars, ctxDone, lastResult, status, txs>>

(* dialAndHello: no address to connect to, a source IP that cannot be      *)
(* bound, a failed dial or handshake, or an established session.           *)
Dial ==
    /\ pc = "dial"
    /\ \/ /\ addrs = {}
          /\ DialFailed("temp_fail") \/ DialFailed("error")
       \/ /\ addrs # {} /\ bound
          /\ DialFailed("error")
       \/ /\ addrs # {}
          /\ DialFailed("timeout")
       \/ /\ addrs # {}
          /\ conn' = "open" /\ reused' = FALSE /\ hook' = "none"
          /\ pc' = "txn"
          /\ UNCHANGED <<conf, loopVars, ctxDone, result, lastResult, status, txs>>

-----------------------------------------------------------------------------
(***************************************************************************)
(* performDeliveryTransaction with deliverPayload, and                     *)
(* performLMTPTransaction. Both arm a hook that closes the connection when *)
(* the context ends; stop() of a hook that has not started disarms it.     *)
(***************************************************************************)
StopHook == hook' = IF hook = "armed" THEN "stopped" ELSE hook

(* Mutant of TxnFailed: the connection is not closed on the error path.    *)
TxnFailedWithoutClose(s) ==
    /\ result' = s
    /\ StopHook
    /\ pc' = "result"
    /\ UNCHANGED <<conf, loopVars, conn, reused, ctxDone, lastResult, status, txs>>

(* The transaction fails with a reply, or without one.                     *)
TxnFailed(s) ==
    /\ result' = s
    /\ conn' = "closed"
    /\ StopHook
    /\ pc' = "result"
    /\ UNCHANGED <<conf, loopVars, reused, ctxDone, lastResult, status, txs>>

(* Mutant of StartTransaction: no hook closes the connection.              *)
StartTransactionWithoutHook ==
    /\ pc = "txn"
    /\ \/ SMTP /\ ctxDone /\ TxnFailed("timeout")
       \/ ~(SMTP /\ ctxDone) /\ Goto("mail")

StartTransaction ==
    /\ pc = "txn"
    /\ \/ /\ SMTP /\ ctxDone
          /\ TxnFailed("timeout")
       \/ /\ ~(SMTP /\ ctxDone)
          /\ hook' = IF ctxDone THEN "running" ELSE "armed"
          /\ pc' = "mail"
          /\ UNCHANGED <<conf, loopVars, conn, reused, ctxDone, result, lastResult, status, txs>>

Commands == {"mail", "rcpt", "data"}

AfterCommand == [mail |-> "rcpt", rcpt |-> "data", data |-> "body"]

(* A command is answered. SMTP checks the context before each command.     *)
CommandReply(r) ==
    /\ pc \in Commands
    /\ conn = "open"
    /\ ~(SMTP /\ ctxDone)
    /\ IF r = "ok" THEN Goto(AfterCommand[pc])
       ELSE TxnFailed(IF SMTP THEN mapSMTPError(r, FALSE) ELSE classifyLMTPResult(r))

(* A command gets no answer: cancelled before it was sent, connection      *)
(* closed or reset, or the command timeout. lmtpStatus tells a timeout     *)
(* from other errors.                                                      *)
CommandLost ==
    /\ pc \in Commands
    /\ IF SMTP THEN TxnFailed(mapSMTPError("lost", FALSE))
       ELSE TxnFailed("timeout") \/ (~ctxDone /\ TxnFailed("error"))

(* The body is written. The SMTP writer sends the final dot on Close, the  *)
(* LMTP writer flushes it with the body.                                   *)
WriteBody ==
    /\ pc = "body" /\ conn = "open"
    /\ \/ SMTP /\ Goto("dot")
       \/ /\ ~SMTP
          /\ txs' = Append(txs, "inflight")
          /\ pc' = "final"
          /\ UNCHANGED <<conf, loopVars, connVars, ctxDone, result, lastResult, status>>

WriteBodyFailed ==
    /\ pc = "body"
    /\ IF SMTP THEN TxnFailed(mapSMTPError("lost", FALSE))
       ELSE TxnFailed("timeout") \/ (~ctxDone /\ TxnFailed("error"))

(* CloseWithResponse flushes the dot: from here on errors are wrapped in   *)
(* indeterminateError.                                                     *)
SendDot ==
    /\ pc = "dot" /\ conn = "open"
    /\ txs' = Append(txs, "inflight")
    /\ pc' = "final"
    /\ UNCHANGED <<conf, loopVars, connVars, ctxDone, result, lastResult, status>>

SendDotFailed ==
    /\ pc = "dot"
    /\ TxnFailed(mapSMTPError("lost", TRUE))

(* The reply to the complete message arrives.                              *)
FinalReply ==
    /\ pc = "final" /\ conn = "open"
    /\ LET r == txs[Len(txs)]
       IN  /\ r # "inflight"
           /\ IF SMTP THEN IF r = "ok" THEN Goto("reset") ELSE TxnFailed(mapSMTPError(r, TRUE))
              ELSE TxnFailed(classifyLMTPResult(r))

(* Mutant of FinalLost: lost after the dot like a lost command.            *)
FinalLostAsCommand ==
    /\ pc = "final"
    /\ TxnFailed("timeout")

(* It does not: submission timeout, connection lost or closed by the hook. *)
FinalLost ==
    /\ pc = "final"
    /\ TxnFailed(IF SMTP THEN mapSMTPError("lost", TRUE) ELSE "unknown")

(* After a delivery: RSET, which the server may refuse or not answer.      *)
Reset ==
    /\ pc = "reset"
    /\ (conn = "open" /\ Goto("handback")) \/ Goto("dirty")

(* Mutant of HandBack: the result of stop() is ignored.                    *)
HandBackAnyway ==
    /\ pc \in {"handback", "dirty"}
    /\ StopHook
    /\ IF pc = "handback" /\ conf.pool
       THEN conn' = "pooled" /\ result' = "delivered" /\ pc' = "result"
       ELSE pc' = "quit" /\ UNCHANGED <<conn, result>>
    /\ UNCHANGED <<conf, loopVars, reused, ctxDone, lastResult, status, txs>>

(* The connection goes back to the pool only if the hook was stopped       *)
(* before it started and RSET succeeded.                                   *)
HandBack ==
    /\ pc \in {"handback", "dirty"}
    /\ StopHook
    /\ IF pc = "handback" /\ hook = "armed" /\ conf.pool
       THEN conn' = "pooled" /\ result' = "delivered" /\ pc' = "result"
       ELSE pc' = "quit" /\ UNCHANGED <<conn, result>>
    /\ UNCHANGED <<conf, loopVars, reused, ctxDone, lastResult, status, txs>>

(* Otherwise client.Quit, which closes the connection only once QUIT was   *)
(* answered; its error is ignored, and no hook is left to close it then.   *)
Quit ==
    /\ pc = "quit"
    /\ conn' \in IF conn = "open" THEN {"closed", "left"} ELSE {conn}
    /\ result' = "delivered"
    /\ pc' = "result"
    /\ UNCHANGED <<conf, loopVars, reused, hook, ctxDone, lastResult, status, txs>>

-----------------------------------------------------------------------------
(***************************************************************************)
(* What the callers make of the attempt's result.                          *)
(***************************************************************************)
(* Mutant of RetryFresh: an unknown outcome is tried again.                *)
RetryFreshAfterUnknown == reused /\ result \notin {"delivered", "hard_bounce", "timeout"}

(* attemptDelivery repeats a transaction that failed on a pooled           *)
(* connection, unless the message may have been delivered.                 *)
RetryFresh == reused /\ result \notin {"delivered", "hard_bounce", "timeout", "unknown"}

HandleResult ==
    /\ pc = "result"
    /\ \/ /\ RetryFresh
          /\ conn' = "none" /\ reused' = FALSE /\ hook' = "none"
          /\ pc' = "dial"
          /\ UNCHANGED <<lastResult, status>>
       \/ /\ ~RetryFresh /\ isFinalResult(result)
          /\ status' = result
          /\ pc' = "done"
          /\ UNCHANGED <<connVars, lastResult>>
       \/ /\ ~RetryFresh /\ ~isFinalResult(result) /\ bound /\ result # "timeout"
          /\ pc' = "source"
          /\ UNCHANGED <<connVars, lastResult, status>>
       \/ /\ ~RetryFresh /\ ~isFinalResult(result) /\ (~bound \/ result = "timeout")
          /\ lastResult' = result
          /\ pc' = "pass"
          /\ UNCHANGED <<connVars, status>>
    /\ UNCHANGED <<conf, loopVars, ctxDone, result, txs>>

-----------------------------------------------------------------------------
(***************************************************************************)
(* The context ends by its deadline or by the handler's cancel, which also *)
(* runs after the call returned. A hook that is armed starts then, in a    *)
(* goroutine of its own, and closes the connection some time later.        *)
(***************************************************************************)
ContextEnds ==
    /\ ~ctxDone
    /\ ctxDone' = TRUE
    /\ hook' = IF hook = "armed" THEN "running" ELSE hook
    /\ UNCHANGED <<conf, pc, loopVars, conn, reused, result, lastResult, status, txs>>

HookCloses ==
    /\ hook = "running"
    /\ hook' = "stopped"
    /\ conn' = IF conn \in {"open", "pooled", "left"} THEN "closed" ELSE conn
    /\ UNCHANGED <<conf, pc, loopVars, reused, ctxDone, result, lastResult, status, txs>>

(* A remote server decides about a complete message it holds.              *)
ServerDecides(i) ==
    /\ txs[i] = "inflight"
    /\ \E r \in FinalReplies[conf.protocol] : txs' = [txs EXCEPT ![i] = r]
    /\ UNCHANGED <<conf, pc, loopVars, connVars, ctxDone, result, lastResult, status>>

Transaction ==
    \/ StartTransaction
    \/ \E r \in CmdReplies[conf.protocol] : CommandReply(r)
    \/ CommandLost
    \/ WriteBody \/ WriteBodyFailed \/ SendDot \/ SendDotFailed
    \/ FinalReply \/ FinalLost \/ Reset \/ HandBack \/ Quit

Deliver ==
    \/ CheckRecipient \/ RateLimit \/ Sign \/ FixedDestination \/ LookupMX
    \/ MXExhausted \/ MXContextEnded \/ ResolveMX
    \/ PassesDone \/ BeginSourcePass \/ BeginSystemPass \/ NextSource
    \/ Attempt \/ Dial \/ Transaction \/ HandleResult

Next ==
    \/ Deliver
    \/ ContextEnds
    \/ HookCloses
    \/ \E i \in 1..Len(txs) : ServerDecides(i)

Spec == Init /\ [][Next]_vars

(***************************************************************************)
(* Fairness. The goroutine keeps running, and every wait on the network is *)
(* bounded by a timeout of its own except one: go-smtp clears the write    *)
(* deadline after DATA, so an MX that stops reading blocks the body and    *)
(* the dot for as long as the connection stays open. The deadline of the   *)
(* request's context always comes and a started hook runs.                 *)
(***************************************************************************)
Stalled == SMTP /\ pc \in {"body", "dot"} /\ conn = "open"

Progress == ~Stalled /\ Deliver

FairSpec == Spec /\ WF_vars(Progress) /\ WF_vars(ContextEnds) /\ WF_vars(HookCloses)
-----------------------------------------------------------------------------
(***************************************************************************)
(* Properties.                                                             *)
(***************************************************************************)
MayBeTaken(i) == txs[i] \in {"inflight"} \cup Accepting

(***************************************************************************)
(* What the first three properties need of the servers: no success code    *)
(* but the expected one at the end of an SMTP message, nor in reply to an  *)
(* LMTP command. Runs below show what happens otherwise.                   *)
(***************************************************************************)
StandardReplies ==
    /\ "other2xx" \notin FinalReplies["smtp"]
    /\ "other2xx" \notin CmdReplies["lmtp"]

(* Across pooled retries, source IPs, IP versions and MX hosts, at most    *)
(* one complete copy of the message is accepted or may still be accepted   *)
(* by a server: DeliverMessage never sends a duplicate.                    *)
AtMostOneCopy ==
    \A i, j \in 1..Len(txs) : MayBeTaken(i) /\ MayBeTaken(j) => i = j

(* The status "delivered" is returned only when a server accepted a        *)
(* complete copy.                                                          *)
DeliveredMeansAccepted ==
    status = "delivered" => \E i \in 1..Len(txs) : txs[i] \in Accepting

(* Every status other than "delivered" and "unknown" tells the caller that *)
(* no server has taken, or can still take, the message: bouncing or        *)
(* retrying it is safe.                                                    *)
FailureMeansRefused ==
    status \notin {"none", "delivered", "unknown"} => \A i \in 1..Len(txs) : ~MayBeTaken(i)

(* Every way out of performDeliveryTransaction and performLMTPTransaction  *)
(* closes the connection, hands it to the pool or has sent QUIT on it. One *)
(* case is left open: the QUIT after a delivery fails. No attempt that     *)
(* failed, and so no attempt after which another one is made, leaves its   *)
(* connection behind.                                                      *)
NoConnectionAbandoned ==
    /\ conn = "open" => pc \in {"txn", "body", "dot", "final", "reset", "handback", "dirty", "quit"} \cup Commands
    /\ conn = "left" => pc \in {"result", "done"} /\ result = "delivered"

(* A connection handed back to the pool is never closed by this call's     *)
(* context hook, although the handler cancels the context afterwards.      *)
PooledStaysOpen == [][conn = "pooled" => conn' = "pooled"]_vars

(* DeliverMessage always returns: a server that stops reading the body     *)
(* cannot hold the request past the end of its context.                    *)
Returns == <>(pc = "done")

(* The whole call implements DeliverySpec: copies are sent one at a time,  *)
(* each after its predecessors were refused, and the status is true.       *)
AnyFinalReply == UNION {FinalReplies[p] : p \in Protocols}

DS == INSTANCE DeliverySpec WITH outcome <- status, FinalReplies <- AnyFinalReply
RefinesDeliverySpec == DS!Spec
=============================================================================
