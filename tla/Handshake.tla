----------------------------- MODULE Handshake ------------------------------
(***************************************************************************)
(* dialAndHello after the TCP dial: a goroutine runs the handshake of the  *)
(* transport (LMTP, implicit TLS, or opportunistic STARTTLS with a second, *)
(* plaintext connection) and sends its result into a buffered channel,     *)
(* while the function selects between that channel and the end of the      *)
(* request's context. After a success the caller sends its first command.  *)
(*                                                                         *)
(* "first" is the connection dialled by the function, "second" the one the *)
(* goroutine dials when the server has no STARTTLS.                        *)
(***************************************************************************)
CONSTANT
    Transports   \* the transports to look at

ASSUME TransportsAssumption == Transports \subseteq {"lmtp", "lmtps", "smtps", "starttls"}

VARIABLES
    transport,   \* protocol and implicit TLS settings
    state,       \* state of each connection: "none", "open", "closed"
    deadline,    \* deadline set on each: "none", "handshake" or "command"
    connClosed,  \* the atomic flag about the first connection
    gr,          \* where the goroutine is
    resultCh,    \* the channel: "empty", "error", or the connection delivered
    main,        \* where dialAndHello is
    got,         \* the connection it returned, "none" if it failed
    ctxDone      \* has the context ended?

vars == <<transport, state, deadline, connClosed, gr, resultCh, main, got, ctxDone>>

Conns == {"first", "second"}

TypeOK ==
    /\ transport \in Transports
    /\ state \in [Conns -> {"none", "open", "closed"}]
    /\ deadline \in [Conns -> {"none", "handshake", "command"}]
    /\ connClosed \in BOOLEAN
    /\ gr \in {"none", "start", "tls", "hello", "redial", "hello2", "deferred", "exited"}
    /\ resultCh \in {"empty", "error"} \cup Conns
    /\ main \in {"prepare", "select", "failed", "succeeded", "returned", "command", "answered"}
    /\ got \in {"none"} \cup Conns
    /\ ctxDone \in BOOLEAN

Init ==
    /\ transport \in Transports
    /\ state = [first |-> "open", second |-> "none"]
    /\ deadline = [first |-> "none", second |-> "none"]
    /\ connClosed = FALSE
    /\ gr = "none"
    /\ resultCh = "empty"
    /\ main = "prepare"
    /\ got = "none"
    /\ ctxDone \in BOOLEAN

-----------------------------------------------------------------------------
(***************************************************************************)
(* The goroutine.                                                          *)
(***************************************************************************)
Send(r) ==
    /\ resultCh' = r
    /\ gr' = "deferred"

(* SetDeadline on the connection, then the handshake of the transport.     *)
BeginHandshake ==
    /\ gr = "start"
    /\ deadline' = [deadline EXCEPT !["first"] = "handshake"]
    /\ gr' = IF transport \in {"lmtps", "smtps"} THEN "tls" ELSE "hello"
    /\ UNCHANGED <<transport, state, connClosed, resultCh, main, got, ctxDone>>

ImplicitTLS ==
    /\ gr = "tls" /\ state["first"] = "open"
    /\ gr' = "hello"
    /\ UNCHANGED <<transport, state, deadline, connClosed, resultCh, main, got, ctxDone>>

(* The greeting and LHLO, EHLO, or EHLO and STARTTLS succeed. LMTP and     *)
(* implicit TLS clear the deadline before the result is sent.              *)
HelloSucceeds ==
    /\ gr = "hello" /\ state["first"] = "open"
    /\ deadline' = IF transport = "starttls" THEN deadline ELSE [deadline EXCEPT !["first"] = "none"]
    /\ Send("first")
    /\ UNCHANGED <<transport, state, connClosed, main, got, ctxDone>>

(* Mutants of HandshakeFails: the flag is set and the connection left      *)
(* open; nothing is sent.                                                  *)
HandshakeFailsSilent ==
    /\ gr \in {"tls", "hello"}
    /\ state' = [state EXCEPT !["first"] = "closed"]
    /\ connClosed' = TRUE
    /\ gr' = "deferred"
    /\ UNCHANGED <<transport, deadline, resultCh, main, got, ctxDone>>

HandshakeFailsOpen ==
    /\ gr \in {"tls", "hello"}
    /\ connClosed' = TRUE
    /\ Send("error")
    /\ UNCHANGED <<transport, state, deadline, main, got, ctxDone>>

(* Every failure on the first connection closes it, sets the flag and      *)
(* reports the error.                                                      *)
HandshakeFails ==
    /\ gr \in {"tls", "hello"}
    /\ state' = [state EXCEPT !["first"] = "closed"]
    /\ connClosed' = TRUE
    /\ Send("error")
    /\ UNCHANGED <<transport, deadline, main, got, ctxDone>>

(* The server has no STARTTLS: close, and dial again.                      *)
NoStartTLS ==
    /\ gr = "hello" /\ transport = "starttls" /\ state["first"] = "open"
    /\ state' = [state EXCEPT !["first"] = "closed"]
    /\ connClosed' = TRUE
    /\ gr' = "redial"
    /\ UNCHANGED <<transport, deadline, resultCh, main, got, ctxDone>>

Redial ==
    /\ gr = "redial"
    /\ \/ /\ ~ctxDone
          /\ state' = [state EXCEPT !["second"] = "open"]
          /\ deadline' = [deadline EXCEPT !["second"] = "handshake"]
          /\ gr' = "hello2"
          /\ UNCHANGED resultCh
       \/ /\ Send("error")
          /\ UNCHANGED <<state, deadline>>
    /\ UNCHANGED <<transport, connClosed, main, got, ctxDone>>

PlaintextHello ==
    /\ gr = "hello2"
    /\ \/ /\ deadline' = [deadline EXCEPT !["second"] = "none"]
          /\ Send("second")
          /\ UNCHANGED state
       \/ /\ state' = [state EXCEPT !["second"] = "closed"]
          /\ Send("error")
          /\ UNCHANGED deadline
    /\ UNCHANGED <<transport, connClosed, main, got, ctxDone>>

(* The deferred SetDeadline(time.Time{}) on the first connection.          *)
ClearDeadline ==
    /\ gr = "deferred"
    /\ deadline' = [deadline EXCEPT !["first"] = "none"]
    /\ gr' = "exited"
    /\ UNCHANGED <<transport, state, connClosed, resultCh, main, got, ctxDone>>

-----------------------------------------------------------------------------
(***************************************************************************)
(* dialAndHello. Its deferred function closes the first connection unless  *)
(* the handshake succeeded or the flag says it is closed.                  *)
(***************************************************************************)
(* Phased timeouts from what is left of the context's deadline; nothing    *)
(* left ends the attempt before the goroutine starts.                      *)
Prepare ==
    /\ main = "prepare"
    /\ \/ ctxDone /\ main' = "failed" /\ UNCHANGED gr
       \/ main' = "select" /\ gr' = "start"
    /\ UNCHANGED <<transport, state, deadline, connClosed, resultCh, got, ctxDone>>

TakeResult ==
    /\ main = "select" /\ resultCh # "empty"
    /\ main' = IF resultCh = "error" THEN "failed" ELSE "succeeded"
    /\ got' = IF resultCh = "error" THEN "none" ELSE resultCh
    /\ UNCHANGED <<transport, state, deadline, connClosed, gr, resultCh, ctxDone>>

(* The context ends first: the connection is closed to unblock the         *)
(* goroutine. With both ready, select takes either.                        *)
TakeContext ==
    /\ main = "select" /\ ctxDone
    /\ state' = [state EXCEPT !["first"] = "closed"]
    /\ connClosed' = TRUE
    /\ main' = "failed"
    /\ UNCHANGED <<transport, deadline, gr, resultCh, got, ctxDone>>

(* Mutant of DeferredClose: success is not recorded.                       *)
DeferredCloseAlways ==
    /\ main \in {"failed", "succeeded"}
    /\ state' = IF ~connClosed THEN [state EXCEPT !["first"] = "closed"] ELSE state
    /\ main' = "returned"
    /\ UNCHANGED <<transport, deadline, connClosed, gr, resultCh, got, ctxDone>>

DeferredClose ==
    /\ main \in {"failed", "succeeded"}
    /\ state' = IF main = "failed" /\ ~connClosed THEN [state EXCEPT !["first"] = "closed"] ELSE state
    /\ main' = "returned"
    /\ UNCHANGED <<transport, deadline, connClosed, gr, resultCh, got, ctxDone>>

(* The transaction sends its first command under the command timeout.      *)
Command ==
    /\ main = "returned" /\ got # "none"
    /\ deadline' = [deadline EXCEPT ![got] = "command"]
    /\ main' = "command"
    /\ UNCHANGED <<transport, state, connClosed, gr, resultCh, got, ctxDone>>

CommandEnds ==
    /\ main = "command"
    /\ deadline' = [deadline EXCEPT ![got] = "none"]
    /\ main' = "answered"
    /\ UNCHANGED <<transport, state, connClosed, gr, resultCh, got, ctxDone>>

ContextEnds ==
    /\ ~ctxDone
    /\ ctxDone' = TRUE
    /\ UNCHANGED <<transport, state, deadline, connClosed, gr, resultCh, main, got>>

Goroutine ==
    \/ BeginHandshake \/ ImplicitTLS \/ HelloSucceeds \/ HandshakeFails
    \/ NoStartTLS \/ Redial \/ PlaintextHello \/ ClearDeadline

(* The function's steps and those of its caller.                           *)
Main == Prepare \/ TakeResult \/ TakeContext \/ DeferredClose \/ Command \/ CommandEnds

Next == Goroutine \/ Main \/ ContextEnds

Spec == Init /\ [][Next]_vars

(* The handshake runs under a deadline or on a closed connection, so every *)
(* step of the goroutine ends; dialAndHello keeps running.                 *)
FairSpec == Spec /\ WF_vars(Goroutine) /\ WF_vars(Main)

-----------------------------------------------------------------------------
(***************************************************************************)
(* Properties.                                                             *)
(***************************************************************************)
Returned == main \in {"returned", "command", "answered"}

(* The connection handed to the caller is open, whatever the context, the  *)
(* deferred close and the flag written by the goroutine do: none of the    *)
(* three ways to close the first connection reaches one that was returned. *)
ReturnedIsOpen == Returned /\ got # "none" => state[got] = "open"

(* When dialAndHello fails, the connection it dialled is closed, by the    *)
(* goroutine, by the select or by the deferred function: the flag never    *)
(* hides one that is still open.                                           *)
FirstClosedOnFailure == Returned /\ got = "none" => state["first"] = "closed"

(* dialAndHello returns and its goroutine ends, without any help from the  *)
(* context: the handshake deadline and the buffered channel are enough.    *)
HandshakeEnds == <>(Returned /\ gr \in {"none", "exited"})

-----------------------------------------------------------------------------
(***************************************************************************)
(* A statement of a comment that the code does not keep.                   *)
(***************************************************************************)
(* dialAndHello: connections are closed if setup fails. The second one is  *)
(* not, when the context ends while its EHLO is under way.                 *)
NoConnectionLeft == Returned /\ got = "none" /\ gr = "exited" => state["second"] # "open"
=============================================================================
