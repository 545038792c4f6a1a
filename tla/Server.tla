------------------------------- MODULE Server -------------------------------
(***************************************************************************)
(* The strela server around its deliveries: requests pass the inbound rate *)
(* limit and take a concurrency slot, their bodies are read and checked,   *)
(* and the delivery runs under a deadline. SIGHUP reloads the              *)
(* configuration while they run, SIGTERM drains and stops the server.      *)
(*                                                                         *)
(* A configuration is a generation of the file. Its contents matter only   *)
(* in that a file may not load ("broken") or may change the listen address *)
(* ("listen"). Times are ticks; a deadline is acted on before the clock    *)
(* moves on.                                                               *)
(***************************************************************************)
EXTENDS Naturals, Sequences, FiniteSets, Functions

CONSTANTS
    Requests,        \* requests in progress at a time
    Routes,          \* the paths served, each with its own semaphore
    NoRoute,         \* no request
    MaxConcurrent,   \* max_concurrent_requests
    ReadTimeout,     \* read_timeout_seconds
    WriteTimeout,    \* write_timeout_seconds
    MaxTotal,        \* max_total_delivery_seconds
    Margin,          \* the 30 seconds the drain adds to MaxTotal
    MaxEdits         \* bound: edits of the configuration file

(* The timeouts are independent settings: nothing in the code relates them *)
(* to each other or to Margin.                                             *)
ASSUME ConstantsAssumption ==
    /\ {MaxConcurrent, ReadTimeout, WriteTimeout, MaxTotal, Margin} \subseteq Nat \ {0}
    /\ MaxEdits \in Nat
    /\ IsFiniteSet(Requests)

VARIABLES
    pc,        \* where each request is
    route,     \* the path it asked for
    age,       \* ticks since the server began to read it
    left,      \* ticks left of its read timeout or of its context
    sem,       \* slots taken per route
    stage,     \* main: serving, draining, or a step of the shutdown
    drain,     \* ticks left of the drain deadline
    files,     \* the kinds the configuration file has had, by generation
    sighup,    \* is a signal waiting in the channel?
    asked,     \* history: a SIGHUP was sent since the last edit
    reload,    \* where the SIGHUP handler is
    loaded,    \* newConfig of the reload under way
    config,    \* ReloadableConfig.config
    mx,        \* the settings of MXLookup: both cache TTLs, dnsResolver
    deliverer  \* Deliverer.config

requestVars == <<pc, route, age, left, sem>>
stageVars == <<stage, drain>>
reloadVars == <<files, sighup, asked, reload, loaded, config, mx, deliverer>>
vars == <<requestVars, stageVars, reloadVars>>

Settings == {"cacheTTLs", "dnsResolver"}
Steps == <<"aux", "rateLimiter", "tlsManager", "deliverer", "exited">>
Kinds == {"good", "listen", "broken"}
Generations == 1..(MaxEdits + 1)

Current == Len(files)

TypeOK ==
    /\ pc \in [Requests -> {"none", "arrived", "body", "delivering"}]
    /\ route \in [Requests -> Routes \cup {NoRoute}]
    /\ age \in [Requests -> Nat]
    /\ left \in [Requests -> Nat]
    /\ sem \in [Routes -> 0..MaxConcurrent]
    /\ stage \in {"serving", "draining"} \cup {Steps[i] : i \in DOMAIN Steps}
    /\ drain \in 0..(MaxTotal + Margin)
    /\ files \in Seq(Kinds) /\ Current \in Generations
    /\ sighup \in BOOLEAN
    /\ asked \in BOOLEAN
    /\ reload \in {"idle", "load", "validate", "mx", "deliverer", "swap"}
    /\ {loaded, config, deliverer} \subseteq Generations
    /\ mx \in [Settings -> Generations]

Init ==
    /\ pc = [r \in Requests |-> "none"]
    /\ route = [r \in Requests |-> NoRoute]
    /\ age = [r \in Requests |-> 0]
    /\ left = [r \in Requests |-> 0]
    /\ sem = [p \in Routes |-> 0]
    /\ stage = "serving" /\ drain = 0
    /\ files = <<"good">>
    /\ sighup = FALSE /\ asked = FALSE
    /\ reload = "idle" /\ loaded = 1
    /\ config = 1 /\ deliverer = 1 /\ mx = [s \in Settings |-> 1]

Running == stage # "exited"

-----------------------------------------------------------------------------
(***************************************************************************)
(* Requests.                                                               *)
(***************************************************************************)
(* The request is answered, or its panic is recovered: it is forgotten.    *)
Forget(r) ==
    /\ pc' = [pc EXCEPT ![r] = "none"]
    /\ route' = [route EXCEPT ![r] = NoRoute]
    /\ age' = [age EXCEPT ![r] = 0]
    /\ left' = [left EXCEPT ![r] = 0]

(* The deferred release of the slot.                                       *)
Release(r) == sem' = [sem EXCEPT ![route[r]] = @ - 1]

(* The server begins to read a request; its read timeout runs from here.   *)
Arrive(r, p) ==
    /\ stage = "serving" /\ pc[r] = "none"
    /\ pc' = [pc EXCEPT ![r] = "arrived"]
    /\ route' = [route EXCEPT ![r] = p]
    /\ left' = [left EXCEPT ![r] = ReadTimeout]
    /\ UNCHANGED <<age, sem, stageVars, reloadVars>>

(* RateLimiter.Middleware answers 429.                                     *)
RateLimited(r) ==
    /\ Running /\ pc[r] = "arrived"
    /\ Forget(r)
    /\ UNCHANGED <<sem, stageVars, reloadVars>>

(* ConcurrencyLimitMiddleware: a slot of the route, or 503.                *)
ConcurrencyLimit(r) ==
    /\ Running /\ pc[r] = "arrived"
    /\ \/ /\ sem[route[r]] < MaxConcurrent
          /\ sem' = [sem EXCEPT ![route[r]] = @ + 1]
          /\ pc' = [pc EXCEPT ![r] = "body"]
          /\ UNCHANGED <<route, age, left>>
       \/ /\ sem[route[r]] = MaxConcurrent
          /\ Forget(r)
          /\ UNCHANGED sem
    /\ UNCHANGED <<stageVars, reloadVars>>

(* handleDeliverWithTransport returns before it delivers: wrong method or  *)
(* token, a body that is too large, late or invalid, a message that cannot *)
(* be built, or no LMTP destination.                                       *)
Refuse(r) ==
    /\ Running /\ pc[r] = "body"
    /\ Forget(r) /\ Release(r)
    /\ UNCHANGED <<stageVars, reloadVars>>

(* The request is valid: DeliverMessage starts, under a context that ends  *)
(* MaxTotal later. The handler keeps the configuration of the start.       *)
StartDelivery(r) ==
    /\ Running /\ pc[r] = "body"
    /\ pc' = [pc EXCEPT ![r] = "delivering"]
    /\ left' = [left EXCEPT ![r] = MaxTotal]
    /\ UNCHANGED <<route, age, sem, stageVars, reloadVars>>

(* DeliverMessage returns, at the latest when its context ends, and the    *)
(* result is written.                                                      *)
Respond(r) ==
    /\ Running /\ pc[r] = "delivering"
    /\ Forget(r) /\ Release(r)
    /\ UNCHANGED <<stageVars, reloadVars>>

(* Mutant of Panic: the release is not deferred.                           *)
PanicKeepsSlot(r) ==
    /\ Running /\ pc[r] \in {"body", "delivering"}
    /\ Forget(r)
    /\ UNCHANGED <<sem, stageVars, reloadVars>>

(* PanicRecoveryMiddleware, outermost; the deferred release has run.       *)
Panic(r) ==
    /\ Running /\ pc[r] \in {"body", "delivering"}
    /\ Forget(r) /\ Release(r)
    /\ UNCHANGED <<stageVars, reloadVars>>

-----------------------------------------------------------------------------
(***************************************************************************)
(* Hot reload.                                                             *)
(***************************************************************************)
(* The operator writes the configuration file.                             *)
Edit ==
    /\ Running /\ Current <= MaxEdits
    /\ \E k \in Kinds : files' = Append(files, k)
    /\ asked' = FALSE
    /\ UNCHANGED <<requestVars, stageVars, sighup, reload, loaded, config, mx, deliverer>>

(* Mutant of Signal: without a buffer a signal is lost while the handler   *)
(* is busy.                                                                *)
SignalUnbuffered ==
    /\ Running
    /\ asked' = TRUE
    /\ sighup' = (reload = "idle")
    /\ UNCHANGED <<requestVars, stageVars, files, reload, loaded, config, mx, deliverer>>

(* SIGHUP: the channel holds one signal, a further one is dropped.         *)
Signal ==
    /\ Running
    /\ asked' = TRUE
    /\ sighup' = TRUE
    /\ UNCHANGED <<requestVars, stageVars, files, reload, loaded, config, mx, deliverer>>

ReloadStep(from, to) ==
    /\ Running /\ reload = from
    /\ reload' = to
    /\ UNCHANGED <<requestVars, stageVars, files, asked>>

TakeSignal ==
    /\ sighup
    /\ sighup' = FALSE
    /\ ReloadStep("idle", "load")
    /\ UNCHANGED <<loaded, config, mx, deliverer>>

(* LoadConfig: an error ends the reload.                                   *)
LoadConfig ==
    /\ \/ /\ files[Current] # "broken"
          /\ loaded' = Current
          /\ ReloadStep("load", "validate")
       \/ /\ files[Current] = "broken"
          /\ ReloadStep("load", "idle")
          /\ UNCHANGED loaded
    /\ UNCHANGED <<sighup, config, mx, deliverer>>

(* validateReload: the listen address may not change, or newConfig is      *)
(* dropped.                                                                *)
validateReload ==
    /\ \/ /\ files[loaded] = "listen"
          /\ loaded' = config
          /\ ReloadStep("validate", "idle")
       \/ /\ files[loaded] # "listen"
          /\ ReloadStep("validate", "mx")
          /\ UNCHANGED loaded
    /\ UNCHANGED <<sighup, config, mx, deliverer>>

(* The callback, first half: MXLookup.ReloadConfig writes its settings     *)
(* without a lock, so lookups may see them change in any order.            *)
Stale == {s \in Settings : mx[s] # loaded}

ReloadMX ==
    /\ \/ /\ Stale # {}
          /\ \E s \in Stale : mx' = [mx EXCEPT ![s] = loaded]
          /\ ReloadStep("mx", "mx")
       \/ /\ Stale = {}
          /\ ReloadStep("mx", "deliverer")
          /\ UNCHANGED mx
    /\ UNCHANGED <<sighup, loaded, config, deliverer>>

(* Second half: Deliverer.ReloadConfig, under its lock.                    *)
ReloadDeliverer ==
    /\ deliverer' = loaded
    /\ ReloadStep("deliverer", "swap")
    /\ UNCHANGED <<sighup, loaded, config, mx>>

(* Mutant of Swap: the file is read again for the swap.                    *)
SwapReadsAgain ==
    /\ config' = Current
    /\ ReloadStep("swap", "idle")
    /\ UNCHANGED <<sighup, loaded, mx, deliverer>>

Swap ==
    /\ config' = loaded
    /\ ReloadStep("swap", "idle")
    /\ UNCHANGED <<sighup, loaded, mx, deliverer>>

-----------------------------------------------------------------------------
(***************************************************************************)
(* Shutdown.                                                               *)
(***************************************************************************)
(* Mutant of Terminate: the drain lasts as long as a delivery may, without *)
(* time for the bodies that are still being read.                          *)
TerminateNoMargin ==
    /\ stage = "serving"
    /\ stage' = "draining"
    /\ drain' = MaxTotal
    /\ UNCHANGED <<requestVars, reloadVars>>

Terminate ==
    /\ stage = "serving"
    /\ stage' = "draining"
    /\ drain' = MaxTotal + Margin
    /\ UNCHANGED <<requestVars, reloadVars>>

InFlight == {r \in Requests : pc[r] # "none"}

(* server.Shutdown returns when no request is left, or at its deadline.    *)
Drained ==
    /\ stage = "draining"
    /\ InFlight = {} \/ drain = 0
    /\ stage' = Steps[1]
    /\ UNCHANGED <<requestVars, drain, reloadVars>>

(* The auxiliary servers, the rate limiter's cleanup, the TLS manager and  *)
(* the deliverer are stopped in this order; then main returns.             *)
StopNext ==
    /\ \E i \in 1..(Len(Steps) - 1) : stage = Steps[i] /\ stage' = Steps[i + 1]
    /\ UNCHANGED <<requestVars, drain, reloadVars>>

(* Time passes when no deadline is due.                                    *)
Tick ==
    /\ Running
    /\ InFlight # {} \/ stage = "draining"
    /\ \A r \in InFlight : left[r] > 0
    /\ stage = "draining" => drain > 0
    /\ age' = [r \in Requests |-> IF r \in InFlight THEN age[r] + 1 ELSE 0]
    /\ left' = [r \in Requests |-> IF r \in InFlight THEN left[r] - 1 ELSE 0]
    /\ drain' = IF stage = "draining" THEN drain - 1 ELSE drain
    /\ UNCHANGED <<pc, route, sem, stage, reloadVars>>

Handle(r) ==
    \/ RateLimited(r) \/ ConcurrencyLimit(r) \/ Refuse(r)
    \/ StartDelivery(r) \/ Respond(r) \/ Panic(r)

Reload ==
    \/ TakeSignal \/ LoadConfig \/ validateReload
    \/ ReloadMX \/ ReloadDeliverer \/ Swap

Main == Drained \/ StopNext

Next ==
    \/ \E r \in Requests : (\E p \in Routes : Arrive(r, p)) \/ Handle(r)
    \/ Edit \/ Signal \/ Reload
    \/ Terminate \/ Main
    \/ Tick

Spec == Init /\ [][Next]_vars

(* Goroutines keep running, bodies are cut off by the read timeout and     *)
(* deliveries return when their context ends.                              *)
FairSpec ==
    /\ Spec
    /\ \A r \in Requests : WF_vars(Handle(r))
    /\ WF_vars(Reload) /\ WF_vars(Main) /\ WF_vars(Tick)

-----------------------------------------------------------------------------
(***************************************************************************)
(* Properties.                                                             *)
(***************************************************************************)
(* A slot is taken for every request between the middleware and its        *)
(* answer, and for no other: refusals and panics give theirs back. This is *)
(* about one route; the routes together may hold more than the             *)
(* max_concurrent_requests the configuration describes for the server.     *)
SlotsMatchRequests ==
    \A p \in Routes :
        sem[p] = Cardinality({r \in Requests : route[r] = p /\ pc[r] \in {"body", "delivering"}})

(* How long the body of a request has been read, or was until its delivery *)
(* started.                                                                *)
ReadingTime(r) == IF pc[r] = "delivering" THEN age[r] - (MaxTotal - left[r]) ELSE age[r]

(* Whose answer may get lost, for the caller to send the message again:    *)
(* the drain cuts off only requests whose body took at least Margin to     *)
(* read, however long the rest took. A read timeout below Margin leaves no *)
(* such request; with the default of 30 seconds for both there can be one. *)
(* The write timeout passes before no delivery ends if it exceeds a        *)
(* delivery by the read timeout, as the defaults 240, 200 and 30 do: that  *)
(* is the margin which the comment in SetDefaults leaves open.             *)
NoAnswerLost ==
    /\ stage \notin {"serving", "draining"} => \A r \in InFlight : ReadingTime(r) >= Margin
    /\ ReadTimeout + MaxTotal <= WriteTimeout =>
         \A r \in Requests : pc[r] = "delivering" => age[r] <= WriteTimeout

(* About the three components that SIGHUP reloads, ReloadableConfig,       *)
(* MXLookup and Deliverer: what they run with never comes from a file that *)
(* does not load or that changes the listen address, it is new or old and  *)
(* nothing else while a reload is under way, and one configuration between *)
(* reloads, whatever became of them. Lookups see the settings of MXLookup  *)
(* torn between the two only while it is being written. The handler keeps  *)
(* the configuration of the start for ever and is not compared.            *)
ConfigsAgree ==
    LET applied == {config, deliverer} \cup Range(mx)
    IN  /\ \A g \in applied : files[g] = "good"
        /\ applied \subseteq {config, loaded}
        /\ reload = "idle" => applied = {config}
        /\ reload # "mx" => \A s, t \in Settings : mx[s] = mx[t]

(* After a SIGHUP a good file is in use in the end, unless it was edited   *)
(* since or the server stops, also when the signal came during a reload.   *)
SighupApplies ==
    (asked /\ files[Current] = "good") ~> (config = Current \/ ~asked \/ ~Running)
=============================================================================
