---------------------------- MODULE Server_proofs ---------------------------
(***************************************************************************)
(* Proofs about Server, for any requests, routes, limits and timeouts that *)
(* satisfy ConstantsAssumption, and any number of edits.                   *)
(*                                                                         *)
(* Whom the drain may cut off needs a budget: no request arrives after     *)
(* SIGTERM, so each is at least as old as the drain, and what it did not   *)
(* spend on its delivery it spent on its body. That the components agree   *)
(* on a configuration needs to know how far the reload under way has got.  *)
(***************************************************************************)
EXTENDS Server, FiniteSetTheorems, TLAPS

Reading == {"arrived", "body"}
Serving == {"body", "delivering"}

(* The requests that hold a slot of a route.                               *)
Holders(p) == {r \in Requests : route[r] = p /\ pc[r] \in Serving}

Slots == \A p \in Routes : sem[p] = Cardinality(Holders(p))

(* A request is read within the read timeout and delivered within MaxTotal *)
(* after that.                                                             *)
BudgetOf(r) ==
    /\ pc[r] = "none" => age[r] = 0
    /\ pc[r] # "none" => route[r] \in Routes
    /\ pc[r] \in Reading => age[r] + left[r] <= ReadTimeout
    /\ pc[r] = "delivering" =>
           age[r] + left[r] <= ReadTimeout + MaxTotal /\ left[r] <= MaxTotal

(* During the drain a request is as old as the drain at least; after it    *)
(* its body took at least the margin, and still does once it is delivered. *)
DrainOf(r) ==
    /\ stage = "draining" /\ pc[r] # "none" => age[r] + drain >= MaxTotal + Margin
    /\ stage \notin {"serving", "draining"} =>
           /\ pc[r] \in Reading => age[r] >= Margin
           /\ pc[r] = "delivering" => age[r] + left[r] >= MaxTotal + Margin

Budget == \A r \in Requests : BudgetOf(r) /\ DrainOf(r)

(* What the components run with at each step of a reload.                  *)
Known == 1..Current

ReloadInv ==
    /\ {loaded, config, deliverer} \subseteq Known
    /\ \A s \in Settings : mx[s] \in Known
    /\ files[config] = "good"
    /\ reload = "validate" => files[loaded] # "broken"
    /\ reload \in {"mx", "deliverer", "swap"} => files[loaded] = "good"
    /\ reload \in {"idle", "load", "validate"} =>
           deliverer = config /\ \A s \in Settings : mx[s] = config
    /\ reload = "mx" => deliverer = config /\ \A s \in Settings : mx[s] \in {config, loaded}
    /\ reload = "deliverer" => deliverer = config /\ \A s \in Settings : mx[s] = loaded
    /\ reload = "swap" => deliverer = loaded /\ \A s \in Settings : mx[s] = loaded

ServerInv == TypeOK /\ Slots /\ Budget /\ ReloadInv

-----------------------------------------------------------------------------
(***************************************************************************)
(* Constants.                                                              *)
(***************************************************************************)
LEMMA Numbers ==
  /\ MaxConcurrent \in Nat /\ ReadTimeout \in Nat /\ WriteTimeout \in Nat
  /\ MaxTotal \in Nat /\ Margin \in Nat /\ MaxEdits \in Nat
  /\ MaxConcurrent > 0 /\ ReadTimeout > 0 /\ MaxTotal > 0
BY ConstantsAssumption DEF ConstantsAssumption

(* The steps of the shutdown, as a set.                                    *)
LEMMA ShutdownSteps ==
  /\ {Steps[i] : i \in DOMAIN Steps} = {"aux", "rateLimiter", "tlsManager", "deliverer", "exited"}
  /\ Steps[1] = "aux"
  /\ Len(Steps) = 5
  /\ \A i \in 1..4 : Steps[i] \notin {"serving", "draining"} /\ Steps[i + 1] \notin {"serving", "draining"}
  /\ \A i \in 1..4 : Steps[i + 1] \in {Steps[j] : j \in DOMAIN Steps}
<1>1. DOMAIN Steps = {1, 2, 3, 4, 5}
  BY DEF Steps
<1>2. /\ Steps[1] = "aux" /\ Steps[2] = "rateLimiter" /\ Steps[3] = "tlsManager"
      /\ Steps[4] = "deliverer" /\ Steps[5] = "exited"
  BY DEF Steps
<1>3. Len(Steps) = 5
  BY DEF Steps
<1>4. \A i \in 1..4 : i \in {1, 2, 3, 4} /\ i + 1 \in {2, 3, 4, 5}
  OBVIOUS
<1> QED
  BY <1>1, <1>2, <1>3, <1>4

LEMMA ServerInit == Init => ServerInv
<1> SUFFICES ASSUME Init PROVE ServerInv
  OBVIOUS
<1> USE DEF Init
<1>1. TypeOK
  <2>1. files \in Seq(Kinds) /\ Current = 1 /\ files[1] = "good"
    BY DEF Kinds, Current
  <2>2. 1 \in Generations
    BY Numbers DEF Generations
  <2>3. 0 \in 0..MaxConcurrent /\ 0 \in 0..(MaxTotal + Margin)
    BY Numbers
  <2> QED
    BY <2>1, <2>2, <2>3 DEF TypeOK
<1>2. Slots
  <2> SUFFICES ASSUME NEW p \in Routes PROVE sem[p] = Cardinality(Holders(p))
    BY DEF Slots
  <2>1. Holders(p) = {}
    BY DEF Holders, Serving
  <2> QED
    BY <2>1, FS_EmptySet
<1>3. Budget
  BY DEF Budget, BudgetOf, DrainOf, Reading
<1>4. ReloadInv
  BY DEF ReloadInv, Known, Current
<1> QED
  BY <1>1, <1>2, <1>3, <1>4 DEF ServerInv

-----------------------------------------------------------------------------
(***************************************************************************)
(* Slots: a step of one request moves at most this request into or out of  *)
(* the holders of its route.                                               *)
(***************************************************************************)
LEMMA HoldersFinite ==
  ASSUME NEW p \in Routes
  PROVE  IsFiniteSet(Holders(p)) /\ IsFiniteSet(Holders(p)') /\ Cardinality(Holders(p)) \in Nat
<1>1. IsFiniteSet(Requests)
  BY ConstantsAssumption DEF ConstantsAssumption
<1>2. Holders(p) \subseteq Requests /\ Holders(p)' \subseteq Requests
  BY DEF Holders
<1> QED
  BY <1>1, <1>2, FS_Subset, FS_CardinalityType

(* A holder that leaves gives its slot back; there was one to give.        *)
LEMMA SlotReleased ==
  ASSUME TypeOK, Slots, NEW r \in Requests, route[r] \in Routes, pc[r] \in Serving,
         Forget(r), Release(r)
  PROVE  Slots' /\ sem' \in [Routes -> 0..MaxConcurrent]
<1> PICK p \in Routes : p = route[r]
  OBVIOUS
<1>1. \A q \in Routes : q # p => Holders(q)' = Holders(q)
  BY DEF Holders, Serving, Forget, TypeOK
<1>2. Holders(p)' = Holders(p) \ {r}
  BY DEF Holders, Serving, Forget, TypeOK
<1>3. r \in Holders(p)
  BY DEF Holders
<1>4. /\ Cardinality(Holders(p)) \in Nat /\ Cardinality(Holders(p)') \in Nat
      /\ Cardinality(Holders(p)') = Cardinality(Holders(p)) - 1
  BY <1>2, <1>3, HoldersFinite, FS_RemoveElement, FS_CardinalityType
<1>5. sem' = [sem EXCEPT ![p] = @ - 1]
  BY DEF Release
<1>6. sem[p] = Cardinality(Holders(p)) /\ sem[p] \in 0..MaxConcurrent
  BY DEF Slots, TypeOK
<1>7. sem'[p] = Cardinality(Holders(p)') /\ sem'[p] \in 0..MaxConcurrent
  BY <1>4, <1>5, <1>6, Numbers DEF TypeOK
<1>8. \A q \in Routes : q # p => sem'[q] = sem[q] /\ sem[q] = Cardinality(Holders(q)')
  BY <1>1, <1>5 DEF TypeOK, Slots
<1> QED
  BY <1>5, <1>7, <1>8 DEF Slots, TypeOK

(* A request that enters takes the slot it was granted.                    *)
LEMMA SlotTaken ==
  ASSUME TypeOK, Slots, NEW r \in Requests, route[r] \in Routes, pc[r] = "arrived",
         sem[route[r]] < MaxConcurrent,
         sem' = [sem EXCEPT ![route[r]] = @ + 1],
         pc' = [pc EXCEPT ![r] = "body"],
         route' = route
  PROVE  Slots' /\ sem' \in [Routes -> 0..MaxConcurrent]
<1> PICK p \in Routes : p = route[r]
  OBVIOUS
<1>1. \A q \in Routes : q # p => Holders(q)' = Holders(q)
  BY DEF Holders, Serving, TypeOK
<1>2. Holders(p)' = Holders(p) \cup {r}
  BY DEF Holders, Serving, TypeOK
<1>3. r \notin Holders(p)
  BY DEF Holders, Serving
<1>4. /\ Cardinality(Holders(p)) \in Nat
      /\ Cardinality(Holders(p)') = Cardinality(Holders(p)) + 1
  BY <1>2, <1>3, HoldersFinite, FS_AddElement
<1>5. sem' = [sem EXCEPT ![p] = @ + 1]
  OBVIOUS
<1>6. sem[p] = Cardinality(Holders(p)) /\ sem[p] \in 0..MaxConcurrent /\ sem[p] < MaxConcurrent
  BY DEF Slots, TypeOK
<1>7. sem'[p] = Cardinality(Holders(p)') /\ sem'[p] \in 0..MaxConcurrent
  BY <1>4, <1>5, <1>6, Numbers DEF TypeOK
<1>8. \A q \in Routes : q # p => sem'[q] = sem[q] /\ sem[q] = Cardinality(Holders(q)')
  BY <1>1, <1>5 DEF TypeOK, Slots
<1> QED
  BY <1>5, <1>7, <1>8 DEF Slots, TypeOK

(* Steps that leave the holders alone.                                     *)
LEMMA SlotsKept ==
  ASSUME TypeOK, Slots, UNCHANGED sem,
         \A r \in Requests : \A p \in Routes :
             (route'[r] = p /\ pc'[r] \in Serving) <=> (route[r] = p /\ pc[r] \in Serving)
  PROVE  Slots'
<1> SUFFICES ASSUME NEW p \in Routes PROVE sem'[p] = Cardinality(Holders(p)')
  BY DEF Slots
<1>1. Holders(p)' = Holders(p)
  BY DEF Holders
<1> QED
  BY <1>1 DEF Slots

-----------------------------------------------------------------------------
(***************************************************************************)
(* Requests.                                                               *)
(***************************************************************************)
(* A request that is forgotten keeps every budget.                         *)
LEMMA ForgetBudget ==
  ASSUME TypeOK, Budget, NEW r \in Requests, Forget(r), UNCHANGED stageVars
  PROVE  Budget'
<1> SUFFICES ASSUME NEW q \in Requests PROVE BudgetOf(q)' /\ DrainOf(q)'
  BY DEF Budget
<1>1. CASE q = r
  BY <1>1 DEF Forget, TypeOK, BudgetOf, DrainOf, Reading
<1>2. CASE q # r
  BY <1>2 DEF Forget, TypeOK, Budget, BudgetOf, DrainOf, Reading, stageVars
<1> QED
  BY <1>1, <1>2

LEMMA ForgetTypes ==
  ASSUME TypeOK, NEW r \in Requests, Forget(r)
  PROVE  /\ pc' \in [Requests -> {"none", "arrived", "body", "delivering"}]
         /\ route' \in [Requests -> Routes \cup {NoRoute}]
         /\ age' \in [Requests -> Nat]
         /\ left' \in [Requests -> Nat]
BY DEF Forget, TypeOK

(* The parts of the invariant that a step of a request may disturb.        *)
RequestParts == TypeOK /\ Slots /\ Budget

LEMMA ArriveParts ==
  ASSUME RequestParts, NEW r \in Requests, NEW p \in Routes, Arrive(r, p)
  PROVE  RequestParts'
<1> USE DEF RequestParts
<1>1. TypeOK'
  BY Numbers DEF Arrive, TypeOK, stageVars, reloadVars, Current
<1>2. Slots'
  BY SlotsKept DEF Arrive, TypeOK, Serving
<1>3. Budget'
  <2> SUFFICES ASSUME NEW q \in Requests PROVE BudgetOf(q)' /\ DrainOf(q)'
    BY DEF Budget
  <2>1. CASE q = r
    BY <2>1, Numbers DEF Arrive, TypeOK, Budget, BudgetOf, DrainOf, Reading, stageVars
  <2>2. CASE q # r
    BY <2>2 DEF Arrive, TypeOK, Budget, BudgetOf, DrainOf, Reading, stageVars
  <2> QED
    BY <2>1, <2>2
<1> QED
  BY <1>1, <1>2, <1>3

(* A request answered before it got a slot.                                *)
LEMMA TurnedAwayParts ==
  ASSUME RequestParts, NEW r \in Requests, pc[r] = "arrived", Forget(r),
         UNCHANGED <<sem, stageVars, reloadVars>>
  PROVE  RequestParts'
<1> USE DEF RequestParts
<1>1. TypeOK'
  BY ForgetTypes DEF TypeOK, stageVars, reloadVars, Current
<1>2. Slots'
  BY SlotsKept DEF Forget, TypeOK, Serving
<1> QED
  BY <1>1, <1>2, ForgetBudget

(* A request answered, refused or panicked with its slot.                  *)
LEMMA FinishedParts ==
  ASSUME RequestParts, NEW r \in Requests, pc[r] \in Serving, Forget(r), Release(r),
         UNCHANGED <<stageVars, reloadVars>>
  PROVE  RequestParts'
<1> USE DEF RequestParts
<1>1. route[r] \in Routes
  BY DEF Budget, BudgetOf, Serving
<1>2. Slots' /\ sem' \in [Routes -> 0..MaxConcurrent]
  BY <1>1, SlotReleased
<1>3. TypeOK'
  BY <1>2, ForgetTypes DEF TypeOK, stageVars, reloadVars, Current
<1> QED
  BY <1>2, <1>3, ForgetBudget

LEMMA LimitParts ==
  ASSUME RequestParts, NEW r \in Requests, ConcurrencyLimit(r)
  PROVE  RequestParts'
<1> USE DEF RequestParts
<1>1. CASE /\ sem[route[r]] < MaxConcurrent
           /\ sem' = [sem EXCEPT ![route[r]] = @ + 1]
           /\ pc' = [pc EXCEPT ![r] = "body"]
           /\ UNCHANGED <<route, age, left>>
  <2>1. pc[r] = "arrived" /\ UNCHANGED <<stageVars, reloadVars>>
    BY DEF ConcurrencyLimit
  <2>2. route[r] \in Routes
    BY <2>1 DEF Budget, BudgetOf
  <2>3. Slots' /\ sem' \in [Routes -> 0..MaxConcurrent]
    BY <1>1, <2>1, <2>2, SlotTaken
  <2>4. TypeOK'
    BY <1>1, <2>1, <2>3 DEF TypeOK, stageVars, reloadVars, Current
  <2>5. Budget'
    BY <1>1, <2>1, <2>2 DEF TypeOK, Budget, BudgetOf, DrainOf, Reading, stageVars
  <2> QED
    BY <2>3, <2>4, <2>5
<1>2. CASE Forget(r) /\ UNCHANGED sem
  BY <1>2, TurnedAwayParts DEF ConcurrencyLimit
<1> QED
  BY <1>1, <1>2 DEF ConcurrencyLimit

LEMMA StartParts ==
  ASSUME RequestParts, NEW r \in Requests, StartDelivery(r)
  PROVE  RequestParts'
<1> USE DEF RequestParts
<1>1. TypeOK'
  BY Numbers DEF StartDelivery, TypeOK, stageVars, reloadVars, Current
<1>2. Slots'
  BY SlotsKept DEF StartDelivery, TypeOK, Serving
<1>3. Budget'
  <2> SUFFICES ASSUME NEW q \in Requests PROVE BudgetOf(q)' /\ DrainOf(q)'
    BY DEF Budget
  <2>1. CASE q = r
    BY <2>1, Numbers DEF StartDelivery, TypeOK, Budget, BudgetOf, DrainOf, Reading, stageVars
  <2>2. CASE q # r
    BY <2>2 DEF StartDelivery, TypeOK, Budget, BudgetOf, DrainOf, Reading, stageVars
  <2> QED
    BY <2>1, <2>2
<1> QED
  BY <1>1, <1>2, <1>3

(* One step of one request.                                                *)
LEMMA HandleParts ==
  ASSUME RequestParts, NEW r \in Requests, Handle(r)
  PROVE  RequestParts' /\ UNCHANGED reloadVars
<1>1. CASE RateLimited(r)
  BY <1>1, TurnedAwayParts DEF RateLimited
<1>2. CASE ConcurrencyLimit(r)
  BY <1>2, LimitParts DEF ConcurrencyLimit
<1>3. CASE Refuse(r) \/ Respond(r) \/ Panic(r)
  <2>1. pc[r] \in Serving /\ Forget(r) /\ Release(r) /\ UNCHANGED <<stageVars, reloadVars>>
    BY <1>3 DEF Refuse, Respond, Panic, Serving
  <2> QED
    BY <2>1, FinishedParts
<1>4. CASE StartDelivery(r)
  BY <1>4, StartParts DEF StartDelivery
<1> QED
  BY <1>1, <1>2, <1>3, <1>4 DEF Handle

-----------------------------------------------------------------------------
(***************************************************************************)
(* The shutdown and the clock.                                             *)
(***************************************************************************)
(* SIGTERM: the drain starts with its whole time.                          *)
LEMMA TerminateParts ==
  ASSUME RequestParts, Terminate
  PROVE  RequestParts'
<1> USE DEF RequestParts
<1>1. TypeOK'
  BY Numbers DEF Terminate, TypeOK, requestVars, reloadVars, Current
<1>2. Slots'
  BY SlotsKept DEF Terminate, requestVars
<1>3. Budget'
  BY Numbers DEF Terminate, TypeOK, requestVars, Budget, BudgetOf, DrainOf, Reading
<1> QED
  BY <1>1, <1>2, <1>3

(* The drain ends: if it ends at its deadline, a request has been there    *)
(* for all of it, and at most MaxTotal of that was its delivery.           *)
LEMMA DrainedParts ==
  ASSUME RequestParts, Drained
  PROVE  RequestParts'
<1> USE DEF RequestParts
<1>1. TypeOK'
  BY ShutdownSteps DEF Drained, TypeOK, requestVars, reloadVars, Current
<1>2. Slots'
  BY SlotsKept DEF Drained, requestVars
<1>3. ASSUME NEW r \in Requests, pc[r] # "none"
      PROVE  age[r] >= MaxTotal + Margin
  <2>1. drain = 0 /\ stage = "draining"
    BY <1>3 DEF Drained, InFlight
  <2> QED
    BY <1>3, <2>1, Numbers DEF TypeOK, Budget, DrainOf
<1>4. Budget'
  <2> SUFFICES ASSUME NEW r \in Requests PROVE BudgetOf(r)' /\ DrainOf(r)'
    BY DEF Budget
  <2>1. age[r] \in Nat /\ left[r] \in Nat
    BY DEF TypeOK
  <2>2. BudgetOf(r)'
    BY DEF Drained, requestVars, Budget, BudgetOf, Reading
  <2>3. DrainOf(r)'
    BY <1>3, <2>1, Numbers, ShutdownSteps DEF Drained, requestVars, DrainOf, Reading
  <2> QED
    BY <2>2, <2>3
<1> QED
  BY <1>1, <1>2, <1>4

LEMMA StopParts ==
  ASSUME RequestParts, StopNext
  PROVE  RequestParts'
<1> USE DEF RequestParts
<1>1. PICK i \in 1..4 : stage = Steps[i] /\ stage' = Steps[i + 1]
  BY ShutdownSteps DEF StopNext
<1>2. /\ stage \notin {"serving", "draining"} /\ stage' \notin {"serving", "draining"}
      /\ stage' \in {Steps[j] : j \in DOMAIN Steps}
  BY <1>1, ShutdownSteps
<1>3. TypeOK'
  BY <1>2 DEF StopNext, TypeOK, requestVars, reloadVars, Current
<1>4. Slots'
  BY SlotsKept DEF StopNext, requestVars
<1>5. Budget'
  BY <1>2 DEF StopNext, requestVars, Budget, BudgetOf, DrainOf, Reading
<1> QED
  BY <1>3, <1>4, <1>5

(* A tick takes as much from the drain as from every request in flight.    *)
LEMMA TickParts ==
  ASSUME RequestParts, Tick
  PROVE  RequestParts'
<1> USE DEF RequestParts
<1>1. \A r \in Requests :
        /\ pc[r] # "none" => left[r] > 0 /\ age'[r] = age[r] + 1 /\ left'[r] = left[r] - 1
        /\ pc[r] = "none" => age'[r] = 0 /\ left'[r] = 0
  BY DEF Tick, InFlight
<1>2. age' \in [Requests -> Nat] /\ left' \in [Requests -> Nat]
  BY <1>1 DEF Tick, TypeOK, InFlight
<1>3. drain' \in 0..(MaxTotal + Margin)
  BY Numbers DEF Tick, TypeOK
<1>4. TypeOK'
  BY <1>2, <1>3 DEF Tick, TypeOK, reloadVars, Current
<1>5. Slots'
  BY SlotsKept DEF Tick
<1>6. Budget'
  <2> SUFFICES ASSUME NEW r \in Requests PROVE BudgetOf(r)' /\ DrainOf(r)'
    BY DEF Budget
  <2>1. CASE pc[r] = "none"
    BY <1>1, <2>1 DEF Tick, Budget, BudgetOf, DrainOf, Reading
  <2>2. CASE pc[r] # "none"
    <3>1. /\ age[r] \in Nat /\ left[r] \in Nat /\ left[r] > 0 /\ drain \in Nat
          /\ age'[r] = age[r] + 1 /\ left'[r] = left[r] - 1
          /\ pc' = pc /\ route' = route /\ stage' = stage
      BY <1>1, <2>2, Numbers DEF Tick, TypeOK
    <3>2. stage = "draining" => drain' = drain - 1
      BY DEF Tick
    <3> QED
      BY <2>2, <3>1, <3>2, Numbers DEF Budget, BudgetOf, DrainOf, Reading
  <2> QED
    BY <2>1, <2>2
<1> QED
  BY <1>4, <1>5, <1>6

-----------------------------------------------------------------------------
(***************************************************************************)
(* The reload.                                                             *)
(***************************************************************************)
(* Its steps leave the requests and the stage alone.                       *)
LEMMA RequestsKept ==
  ASSUME RequestParts, UNCHANGED <<requestVars, stageVars>>
  PROVE  Slots' /\ Budget'
<1> USE DEF RequestParts
<1>1. Slots'
  BY SlotsKept DEF requestVars
<1>2. Budget'
  BY DEF requestVars, stageVars, Budget, BudgetOf, DrainOf, Reading
<1> QED
  BY <1>1, <1>2

LEMMA ReloadKept ==
  ASSUME ReloadInv, UNCHANGED reloadVars
  PROVE  ReloadInv'
BY DEF ReloadInv, reloadVars, Known, Current

(* A new generation is appended: the earlier ones stay what they are.      *)
LEMMA EditInv ==
  ASSUME ServerInv, Edit
  PROVE  TypeOK' /\ ReloadInv'
<1> USE DEF ServerInv
<1>1. PICK k \in Kinds : files' = Append(files, k)
  BY DEF Edit
<1>2. /\ files \in Seq(Kinds) /\ Len(files) \in Nat /\ Len(files) <= MaxEdits
      /\ files' \in Seq(Kinds) /\ Len(files') = Len(files) + 1
      /\ \A i \in 1..Len(files) : files'[i] = files[i]
  BY <1>1 DEF Edit, TypeOK, Current, Generations
<1>3. TypeOK'
  <2>1. Current' \in Generations
    BY <1>2, Numbers DEF Current, Generations
  <2> QED
    BY <1>2, <2>1 DEF Edit, TypeOK, requestVars, stageVars
<1>4. Known \subseteq Known' /\ \A g \in Known : files'[g] = files[g]
  BY <1>2 DEF Known, Current
<1>5. ReloadInv'
  BY <1>4 DEF Edit, ReloadInv
<1> QED
  BY <1>3, <1>5

LEMMA SignalInv ==
  ASSUME ServerInv, Signal \/ TakeSignal
  PROVE  TypeOK' /\ ReloadInv'
BY DEF ServerInv, Signal, TakeSignal, ReloadStep, TypeOK, ReloadInv, requestVars, stageVars, Known, Current

LEMMA LoadInv ==
  ASSUME ServerInv, LoadConfig \/ validateReload
  PROVE  TypeOK' /\ ReloadInv'
<1> USE DEF ServerInv
<1>1. Current \in Known /\ Current \in Generations /\ files[Current] \in Kinds
  BY DEF TypeOK, Known, Current, Generations
<1>2. loaded \in Known /\ files[loaded] \in Kinds
  BY DEF TypeOK, ReloadInv, Known, Current
<1>3. CASE LoadConfig
  BY <1>1, <1>3 DEF LoadConfig, ReloadStep, TypeOK, ReloadInv, requestVars, stageVars, Known, Current
<1>4. CASE validateReload
  BY <1>2, <1>4
     DEF validateReload, ReloadStep, TypeOK, ReloadInv, requestVars, stageVars, Known, Current, Kinds
<1> QED
  BY <1>3, <1>4

LEMMA ApplyInv ==
  ASSUME ServerInv, ReloadMX \/ ReloadDeliverer \/ Swap
  PROVE  TypeOK' /\ ReloadInv'
<1> USE DEF ServerInv
<1>1. CASE ReloadMX
  <2>1. CASE Stale # {} /\ (\E s \in Stale : mx' = [mx EXCEPT ![s] = loaded]) /\ ReloadStep("mx", "mx")
    <3>1. PICK s \in Settings : mx' = [mx EXCEPT ![s] = loaded]
      BY <2>1 DEF Stale
    <3> QED
      BY <1>1, <2>1, <3>1
         DEF ReloadMX, ReloadStep, TypeOK, ReloadInv, requestVars, stageVars, Known, Current
  <2>2. CASE Stale = {} /\ ReloadStep("mx", "deliverer") /\ UNCHANGED mx
    <3>1. \A s \in Settings : mx[s] = loaded
      BY <2>2 DEF Stale
    <3> QED
      BY <1>1, <2>2, <3>1
         DEF ReloadMX, ReloadStep, TypeOK, ReloadInv, requestVars, stageVars, Known, Current
  <2> QED
    BY <1>1, <2>1, <2>2 DEF ReloadMX
<1>2. CASE ReloadDeliverer \/ Swap
  BY <1>2
     DEF ReloadDeliverer, Swap, ReloadStep, TypeOK, ReloadInv, requestVars, stageVars, Known, Current
<1> QED
  BY <1>1, <1>2

-----------------------------------------------------------------------------
LEMMA ServerNext == ServerInv /\ [Next]_vars => ServerInv'
<1> SUFFICES ASSUME ServerInv, [Next]_vars PROVE ServerInv'
  OBVIOUS
<1> USE DEF ServerInv, RequestParts
<1>1. CASE \E r \in Requests : (\E p \in Routes : Arrive(r, p)) \/ Handle(r)
  <2>1. PICK r \in Requests : (\E p \in Routes : Arrive(r, p)) \/ Handle(r)
    BY <1>1
  <2>2. CASE \E p \in Routes : Arrive(r, p)
    BY <2>2, ArriveParts, ReloadKept DEF Arrive
  <2>3. CASE Handle(r)
    BY <2>3, HandleParts, ReloadKept
  <2> QED
    BY <2>1, <2>2, <2>3
<1>2. CASE Terminate \/ Drained \/ StopNext \/ Tick
  <2>1. UNCHANGED reloadVars
    BY <1>2 DEF Terminate, Drained, StopNext, Tick
  <2>2. RequestParts'
    BY <1>2, TerminateParts, DrainedParts, StopParts, TickParts
  <2> QED
    BY <2>1, <2>2, ReloadKept
<1>3. CASE Edit
  BY <1>3, EditInv, RequestsKept DEF Edit
<1>4. CASE Signal \/ TakeSignal
  BY <1>4, SignalInv, RequestsKept DEF Signal, TakeSignal, ReloadStep
<1>5. CASE LoadConfig \/ validateReload
  BY <1>5, LoadInv, RequestsKept DEF LoadConfig, validateReload, ReloadStep
<1>6. CASE ReloadMX \/ ReloadDeliverer \/ Swap
  BY <1>6, ApplyInv, RequestsKept DEF ReloadMX, ReloadDeliverer, Swap, ReloadStep
<1>7. CASE UNCHANGED vars
  <2>1. TypeOK'
    BY <1>7 DEF vars, requestVars, stageVars, reloadVars, TypeOK, Current
  <2> QED
    BY <1>7, <2>1, RequestsKept, ReloadKept DEF vars
<1> QED
  BY <1>1, <1>2, <1>3, <1>4, <1>5, <1>6, <1>7 DEF Next, Reload, Main

LEMMA ServerInvariant == Spec => []ServerInv
BY ServerInit, ServerNext, PTL DEF Spec

-----------------------------------------------------------------------------
(***************************************************************************)
(* The results.                                                            *)
(***************************************************************************)
(* Every variable keeps its type: in particular the counter of a route     *)
(* never goes below zero, so ConcurrencyLimitMiddleware's deferred receive *)
(* always finds a slot to take back and no handler blocks on it.           *)
THEOREM TypeCorrect == Spec => []TypeOK
BY ServerInvariant, PTL DEF ServerInv

(* The slots taken of a route are exactly those of the requests between    *)
(* ConcurrencyLimitMiddleware and their answer, whatever refusals, panics  *)
(* and shutdown do.                                                        *)
THEOREM SlotsAreExact == Spec => []SlotsMatchRequests
<1>1. ServerInv => SlotsMatchRequests
  BY Numbers DEF ServerInv, TypeOK, Slots, Holders, Serving, SlotsMatchRequests
<1> QED
  BY <1>1, ServerInvariant, PTL

(* server.Shutdown cuts off only requests whose body took the margin to    *)
(* read, and a write timeout that exceeds a delivery by the read timeout   *)
(* does not pass before a delivery ends, for all timeouts.                 *)
THEOREM AnswersReachCallers == Spec => []NoAnswerLost
<1>1. ServerInv => NoAnswerLost
  <2> SUFFICES ASSUME ServerInv, NEW r \in Requests, pc[r] # "none"
               PROVE  /\ stage \notin {"serving", "draining"} => ReadingTime(r) >= Margin
                      /\ ReadTimeout + MaxTotal <= WriteTimeout /\ pc[r] = "delivering"
                           => age[r] <= WriteTimeout
    BY DEF NoAnswerLost, InFlight
  <2>1. /\ age[r] \in Nat /\ left[r] \in Nat
        /\ pc[r] \in {"arrived", "body", "delivering"}
    BY DEF ServerInv, TypeOK
  <2> QED
    BY <2>1, Numbers DEF ServerInv, Budget, BudgetOf, DrainOf, Reading, ReadingTime
<1> QED
  BY <1>1, ServerInvariant, PTL

(* A read timeout below the margin of the drain is enough for the drain to *)
(* cut nobody off: when main goes on to stop its parts, every request has  *)
(* been answered.                                                          *)
THEOREM ShortBodiesAreDrained ==
  ASSUME ReadTimeout < Margin
  PROVE  Spec => [](stage \notin {"serving", "draining"} => InFlight = {})
<1>1. ServerInv => (stage \notin {"serving", "draining"} => InFlight = {})
  <2> SUFFICES ASSUME ServerInv, stage \notin {"serving", "draining"},
                      NEW r \in Requests, pc[r] # "none"
               PROVE  FALSE
    BY DEF InFlight
  <2>1. /\ age[r] \in Nat /\ left[r] \in Nat
        /\ pc[r] \in {"arrived", "body", "delivering"}
    BY DEF ServerInv, TypeOK
  <2> QED
    BY <2>1, Numbers DEF ServerInv, Budget, BudgetOf, DrainOf, Reading
<1> QED
  BY <1>1, ServerInvariant, PTL

(* What ReloadableConfig, Deliverer and MXLookup run with comes from one   *)
(* good file between reloads, and from the old and the new one during a    *)
(* reload, for any sequence of edits and signals.  MXLookup's settings are *)
(* torn between the two only while they are being written.                 *)
THEOREM ConfigurationsAgree == Spec => []ConfigsAgree
<1>1. ServerInv => ConfigsAgree
  <2> SUFFICES ASSUME ServerInv PROVE ConfigsAgree
    OBVIOUS
  <2> USE DEF ServerInv
  <2>1. mx \in [Settings -> Generations] /\ "cacheTTLs" \in Settings
    BY DEF TypeOK, Settings
  <2>2. Range(mx) = {mx[s] : s \in Settings}
    BY <2>1 DEF Range
  <2>3. reload \in {"idle", "load", "validate", "mx", "deliverer", "swap"}
    BY DEF TypeOK
  <2>4. \A s \in Settings : mx[s] \in {config, loaded} /\ files[mx[s]] = "good"
    BY <2>3 DEF ReloadInv
  <2>5. deliverer \in {config, loaded} /\ files[deliverer] = "good" /\ files[config] = "good"
    BY <2>3 DEF ReloadInv
  <2>6. reload = "idle" => deliverer = config /\ \A s \in Settings : mx[s] = config
    BY DEF ReloadInv
  <2>7. reload # "mx" => \A s, t \in Settings : mx[s] = mx[t]
    BY <2>3 DEF ReloadInv
  <2> QED
    BY <2>1, <2>2, <2>4, <2>5, <2>6, <2>7 DEF ConfigsAgree
<1> QED
  BY <1>1, ServerInvariant, PTL

=============================================================================
