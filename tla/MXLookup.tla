------------------------------ MODULE MXLookup ------------------------------
(***************************************************************************)
(* MXLookup.Lookup for one domain: the cache of positive and negative      *)
(* results, the singleflight group that lets concurrent callers share one  *)
(* DNS query, and the goroutine each caller starts so that it can leave    *)
(* when its context ends. Domains share nothing but the mutex of the       *)
(* group, so one domain is enough.                                         *)
(*                                                                         *)
(* An answer is "records", "noMX" (errNoMXRecords) or "fail" (a transient  *)
(* resolver error). The order of the records is left out.                  *)
(***************************************************************************)
EXTENDS Naturals, FiniteSets

CONSTANTS
    Lookups,     \* the calls of Lookup, each made once
    None         \* no call

ASSUME ConstantsAssumption == None \notin Lookups

VARIABLES
    pc,        \* where each caller is
    ctxDone,   \* has its context ended?
    res,       \* what Lookup returned to it; "empty" is nil records, nil error
    gr,        \* where the goroutine it started is
    joined,    \* the call that goroutine waits for
    ch,        \* the result channel between the two
    call,      \* the group's entry for the domain: the lookup that leads it
    answer,    \* val and err of the call a lookup leads
    wgDone,    \* the calls whose WaitGroup is done
    entry,     \* the cached answer, or "none"
    live,      \* is it within its TTL?
    sweeper    \* CleanupExpiredCache: "idle", or "deleting" what it saw expired

callerVars == <<pc, ctxDone, res>>
groupVars == <<gr, joined, ch, call, answer, wgDone>>
cacheVars == <<entry, live>>
vars == <<callerVars, groupVars, cacheVars, sweeper>>

Answers == {"records", "noMX", "fail"}

TypeOK ==
    /\ pc \in [Lookups -> {"new", "read", "expired", "select", "done"}]
    /\ ctxDone \in [Lookups -> BOOLEAN]
    /\ res \in [Lookups -> {"none", "empty", "ctx"} \cup Answers]
    /\ gr \in [Lookups -> {"none", "do", "mx", "host", "store", "done", "release", "wait", "exited", "panicked"}]
    /\ joined \in [Lookups -> Lookups \cup {None}]
    /\ ch \in [Lookups -> {"none"} \cup Answers]
    /\ call \in Lookups \cup {None}
    /\ answer \in [Lookups -> {"none"} \cup Answers]
    /\ wgDone \subseteq Lookups
    /\ entry \in {"none"} \cup Answers
    /\ live \in BOOLEAN
    /\ sweeper \in {"idle", "deleting"}

Init ==
    /\ pc = [l \in Lookups |-> "new"]
    /\ ctxDone = [l \in Lookups |-> FALSE]
    /\ res = [l \in Lookups |-> "none"]
    /\ gr = [l \in Lookups |-> "none"]
    /\ joined = [l \in Lookups |-> None]
    /\ ch = [l \in Lookups |-> "none"]
    /\ call = None
    /\ answer = [l \in Lookups |-> "none"]
    /\ wgDone = {}
    /\ entry = "none" /\ live = FALSE
    /\ sweeper = "idle"

-----------------------------------------------------------------------------
(***************************************************************************)
(* The caller.                                                             *)
(***************************************************************************)
Return(l, r) ==
    /\ pc' = [pc EXCEPT ![l] = "done"]
    /\ res' = [res EXCEPT ![l] = r]

Spawn(l) ==
    /\ pc' = [pc EXCEPT ![l] = "select"]
    /\ gr' = [gr EXCEPT ![l] = "do"]

(* The context is checked before any work.                                 *)
Start(l) ==
    /\ pc[l] = "new"
    /\ \/ ctxDone[l] /\ Return(l, "ctx")
       \/ /\ ~ctxDone[l]
          /\ pc' = [pc EXCEPT ![l] = "read"]
          /\ UNCHANGED res
    /\ UNCHANGED <<ctxDone, groupVars, cacheVars, sweeper>>

(* getFromCache loads the entry. A live one answers the call: a transient  *)
(* failure with its error, a missing MX with nil records and no error.     *)
Load(l) ==
    /\ pc[l] = "read"
    /\ \/ /\ entry # "none" /\ live
          /\ Return(l, IF entry = "noMX" THEN "empty" ELSE entry)
          /\ UNCHANGED gr
       \/ /\ entry # "none" /\ ~live
          /\ pc' = [pc EXCEPT ![l] = "expired"]
          /\ UNCHANGED <<res, gr>>
       \/ /\ entry = "none"
          /\ Spawn(l)
          /\ UNCHANGED res
    /\ UNCHANGED <<ctxDone, joined, ch, call, answer, wgDone, cacheVars, sweeper>>

(* ... and deletes the key if what it loaded had expired, whatever is      *)
(* stored there by now.                                                    *)
DeleteExpired(l) ==
    /\ pc[l] = "expired"
    /\ entry' = "none" /\ live' = FALSE
    /\ Spawn(l)
    /\ UNCHANGED <<ctxDone, res, joined, ch, call, answer, wgDone, sweeper>>

(* The select: the goroutine's result, or the end of the context.          *)
Receive(l) ==
    /\ pc[l] = "select" /\ ch[l] # "none"
    /\ Return(l, ch[l])
    /\ UNCHANGED <<ctxDone, groupVars, cacheVars, sweeper>>

(* Mutant of GiveUp: the caller waits for the channel alone.               *)
GiveUpNever(l) == FALSE /\ UNCHANGED vars

GiveUp(l) ==
    /\ pc[l] = "select" /\ ctxDone[l]
    /\ Return(l, "ctx")
    /\ UNCHANGED <<ctxDone, groupVars, cacheVars, sweeper>>

ContextEnds(l) ==
    /\ pc[l] # "done" /\ ~ctxDone[l]
    /\ ctxDone' = [ctxDone EXCEPT ![l] = TRUE]
    /\ UNCHANGED <<pc, res, groupVars, cacheVars, sweeper>>

-----------------------------------------------------------------------------
(***************************************************************************)
(* The goroutine: singleflightGroup.do around lookupDNS. It is not tied to *)
(* the caller's context.                                                   *)
(***************************************************************************)
(* Mutant of Do: the group is not consulted.                               *)
DoAlone(l) ==
    /\ gr[l] = "do"
    /\ call' = l
    /\ gr' = [gr EXCEPT ![l] = "mx"]
    /\ UNCHANGED <<callerVars, joined, ch, answer, wgDone, cacheVars, sweeper>>

(* Under the group's mutex: join the call in progress, or lead a new one.  *)
Do(l) ==
    /\ gr[l] = "do"
    /\ \/ /\ call # None
          /\ joined' = [joined EXCEPT ![l] = call]
          /\ gr' = [gr EXCEPT ![l] = "wait"]
          /\ UNCHANGED call
       \/ /\ call = None
          /\ call' = l
          /\ gr' = [gr EXCEPT ![l] = "mx"]
          /\ UNCHANGED joined
    /\ UNCHANGED <<callerVars, ch, answer, wgDone, cacheVars, sweeper>>

Answer(l, a) ==
    /\ answer' = [answer EXCEPT ![l] = a]
    /\ gr' = [gr EXCEPT ![l] = "store"]

(* lookupDNS: the MX query, then for a domain without MX the address query.*)
LookupMX(l) ==
    /\ gr[l] = "mx"
    /\ \/ Answer(l, "records")
       \/ Answer(l, "fail")
       \/ /\ gr' = [gr EXCEPT ![l] = "host"]
          /\ UNCHANGED answer
    /\ UNCHANGED <<callerVars, joined, ch, call, wgDone, cacheVars, sweeper>>

LookupHost(l) ==
    /\ gr[l] = "host"
    /\ \E a \in Answers : Answer(l, a)
    /\ UNCHANGED <<callerVars, joined, ch, call, wgDone, cacheVars, sweeper>>

(* Mutant of storeInCache: a transient failure is stored without its error.*)
storeInCacheNoErr(l) ==
    /\ gr[l] = "store"
    /\ entry' = (IF answer[l] = "fail" THEN "noMX" ELSE answer[l]) /\ live' = TRUE
    /\ gr' = [gr EXCEPT ![l] = "done"]
    /\ UNCHANGED <<callerVars, joined, ch, call, answer, wgDone, sweeper>>

storeInCache(l) ==
    /\ gr[l] = "store"
    /\ entry' = answer[l] /\ live' = TRUE
    /\ gr' = [gr EXCEPT ![l] = "done"]
    /\ UNCHANGED <<callerVars, joined, ch, call, answer, wgDone, sweeper>>

(* Mutant of WgDone: the waiters are never released.                       *)
WgDoneSkipped(l) ==
    /\ gr[l] = "done"
    /\ gr' = [gr EXCEPT ![l] = "release"]
    /\ UNCHANGED <<callerVars, joined, ch, call, answer, wgDone, cacheVars, sweeper>>

WgDone(l) ==
    /\ gr[l] = "done"
    /\ wgDone' = wgDone \cup {l}
    /\ gr' = [gr EXCEPT ![l] = "release"]
    /\ UNCHANGED <<callerVars, joined, ch, call, answer, cacheVars, sweeper>>

(* Mutant of Release: the key stays in the group.                          *)
ReleaseKeepsKey(l) ==
    /\ gr[l] = "release"
    /\ ch' = [ch EXCEPT ![l] = answer[l]]
    /\ gr' = [gr EXCEPT ![l] = "exited"]
    /\ UNCHANGED <<callerVars, joined, call, answer, wgDone, cacheVars, sweeper>>

(* The leader deletes the key and hands the answer to its own caller.      *)
Release(l) ==
    /\ gr[l] = "release"
    /\ call' = None
    /\ ch' = [ch EXCEPT ![l] = answer[l]]
    /\ gr' = [gr EXCEPT ![l] = "exited"]
    /\ UNCHANGED <<callerVars, joined, answer, wgDone, cacheVars, sweeper>>

(* A waiter hands the shared answer to its caller.                         *)
Wake(l) ==
    /\ gr[l] = "wait" /\ joined[l] \in wgDone
    /\ ch' = [ch EXCEPT ![l] = answer[joined[l]]]
    /\ gr' = [gr EXCEPT ![l] = "exited"]
    /\ UNCHANGED <<callerVars, joined, call, answer, wgDone, cacheVars, sweeper>>

(* A panic in the query, which SafeGo recovers: the goroutine ends, and    *)
(* neither the WaitGroup nor the key is cleaned up.                        *)
Panic(l) ==
    /\ gr[l] \in {"mx", "host"}
    /\ gr' = [gr EXCEPT ![l] = "panicked"]
    /\ UNCHANGED <<callerVars, joined, ch, call, answer, wgDone, cacheVars, sweeper>>

-----------------------------------------------------------------------------
(***************************************************************************)
(* The cache: expiry, InvalidateCache and CleanupExpiredCache, which looks *)
(* at an entry and deletes the key in two steps.                           *)
(***************************************************************************)
Expire ==
    /\ entry # "none" /\ live
    /\ live' = FALSE
    /\ UNCHANGED <<callerVars, groupVars, entry, sweeper>>

InvalidateCache ==
    /\ entry # "none"
    /\ entry' = "none" /\ live' = FALSE
    /\ UNCHANGED <<callerVars, groupVars, sweeper>>

CleanupSees ==
    /\ sweeper = "idle" /\ entry # "none" /\ ~live
    /\ sweeper' = "deleting"
    /\ UNCHANGED <<callerVars, groupVars, cacheVars>>

CleanupDeletes ==
    /\ sweeper = "deleting"
    /\ sweeper' = "idle"
    /\ entry' = "none" /\ live' = FALSE
    /\ UNCHANGED <<callerVars, groupVars>>

Caller(l) == Start(l) \/ Load(l) \/ DeleteExpired(l) \/ Receive(l) \/ GiveUp(l)

Goroutine(l) ==
    \/ Do(l) \/ LookupMX(l) \/ LookupHost(l) \/ storeInCache(l)
    \/ WgDone(l) \/ Release(l) \/ Wake(l)

Next ==
    \/ \E l \in Lookups : Caller(l) \/ Goroutine(l) \/ Panic(l) \/ ContextEnds(l)
    \/ Expire \/ InvalidateCache \/ CleanupSees \/ CleanupDeletes

Spec == Init /\ [][Next]_vars

(* Goroutines keep running and the resolver enforces its own timeout.      *)
(* Every context has a deadline: the handler makes one per request.        *)
FairSpec ==
    /\ Spec
    /\ \A l \in Lookups : WF_vars(Caller(l)) /\ WF_vars(Goroutine(l)) /\ WF_vars(ContextEnds(l))

-----------------------------------------------------------------------------
(***************************************************************************)
(* Properties.                                                             *)
(***************************************************************************)
(* Concurrent misses share one query: two goroutines never ask DNS for the *)
(* domain at the same time, whatever expires or is invalidated meanwhile.  *)
OneQueryInFlight == Cardinality({l \in Lookups : gr[l] \in {"mx", "host"}}) <= 1

(* What DeliverMessage makes of the result.                                *)
Outcome(r) ==
    CASE r \in {"empty", "noMX"} -> "hard_bounce"
      [] r \in {"fail", "ctx"} -> "temp_fail"
      [] r = "records" -> "deliver"
      [] OTHER -> "pending"

(* Mail is bounced for want of an MX only when DNS once said that the      *)
(* domain has neither MX nor address: a transient failure, cached, shared  *)
(* or interrupted, stays retryable. Likewise records come from DNS.        *)
OutcomeIsGenuine ==
    \A l \in Lookups :
        /\ Outcome(res[l]) = "hard_bounce" => \E m \in Lookups : answer[m] = "noMX"
        /\ Outcome(res[l]) = "deliver" => \E m \in Lookups : answer[m] = "records"

(* A key in the group has a goroutine at work behind it, so a later lookup *)
(* that joins it is answered; only a panic leaves a key that nobody leads. *)
KeyHasLeader == call # None => gr[call] \in {"mx", "host", "store", "done", "release", "panicked"}

(* The goroutine waits for a call whose leader panicked.                   *)
Orphaned(l) == joined[l] # None /\ gr[joined[l]] = "panicked"

(* No goroutine is left behind, even when its caller has gone, except the  *)
(* ones that wait for a call whose leader panicked.                        *)
GoroutinesEnd ==
    \A l \in Lookups : (gr[l] = "do") ~> (gr[l] \in {"exited", "panicked"} \/ Orphaned(l))

(* Lookup returns, even when a query panicked and left its key behind.     *)
LookupReturns == \A l \in Lookups : <>(pc[l] = "done")
=============================================================================
