--------------------------- MODULE ConnectionPool ---------------------------
(***************************************************************************)
(* The pool of idle SMTP connections (ConnectionPool) together with the    *)
(* requests that use it: attemptDelivery takes a connection out, checks it *)
(* with NOOP outside the pool's lock, runs a transaction on it under a     *)
(* context hook that closes it, and puts it back. A cleanup goroutine and  *)
(* the shutdown run beside them.                                           *)
(*                                                                         *)
(* Each action is one critical section of the pool or one step of a        *)
(* request. Time is the age of an idle connection, counted up to the first *)
(* value beyond the TTL. Put reads the clock inside the lock, so the slice *)
(* of a key is sorted by time and its last element is the youngest: the    *)
(* slice is kept as a set and "pop the last" takes a youngest member.      *)
(***************************************************************************)
EXTENDS Naturals, FiniteSets, Sequences

CONSTANTS
    Keys,            \* pool keys, "mxHost|sourceIP"
    Conns,           \* connection objects; one is used again once it is gone
    Workers,         \* requests in progress
    None,            \* no connection
    MaxIdle,         \* maxIdle, idle connections per key
    TTL              \* ttl, in ticks

ASSUME ConstantsAssumption ==
    /\ None \notin Conns
    /\ IsFiniteSet(Conns)
    /\ MaxIdle \in Nat \ {0}
    /\ TTL \in Nat \ {0}

VARIABLES
    idle,      \* connections[key] of the pool
    age,       \* ticks since an idle connection was put back, 0 for others
    open,      \* connections not closed on this side
    dead,      \* those the remote side has dropped
    pc,        \* where each request is
    key,       \* the pool key of its current attempt
    cur,       \* the connection it holds
    reused,    \* did that connection come from the pool?
    hook,      \* the connection its armed AfterFunc hook would close
    ctxDone,   \* has its context ended?
    closing,   \* connections a started hook is about to close
    left,      \* connections left open by a QUIT that failed
    mu,        \* does CloseAll hold the pool's lock?
    cleaner,   \* the cleanup goroutine: in its select ("running"), on its way
               \* into cleanupExpired ("ticked") or "exited"
    stop,      \* how server.Shutdown ended: "no" (not yet), "drained", "timedOut"
    closer     \* how many of its steps CloseAll has made

poolVars == <<idle, age>>
reqVars == <<pc, key, cur, reused, hook, ctxDone>>
stopVars == <<mu, cleaner, stop, closer>>
vars == <<idle, age, open, dead, pc, key, cur, reused, hook, ctxDone, closing, left,
          mu, cleaner, stop, closer>>

(* Mutant of CloseAllSteps: the lock is taken before the wait.             *)
CloseAllStepsLockFirst == <<"lock", "join", "close">>

(* CloseAll once it has closed stopCh: it waits for the cleanup goroutine, *)
(* takes the lock, closes what is idle and gives the lock back.            *)
CloseAllSteps == <<"join", "lock", "close">>

Closed == Len(CloseAllSteps)

TypeOK ==
    /\ idle \in [Keys -> SUBSET Conns]
    /\ age \in [Conns -> 0..(TTL + 1)]
    /\ open \subseteq Conns
    /\ dead \subseteq Conns
    /\ pc \in [Workers -> {"idle", "get", "noop", "dial", "begin", "use", "handback", "put", "quit",
                        "between"}]
    /\ key \in [Workers -> Keys]
    /\ cur \in [Workers -> Conns \cup {None}]
    /\ reused \in [Workers -> BOOLEAN]
    /\ hook \in [Workers -> Conns \cup {None}]
    /\ ctxDone \in [Workers -> BOOLEAN]
    /\ closing \subseteq Conns
    /\ left \subseteq Conns
    /\ mu \in BOOLEAN
    /\ cleaner \in {"running", "ticked", "exited"}
    /\ stop \in {"no", "drained", "timedOut"}
    /\ closer \in 0..Closed

Init ==
    /\ idle = [k \in Keys |-> {}]
    /\ age = [c \in Conns |-> 0]
    /\ open = {} /\ dead = {} /\ closing = {} /\ left = {}
    /\ pc = [w \in Workers |-> "idle"]
    /\ key \in [Workers -> Keys]
    /\ cur = [w \in Workers |-> None]
    /\ reused = [w \in Workers |-> FALSE]
    /\ hook = [w \in Workers |-> None]
    /\ ctxDone = [w \in Workers |-> FALSE]
    /\ mu = FALSE
    /\ cleaner = "running"
    /\ stop = "no"
    /\ closer = 0

Expired(c) == age[c] > TTL

AllIdle == UNION {idle[k] : k \in Keys}

Held == {cur[w] : w \in Workers} \ {None}

(* Close of the connections S; what the remote side did to them no longer  *)
(* matters, nor does their age.                                            *)
Close(S) ==
    /\ open' = open \ S
    /\ dead' = dead \ S
    /\ age' = [c \in Conns |-> IF c \in S THEN 0 ELSE age[c]]

-----------------------------------------------------------------------------
(***************************************************************************)
(* A request: one or more attempts, each on a key of its own.              *)
(***************************************************************************)
Request(w, k) ==
    /\ pc[w] = "idle" /\ stop = "no"
    /\ pc' = [pc EXCEPT ![w] = "get"]
    /\ key' = [key EXCEPT ![w] = k]
    /\ ctxDone' = [ctxDone EXCEPT ![w] = FALSE]
    /\ UNCHANGED <<poolVars, open, dead, cur, reused, hook, closing, left, stopVars>>

(* The next source IP or MX host, under the same context.                  *)
NextAttempt(w, k) ==
    /\ pc[w] = "between"
    /\ pc' = [pc EXCEPT ![w] = "get"]
    /\ key' = [key EXCEPT ![w] = k]
    /\ UNCHANGED <<poolVars, open, dead, cur, reused, hook, ctxDone, closing, left, stopVars>>

(* The handler answers; its deferred cancel starts a hook left armed.      *)
Respond(w) ==
    /\ pc[w] = "between"
    /\ pc' = [pc EXCEPT ![w] = "idle"]
    /\ ctxDone' = [ctxDone EXCEPT ![w] = TRUE]
    /\ closing' = closing \cup ({hook[w]} \ {None})
    /\ hook' = [hook EXCEPT ![w] = None]
    /\ UNCHANGED <<poolVars, open, dead, key, cur, reused, left, stopVars>>

(* Mutant of Pop: the candidate is looked up and left in the slice.        *)
PopWithoutRemoval(w) ==
    /\ pc[w] = "get" /\ ~mu
    /\ IF \E c \in idle[key[w]] : ~Expired(c)
       THEN \E c \in idle[key[w]] :
                /\ cur' = [cur EXCEPT ![w] = c]
                /\ pc' = [pc EXCEPT ![w] = "noop"]
       ELSE pc' = [pc EXCEPT ![w] = "dial"] /\ UNCHANGED cur
    /\ UNCHANGED <<poolVars, open, dead, key, reused, hook, ctxDone, closing, left, stopVars>>

(* popCandidate, under the lock: the youngest connection of the key unless *)
(* it has expired, and then the others have too and all are closed.        *)
Pop(w) ==
    /\ pc[w] = "get" /\ ~mu
    /\ LET fresh == {c \in idle[key[w]] : ~Expired(c)}
       IN  \/ \E c \in fresh :
                /\ \A d \in fresh : age[c] <= age[d]
                /\ idle' = [idle EXCEPT ![key[w]] = @ \ {c}]
                /\ cur' = [cur EXCEPT ![w] = c]
                /\ age' = [age EXCEPT ![c] = 0]
                /\ pc' = [pc EXCEPT ![w] = "noop"]
                /\ UNCHANGED <<open, dead>>
           \/ /\ fresh = {}
              /\ idle' = [idle EXCEPT ![key[w]] = {}]
              /\ Close(idle[key[w]])
              /\ pc' = [pc EXCEPT ![w] = "dial"]
              /\ UNCHANGED cur
    /\ UNCHANGED <<key, reused, hook, ctxDone, closing, left, stopVars>>

(* Get probes the candidate outside the lock; a dead one is closed and the *)
(* next one tried.                                                         *)
Noop(w) ==
    /\ pc[w] = "noop"
    /\ \/ /\ cur[w] \in open \ dead
          /\ pc' = [pc EXCEPT ![w] = "begin"]
          /\ reused' = [reused EXCEPT ![w] = TRUE]
          /\ UNCHANGED <<age, open, dead, cur>>
       \/ /\ Close({cur[w]})
          /\ cur' = [cur EXCEPT ![w] = None]
          /\ pc' = [pc EXCEPT ![w] = "get"]
          /\ UNCHANGED reused
    /\ UNCHANGED <<idle, key, hook, ctxDone, closing, left, stopVars>>

(* dialAndHello, as far as the pool is concerned: a new connection or none.*)
Dial(w) ==
    /\ pc[w] = "dial"
    /\ \/ \E c \in Conns \ (open \cup closing \cup Held) :
            /\ open' = open \cup {c}
            /\ dead' = dead \ {c}
            /\ cur' = [cur EXCEPT ![w] = c]
            /\ reused' = [reused EXCEPT ![w] = FALSE]
            /\ pc' = [pc EXCEPT ![w] = "begin"]
       \/ /\ pc' = [pc EXCEPT ![w] = "between"]
          /\ UNCHANGED <<open, dead, cur, reused>>
    /\ UNCHANGED <<poolVars, key, hook, ctxDone, closing, left, stopVars>>

(***************************************************************************)
(* performDeliveryTransaction. Drop closes the connection, after stopping  *)
(* the hook if it has not started.                                         *)
(***************************************************************************)
Drop(w, next) ==
    /\ Close({cur[w]})
    /\ cur' = [cur EXCEPT ![w] = None]
    /\ reused' = [reused EXCEPT ![w] = FALSE]
    /\ hook' = [hook EXCEPT ![w] = None]
    /\ pc' = [pc EXCEPT ![w] = next]
    /\ UNCHANGED <<idle, key, ctxDone, closing, left, stopVars>>

Begin(w) ==
    /\ pc[w] = "begin"
    /\ \/ ctxDone[w] /\ Drop(w, "between")
       \/ /\ ~ctxDone[w]
          /\ hook' = [hook EXCEPT ![w] = cur[w]]
          /\ pc' = [pc EXCEPT ![w] = "use"]
          /\ UNCHANGED <<poolVars, open, dead, key, cur, reused, ctxDone, closing, left, stopVars>>

(* The transaction fails; on a pooled connection attemptDelivery may try   *)
(* again on a fresh one.                                                   *)
TransactionFails(w) ==
    /\ pc[w] = "use"
    /\ Drop(w, "between") \/ (reused[w] /\ Drop(w, "dial"))

TransactionSucceeds(w) ==
    /\ pc[w] = "use" /\ cur[w] \in open \ dead
    /\ pc' = [pc EXCEPT ![w] = "handback"]
    /\ UNCHANGED <<poolVars, open, dead, key, cur, reused, hook, ctxDone, closing, left, stopVars>>

(* Mutant of HandBack: Put without calling stop().                         *)
HandBackHooked(w) ==
    /\ pc[w] = "handback"
    /\ \/ /\ cur[w] \in open \ dead
          /\ pc' = [pc EXCEPT ![w] = "put"]
          /\ UNCHANGED hook
       \/ /\ hook' = [hook EXCEPT ![w] = None]
          /\ pc' = [pc EXCEPT ![w] = "quit"]
    /\ UNCHANGED <<poolVars, open, dead, key, cur, reused, ctxDone, closing, left, stopVars>>

(* After RSET: stop() and, if the hook had not started and RSET worked,    *)
(* Put; else Quit.                                                         *)
HandBack(w) ==
    /\ pc[w] = "handback"
    /\ hook' = [hook EXCEPT ![w] = None]
    /\ \/ /\ hook[w] # None /\ cur[w] \in open \ dead
          /\ pc' = [pc EXCEPT ![w] = "put"]
       \/ pc' = [pc EXCEPT ![w] = "quit"]
    /\ UNCHANGED <<poolVars, open, dead, key, cur, reused, ctxDone, closing, left, stopVars>>

(* client.Quit closes the connection once QUIT is answered. If it is not,  *)
(* the error is ignored and the connection is left as it is.               *)
Quit(w) ==
    /\ pc[w] = "quit"
    /\ \/ cur[w] \in open \ dead /\ Drop(w, "between")
       \/ /\ left' = left \cup (open \cap {cur[w]})
          /\ cur' = [cur EXCEPT ![w] = None]
          /\ reused' = [reused EXCEPT ![w] = FALSE]
          /\ pc' = [pc EXCEPT ![w] = "between"]
          /\ UNCHANGED <<poolVars, open, dead, key, hook, ctxDone, closing, stopVars>>

(* Mutants of Put: off by one at the limit; at the limit the connection is *)
(* neither kept nor closed.                                                *)
PutOffByOne(w) ==
    /\ pc[w] = "put" /\ ~mu
    /\ idle' = [idle EXCEPT ![key[w]] = IF Cardinality(@) > MaxIdle THEN @ ELSE @ \cup {cur[w]}]
    /\ age' = [age EXCEPT ![cur[w]] = 0]
    /\ cur' = [cur EXCEPT ![w] = None]
    /\ reused' = [reused EXCEPT ![w] = FALSE]
    /\ pc' = [pc EXCEPT ![w] = "between"]
    /\ UNCHANGED <<open, dead, key, hook, ctxDone, closing, left, stopVars>>

PutForgets(w) ==
    /\ pc[w] = "put" /\ ~mu
    /\ idle' = [idle EXCEPT ![key[w]] = IF Cardinality(@) >= MaxIdle THEN @ ELSE @ \cup {cur[w]}]
    /\ age' = [age EXCEPT ![cur[w]] = 0]
    /\ cur' = [cur EXCEPT ![w] = None]
    /\ reused' = [reused EXCEPT ![w] = FALSE]
    /\ pc' = [pc EXCEPT ![w] = "between"]
    /\ UNCHANGED <<open, dead, key, hook, ctxDone, closing, left, stopVars>>

(* Put, under the lock: keep the connection unless the key is full.        *)
Put(w) ==
    /\ pc[w] = "put" /\ ~mu
    /\ IF Cardinality(idle[key[w]]) >= MaxIdle
       THEN Close({cur[w]}) /\ UNCHANGED idle
       ELSE /\ idle' = [idle EXCEPT ![key[w]] = @ \cup {cur[w]}]
            /\ age' = [age EXCEPT ![cur[w]] = 0]
            /\ UNCHANGED <<open, dead>>
    /\ cur' = [cur EXCEPT ![w] = None]
    /\ reused' = [reused EXCEPT ![w] = FALSE]
    /\ pc' = [pc EXCEPT ![w] = "between"]
    /\ UNCHANGED <<key, hook, ctxDone, closing, left, stopVars>>

(***************************************************************************)
(* The context of a request ends; the hook, if armed, starts and closes    *)
(* its connection when its goroutine gets to run.                          *)
(***************************************************************************)
ContextEnds(w) ==
    /\ pc[w] # "idle" /\ ~ctxDone[w]
    /\ ctxDone' = [ctxDone EXCEPT ![w] = TRUE]
    /\ closing' = closing \cup ({hook[w]} \ {None})
    /\ hook' = [hook EXCEPT ![w] = None]
    /\ UNCHANGED <<poolVars, open, dead, pc, key, cur, reused, left, stopVars>>

HookCloses(c) ==
    /\ c \in closing
    /\ closing' = closing \ {c}
    /\ left' = left \ {c}
    /\ Close({c})
    /\ UNCHANGED <<idle, reqVars, stopVars>>

RemoteDrops(c) ==
    /\ c \in open \ (dead \cup left)
    /\ dead' = dead \cup {c}
    /\ UNCHANGED <<poolVars, open, reqVars, closing, left, stopVars>>

(* Nobody refers to a connection that was left open: the finalizer of the  *)
(* Go runtime closes it at some collection.                                *)
Collect(c) ==
    /\ c \in left \ closing
    /\ left' = left \ {c}
    /\ Close({c})
    /\ UNCHANGED <<idle, reqVars, closing, stopVars>>

-----------------------------------------------------------------------------
(***************************************************************************)
(* Time, the cleanup goroutine and CloseAll.                               *)
(***************************************************************************)
Tick ==
    /\ \E c \in AllIdle : ~Expired(c)
    /\ age' = [c \in Conns |-> IF c \in AllIdle /\ ~Expired(c) THEN age[c] + 1 ELSE age[c]]
    /\ UNCHANGED <<idle, open, dead, reqVars, closing, left, stopVars>>

(* The cleanup goroutine's select: the ticker fires.                       *)
TickerFires ==
    /\ cleaner = "running"
    /\ cleaner' = "ticked"
    /\ UNCHANGED <<poolVars, open, dead, reqVars, closing, left, mu, stop, closer>>

(* Mutant of cleanupExpired: connections older than twice the TTL only,    *)
(* an age that is never reached here.                                      *)
cleanupExpiredLate ==
    /\ cleaner = "ticked" /\ ~mu
    /\ idle' = [k \in Keys |-> {c \in idle[k] : age[c] <= 2 * TTL}]
    /\ Close({c \in AllIdle : age[c] > 2 * TTL})
    /\ cleaner' = "running"
    /\ UNCHANGED <<reqVars, closing, left, mu, stop, closer>>

(* cleanupExpired, under the lock.                                         *)
cleanupExpired ==
    /\ cleaner = "ticked" /\ ~mu
    /\ idle' = [k \in Keys |-> {c \in idle[k] : ~Expired(c)}]
    /\ Close({c \in AllIdle : Expired(c)})
    /\ cleaner' = "running"
    /\ UNCHANGED <<reqVars, closing, left, mu, stop, closer>>

(* main: server.Shutdown waits for the handlers up to the drain timeout,   *)
(* then Deliverer.Stop calls CloseAll, which signals the cleanup goroutine.*)
StopSignal ==
    /\ stop = "no"
    /\ stop' = IF \A w \in Workers : pc[w] = "idle" THEN "drained" ELSE "timedOut"
    /\ UNCHANGED <<poolVars, open, dead, reqVars, closing, left, mu, cleaner, closer>>

(* The select sees stopCh, if the goroutine is not busy cleaning up.       *)
CleanerExits ==
    /\ stop # "no" /\ cleaner = "running"
    /\ cleaner' = "exited"
    /\ UNCHANGED <<poolVars, open, dead, reqVars, closing, left, mu, stop, closer>>

(* CloseAll makes its next step, which is st.                              *)
CloserAt(st) ==
    /\ stop # "no" /\ closer < Closed
    /\ CloseAllSteps[closer + 1] = st
    /\ closer' = closer + 1

(* <-cleanupDone: the goroutine's deferred close has run.                  *)
CloseAllJoins ==
    /\ CloserAt("join")
    /\ cleaner = "exited"
    /\ UNCHANGED <<poolVars, open, dead, reqVars, closing, left, mu, cleaner, stop>>

CloseAllLocks ==
    /\ CloserAt("lock")
    /\ ~mu
    /\ mu' = TRUE
    /\ UNCHANGED <<poolVars, open, dead, reqVars, closing, left, cleaner, stop>>

(* Mutant of CloseAll: nothing is closed.                                  *)
CloseAllNoClose ==
    /\ CloserAt("close")
    /\ mu' = FALSE
    /\ UNCHANGED <<poolVars, open, dead, reqVars, closing, left, cleaner, stop>>

CloseAll ==
    /\ CloserAt("close")
    /\ mu' = FALSE
    /\ idle' = [k \in Keys |-> {}]
    /\ Close(AllIdle)
    /\ UNCHANGED <<reqVars, closing, left, cleaner, stop>>

RequestStep(w) ==
    \/ \E k \in Keys : Request(w, k) \/ NextAttempt(w, k)
    \/ Respond(w) \/ Pop(w) \/ Noop(w) \/ Dial(w) \/ Begin(w)
    \/ TransactionFails(w) \/ TransactionSucceeds(w) \/ HandBack(w) \/ Put(w) \/ Quit(w)
    \/ ContextEnds(w)

StopStep == StopSignal \/ CleanerExits \/ CloseAllJoins \/ CloseAllLocks \/ CloseAll

Next ==
    \/ \E w \in Workers : RequestStep(w)
    \/ \E c \in Conns : HookCloses(c) \/ RemoteDrops(c) \/ Collect(c)
    \/ Tick \/ TickerFires \/ cleanupExpired \/ StopStep

Spec == Init /\ [][Next]_vars

(***************************************************************************)
(* Time passes, the cleanup ticker fires, cleanupExpired and CloseAll get  *)
(* the lock when it is free. Go's select chooses at random among what is   *)
(* ready, so the goroutine cannot overlook stopCh for ever: it is back in  *)
(* its select again and again, hence strong fairness. Requests are not     *)
(* assumed to finish.                                                      *)
(***************************************************************************)
FairSpec ==
    /\ Spec
    /\ WF_vars(Tick) /\ WF_vars(TickerFires) /\ WF_vars(cleanupExpired)
    /\ SF_vars(CleanerExits)
    /\ WF_vars(CloseAllJoins \/ CloseAllLocks \/ CloseAll)

-----------------------------------------------------------------------------
(***************************************************************************)
(* Properties.                                                             *)
(***************************************************************************)
(* No connection is used by two requests at once, is idle under two keys,  *)
(* or is idle and in use: two deliveries never interleave their commands.  *)
ExclusiveOwner ==
    /\ \A v, w \in Workers : cur[v] = cur[w] /\ cur[v] # None => v = w
    /\ \A j, k \in Keys : idle[j] \cap idle[k] # {} => j = k
    /\ Held \cap AllIdle = {}

(* Whatever the pool holds is open on this side, and no started hook is    *)
(* about to close it: the context of a finished request cannot reach a     *)
(* connection that is in the pool.                                         *)
IdleIsOpen == AllIdle \subseteq open \ closing

(* Every open connection is in the pool, in a request or about to be       *)
(* closed by a hook that has started, with one exception: after a delivery *)
(* the QUIT of performDeliveryTransaction failed, and the connection stays *)
(* open without an owner until the garbage collector finds it.             *)
NoLeak == open \subseteq AllIdle \cup Held \cup closing \cup left

(* The per-key limit holds whatever the requests and the cleanup do.       *)
IdleBound == \A k \in Keys : Cardinality(idle[k]) <= MaxIdle

(* After an orderly shutdown nothing stays in the pool. When the drain     *)
(* timed out, a request that is still running may put one back.            *)
StoppedPoolIsEmpty == stop = "drained" /\ closer = Closed => AllIdle = {}

(* No connection stays in the pool for ever: it is taken out, expires and  *)
(* is closed by the cleanup, or is closed by CloseAll. Only a request that *)
(* the shutdown overtook can put one where nobody looks any more.          *)
IdleLeavesPool ==
    \A c \in Conns : (c \in AllIdle) ~> (c \notin AllIdle \/ (stop = "timedOut" /\ closer = Closed))

(* CloseAll ends: it never waits for a cleanup goroutine that itself waits *)
(* for the lock, wherever the signal finds that goroutine.                 *)
StopCompletes == (stop # "no") ~> (closer = Closed)
=============================================================================
