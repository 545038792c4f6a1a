----------------------- MODULE ConnectionPool_proofs ------------------------
(***************************************************************************)
(* Proofs about ConnectionPool, for any keys, connections and requests.    *)
(*                                                                         *)
(* That a connection has one owner depends on where each request is: the   *)
(* inductive invariant adds, for every request, when it holds a connection *)
(* and when a context hook can still reach it.                             *)
(***************************************************************************)
EXTENDS ConnectionPool, FiniteSetTheorems, TLAPS

Owners ==
    /\ \A v, w \in Workers : cur[v] = cur[w] /\ cur[v] # None => v = w
    /\ \A j, k \in Keys : \A c \in Conns : c \in idle[j] /\ c \in idle[k] => j = k
    /\ \A w \in Workers : \A k \in Keys : cur[w] \notin idle[k]

IdleConns == \A k \in Keys : \A c \in idle[k] : c \in open /\ c \notin closing

(* A connection that a failed QUIT left open is nobody's.                  *)
LeftConns ==
    \A c \in left : /\ c \in open
                    /\ \A k \in Keys : c \notin idle[k]
                    /\ \A w \in Workers : cur[w] # c

Holding == {"noop", "begin", "use", "handback", "put", "quit"}

(* A request holds a connection in these places only; its hook is armed    *)
(* during the transaction only, for that connection; and no started hook   *)
(* is about to close the connection outside it.                            *)
RequestInv(w) ==
    /\ cur[w] # None <=> pc[w] \in Holding
    /\ hook[w] # None => hook[w] = cur[w] /\ pc[w] \in {"use", "handback"} /\ cur[w] \notin closing
    /\ pc[w] \in {"noop", "begin", "put"} => cur[w] \notin closing
    /\ pc[w] = "put" => cur[w] \in open

Requests == \A w \in Workers : RequestInv(w)

PoolInv == TypeOK /\ Owners /\ IdleConns /\ LeftConns /\ Requests

-----------------------------------------------------------------------------
LEMMA PoolInit == Init => PoolInv
<1> SUFFICES ASSUME Init PROVE PoolInv
  OBVIOUS
<1>1. 0 \in 0..(TTL + 1) /\ 0 \in 0..Closed
  BY ConstantsAssumption DEF ConstantsAssumption, Closed, CloseAllSteps
<1>2. TypeOK
  BY <1>1 DEF Init, TypeOK
<1>3. Owners /\ IdleConns /\ LeftConns /\ Requests
  BY DEF Init, Owners, IdleConns, LeftConns, Requests, RequestInv, Holding
<1> QED
  BY <1>2, <1>3 DEF PoolInv

(***************************************************************************)
(* Types.                                                                  *)
(***************************************************************************)
LEMMA CloseType ==
  ASSUME TypeOK, NEW S, Close(S)
  PROVE  open' \subseteq Conns /\ dead' \subseteq Conns /\ age' \in [Conns -> 0..(TTL + 1)]
BY ConstantsAssumption DEF ConstantsAssumption, TypeOK, Close

LEMMA TypeRequest ==
  ASSUME TypeOK, NEW w \in Workers, RequestInv(w), RequestStep(w)
  PROVE  TypeOK'
<1> USE DEF poolVars, stopVars
<1>0. 0 \in 0..(TTL + 1)
  BY ConstantsAssumption DEF ConstantsAssumption
<1>1. CASE \E k \in Keys : Request(w, k) \/ NextAttempt(w, k)
  <2>1. ASSUME NEW k \in Keys, Request(w, k) PROVE TypeOK'
    BY <2>1 DEF TypeOK, Request
  <2>2. ASSUME NEW k \in Keys, NextAttempt(w, k) PROVE TypeOK'
    BY <2>2 DEF TypeOK, NextAttempt
  <2> QED
    BY <1>1, <2>1, <2>2
<1>2. CASE Respond(w) \/ ContextEnds(w)
  BY <1>2 DEF TypeOK, Respond, ContextEnds
<1>3. CASE Pop(w)
  <2> DEFINE fresh == {c \in idle[key[w]] : ~Expired(c)}
  <2>1. ASSUME NEW c \in fresh,
               idle' = [idle EXCEPT ![key[w]] = @ \ {c}],
               cur' = [cur EXCEPT ![w] = c],
               age' = [age EXCEPT ![c] = 0],
               pc' = [pc EXCEPT ![w] = "noop"],
               UNCHANGED <<open, dead>>
        PROVE  TypeOK'
    <3>1. c \in Conns
      BY DEF TypeOK
    <3>2. idle' \in [Keys -> SUBSET Conns] /\ cur' \in [Workers -> Conns \cup {None}]
      BY <2>1, <3>1 DEF TypeOK
    <3>3. age' \in [Conns -> 0..(TTL + 1)]
      BY <1>0, <2>1, <3>1 DEF TypeOK
    <3> QED
      BY <1>3, <2>1, <3>2, <3>3 DEF Pop, TypeOK
  <2>2. CASE /\ idle' = [idle EXCEPT ![key[w]] = {}]
             /\ Close(idle[key[w]])
             /\ pc' = [pc EXCEPT ![w] = "dial"]
             /\ UNCHANGED cur
    BY <1>3, <2>2, CloseType DEF Pop, TypeOK
  <2> QED
    BY <1>3, <2>1, <2>2 DEF Pop
<1>4. CASE Noop(w)
  <2>1. CASE /\ pc' = [pc EXCEPT ![w] = "begin"]
             /\ reused' = [reused EXCEPT ![w] = TRUE]
             /\ UNCHANGED <<age, open, dead, cur>>
    BY <1>4, <2>1 DEF Noop, TypeOK
  <2>2. CASE /\ Close({cur[w]})
             /\ cur' = [cur EXCEPT ![w] = None]
             /\ pc' = [pc EXCEPT ![w] = "get"]
             /\ UNCHANGED reused
    BY <1>4, <2>2, CloseType DEF Noop, TypeOK
  <2> QED
    BY <1>4, <2>1, <2>2 DEF Noop
<1>5. CASE Dial(w)
  <2>1. CASE \E c \in Conns : /\ open' = open \cup {c}
                              /\ dead' = dead \ {c}
                              /\ cur' = [cur EXCEPT ![w] = c]
                              /\ reused' = [reused EXCEPT ![w] = FALSE]
                              /\ pc' = [pc EXCEPT ![w] = "begin"]
    BY <1>5, <2>1 DEF Dial, TypeOK
  <2>2. CASE pc' = [pc EXCEPT ![w] = "between"] /\ UNCHANGED <<open, dead, cur, reused>>
    BY <1>5, <2>2 DEF Dial, TypeOK
  <2> QED
    BY <1>5, <2>1, <2>2, Zenon DEF Dial
<1>6. ASSUME NEW next \in {"between", "dial"}, Drop(w, next) PROVE TypeOK'
  BY <1>6, CloseType DEF Drop, TypeOK
<1>7. CASE Begin(w)
  BY <1>6, <1>7 DEF Begin, TypeOK
<1>8. CASE TransactionFails(w)
  BY <1>6, <1>8 DEF TransactionFails
<1>9. CASE TransactionSucceeds(w)
  BY <1>9 DEF TransactionSucceeds, TypeOK
<1>10. CASE HandBack(w)
  BY <1>10 DEF HandBack, TypeOK
<1>11. CASE Quit(w)
  <2>1. CASE Drop(w, "between")
    BY <1>6, <2>1
  <2>2. CASE /\ left' = left \cup (open \cap {cur[w]})
             /\ cur' = [cur EXCEPT ![w] = None]
             /\ reused' = [reused EXCEPT ![w] = FALSE]
             /\ pc' = [pc EXCEPT ![w] = "between"]
             /\ UNCHANGED <<poolVars, open, dead, key, hook, ctxDone, closing, stopVars>>
    BY <2>2 DEF TypeOK
  <2> QED
    BY <1>11, <2>1, <2>2 DEF Quit
<1>12. CASE Put(w)
  <2>1. cur[w] \in Conns
    BY <1>12 DEF Put, RequestInv, Holding, TypeOK
  <2>2. idle' \in [Keys -> SUBSET Conns]
    BY <1>12, <2>1 DEF Put, TypeOK
  <2>3. open' \subseteq Conns /\ dead' \subseteq Conns /\ age' \in [Conns -> 0..(TTL + 1)]
    <3>1. CASE Close({cur[w]})
      BY <3>1, CloseType
    <3>2. CASE age' = [age EXCEPT ![cur[w]] = 0] /\ UNCHANGED <<open, dead>>
      BY <1>0, <2>1, <3>2 DEF TypeOK
    <3> QED
      BY <1>12, <3>1, <3>2 DEF Put
  <2> QED
    BY <1>12, <2>2, <2>3 DEF Put, TypeOK
<1> QED
  BY <1>1, <1>2, <1>3, <1>4, <1>5, <1>7, <1>8, <1>9, <1>10, <1>11, <1>12 DEF RequestStep

(* CloseAll's steps, one after the other.                                  *)
LEMMA CloserStep ==
  ASSUME TypeOK, NEW st, CloserAt(st)
  PROVE  closer' = closer + 1 /\ closer' \in 0..Closed /\ (st = "close" <=> closer' = Closed)
BY DEF TypeOK, CloserAt, Closed, CloseAllSteps

OtherStep ==
    \/ \E c \in Conns : HookCloses(c) \/ RemoteDrops(c) \/ Collect(c)
    \/ Tick \/ TickerFires \/ cleanupExpired \/ StopStep \/ UNCHANGED vars

LEMMA TypePool ==
  ASSUME TypeOK, OtherStep
  PROVE  TypeOK'
<1> USE DEF poolVars, reqVars, stopVars
<1>1. CASE Tick
  <2>1. age' \in [Conns -> 0..(TTL + 1)]
    BY <1>1, ConstantsAssumption DEF Tick, Expired, ConstantsAssumption, TypeOK
  <2> QED
    BY <1>1, <2>1 DEF Tick, TypeOK
<1>2. ASSUME NEW c \in Conns, HookCloses(c) \/ Collect(c) PROVE TypeOK'
  <2>1. Close({c})
    BY <1>2 DEF HookCloses, Collect
  <2> QED
    BY <1>2, <2>1, CloseType DEF HookCloses, Collect, TypeOK
<1>3. CASE (\E c \in Conns : RemoteDrops(c)) \/ TickerFires \/ StopSignal \/ CleanerExits
  BY <1>3 DEF RemoteDrops, TickerFires, StopSignal, CleanerExits, TypeOK
<1>4. CASE cleanupExpired
  <2>1. open' \subseteq Conns /\ dead' \subseteq Conns /\ age' \in [Conns -> 0..(TTL + 1)]
    BY <1>4, CloseType DEF cleanupExpired
  <2> QED
    BY <1>4, <2>1 DEF cleanupExpired, TypeOK
<1>5. CASE CloseAllJoins \/ CloseAllLocks
  <2>1. closer' \in 0..Closed
    BY <1>5, CloserStep DEF CloseAllJoins, CloseAllLocks
  <2> QED
    BY <1>5, <2>1 DEF CloseAllJoins, CloseAllLocks, TypeOK
<1>6. CASE CloseAll
  <2>1. closer' \in 0..Closed
    BY <1>6, CloserStep DEF CloseAll
  <2>2. open' \subseteq Conns /\ dead' \subseteq Conns /\ age' \in [Conns -> 0..(TTL + 1)]
    BY <1>6, CloseType DEF CloseAll
  <2> QED
    BY <1>6, <2>1, <2>2 DEF CloseAll, TypeOK
<1>7. CASE UNCHANGED vars
  BY <1>7 DEF vars, TypeOK
<1> QED
  BY <1>1, <1>2, <1>3, <1>4, <1>5, <1>6, <1>7 DEF OtherStep, StopStep

LEMMA TypeNext == PoolInv /\ [Next]_vars => TypeOK'
BY TypeRequest, TypePool DEF Next, OtherStep, PoolInv, Requests

-----------------------------------------------------------------------------
(***************************************************************************)
(* Ownership, one lemma per kind of step.                                  *)
(***************************************************************************)
Rest == Owners /\ IdleConns /\ LeftConns /\ Requests

(* Steps of a request that leave the pool and the connections alone.       *)
LEMMA MoveRest ==
  ASSUME PoolInv, NEW w \in Workers,
         (\E k \in Keys : Request(w, k) \/ NextAttempt(w, k)) \/ TransactionSucceeds(w)
  PROVE  Rest'
<1> USE DEF PoolInv, TypeOK, Rest, poolVars
<1>1. CASE \E k \in Keys : Request(w, k) \/ NextAttempt(w, k)
  BY <1>1 DEF Request, NextAttempt, Owners, IdleConns, LeftConns, Requests, RequestInv, Holding
<1>2. CASE TransactionSucceeds(w)
  BY <1>2 DEF TransactionSucceeds, Owners, IdleConns, LeftConns, Requests, RequestInv, Holding
<1> QED
  BY <1>1, <1>2

(* The context of a request ends: a hook that starts is one of a           *)
(* transaction, so its connection is neither idle nor anyone else's.       *)
LEMMA ContextRest ==
  ASSUME PoolInv, NEW w \in Workers, Respond(w) \/ ContextEnds(w)
  PROVE  Rest'
<1> USE DEF PoolInv, TypeOK, Rest, poolVars
<1>1. /\ closing' = closing \cup ({hook[w]} \ {None})
      /\ hook' = [hook EXCEPT ![w] = None]
      /\ UNCHANGED <<idle, open, cur, left>>
  BY DEF Respond, ContextEnds
<1>2. Owners' /\ LeftConns'
  BY <1>1 DEF Owners, LeftConns
<1>3. IdleConns'
  BY <1>1 DEF IdleConns, Owners, Requests, RequestInv
<1>4. ASSUME NEW v \in Workers PROVE RequestInv(v)'
  <2>1. CASE v = w
    BY <1>1, <2>1 DEF Respond, ContextEnds, Requests, RequestInv, Holding
  <2>2. CASE v # w
    <3>1. pc'[v] = pc[v] /\ hook'[v] = hook[v] /\ cur' = cur
      BY <1>1, <2>2 DEF Respond, ContextEnds
    <3>2. cur[v] # None => cur[v] # hook[w]
      BY <2>2 DEF Owners, Requests, RequestInv
    <3> QED
      BY <1>1, <3>1, <3>2 DEF Requests, RequestInv, Holding
  <2> QED
    BY <2>1, <2>2
<1> QED
  BY <1>2, <1>3, <1>4 DEF Requests

(* A connection is closed by the request that holds it.                    *)
LEMMA DropRest ==
  ASSUME PoolInv, NEW w \in Workers, pc[w] \in Holding, NEW next \in {"between", "dial"}, Drop(w, next)
  PROVE  Rest'
<1> USE DEF PoolInv, TypeOK, Rest, poolVars
<1>0. /\ open' = open \ {cur[w]}
      /\ cur' = [cur EXCEPT ![w] = None]
      /\ hook' = [hook EXCEPT ![w] = None]
      /\ pc' = [pc EXCEPT ![w] = next]
      /\ UNCHANGED <<idle, closing, left>>
  BY DEF Drop, Close
<1>1. Owners'
  BY <1>0, ConstantsAssumption DEF ConstantsAssumption, Owners
<1>2. IdleConns'
  BY <1>0 DEF IdleConns, Owners
<1>4. LeftConns'
  BY <1>0, ConstantsAssumption DEF ConstantsAssumption, LeftConns
<1>3. ASSUME NEW v \in Workers PROVE RequestInv(v)'
  <2>1. CASE v = w
    BY <1>0, <2>1 DEF Requests, RequestInv, Holding
  <2>2. CASE v # w
    <3>1. cur[v] # None => cur[v] # cur[w]
      BY <2>2 DEF Owners
    <3> QED
      BY <1>0, <2>2, <3>1 DEF Requests, RequestInv, Holding
  <2> QED
    BY <2>1, <2>2
<1> QED
  BY <1>1, <1>2, <1>3, <1>4 DEF Requests

(* Taking a connection out of the pool, or none.                           *)
LEMMA PopRest ==
  ASSUME PoolInv, NEW w \in Workers, Pop(w)
  PROVE  Rest'
<1> USE DEF PoolInv, TypeOK, Rest
<1>1. CASE \E c \in idle[key[w]] :
              /\ idle' = [idle EXCEPT ![key[w]] = @ \ {c}]
              /\ cur' = [cur EXCEPT ![w] = c]
              /\ pc' = [pc EXCEPT ![w] = "noop"]
              /\ UNCHANGED open
  <2> PICK c \in idle[key[w]] :
              /\ idle' = [idle EXCEPT ![key[w]] = @ \ {c}]
              /\ cur' = [cur EXCEPT ![w] = c]
              /\ pc' = [pc EXCEPT ![w] = "noop"]
              /\ UNCHANGED open
    BY <1>1
  <2>1. c \in Conns /\ c # None /\ key[w] \in Keys /\ c \in open /\ c \notin closing
    BY ConstantsAssumption DEF ConstantsAssumption, IdleConns
  <2>2. \A v \in Workers : cur[v] # c
    BY <2>1 DEF Owners
  <2>3. Owners'
    BY <2>1, <2>2 DEF Owners
  <2>4. UNCHANGED <<hook, closing>> /\ cur[w] = None /\ hook[w] = None
    BY DEF Pop, Requests, RequestInv, Holding
  <2>5. IdleConns' /\ LeftConns'
    <3>1. c \notin left /\ UNCHANGED left
      BY DEF Pop, LeftConns
    <3> QED
      BY <2>1, <2>4, <3>1 DEF IdleConns, LeftConns
  <2>6. ASSUME NEW v \in Workers PROVE RequestInv(v)'
    BY <2>1, <2>4 DEF Requests, RequestInv, Holding
  <2> QED
    BY <2>3, <2>5, <2>6 DEF Requests
<1>2. CASE /\ idle' = [idle EXCEPT ![key[w]] = {}]
           /\ open' = open \ idle[key[w]]
           /\ pc' = [pc EXCEPT ![w] = "dial"]
           /\ UNCHANGED cur
  <2>1. key[w] \in Keys /\ UNCHANGED <<hook, closing>> /\ pc[w] = "get"
    BY DEF Pop
  <2>2. Owners'
    BY <1>2, <2>1 DEF Owners
  <2>3. IdleConns'
    <3>1. ASSUME NEW k \in Keys, NEW c \in idle'[k] PROVE c \in open' /\ c \notin closing'
      <4>1. k # key[w] /\ c \in idle[k] /\ c \in Conns
        BY <1>2, <2>1, <3>1
      <4>2. c \notin idle[key[w]]
        BY <2>1, <4>1 DEF Owners
      <4> QED
        BY <1>2, <2>1, <4>1, <4>2 DEF IdleConns
    <3> QED
      BY <3>1 DEF IdleConns
  <2>4. ASSUME NEW v \in Workers PROVE RequestInv(v)'
    <3>1. cur[v] \notin idle[key[w]]
      BY <2>1 DEF Owners
    <3> QED
      BY <1>2, <2>1, <3>1 DEF Requests, RequestInv, Holding
  <2>5. LeftConns'
    <3>1. UNCHANGED left
      BY DEF Pop
    <3> QED
      BY <1>2, <2>1, <3>1 DEF LeftConns
  <2> QED
    BY <2>2, <2>3, <2>4, <2>5 DEF Requests
<1> QED
  BY <1>1, <1>2 DEF Pop, Close

LEMMA NoopRest ==
  ASSUME PoolInv, NEW w \in Workers, Noop(w)
  PROVE  Rest'
<1> USE DEF PoolInv, TypeOK, Rest, poolVars
<1>1. pc[w] = "noop" /\ UNCHANGED <<idle, hook, closing, left>>
  BY DEF Noop
<1>2. CASE pc' = [pc EXCEPT ![w] = "begin"] /\ UNCHANGED <<open, cur>>
  BY <1>1, <1>2 DEF Owners, IdleConns, LeftConns, Requests, RequestInv, Holding
<1>3. CASE open' = open \ {cur[w]} /\ cur' = [cur EXCEPT ![w] = None] /\ pc' = [pc EXCEPT ![w] = "get"]
  <2>1. Owners'
    BY <1>1, <1>3, ConstantsAssumption DEF ConstantsAssumption, Owners
  <2>2. IdleConns'
    BY <1>1, <1>3 DEF IdleConns, Owners
  <2>4. LeftConns'
    BY <1>1, <1>3, ConstantsAssumption DEF ConstantsAssumption, LeftConns
  <2>3. ASSUME NEW v \in Workers PROVE RequestInv(v)'
    <3>1. CASE v = w
      BY <1>1, <1>3, <3>1 DEF Requests, RequestInv, Holding
    <3>2. CASE v # w
      <4>1. cur[v] # None => cur[v] # cur[w]
        BY <3>2 DEF Owners
      <4> QED
        BY <1>1, <1>3, <3>2, <4>1 DEF Requests, RequestInv, Holding
    <3> QED
      BY <3>1, <3>2
  <2> QED
    BY <2>1, <2>2, <2>3, <2>4 DEF Requests
<1> QED
  BY <1>2, <1>3 DEF Noop, Close

(* A fresh connection is one nobody holds, that is not in the pool and     *)
(* that no hook is about to close.                                         *)
LEMMA DialRest ==
  ASSUME PoolInv, NEW w \in Workers, Dial(w)
  PROVE  Rest'
<1> USE DEF PoolInv, TypeOK, Rest, poolVars
<1>1. pc[w] = "dial" /\ UNCHANGED <<idle, hook, closing, left>>
  BY DEF Dial
<1>2. CASE \E c \in Conns \ (open \cup closing \cup Held) :
              open' = open \cup {c} /\ cur' = [cur EXCEPT ![w] = c] /\ pc' = [pc EXCEPT ![w] = "begin"]
  <2> PICK c \in Conns \ (open \cup closing \cup Held) :
              open' = open \cup {c} /\ cur' = [cur EXCEPT ![w] = c] /\ pc' = [pc EXCEPT ![w] = "begin"]
    BY <1>2
  <2>1. c \in Conns /\ c # None /\ c \notin open /\ c \notin closing
    BY ConstantsAssumption DEF ConstantsAssumption
  <2>2. \A v \in Workers : cur[v] # c
    BY <2>1 DEF Held
  <2>3. \A k \in Keys : c \notin idle[k]
    BY <2>1 DEF IdleConns
  <2>4. Owners'
    BY <1>1, <2>1, <2>2, <2>3 DEF Owners
  <2>5. IdleConns' /\ LeftConns'
    BY <1>1, <2>1 DEF IdleConns, LeftConns
  <2>6. ASSUME NEW v \in Workers PROVE RequestInv(v)'
    BY <1>1, <2>1 DEF Requests, RequestInv, Holding
  <2> QED
    BY <2>4, <2>5, <2>6 DEF Requests
<1>3. CASE pc' = [pc EXCEPT ![w] = "between"] /\ UNCHANGED <<open, cur>>
  BY <1>1, <1>3 DEF Owners, IdleConns, LeftConns, Requests, RequestInv, Holding
<1> QED
  BY <1>2, <1>3, Zenon DEF Dial

(* Arming the hook, handing the connection back and putting it in the pool.*)
LEMMA TransactionRest ==
  ASSUME PoolInv, NEW w \in Workers,
         Begin(w) \/ TransactionFails(w) \/ HandBack(w) \/ Quit(w) \/ Put(w)
  PROVE  Rest'
<1> USE DEF PoolInv, TypeOK, Rest, poolVars
<1>1. CASE \E next \in {"between", "dial"} : Drop(w, next)
  <2>1. pc[w] \in Holding
    BY DEF Begin, TransactionFails, HandBack, Quit, Put, Holding
  <2> QED
    BY <1>1, <2>1, DropRest
<1>2. CASE /\ pc[w] = "begin" /\ hook' = [hook EXCEPT ![w] = cur[w]]
           /\ pc' = [pc EXCEPT ![w] = "use"]
           /\ UNCHANGED <<idle, open, cur, closing, left>>
  BY <1>2 DEF Owners, IdleConns, LeftConns, Requests, RequestInv, Holding
<1>3. CASE /\ pc[w] = "handback" /\ hook[w] # None /\ cur[w] \in open
           /\ hook' = [hook EXCEPT ![w] = None]
           /\ pc' = [pc EXCEPT ![w] = "put"]
           /\ UNCHANGED <<idle, open, cur, closing, left>>
  BY <1>3 DEF Owners, IdleConns, LeftConns, Requests, RequestInv, Holding
<1>5. CASE /\ pc[w] = "handback" /\ hook' = [hook EXCEPT ![w] = None]
           /\ pc' = [pc EXCEPT ![w] = "quit"]
           /\ UNCHANGED <<idle, open, cur, closing, left>>
  BY <1>5 DEF Owners, IdleConns, LeftConns, Requests, RequestInv, Holding
<1>6. CASE /\ pc[w] = "quit" /\ left' = left \cup (open \cap {cur[w]})
           /\ cur' = [cur EXCEPT ![w] = None]
           /\ pc' = [pc EXCEPT ![w] = "between"]
           /\ UNCHANGED <<idle, open, hook, closing>>
  <2>1. cur[w] # None /\ cur[w] \in Conns /\ hook[w] = None
    BY <1>6 DEF Requests, RequestInv, Holding
  <2>2. \A v \in Workers : cur'[v] # cur[w] /\ (cur'[v] = cur[v] \/ cur'[v] = None)
    BY <1>6, <2>1 DEF Owners
  <2>3. Owners' /\ IdleConns'
    BY <1>6, ConstantsAssumption DEF ConstantsAssumption, Owners, IdleConns
  <2>4. LeftConns'
    <3>1. ASSUME NEW c \in left' PROVE /\ c \in open'
                                       /\ \A k \in Keys : c \notin idle'[k]
                                       /\ \A v \in Workers : cur'[v] # c
      <4>1. CASE c = cur[w]
        BY <1>6, <2>2, <3>1, <4>1 DEF Owners, LeftConns
      <4>2. CASE c # cur[w]
        BY <1>6, <2>2, <3>1, <4>2, ConstantsAssumption DEF ConstantsAssumption, LeftConns
      <4> QED
        BY <4>1, <4>2
    <3> QED
      BY <3>1 DEF LeftConns
  <2>5. ASSUME NEW v \in Workers PROVE RequestInv(v)'
    BY <1>6, <2>1 DEF Requests, RequestInv, Holding
  <2> QED
    BY <2>3, <2>4, <2>5 DEF Requests
<1>4. CASE Put(w)
  <2>1. /\ pc[w] = "put" /\ cur[w] \in Conns /\ cur[w] \in open /\ cur[w] \notin closing
        /\ key[w] \in Keys /\ hook[w] = None
    BY <1>4 DEF Put, Requests, RequestInv, Holding
  <2>2. cur' = [cur EXCEPT ![w] = None] /\ pc' = [pc EXCEPT ![w] = "between"] /\ UNCHANGED <<hook, closing, left>>
    BY <1>4 DEF Put
  <2>3. \A v \in Workers : v # w => cur[v] # cur[w]
    BY <2>1, ConstantsAssumption DEF ConstantsAssumption, Owners
  <2>4. \A v \in Workers : cur'[v] # cur[w] /\ (cur'[v] = cur[v] \/ cur'[v] = None)
    BY <2>1, <2>2, <2>3, ConstantsAssumption DEF ConstantsAssumption
  <2>5. CASE open' = open \ {cur[w]} /\ UNCHANGED idle
    <3>1. Owners'
      BY <2>2, <2>5, ConstantsAssumption DEF ConstantsAssumption, Owners
    <3>2. IdleConns' /\ LeftConns'
      BY <2>2, <2>4, <2>5, ConstantsAssumption DEF ConstantsAssumption, IdleConns, LeftConns, Owners
    <3>3. ASSUME NEW v \in Workers PROVE RequestInv(v)'
      BY <2>1, <2>2, <2>3, <2>5 DEF Requests, RequestInv, Holding
    <3> QED
      BY <3>1, <3>2, <3>3 DEF Requests
  <2>6. CASE idle' = [idle EXCEPT ![key[w]] = @ \cup {cur[w]}] /\ UNCHANGED open
    <3>1. Owners'
      <4>1. \A u, v \in Workers : cur'[u] = cur'[v] /\ cur'[u] # None => u = v
        BY <2>2 DEF Owners
      <4>2. \A j, k \in Keys : \A c \in Conns : c \in idle'[j] /\ c \in idle'[k] => j = k
        BY <2>1, <2>6 DEF Owners
      <4>3. \A v \in Workers : \A k \in Keys : cur'[v] \notin idle'[k]
        BY <2>1, <2>4, <2>6, ConstantsAssumption DEF ConstantsAssumption, Owners
      <4> QED
        BY <4>1, <4>2, <4>3 DEF Owners
    <3>2. IdleConns' /\ LeftConns'
      <4>1. IdleConns'
        BY <2>1, <2>2, <2>6 DEF IdleConns
      <4>2. \A c \in left : c \in Conns /\ c # cur[w] /\ c # None
        BY ConstantsAssumption DEF ConstantsAssumption, LeftConns
      <4>3. LeftConns'
        BY <2>1, <2>2, <2>4, <2>6, <4>2 DEF LeftConns
      <4> QED
        BY <4>1, <4>3
    <3>3. ASSUME NEW v \in Workers PROVE RequestInv(v)'
      BY <2>1, <2>2, <2>6 DEF Requests, RequestInv, Holding
    <3> QED
      BY <3>1, <3>2, <3>3 DEF Requests
  <2> QED
    BY <1>4, <2>5, <2>6 DEF Put, Close
<1> QED
  BY <1>1, <1>2, <1>3, <1>4, <1>5, <1>6 DEF Begin, TransactionFails, HandBack, Quit

(* Hooks, the remote side, time, the cleanup and the shutdown.             *)
LEMMA OtherRest ==
  ASSUME PoolInv, OtherStep
  PROVE  Rest'
<1> USE DEF PoolInv, TypeOK, Rest, poolVars, reqVars, stopVars
<1>1. ASSUME NEW c \in Conns, HookCloses(c) PROVE Rest'
  <2>1. /\ c \in closing /\ closing' = closing \ {c} /\ left' = left \ {c} /\ open' = open \ {c}
        /\ UNCHANGED <<idle, pc, cur, hook>>
    BY <1>1 DEF HookCloses, Close
  <2> QED
    BY <2>1 DEF Owners, IdleConns, LeftConns, Requests, RequestInv, Holding
<1>2. ASSUME NEW c \in Conns, Collect(c) PROVE Rest'
  <2>1. /\ c \in left /\ left' = left \ {c} /\ open' = open \ {c}
        /\ UNCHANGED <<idle, pc, cur, hook, closing>>
    BY <1>2 DEF Collect, Close
  <2>2. (\A k \in Keys : c \notin idle[k]) /\ (\A w \in Workers : cur[w] # c)
    BY <2>1 DEF LeftConns
  <2> QED
    BY <2>1, <2>2 DEF Owners, IdleConns, LeftConns, Requests, RequestInv, Holding
<1>3. CASE \/ \E c \in Conns : RemoteDrops(c)
           \/ Tick \/ TickerFires \/ StopSignal \/ CleanerExits \/ CloseAllJoins \/ CloseAllLocks
           \/ UNCHANGED vars
  <2>1. UNCHANGED <<idle, open, pc, cur, hook, closing, left>>
    BY <1>3 DEF RemoteDrops, Tick, TickerFires, StopSignal, CleanerExits, CloseAllJoins, CloseAllLocks, vars
  <2> QED
    BY <2>1 DEF Owners, IdleConns, LeftConns, Requests, RequestInv, Holding
<1>4. CASE cleanupExpired \/ CloseAll
  <2>1. /\ UNCHANGED <<pc, cur, hook, closing, left>>
        /\ \A k \in Keys : idle'[k] \subseteq idle[k]
        /\ open' \subseteq open
    BY <1>4 DEF cleanupExpired, CloseAll, Close
  <2>2. \A c \in Conns : c \in open \ open' => \E k \in Keys : c \in idle[k]
    BY <1>4 DEF cleanupExpired, CloseAll, Close, AllIdle
  <2>3. Owners'
    BY <2>1 DEF Owners
  <2>4. IdleConns'
    <3>1. ASSUME NEW k \in Keys, NEW c \in idle'[k] PROVE c \in open'
      <4>1. CASE cleanupExpired
        <5>1. c \in idle[k] /\ ~Expired(c) /\ c \in open
          BY <2>1, <3>1, <4>1 DEF cleanupExpired, IdleConns
        <5> QED
          BY <4>1, <5>1 DEF cleanupExpired, Close
      <4>2. CASE CloseAll
        BY <3>1, <4>2 DEF CloseAll
      <4> QED
        BY <1>4, <4>1, <4>2
    <3> QED
      BY <2>1, <3>1 DEF IdleConns
  <2>5. LeftConns'
    BY <2>1, <2>2 DEF LeftConns
  <2>6. ASSUME NEW v \in Workers PROVE RequestInv(v)'
    <3>1. cur[v] \in open /\ cur[v] # None => cur[v] \in open'
      BY <2>2 DEF Owners
    <3> QED
      BY <2>1, <3>1 DEF Requests, RequestInv, Holding
  <2> QED
    BY <2>3, <2>4, <2>5, <2>6 DEF Requests
<1> QED
  BY <1>1, <1>2, <1>3, <1>4 DEF OtherStep, StopStep

LEMMA PoolNext == PoolInv /\ [Next]_vars => PoolInv'
<1> SUFFICES ASSUME PoolInv, [Next]_vars PROVE PoolInv'
  OBVIOUS
<1>1. TypeOK'
  BY TypeNext
<1>2. Rest'
  BY MoveRest, ContextRest, PopRest, NoopRest, DialRest, TransactionRest, OtherRest
     DEF Next, OtherStep, RequestStep
<1> QED
  BY <1>1, <1>2 DEF PoolInv, Rest

LEMMA PoolAlways == Spec => []PoolInv
BY PoolInit, PoolNext, PTL DEF Spec

(* The variables keep their types; in particular nothing but connections   *)
(* is ever put in the pool.                                                *)
THEOREM TypeCorrect == Spec => []TypeOK
<1>1. PoolInv => TypeOK
  BY DEF PoolInv
<1> QED
  BY <1>1, PoolAlways, PTL

(* A connection has one owner at a time, a request or a slot of the pool,  *)
(* although Get probes it outside the lock.                                *)
THEOREM OneOwner == Spec => []ExclusiveOwner
<1>1. PoolInv => ExclusiveOwner
  BY DEF PoolInv, TypeOK, Owners, ExclusiveOwner, Held, AllIdle
<1> QED
  BY <1>1, PoolAlways, PTL

(* What is in the pool is open, and no hook is about to close it.          *)
THEOREM PoolHoldsOpen == Spec => []IdleIsOpen
<1>1. PoolInv => IdleIsOpen
  BY DEF PoolInv, IdleConns, IdleIsOpen, AllIdle
<1> QED
  BY <1>1, PoolAlways, PTL

-----------------------------------------------------------------------------
(***************************************************************************)
(* No connection is forgotten.                                             *)
(***************************************************************************)
Reachable(c) ==
    \/ \E k \in Keys : c \in idle[k]
    \/ \E w \in Workers : cur[w] = c
    \/ c \in closing
    \/ c \in left

Accounted == \A c \in open : Reachable(c)

LEMMA AccountedNext == PoolInv /\ Accounted /\ [Next]_vars => Accounted'
<1> SUFFICES ASSUME PoolInv, Accounted, [Next]_vars, NEW c \in open' PROVE Reachable(c)'
  BY DEF Accounted
<1> USE DEF PoolInv, TypeOK, poolVars, reqVars, stopVars
<1>1. CASE /\ c \in open
           /\ \A w \in Workers : cur[w] = c => \E v \in Workers : cur'[v] = c
           /\ \A k \in Keys : c \in idle[k] => c \in idle'[k]
           /\ c \in closing => c \in closing'
           /\ c \in left => c \in left'
  BY <1>1 DEF Accounted, Reachable
<1>2. ASSUME NEW w \in Workers, RequestStep(w) PROVE Reachable(c)'
  <2>1. CASE \/ \E k \in Keys : Request(w, k) \/ NextAttempt(w, k)
             \/ Respond(w) \/ ContextEnds(w) \/ TransactionSucceeds(w)
    BY <1>1, <2>1 DEF Request, NextAttempt, Respond, ContextEnds, TransactionSucceeds
  <2>2. CASE Pop(w)
    <3>1. CASE \E d \in idle[key[w]] :
                  /\ idle' = [idle EXCEPT ![key[w]] = @ \ {d}]
                  /\ cur' = [cur EXCEPT ![w] = d]
                  /\ UNCHANGED open
      <4> PICK d \in idle[key[w]] :
                  /\ idle' = [idle EXCEPT ![key[w]] = @ \ {d}]
                  /\ cur' = [cur EXCEPT ![w] = d]
                  /\ UNCHANGED open
        BY <3>1
      <4>1. cur[w] = None /\ c # None /\ UNCHANGED <<closing, left>>
        BY <2>2, ConstantsAssumption DEF ConstantsAssumption, Pop, Requests, RequestInv, Holding
      <4>2. CASE c = d
        BY <4>2 DEF Reachable
      <4>3. CASE c # d
        BY <4>1, <4>3 DEF Accounted, Reachable
      <4> QED
        BY <4>2, <4>3
    <3>2. CASE idle' = [idle EXCEPT ![key[w]] = {}] /\ open' = open \ idle[key[w]] /\ UNCHANGED cur
      BY <2>2, <3>2 DEF Pop, Accounted, Reachable
    <3> QED
      BY <2>2, <3>1, <3>2 DEF Pop, Close
  <2>3. CASE open' = open \ {cur[w]} /\ cur' = [cur EXCEPT ![w] = None] /\ UNCHANGED <<idle, closing, left>>
    BY <2>3 DEF Accounted, Reachable
  <2>4. CASE Noop(w)
    BY <1>1, <2>3, <2>4 DEF Noop, Close
  <2>5. CASE Dial(w)
    <3>1. CASE \E d \in Conns : open' = open \cup {d} /\ cur' = [cur EXCEPT ![w] = d]
      <4>1. cur[w] = None /\ UNCHANGED <<idle, closing, left>> /\ c # None
        BY <2>5, ConstantsAssumption, <3>1 DEF ConstantsAssumption, Dial, Requests, RequestInv, Holding
      <4> QED
        BY <3>1, <4>1 DEF Accounted, Reachable
    <3>2. CASE UNCHANGED <<open, cur>>
      BY <1>1, <2>5, <3>2 DEF Dial
    <3> QED
      BY <2>5, <3>1, <3>2, Zenon DEF Dial
  <2>6. CASE Begin(w) \/ TransactionFails(w) \/ HandBack(w)
    BY <1>1, <2>3, <2>6 DEF Begin, TransactionFails, HandBack, Drop, Close
  <2>8. CASE Quit(w)
    <3>1. CASE /\ left' = left \cup (open \cap {cur[w]})
               /\ cur' = [cur EXCEPT ![w] = None]
               /\ UNCHANGED <<idle, open, closing>>
      BY <3>1 DEF Accounted, Reachable
    <3> QED
      BY <2>3, <2>8, <3>1 DEF Quit, Drop, Close
  <2>7. CASE Put(w)
    <3>1. CASE UNCHANGED open /\ idle' = [idle EXCEPT ![key[w]] = @ \cup {cur[w]}]
      BY <2>7, <3>1 DEF Put, Accounted, Reachable
    <3> QED
      BY <2>3, <2>7, <3>1 DEF Put, Close
  <2> QED
    BY <1>2, <2>1, <2>2, <2>4, <2>5, <2>6, <2>7, <2>8 DEF RequestStep
<1>3. CASE \E d \in Conns : HookCloses(d) \/ Collect(d)
  BY <1>3 DEF HookCloses, Collect, Close, Accounted, Reachable
<1>4. CASE \/ \E d \in Conns : RemoteDrops(d)
           \/ Tick \/ TickerFires \/ StopSignal \/ CleanerExits \/ CloseAllJoins \/ CloseAllLocks
           \/ UNCHANGED vars
  BY <1>1, <1>4 DEF RemoteDrops, Tick, TickerFires, StopSignal, CleanerExits, CloseAllJoins,
                    CloseAllLocks, vars
<1>5. CASE cleanupExpired \/ CloseAll
  <2>1. c \in open /\ UNCHANGED <<cur, closing, left>>
    BY <1>5 DEF cleanupExpired, CloseAll, Close
  <2>2. \A k \in Keys : c \in idle[k] => c \in idle'[k]
    BY <1>5 DEF cleanupExpired, CloseAll, Close, AllIdle
  <2> QED
    BY <1>1, <2>1, <2>2
<1> QED
  BY <1>2, <1>3, <1>4, <1>5 DEF Next, StopStep

(* Every open connection is in the pool, in a request, about to be closed  *)
(* by a hook that has started, or one whose QUIT failed.                   *)
THEOREM NothingLeaks == Spec => []NoLeak
<1>1. Init => Accounted
  BY DEF Init, Accounted
<1>2. PoolInv /\ Accounted => NoLeak
  BY ConstantsAssumption
     DEF ConstantsAssumption, PoolInv, TypeOK, Accounted, Reachable, NoLeak, AllIdle, Held
<1> QED
  BY <1>1, <1>2, PoolAlways, AccountedNext, PTL DEF Spec

-----------------------------------------------------------------------------
LEMMA BoundNext == PoolInv /\ IdleBound /\ [Next]_vars => IdleBound'
<1> SUFFICES ASSUME PoolInv, IdleBound, [Next]_vars, NEW k \in Keys
             PROVE  Cardinality(idle'[k]) <= MaxIdle
  BY DEF IdleBound
<1> USE DEF PoolInv, TypeOK
<1>1. IsFiniteSet(idle[k]) /\ Cardinality(idle[k]) \in Nat /\ MaxIdle \in Nat
  BY ConstantsAssumption, FS_Subset, FS_CardinalityType DEF ConstantsAssumption
<1>2. CASE idle'[k] \subseteq idle[k]
  <2>1. IsFiniteSet(idle'[k]) /\ Cardinality(idle'[k]) <= Cardinality(idle[k])
    BY <1>1, <1>2, FS_Subset
  <2>2. Cardinality(idle'[k]) \in Nat
    BY <2>1, FS_CardinalityType
  <2> QED
    BY <1>1, <2>1, <2>2 DEF IdleBound
<1>3. ASSUME NEW w \in Workers, RequestStep(w) PROVE Cardinality(idle'[k]) <= MaxIdle
  <2>1. CASE Pop(w)
    <3>1. idle'[k] \subseteq idle[k]
      BY <2>1 DEF Pop
    <3> QED
      BY <1>2, <3>1
  <2>2. CASE Put(w)
    <3>1. CASE UNCHANGED idle
      BY <1>2, <3>1
    <3>2. CASE k = key[w] /\ Cardinality(idle[k]) < MaxIdle /\ idle'[k] = idle[k] \cup {cur[w]}
      <4>1. Cardinality(idle'[k]) <= Cardinality(idle[k]) + 1
        <5>1. Cardinality(idle[k] \cup {cur[w]})
                = IF cur[w] \in idle[k] THEN Cardinality(idle[k]) ELSE Cardinality(idle[k]) + 1
          BY <1>1, FS_AddElement
        <5> QED
          BY <1>1, <3>2, <5>1
      <4>2. Cardinality(idle'[k]) \in Nat
        BY <1>1, <3>2, FS_AddElement, FS_CardinalityType
      <4> QED
        BY <1>1, <3>2, <4>1, <4>2
    <3>3. CASE k # key[w] /\ idle' = [idle EXCEPT ![key[w]] = @ \cup {cur[w]}]
      BY <1>2, <3>3
    <3>4. Cardinality(idle[key[w]]) >= MaxIdle \/ k # key[w] \/ Cardinality(idle[k]) < MaxIdle
      BY <1>1
    <3> QED
      BY <1>1, <2>2, <3>1, <3>2, <3>3, <3>4 DEF Put, poolVars
  <2>3. CASE ~Pop(w) /\ ~Put(w)
    <3>1. UNCHANGED idle
      BY <1>3, <2>3 DEF RequestStep, Request, NextAttempt, Respond, Noop, Dial, Begin, TransactionFails,
                        TransactionSucceeds, HandBack, Quit, Drop, ContextEnds, poolVars
    <3> QED
      BY <1>2, <3>1
  <2> QED
    BY <2>1, <2>2, <2>3
<1>4. CASE ~ \E w \in Workers : RequestStep(w)
  <2>1. idle'[k] \subseteq idle[k]
    BY <1>4 DEF Next, HookCloses, RemoteDrops, Collect, Tick, TickerFires, cleanupExpired, StopStep,
                StopSignal, CleanerExits, CloseAllJoins, CloseAllLocks, CloseAll, vars, poolVars
  <2> QED
    BY <1>2, <2>1
<1> QED
  BY <1>3, <1>4

(* The per-key limit of the pool holds whatever the interleaving.          *)
THEOREM LimitHolds == Spec => []IdleBound
<1>1. Init => IdleBound
  BY ConstantsAssumption, FS_EmptySet DEF ConstantsAssumption, Init, IdleBound
<1> QED
  BY <1>1, PoolAlways, BoundNext, PTL DEF Spec

-----------------------------------------------------------------------------
(* Once the server has drained, no request runs and none begins, so nobody *)
(* fills the pool that CloseAll has emptied.                               *)
Drained ==
    /\ stop = "no" => closer = 0
    /\ stop = "drained" =>
         /\ \A w \in Workers : pc[w] = "idle"
         /\ closer = Closed => \A k \in Keys : idle[k] = {}

LEMMA DrainedNext == TypeOK /\ Drained /\ [Next]_vars => Drained'
<1> SUFFICES ASSUME TypeOK, Drained, [Next]_vars PROVE Drained'
  OBVIOUS
<1> USE DEF TypeOK, poolVars, reqVars, stopVars
<1>0. Closed = 3
  BY DEF Closed, CloseAllSteps
<1>1. ASSUME NEW w \in Workers, RequestStep(w) PROVE Drained'
  <2>1. UNCHANGED <<stop, closer>>
    BY <1>1 DEF RequestStep, Request, NextAttempt, Respond, Pop, Noop, Dial, Begin, TransactionFails,
                TransactionSucceeds, HandBack, Quit, Drop, Put, ContextEnds
  <2>2. stop = "no" \/ pc[w] # "idle"
    BY <1>1 DEF RequestStep, Request, NextAttempt, Respond, Pop, Noop, Dial, Begin, TransactionFails,
                TransactionSucceeds, HandBack, Quit, Put, ContextEnds
  <2> QED
    BY <1>0, <2>1, <2>2 DEF Drained
<1>2. CASE \/ \E c \in Conns : HookCloses(c) \/ RemoteDrops(c) \/ Collect(c)
           \/ Tick \/ TickerFires \/ CleanerExits \/ UNCHANGED vars
  BY <1>2 DEF HookCloses, RemoteDrops, Collect, Tick, TickerFires, CleanerExits, vars, Drained
<1>3. CASE StopSignal
  BY <1>0, <1>3 DEF StopSignal, Drained
<1>4. CASE cleanupExpired
  BY <1>4 DEF cleanupExpired, Drained
<1>5. CASE CloseAllJoins \/ CloseAllLocks
  <2>1. closer' # Closed
    BY <1>5, CloserStep DEF CloseAllJoins, CloseAllLocks
  <2>2. stop # "no"
    BY <1>5 DEF CloseAllJoins, CloseAllLocks, CloserAt
  <2> QED
    BY <1>5, <2>1, <2>2 DEF CloseAllJoins, CloseAllLocks, Drained
<1>6. CASE CloseAll
  BY <1>6 DEF CloseAll, CloserAt, Drained
<1> QED
  BY <1>1, <1>2, <1>3, <1>4, <1>5, <1>6 DEF Next, StopStep

(* After server.Shutdown has drained the handlers and CloseAll has         *)
(* returned, the pool is empty and stays empty.                            *)
THEOREM StopEmptiesPool == Spec => []StoppedPoolIsEmpty
<1>1. Init => Drained
  BY DEF Init, Drained, Closed, CloseAllSteps
<1>2. Drained => StoppedPoolIsEmpty
  BY DEF Drained, StoppedPoolIsEmpty, AllIdle
<1>3. PoolInv => TypeOK
  BY DEF PoolInv
<1> QED
  BY <1>1, <1>2, <1>3, PoolAlways, DrainedNext, PTL DEF Spec
=============================================================================
