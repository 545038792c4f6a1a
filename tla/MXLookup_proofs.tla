--------------------------- MODULE MXLookup_proofs --------------------------
(***************************************************************************)
(* Proofs about MXLookup, for any number of concurrent lookups.            *)
(*                                                                         *)
(* One query at a time follows from the key: whoever is at work behind a   *)
(* key leads it. Where a result comes from is followed through the answer  *)
(* of a leader, the cache, the channel and the return value.               *)
(***************************************************************************)
EXTENDS MXLookup, FiniteSetTheorems, TLAPS

Leading == {"mx", "host", "store", "done", "release"}

(* A lookup starts its goroutine when the cache did not answer, not before.*)
(* The key of the domain names the one goroutine at work behind it, or one *)
(* that panicked there.                                                    *)
Leadership ==
    /\ \A l \in Lookups : pc[l] \in {"new", "read", "expired"} => gr[l] = "none"
    /\ \A l \in Lookups : gr[l] \in Leading => call = l
    /\ KeyHasLeader

(* A call has no answer before its query ended, keeps the one it got, and  *)
(* has it when its waiters are released.                                   *)
AnswerOf(l) ==
    /\ gr[l] \in {"none", "do", "mx", "host"} => answer[l] = "none"
    /\ gr[l] \in {"store", "done", "release"} \/ l \in wgDone => answer[l] \in Answers
    /\ gr[l] = "wait" => joined[l] \in Lookups

(* DNS gave this answer to some lookup.                                    *)
Given(a) == \E m \in Lookups : answer[m] = a

(* Whatever is cached, in a channel or returned was given by DNS.          *)
Origin ==
    /\ entry # "none" => Given(entry)
    /\ \A l \in Lookups : ch[l] # "none" => Given(ch[l])
    /\ \A l \in Lookups : res[l] = "empty" => Given("noMX")
    /\ \A l \in Lookups : res[l] \in Answers => Given(res[l])

LookupInv == TypeOK /\ Leadership /\ (\A l \in Lookups : AnswerOf(l)) /\ Origin

-----------------------------------------------------------------------------
LEMMA LookupInit == Init => LookupInv
<1> SUFFICES ASSUME Init PROVE LookupInv
  OBVIOUS
<1> USE DEF Init
<1>1. TypeOK
  BY DEF TypeOK
<1>2. Leadership
  BY DEF Leadership, Leading, KeyHasLeader
<1>3. \A l \in Lookups : AnswerOf(l)
  BY DEF AnswerOf
<1>4. Origin
  BY DEF Origin, Answers
<1> QED
  BY <1>1, <1>2, <1>3, <1>4 DEF LookupInv

(***************************************************************************)
(* Types.                                                                  *)
(***************************************************************************)
LEMMA TypeNext == LookupInv /\ [Next]_vars => TypeOK'
<1> SUFFICES ASSUME LookupInv, [Next]_vars PROVE TypeOK'
  OBVIOUS
<1> USE DEF LookupInv, TypeOK, callerVars, groupVars, cacheVars
<1>1. ASSUME NEW l \in Lookups, Caller(l) PROVE TypeOK'
  <2>1. CASE Start(l)
    <3>1. UNCHANGED <<ctxDone, groupVars, cacheVars, sweeper>>
      BY <2>1 DEF Start
    <3>2. pc' \in [Lookups -> {"new", "read", "expired", "select", "done"}]
      BY <2>1 DEF Start, Return
    <3>3. UNCHANGED res \/ res' = [res EXCEPT ![l] = "ctx"]
      BY <2>1 DEF Start, Return
    <3> QED
      BY <3>1, <3>2, <3>3
  <2>2. CASE Load(l)
    BY <2>2 DEF Load, Return, Spawn, Answers
  <2>3. CASE DeleteExpired(l)
    BY <2>3 DEF DeleteExpired, Spawn
  <2>4. CASE Receive(l) \/ GiveUp(l)
    BY <2>4 DEF Receive, GiveUp, Return, Answers
  <2> QED
    BY <1>1, <2>1, <2>2, <2>3, <2>4 DEF Caller
<1>2. ASSUME NEW l \in Lookups, Do(l) \/ LookupMX(l) \/ LookupHost(l) PROVE TypeOK'
  BY <1>2 DEF Do, LookupMX, LookupHost, Answer, Answers
<1>3. ASSUME NEW l \in Lookups, storeInCache(l) \/ WgDone(l) \/ Release(l) PROVE TypeOK'
  <2>1. answer[l] \in Answers
    BY <1>3 DEF storeInCache, WgDone, Release, AnswerOf
  <2>2. CASE storeInCache(l)
    BY <2>1, <2>2 DEF storeInCache
  <2>3. CASE WgDone(l) \/ Release(l)
    BY <2>1, <2>3 DEF WgDone, Release
  <2> QED
    BY <1>3, <2>2, <2>3
<1>4. ASSUME NEW l \in Lookups, Wake(l) PROVE TypeOK'
  <2>1. answer[joined[l]] \in Answers
    BY <1>4 DEF Wake, AnswerOf
  <2> QED
    BY <1>4, <2>1 DEF Wake
<1>5. ASSUME NEW l \in Lookups, Panic(l) \/ ContextEnds(l) PROVE TypeOK'
  BY <1>5 DEF Panic, ContextEnds
<1>6. CASE Expire \/ InvalidateCache \/ CleanupSees \/ CleanupDeletes \/ UNCHANGED vars
  BY <1>6 DEF Expire, InvalidateCache, CleanupSees, CleanupDeletes, vars
<1> QED
  BY <1>1, <1>2, <1>3, <1>4, <1>5, <1>6 DEF Next, Goroutine

(***************************************************************************)
(* Leadership.                                                             *)
(***************************************************************************)
LEMMA LeadershipNext == LookupInv /\ [Next]_vars => Leadership'
<1> SUFFICES ASSUME LookupInv, [Next]_vars PROVE Leadership'
  OBVIOUS
<1> USE DEF LookupInv, TypeOK, Leadership, Leading, KeyHasLeader, callerVars, groupVars
<1>1. ASSUME NEW l \in Lookups, Caller(l) PROVE Leadership'
  <2>1. CASE Start(l) \/ Receive(l) \/ GiveUp(l)
    BY <2>1 DEF Start, Receive, GiveUp, Return
  <2>2. CASE Load(l) \/ DeleteExpired(l)
    <3>1. UNCHANGED call
      BY <2>2 DEF Load, DeleteExpired
    <3>2. gr[l] = "none" /\ call # l
      BY <2>2, ConstantsAssumption DEF Load, DeleteExpired, ConstantsAssumption
    <3>3. /\ gr' = gr \/ gr' = [gr EXCEPT ![l] = "do"]
          /\ \E p \in {"done", "expired", "select"} : pc' = [pc EXCEPT ![l] = p]
      BY <2>2 DEF Load, DeleteExpired, Spawn, Return
    <3>4. \A k \in Lookups : k # l => gr'[k] = gr[k] /\ pc'[k] = pc[k]
      BY <3>3
    <3>5. gr'[l] \in {"none", "do"}
      BY <3>2, <3>3
    <3>6. pc'[l] = "expired" => gr'[l] = "none"
      BY <2>2 DEF Load, DeleteExpired, Spawn, Return
    <3>7. \A k \in Lookups : pc'[k] \in {"new", "read", "expired"} => gr'[k] = "none"
      BY <3>3, <3>4, <3>6
    <3> QED
      BY <3>1, <3>2, <3>4, <3>5, <3>7
  <2> QED
    BY <1>1, <2>1, <2>2 DEF Caller
<1>2. ASSUME NEW l \in Lookups, Do(l) PROVE Leadership'
  BY <1>2, ConstantsAssumption DEF Do, ConstantsAssumption
<1>3. ASSUME NEW l \in Lookups, LookupMX(l) \/ LookupHost(l) \/ storeInCache(l) \/ WgDone(l) \/ Panic(l)
      PROVE  Leadership'
  BY <1>3 DEF LookupMX, LookupHost, Answer, storeInCache, WgDone, Panic
<1>4. ASSUME NEW l \in Lookups, Release(l) PROVE Leadership'
  BY <1>4 DEF Release
<1>5. ASSUME NEW l \in Lookups, Wake(l) PROVE Leadership'
  BY <1>5 DEF Wake
<1>6. ASSUME NEW l \in Lookups, ContextEnds(l) PROVE Leadership'
  BY <1>6 DEF ContextEnds
<1>7. CASE Expire \/ InvalidateCache \/ CleanupSees \/ CleanupDeletes \/ UNCHANGED vars
  BY <1>7 DEF Expire, InvalidateCache, CleanupSees, CleanupDeletes, vars
<1> QED
  BY <1>1, <1>2, <1>3, <1>4, <1>5, <1>6, <1>7 DEF Next, Goroutine

(***************************************************************************)
(* Answers.                                                                *)
(***************************************************************************)
(* An answer, once given, stays.                                           *)
LEMMA AnswersStay ==
  ASSUME LookupInv, [Next]_vars
  PROVE  \A m \in Lookups : answer[m] # "none" => answer'[m] = answer[m]
<1> USE DEF LookupInv, TypeOK
<1>1. ASSUME NEW l \in Lookups, LookupMX(l) \/ LookupHost(l)
      PROVE  \A m \in Lookups : answer[m] # "none" => answer'[m] = answer[m]
  BY <1>1 DEF LookupMX, LookupHost, Answer, AnswerOf
<1>2. ASSUME NEW l \in Lookups, Caller(l) PROVE answer' = answer
  BY <1>2 DEF Caller, Start, Load, DeleteExpired, Receive, GiveUp, groupVars
<1>3. ASSUME NEW l \in Lookups, Do(l) \/ storeInCache(l) \/ WgDone(l) \/ Release(l) \/ Wake(l) PROVE answer' = answer
  BY <1>3 DEF Do, storeInCache, WgDone, Release, Wake
<1>4. ASSUME NEW l \in Lookups, Panic(l) \/ ContextEnds(l) PROVE answer' = answer
  BY <1>4 DEF Panic, ContextEnds, groupVars
<1>5. CASE Expire \/ InvalidateCache \/ CleanupSees \/ CleanupDeletes \/ UNCHANGED vars
  BY <1>5 DEF Expire, InvalidateCache, CleanupSees, CleanupDeletes, vars, groupVars
<1> QED
  BY <1>1, <1>2, <1>3, <1>4, <1>5 DEF Next, Goroutine

LEMMA AnswerNext ==
  ASSUME LookupInv, [Next]_vars, NEW k \in Lookups
  PROVE  AnswerOf(k)'
<1> USE DEF LookupInv, TypeOK, AnswerOf
<1>1. ASSUME NEW l \in Lookups, Caller(l) PROVE AnswerOf(k)'
  <2>1. CASE Start(l) \/ Receive(l) \/ GiveUp(l)
    BY <2>1 DEF Start, Receive, GiveUp, groupVars
  <2>2. CASE Load(l) \/ DeleteExpired(l)
    BY <2>2 DEF Load, DeleteExpired, Spawn, Return, Leadership
  <2> QED
    BY <1>1, <2>1, <2>2 DEF Caller
<1>2. ASSUME NEW l \in Lookups, Do(l) PROVE AnswerOf(k)'
  BY <1>2 DEF Do
<1>3. ASSUME NEW l \in Lookups, LookupMX(l) PROVE AnswerOf(k)'
  BY <1>3 DEF LookupMX, Answer, Answers
<1>4. ASSUME NEW l \in Lookups, LookupHost(l) PROVE AnswerOf(k)'
  BY <1>4 DEF LookupHost, Answer, Answers
<1>5. ASSUME NEW l \in Lookups, storeInCache(l) \/ WgDone(l) \/ Release(l) PROVE AnswerOf(k)'
  BY <1>5 DEF storeInCache, WgDone, Release
<1>6. ASSUME NEW l \in Lookups, Wake(l) \/ Panic(l) PROVE AnswerOf(k)'
  BY <1>6 DEF Wake, Panic
<1>7. ASSUME NEW l \in Lookups, ContextEnds(l) PROVE AnswerOf(k)'
  BY <1>7 DEF ContextEnds, groupVars
<1>8. CASE Expire \/ InvalidateCache \/ CleanupSees \/ CleanupDeletes \/ UNCHANGED vars
  BY <1>8 DEF Expire, InvalidateCache, CleanupSees, CleanupDeletes, vars, groupVars
<1> QED
  BY <1>1, <1>2, <1>3, <1>4, <1>5, <1>6, <1>7, <1>8 DEF Next, Goroutine

(***************************************************************************)
(* Origin: what is stored, sent or returned was an answer before, and the  *)
(* answers stay.                                                           *)
(***************************************************************************)
LEMMA GivenStays ==
  ASSUME LookupInv, [Next]_vars, NEW a \in Answers, Given(a)
  PROVE  Given(a)'
<1>1. PICK m \in Lookups : answer[m] = a
  BY DEF Given
<1>2. answer'[m] = a
  BY <1>1, AnswersStay DEF Answers
<1> QED
  BY <1>2 DEF Given

LEMMA OriginNext == LookupInv /\ [Next]_vars => Origin'
<1> SUFFICES ASSUME LookupInv, [Next]_vars PROVE Origin'
  OBVIOUS
<1> USE DEF LookupInv, TypeOK
<1>1. \A a \in Answers : Given(a) => Given(a)'
  BY GivenStays
<1>2. ASSUME NEW l \in Lookups, Caller(l) PROVE Origin'
  <2>1. CASE Start(l) \/ GiveUp(l)
    BY <1>1, <2>1 DEF Start, GiveUp, Return, Origin, Answers, Given, groupVars, cacheVars
  <2>2. CASE Load(l)
    BY <1>1, <2>2 DEF Load, Return, Spawn, Origin, Answers, Given, cacheVars
  <2>3. CASE DeleteExpired(l)
    BY <1>1, <2>3 DEF DeleteExpired, Spawn, Origin, Answers, Given
  <2>4. CASE Receive(l)
    BY <1>1, <2>4 DEF Receive, Return, Origin, Answers, Given, groupVars, cacheVars
  <2> QED
    BY <1>2, <2>1, <2>2, <2>3, <2>4 DEF Caller
<1>3. ASSUME NEW l \in Lookups, Do(l) \/ LookupMX(l) \/ LookupHost(l) \/ WgDone(l) \/ Panic(l) \/ ContextEnds(l)
      PROVE  Origin'
  <2>1. UNCHANGED <<entry, ch, res>>
    BY <1>3 DEF Do, LookupMX, LookupHost, WgDone, Panic, ContextEnds, callerVars, groupVars, cacheVars
  <2> QED
    BY <1>1, <2>1 DEF Origin, Given, Answers
<1>4. ASSUME NEW l \in Lookups, storeInCache(l) PROVE Origin'
  <2>1. answer[l] \in Answers /\ entry' = answer[l] /\ UNCHANGED <<answer, ch, res>>
    BY <1>4 DEF storeInCache, AnswerOf, callerVars
  <2> QED
    BY <1>1, <2>1 DEF Origin, Given, Answers
<1>5. ASSUME NEW l \in Lookups, Release(l) \/ Wake(l) PROVE Origin'
  <2>1. PICK m \in Lookups : answer[m] \in Answers /\ ch' = [ch EXCEPT ![l] = answer[m]]
    BY <1>5 DEF Release, Wake, AnswerOf
  <2>2. UNCHANGED <<answer, entry, res>>
    BY <1>5 DEF Release, Wake, callerVars, cacheVars
  <2> QED
    BY <1>1, <2>1, <2>2 DEF Origin, Given, Answers
<1>6. CASE Expire \/ InvalidateCache \/ CleanupSees \/ CleanupDeletes \/ UNCHANGED vars
  <2>1. UNCHANGED <<ch, res, answer>> /\ entry' \in {entry, "none"}
    BY <1>6 DEF Expire, InvalidateCache, CleanupSees, CleanupDeletes, vars, callerVars, groupVars, cacheVars
  <2> QED
    BY <2>1 DEF Origin, Given
<1> QED
  BY <1>2, <1>3, <1>4, <1>5, <1>6 DEF Next, Goroutine

LEMMA LookupNext == LookupInv /\ [Next]_vars => LookupInv'
BY TypeNext, LeadershipNext, AnswerNext, OriginNext DEF LookupInv

LEMMA LookupInvariant == Spec => []LookupInv
BY LookupInit, LookupNext, PTL DEF Spec

-----------------------------------------------------------------------------
(***************************************************************************)
(* The results.                                                            *)
(***************************************************************************)
(* Every variable keeps its type: in particular no waiter of a call reads  *)
(* a result that its leader has not written, since the WaitGroup releases  *)
(* it only after that.                                                     *)
THEOREM TypeCorrect == Spec => []TypeOK
BY LookupInvariant, PTL DEF LookupInv

(* singleflightGroup.do lets one query for the domain run at a time, for   *)
(* any number of callers, panics, expiries and invalidations.              *)
THEOREM QueriesAreShared == Spec => []OneQueryInFlight
<1>1. LookupInv => OneQueryInFlight
  <2> SUFFICES ASSUME LookupInv PROVE OneQueryInFlight
    OBVIOUS
  <2> DEFINE asking == {l \in Lookups : gr[l] \in {"mx", "host"}}
  <2>1. asking = {} \/ asking = {call}
    BY DEF LookupInv, Leadership, Leading
  <2>2. Cardinality(asking) \in {0, 1}
    BY <2>1, FS_EmptySet, FS_Singleton
  <2>3. Cardinality(asking) <= 1
    BY <2>2
  <2> QED
    BY <2>3 DEF OneQueryInFlight
<1> QED
  BY <1>1, LookupInvariant, PTL

(* A key in the group always has its leader at work, or one that panicked: *)
(* no other path through singleflightGroup.do leaves a key behind.         *)
THEOREM KeysAreLed == Spec => []KeyHasLeader
<1>1. LookupInv => KeyHasLeader
  BY DEF LookupInv, Leadership
<1> QED
  BY <1>1, LookupInvariant, PTL

(* DeliverMessage bounces for want of an MX, and delivers, only on what    *)
(* DNS answered, however the answer reached it: from the query, a shared   *)
(* call or the cache with its positive and negative entries.               *)
THEOREM OutcomesAreGenuine == Spec => []OutcomeIsGenuine
<1>1. LookupInv => OutcomeIsGenuine
  <2> SUFFICES ASSUME LookupInv, NEW l \in Lookups
               PROVE  /\ Outcome(res[l]) = "hard_bounce" => Given("noMX")
                      /\ Outcome(res[l]) = "deliver" => Given("records")
    BY DEF OutcomeIsGenuine, Given
  <2>1. res[l] \in {"none", "empty", "ctx", "records", "noMX", "fail"}
    BY DEF LookupInv, TypeOK, Answers
  <2>2. res[l] \in {"empty", "noMX"} => Given("noMX")
    BY DEF LookupInv, Origin, Answers
  <2>3. res[l] = "records" => Given("records")
    BY DEF LookupInv, Origin, Answers
  <2>4. Outcome(res[l]) = "hard_bounce" => res[l] \in {"empty", "noMX"}
    BY <2>1 DEF Outcome
  <2>5. Outcome(res[l]) = "deliver" => res[l] = "records"
    BY <2>1 DEF Outcome
  <2> QED
    BY <2>2, <2>3, <2>4, <2>5
<1> QED
  BY <1>1, LookupInvariant, PTL
=============================================================================
