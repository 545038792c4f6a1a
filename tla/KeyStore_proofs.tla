-------------------------- MODULE KeyStore_proofs ---------------------------
(***************************************************************************)
(* Proofs about KeyStore and Signing: for any number of lookups, domains,  *)
(* selectors, keys and edits, and for every cache size and lifetime.       *)
(***************************************************************************)
EXTENDS KeyStore, FiniteSetTheorems, TLAPS

(* Every mtime a lookup or the key store holds was the file's at some time,*)
(* so none is newer than the file's, and one that equals it came with the  *)
(* content the file still has.                                             *)
MapInv ==
  /\ file.mtime <= edits
  /\ mapModTime <= file.mtime
  /\ mapModTime = file.mtime => selectors = file.map
  /\ \A l \in Lookups :
       lk[l].pc \in {"read", "swap"} =>
         /\ lk[l].modTime <= file.mtime
         /\ lk[l].modTime = file.mtime => lk[l].map = file.map

(* A lookup that has read a key file carries an answer the file gave since *)
(* the lookup read its clock.                                              *)
AgeInv ==
  /\ \A f \in Files : since[f][Parsed(disk[f])] = 0
  /\ \A l \in Lookups :
       lk[l].pc = "store" => since[lk[l].file][lk[l].key] <= lk[l].lag
  /\ StaleKeyBound

(* The cache never holds more entries than it may.                         *)
CacheIsBounded ==
  IsFiniteSet(DOMAIN cache) /\ Cardinality(DOMAIN cache) <= CacheSize

(* Once a key was lost to negative answers, they have a place of their own *)
(* in the cache until a key takes it.                                      *)
BurstInv ==
  /\ lost <= 1
  /\ lost = 1 => Cardinality(Hot) < CacheSize

StoreInv == TypeOK /\ MapInv /\ AgeInv /\ CacheIsBounded /\ BurstInv

-----------------------------------------------------------------------------
(***************************************************************************)
(* Arithmetic.                                                             *)
(***************************************************************************)
LEMMA MaxPast ==
  ASSUME NEW n \in Int
  PROVE  /\ Max({Past, n}) = IF n >= Past THEN n ELSE Past
         /\ Max({Past, n}) \in Int
<1>1. \E x \in {Past, n} : \A y \in {Past, n} : x >= y
  BY DEF Past
<1>2. /\ Max({Past, n}) \in {Past, n}
      /\ \A y \in {Past, n} : Max({Past, n}) >= y
  BY <1>1 DEF Max
<1> QED
  BY <1>2 DEF Past

LEMMA LaterFacts ==
  ASSUME NEW n \in 0..(PositiveTTL + 1), NEW m \in 0..(PositiveTTL + 1)
  PROVE  /\ Later(n) \in 0..(PositiveTTL + 1)
         /\ Later(n) <= n + 1
         /\ n <= m => Later(n) <= Later(m)
BY KeyStoreAssumption DEF Later

(* The fields a lookup has at each of its steps.                           *)
LEMMA Fields ==
  ASSUME NEW r \in LookupType
  PROVE  /\ r.pc = "stat" => r.domain \in Domains /\ r.modTime \in 0..MaxEdits
         /\ r.pc \in {"open", "select"} => r.domain \in Domains
         /\ r.pc \in {"read", "swap"} =>
              r \in [pc : {"read", "swap"}, domain : Domains,
                     modTime : 0..MaxEdits, map : Maps \cup {EmptyMap}]
         /\ r.pc = "key" =>
              r \in [pc : {"key"}, file : Files, lag : 0..(PositiveTTL + 1)]
         /\ r.pc = "store" =>
              r \in [pc : {"store"}, file : Files, lag : 0..(PositiveTTL + 1),
                     key : Answers]
BY DEF LookupType

(* What an answer of a lookup is cached for.                               *)
LEMMA Lifetimes ==
  ASSUME NEW a \in Answers
  PROVE  TTL(a) \in 1..PositiveTTL \/ TTL(a) = PositiveTTL
BY KeyStoreAssumption DEF TTL

LEMMA ParsedType == \A c : Parsed(c) \in Answers
BY DEF Parsed, Answers

-----------------------------------------------------------------------------
(***************************************************************************)
(* Eviction.                                                               *)
(***************************************************************************)
(* The eviction makes room for one entry, and keeps every live key or, in  *)
(* a cache of nothing but live keys, all but one.                          *)
LEMMA EvictionKeeps ==
  ASSUME CacheIsBounded, NEW kept \in Kept
  PROVE  /\ kept \subseteq DOMAIN cache
         /\ IsFiniteSet(kept)
         /\ Cardinality(kept) <= CacheSize - 1
         /\ \/ Hot \subseteq kept
            \/ /\ DOMAIN cache = Hot /\ Cardinality(Hot) = CacheSize
               /\ \E x \in Hot : kept = Hot \ {x}
<1> DEFINE live == {f \in DOMAIN cache : cache[f].left >= 0}
           negative == {f \in live : cache[f].key = NoKey}
           excess == Cardinality(live) - (CacheSize - 1)
<1>1. IsFiniteSet(DOMAIN cache) /\ Cardinality(DOMAIN cache) \in Nat
  BY FS_CardinalityType DEF CacheIsBounded
<1>2. /\ IsFiniteSet(live) /\ Cardinality(live) \in Nat
      /\ Cardinality(live) <= Cardinality(DOMAIN cache)
      /\ Cardinality(live) = Cardinality(DOMAIN cache) => live = DOMAIN cache
  <2>1. live \in SUBSET DOMAIN cache
    OBVIOUS
  <2> HIDE DEF live
  <2> QED
    BY <1>1, <2>1, FS_Subset, FS_CardinalityType
<1>3. IsFiniteSet(negative) /\ Cardinality(negative) \in Nat
  <2>1. negative \in SUBSET live
    OBVIOUS
  <2> HIDE DEF live, negative
  <2> QED
    BY <1>2, <2>1, FS_Subset, FS_CardinalityType
<1>4. Hot = live \ negative
  BY DEF Hot
<1>5. CacheSize \in Nat \ {0} /\ Cardinality(DOMAIN cache) <= CacheSize
  BY KeyStoreAssumption DEF CacheIsBounded
<1>6. excess \in Int /\ excess <= 1
  BY <1>1, <1>2, <1>5
<1>7. live \subseteq DOMAIN cache /\ negative \subseteq live
  OBVIOUS
<1> HIDE DEF live, negative, excess
<1>8. CASE Cardinality(DOMAIN cache) < CacheSize
  <2>1. ~(excess > 0)
    BY <1>8, <1>1, <1>2, <1>5 DEF excess
  <2>2. kept = DOMAIN cache
    BY <2>1, <1>8, <1>1, <1>5 DEF Kept, live, negative, excess
  <2> QED
    BY <2>2, <1>1, <1>4, <1>5, <1>7, <1>8
<1>9. CASE Cardinality(DOMAIN cache) >= CacheSize /\ excess <= 0
  <2>1. kept = live
    BY <1>9, <1>1, <1>5, <1>6 DEF Kept, live, negative, excess
  <2>2. Cardinality(live) <= CacheSize - 1
    BY <1>9, <1>2, <1>5 DEF excess
  <2> QED
    BY <2>1, <2>2, <1>2, <1>4, <1>7
<1>10. ASSUME Cardinality(DOMAIN cache) >= CacheSize, excess = 1
       PROVE  Cardinality(live) = CacheSize /\ live = DOMAIN cache
  BY <1>10, <1>1, <1>2, <1>5 DEF excess
<1>11. ASSUME NEW r \in SUBSET live, Cardinality(r) = 1,
              Cardinality(DOMAIN cache) >= CacheSize, excess = 1
       PROVE  \E x \in live : /\ r = {x}
                              /\ IsFiniteSet(live \ {x})
                              /\ Cardinality(live \ {x}) = CacheSize - 1
  <2>1. IsFiniteSet(r)
    BY <1>2, FS_Subset
  <2>2. PICK x : r = {x}
    BY <2>1, <1>11, FS_Singleton
  <2>3. x \in live
    BY <2>2
  <2>4. IsFiniteSet(live \ {x}) /\ Cardinality(live \ {x}) = CacheSize - 1
    BY <2>3, <1>2, <1>10, <1>11, FS_RemoveElement
  <2> QED
    BY <2>2, <2>3, <2>4
<1>12. CASE /\ Cardinality(DOMAIN cache) >= CacheSize
            /\ excess > 0 /\ excess <= Cardinality(negative)
  <2>1. excess = 1
    BY <1>12, <1>6
  <2>2. PICK r \in kSubset(1, negative) : kept = live \ r
    BY <2>1, <1>12, <1>1, <1>3, <1>5 DEF Kept, live, negative, excess
  <2>3. r \in SUBSET negative /\ Cardinality(r) = 1
    BY <2>2 DEF kSubset
  <2>4. PICK x \in live : /\ r = {x}
                          /\ IsFiniteSet(live \ {x})
                          /\ Cardinality(live \ {x}) = CacheSize - 1
    BY <2>1, <2>3, <1>7, <1>11, <1>12
  <2> QED
    BY <2>2, <2>3, <2>4, <1>4, <1>5, <1>7
<1>13. CASE /\ Cardinality(DOMAIN cache) >= CacheSize
            /\ excess > 0 /\ ~(excess <= Cardinality(negative))
  <2>1. excess = 1 /\ Cardinality(negative) = 0
    BY <1>13, <1>3, <1>6
  <2>2. negative = {}
    BY <2>1, <1>3, FS_EmptySet
  <2>3. PICK r \in kSubset(1, live) : kept = live \ r
    <3>1. PICK r \in kSubset(excess - Cardinality(negative), live \ negative) :
            kept = (live \ negative) \ r
      BY <1>13, <1>1, <1>3, <1>5, <1>6 DEF Kept, live, negative, excess
    <3> QED
      BY <3>1, <2>1, <2>2
  <2>4. r \in SUBSET live /\ Cardinality(r) = 1
    BY <2>3 DEF kSubset
  <2>5. PICK x \in live : /\ r = {x}
                          /\ IsFiniteSet(live \ {x})
                          /\ Cardinality(live \ {x}) = CacheSize - 1
    BY <2>1, <2>4, <1>11, <1>13
  <2>6. DOMAIN cache = live /\ Hot = live /\ Cardinality(live) = CacheSize
    BY <2>1, <2>2, <1>4, <1>10, <1>13
  <2>7. kept = live \ {x}
    BY <2>3, <2>5
  <2>8. kept \subseteq DOMAIN cache /\ Cardinality(kept) <= CacheSize - 1
    BY <2>5, <2>6, <2>7, <1>5
  <2>9. IsFiniteSet(kept)
    BY <2>5, <2>7
  <2>10. /\ DOMAIN cache = Hot /\ Cardinality(Hot) = CacheSize
         /\ \E y \in Hot : kept = Hot \ {y}
    BY <2>5, <2>6, <2>7
  <2> QED
    BY <2>8, <2>9, <2>10
<1> QED
  BY <1>1, <1>5, <1>6, <1>8, <1>9, <1>12, <1>13

(* The live keys, and those a step takes away, are finite in number.       *)
LEMMA LossFinite ==
  ASSUME CacheIsBounded
  PROVE  /\ IsFiniteSet(Hot) /\ Cardinality(Hot) \in Nat
         /\ Cardinality(Hot \ DOMAIN cache') \in Nat
<1>1. Hot \in SUBSET DOMAIN cache /\ Hot \ DOMAIN cache' \in SUBSET DOMAIN cache
  BY DEF Hot
<1> QED
  BY <1>1, FS_Subset, FS_CardinalityType DEF CacheIsBounded

-----------------------------------------------------------------------------
LEMMA StoreInit == Init => StoreInv
<1> SUFFICES ASSUME Init PROVE StoreInv
  OBVIOUS
<1> USE KeyStoreAssumption DEF Init
<1>1. DOMAIN cache = {}
  OBVIOUS
<1>2. EmptyMap \in Maps \cup {EmptyMap} /\ Idle \in LookupType
  BY DEF Idle, LookupType
<1>3. file \in [present : BOOLEAN, mtime : 0..MaxEdits, map : Maps \cup {EmptyMap}]
  BY <1>2 DEF EmptyMap
<1>4. since \in [Files -> [Answers -> 0..(PositiveTTL + 1)]]
  OBVIOUS
<1>5. cache \in [DOMAIN cache -> [key : Answers, left : Past..PositiveTTL]]
  OBVIOUS
<1>6. TypeOK
  <2>1. config \in Configs /\ disk \in [Files -> Keys \cup Broken]
    BY DEF Files
  <2>2. /\ selectors \in Maps \cup {EmptyMap} /\ mapModTime \in 0..MaxEdits
        /\ mapLeft \in Past..MapCheck /\ edits \in 0..MaxEdits
    BY <1>2 DEF Past
  <2>3. lk \in [Lookups -> LookupType]
    BY <1>2
  <2> QED
    BY <1>1, <1>3, <1>4, <1>5, <2>1, <2>2, <2>3 DEF TypeOK
<1>7. MapInv
  <2>1. \A l \in Lookups : lk[l].pc = "idle"
    BY DEF Idle
  <2> QED
    BY <2>1 DEF MapInv
<1>8. AgeInv
  <2>1. \A l \in Lookups : lk[l].pc = "idle"
    BY DEF Idle
  <2>2. \A f \in Files : since[f][Parsed(disk[f])] = 0
    BY ParsedType
  <2> QED
    BY <1>1, <2>1, <2>2 DEF AgeInv, StaleKeyBound
<1>9. CacheIsBounded
  BY <1>1, FS_EmptySet DEF CacheIsBounded
<1> QED
  BY <1>6, <1>7, <1>8, <1>9 DEF StoreInv, BurstInv

(***************************************************************************)
(* Types.                                                                  *)
(***************************************************************************)
LEMMA GotoType ==
  ASSUME TypeOK, NEW l \in Lookups, NEW r \in LookupType, Goto(l, r)
  PROVE  /\ lk' \in [Lookups -> LookupType]
         /\ lk'[l] = r
         /\ \A m \in Lookups : m # l => lk'[m] = lk[m]
BY DEF TypeOK, Goto

(* A step of a lookup that is not the store leaves the files and the cache *)
(* alone.                                                                  *)
Reading(l) ==
  \/ maybeReloadSelectorMap(l) \/ OpenMap(l) \/ ReadMap(l) \/ SwapMap(l)
  \/ Answer(l) \/ Miss(l) \/ ReadKey(l) \/ \E d \in Domains : Lookup(l, d)

(* Where a step of a lookup leaves it.                                     *)
LEMMA LookupSteps ==
  ASSUME TypeOK, NEW l \in Lookups, Reading(l)
  PROVE  /\ UNCHANGED <<cache, lost, fileVars>>
         /\ \E r \in LookupType :
              /\ Goto(l, r)
              /\ r.pc = "store" =>
                   /\ lk[l].pc = "key" /\ r.file = lk[l].file
                   /\ r.key = Parsed(disk[r.file])
              /\ r.pc \in {"read", "swap"} =>
                   \/ r.modTime = file.mtime /\ r.map = file.map
                   \/ /\ lk[l].pc = "read" /\ r.modTime = lk[l].modTime
                      /\ r.map \in {lk[l].map, file.map}
         /\ \/ UNCHANGED <<selectors, mapModTime>>
            \/ /\ lk[l].pc = "swap"
               /\ selectors' = lk[l].map /\ mapModTime' = lk[l].modTime
         /\ mapLeft' \in {mapLeft, MapCheck}
<1> DEFINE r == lk[l]
<1> USE DEF Goto, Select
<1>1. r \in LookupType
  BY DEF TypeOK
<1>2. \A d \in Domains : [pc |-> "select", domain |-> d] \in LookupType
  BY DEF LookupType
<1>3. \A d \in Domains, t \in 0..MaxEdits :
        [pc |-> "stat", domain |-> d, modTime |-> t] \in LookupType
  BY DEF LookupType
<1>4. /\ file \in [present : BOOLEAN, mtime : 0..MaxEdits, map : Maps \cup {EmptyMap}]
      /\ mapModTime \in 0..MaxEdits
  BY DEF TypeOK
<1>5. CASE \E d \in Domains : Lookup(l, d)
  <2>1. PICK d \in Domains : Lookup(l, d)
    BY <1>5
  <2> QED
    BY <2>1, <1>2, <1>3, <1>4 DEF Lookup
<1>6. CASE maybeReloadSelectorMap(l)
  <2>1. r.pc = "stat" /\ r.domain \in Domains
    BY <1>1, <1>6, Fields DEF maybeReloadSelectorMap
  <2>2. [pc |-> "open", domain |-> r.domain] \in LookupType
    BY <2>1 DEF LookupType
  <2> QED
    BY <2>1, <2>2, <1>2, <1>6 DEF maybeReloadSelectorMap, mapVars
<1>7. CASE OpenMap(l)
  <2>1. r.pc = "open" /\ r.domain \in Domains
    BY <1>1, <1>7, Fields DEF OpenMap
  <2>2. [pc |-> "read", domain |-> r.domain, modTime |-> file.mtime,
         map |-> file.map] \in LookupType
    BY <2>1, <1>4 DEF LookupType
  <2> QED
    BY <2>1, <2>2, <1>2, <1>7 DEF OpenMap, mapVars
<1>8. CASE ReadMap(l)
  <2>1. /\ r.pc = "read"
        /\ r \in [pc : {"read", "swap"}, domain : Domains,
                  modTime : 0..MaxEdits, map : Maps \cup {EmptyMap}]
    BY <1>1, <1>8, Fields DEF ReadMap
  <2>2. \A m \in Maps \cup {EmptyMap} :
          /\ [r EXCEPT !.pc = "swap", !.map = m] \in LookupType
          /\ [r EXCEPT !.pc = "swap", !.map = m].map = m
          /\ [r EXCEPT !.pc = "swap", !.map = m].modTime = r.modTime
          /\ [r EXCEPT !.pc = "swap", !.map = m].pc = "swap"
    BY <2>1 DEF LookupType
  <2>3. UNCHANGED <<mapVars, cache, lost, fileVars>>
    BY <1>8 DEF ReadMap
  <2>4. CASE Select(l, r.domain)
    BY <2>1, <2>3, <2>4, <1>2 DEF mapVars
  <2>5. CASE \E m \in {r.map} \cup (IF file.present THEN {file.map} ELSE {}) :
               Goto(l, [r EXCEPT !.pc = "swap", !.map = m])
    <3>1. PICK m \in {r.map, file.map} :
                 Goto(l, [r EXCEPT !.pc = "swap", !.map = m])
      BY <2>5
    <3>2. m \in Maps \cup {EmptyMap}
      BY <3>1, <2>1, <1>4
    <3>3. PICK q : q = [r EXCEPT !.pc = "swap", !.map = m]
      OBVIOUS
    <3>4. q \in LookupType /\ q.map = m /\ q.modTime = r.modTime /\ q.pc = "swap"
      BY <2>2, <3>2, <3>3
    <3>5. Goto(l, q) /\ m \in {r.map, file.map}
      BY <3>1, <3>3
    <3> QED
      BY <2>1, <2>3, <3>4, <3>5 DEF mapVars
  <2> QED
    BY <2>4, <2>5, <1>8 DEF ReadMap
<1>9. CASE SwapMap(l)
  <2>1. r.pc = "swap" /\ r.domain \in Domains
    BY <1>1, <1>9, Fields DEF SwapMap
  <2> QED
    BY <2>1, <1>2, <1>9 DEF SwapMap
<1>10. CASE Answer(l)
  <2>1. Idle \in LookupType /\ Idle.pc = "idle"
    BY DEF Idle, LookupType
  <2> QED
    BY <2>1, <1>10 DEF Answer, mapVars
<1>11. CASE Miss(l)
  <2>1. r.pc = "select" /\ r.domain \in Domains
    BY <1>1, <1>11, Fields DEF Miss
  <2>2. SelectorOf(r.domain) \in Selectors \cup {NoSelector}
    BY <2>1, KeyStoreAssumption DEF TypeOK, SelectorOf, EmptyMap
  <2>3. \A f \in Files : [pc |-> "key", file |-> f, lag |-> 0] \in LookupType
    BY KeyStoreAssumption DEF LookupType
  <2>4. PICK f : /\ f = <<SelectorOf(r.domain), r.domain>>
                 /\ SelectorOf(r.domain) # NoSelector
                 /\ Goto(l, [pc |-> "key", file |-> f, lag |-> 0])
    BY <1>11 DEF Miss
  <2>5. f \in Files
    BY <2>1, <2>2, <2>4 DEF Files
  <2> QED
    BY <2>3, <2>4, <2>5, <1>11 DEF Miss, mapVars
<1>12. CASE ReadKey(l)
  <2>1. /\ r.pc = "key"
        /\ r \in [pc : {"key"}, file : Files, lag : 0..(PositiveTTL + 1)]
    BY <1>1, <1>12, Fields DEF ReadKey
  <2>2. [pc |-> "store", file |-> r.file, lag |-> r.lag,
         key |-> Parsed(disk[r.file])] \in LookupType
    BY <2>1, ParsedType DEF LookupType
  <2> QED
    BY <2>1, <2>2, <1>12 DEF ReadKey, mapVars
<1> QED
  BY <1>5, <1>6, <1>7, <1>8, <1>9, <1>10, <1>11, <1>12 DEF Reading

LEMMA StepCases ==
  ASSUME [Next]_vars
  PROVE  \/ \E l \in Lookups : Reading(l)
         \/ \E l \in Lookups : storeCacheEntry(l)
         \/ \E f \in Files : EditKey(f)
         \/ EditMap \/ Tick \/ UNCHANGED vars
BY DEF Next, Advance, Reading

(* What a store does to the cache.                                         *)
LEMMA StoreStep ==
  ASSUME StoreInv, NEW l \in Lookups, storeCacheEntry(l)
  PROVE  /\ UNCHANGED <<mapVars, fileVars>>
         /\ Goto(l, Idle)
         /\ lk[l].file \in Files /\ lk[l].key \in Answers
         /\ lk[l].lag \in 0..(PositiveTTL + 1)
         /\ since[lk[l].file][lk[l].key] <= lk[l].lag
         /\ \E kept \in Kept, left \in Past..PositiveTTL :
              /\ left > 0 => left = TTL(lk[l].key) - lk[l].lag
              /\ cache' = [f \in kept \cup {lk[l].file} |->
                             IF f = lk[l].file
                               THEN [key |-> lk[l].key, left |-> left]
                               ELSE cache[f]]
<1>1. lk[l].pc = "store" /\ lk[l] \in LookupType
  BY DEF storeCacheEntry, StoreInv, TypeOK
<1>2. /\ lk[l].file \in Files /\ lk[l].key \in Answers
      /\ lk[l].lag \in 0..(PositiveTTL + 1)
  BY <1>1, Fields
<1>3. since[lk[l].file][lk[l].key] <= lk[l].lag
  BY <1>1 DEF StoreInv, AgeInv
<1>4. PICK left : left = Max({Past, TTL(lk[l].key) - lk[l].lag})
  OBVIOUS
<1>5. TTL(lk[l].key) \in Int /\ TTL(lk[l].key) <= PositiveTTL /\ PositiveTTL \in Nat
  BY <1>2, Lifetimes, KeyStoreAssumption
<1>6. left \in Past..PositiveTTL /\ (left > 0 => left = TTL(lk[l].key) - lk[l].lag)
  <2>1. TTL(lk[l].key) - lk[l].lag \in Int
    BY <1>2, <1>5
  <2>2. left = IF TTL(lk[l].key) - lk[l].lag >= Past
                 THEN TTL(lk[l].key) - lk[l].lag ELSE Past
    BY <1>4, <2>1, MaxPast
  <2> QED
    BY <2>1, <2>2, <1>2, <1>5 DEF Past
<1>7. \E kept \in Kept :
         cache' = [f \in kept \cup {lk[l].file} |->
                     IF f = lk[l].file
                       THEN [key |-> lk[l].key, left |-> left]
                       ELSE cache[f]]
  BY <1>4 DEF storeCacheEntry
<1> QED
  BY <1>2, <1>3, <1>6, <1>7 DEF storeCacheEntry

LEMMA TypeNext == StoreInv /\ [Next]_vars => TypeOK'
<1> SUFFICES ASSUME StoreInv, [Next]_vars PROVE TypeOK'
  OBVIOUS
<1> USE KeyStoreAssumption
<1>0. TypeOK
  BY DEF StoreInv
<1>1. ASSUME NEW l \in Lookups, Reading(l)
      PROVE  TypeOK'
  <2>1. lk' \in [Lookups -> LookupType]
    BY <1>0, <1>1, LookupSteps, GotoType
  <2>2. mapLeft' \in Past..MapCheck
    BY <1>0, <1>1, LookupSteps DEF TypeOK, Past
  <2>3. selectors' \in Maps \cup {EmptyMap} /\ mapModTime' \in 0..MaxEdits
    <3>1. CASE UNCHANGED <<selectors, mapModTime>>
      BY <1>0, <3>1 DEF TypeOK
    <3>2. CASE lk[l].pc = "swap" /\ selectors' = lk[l].map /\ mapModTime' = lk[l].modTime
      BY <1>0, <3>2, Fields DEF TypeOK
    <3> QED
      BY <1>0, <1>1, <3>1, <3>2, LookupSteps
  <2>4. UNCHANGED <<cache, lost, fileVars>>
    BY <1>0, <1>1, LookupSteps
  <2> QED
    BY <1>0, <2>1, <2>2, <2>3, <2>4 DEF TypeOK, fileVars, EmptyMap
<1>2. ASSUME NEW l \in Lookups, storeCacheEntry(l)
      PROVE  TypeOK'
  <2>1. PICK kept \in Kept, left \in Past..PositiveTTL :
              /\ left > 0 => left = TTL(lk[l].key) - lk[l].lag
              /\ cache' = [f \in kept \cup {lk[l].file} |->
                             IF f = lk[l].file
                               THEN [key |-> lk[l].key, left |-> left]
                               ELSE cache[f]]
    BY <1>2, StoreStep, Zenon
  <2>2. kept \subseteq DOMAIN cache
    BY EvictionKeeps DEF StoreInv
  <2>3. lk[l].file \in Files /\ lk[l].key \in Answers
    BY <1>2, StoreStep
  <2>4. DOMAIN cache' = kept \cup {lk[l].file}
    BY <2>1
  <2>5. cache' \in [DOMAIN cache' -> [key : Answers, left : Past..PositiveTTL]]
    BY <1>0, <2>1, <2>2, <2>3, <2>4 DEF TypeOK
  <2>6. lk' \in [Lookups -> LookupType]
    BY <1>0, <1>2, StoreStep, GotoType DEF Idle, LookupType
  <2>7. DOMAIN cache' \subseteq Files
    BY <1>0, <2>2, <2>3, <2>4 DEF TypeOK
  <2>8. UNCHANGED <<mapVars, fileVars>>
    BY <1>2, StoreStep
  <2>9. lost' \in Nat
    <3>1. lost \in Nat /\ Cardinality(Hot \ DOMAIN cache') \in Nat
      BY <1>0, LossFinite DEF TypeOK, StoreInv
    <3>2. Count(lk[l].key)
      BY <1>2 DEF storeCacheEntry
    <3> QED
      BY <3>1, <3>2 DEF Count
  <2> QED
    BY <1>0, <2>5, <2>6, <2>7, <2>8, <2>9 DEF TypeOK, mapVars, fileVars, EmptyMap
<1>3. ASSUME NEW f \in Files, EditKey(f)
      PROVE  TypeOK'
  BY <1>0, <1>3, ParsedType DEF TypeOK, EditKey, mapVars
<1>4. ASSUME EditMap
      PROVE  TypeOK'
  <2>1. edits' \in 0..MaxEdits
    BY <1>0, <1>4 DEF EditMap, TypeOK
  <2>2. file' \in [present : BOOLEAN, mtime : 0..MaxEdits, map : Maps \cup {EmptyMap}]
    <3>1. ASSUME NEW m \in Maps,
                 file' = [present |-> TRUE, mtime |-> edits + 1, map |-> m]
          PROVE  file' \in [present : BOOLEAN, mtime : 0..MaxEdits, map : Maps \cup {EmptyMap}]
      BY <1>0, <1>4, <3>1 DEF EditMap, TypeOK
    <3>2. ASSUME file' = [file EXCEPT !.present = FALSE]
          PROVE  file' \in [present : BOOLEAN, mtime : 0..MaxEdits, map : Maps \cup {EmptyMap}]
      BY <1>0, <3>2 DEF TypeOK
    <3> QED
      BY <1>4, <3>1, <3>2 DEF EditMap
  <2> QED
    BY <1>0, <1>4, <2>1, <2>2 DEF EditMap, TypeOK, mapVars
<1>5. ASSUME Tick
      PROVE  TypeOK'
  <2> USE DEF TypeOK, Tick
  <2>1. since' \in [Files -> [Answers -> 0..(PositiveTTL + 1)]]
    <3>1. \A f \in Files : \A a \in Answers : Later(since[f][a]) \in 0..(PositiveTTL + 1)
      BY <1>0, LaterFacts
    <3> QED
      BY <1>5, <3>1
  <2>2. mapLeft' \in Past..MapCheck
    BY <1>0, <1>5 DEF Sooner, Past
  <2>3. DOMAIN cache' = DOMAIN cache
    BY <1>5
  <2>4. cache' \in [DOMAIN cache' -> [key : Answers, left : Past..PositiveTTL]]
    <3>1. \A n \in Past..PositiveTTL : Sooner(n) \in Past..PositiveTTL
      BY DEF Sooner, Past
    <3>2. ASSUME NEW f \in DOMAIN cache
          PROVE  [cache[f] EXCEPT !.left = Sooner(@)]
                   \in [key : Answers, left : Past..PositiveTTL]
      <4>1. cache[f] \in [key : Answers, left : Past..PositiveTTL]
        BY <1>0
      <4> QED
        BY <3>1, <4>1
    <3>3. cache' = [f \in DOMAIN cache |-> [cache[f] EXCEPT !.left = Sooner(@)]]
      BY <1>5
    <3> QED
      BY <2>3, <3>2, <3>3
  <2>5. lk' \in [Lookups -> LookupType]
    <3> SUFFICES ASSUME NEW l \in Lookups PROVE lk'[l] \in LookupType
      BY <1>5
    <3>1. lk[l] \in LookupType
      BY <1>0
    <3>2. CASE lk[l].pc = "key"
      <4>1. lk'[l] = [lk[l] EXCEPT !.lag = Later(@)]
        BY <1>5, <3>2
      <4>2. lk'[l] \in [pc : {"key"}, file : Files, lag : 0..(PositiveTTL + 1)]
        BY <3>1, <3>2, <4>1, Fields, LaterFacts
      <4> QED
        BY <4>2 DEF LookupType
    <3>3. CASE lk[l].pc = "store"
      <4>1. lk'[l] = [lk[l] EXCEPT !.lag = Later(@)]
        BY <1>5, <3>3
      <4>2. lk'[l] \in [pc : {"store"}, file : Files, lag : 0..(PositiveTTL + 1),
                        key : Answers]
        BY <3>1, <3>3, <4>1, Fields, LaterFacts
      <4> QED
        BY <4>2 DEF LookupType
    <3>4. CASE lk[l].pc \notin {"key", "store"}
      BY <1>5, <3>1, <3>4
    <3> QED
      BY <3>2, <3>3, <3>4
  <2> QED
    BY <1>0, <1>5, <2>1, <2>2, <2>3, <2>4, <2>5
<1>6. CASE UNCHANGED vars
  BY <1>0, <1>6 DEF TypeOK, vars, EmptyMap
<1> QED
  BY <1>1, <1>2, <1>3, <1>4, <1>5, <1>6, StepCases

(***************************************************************************)
(* The selector map.                                                       *)
(***************************************************************************)
LEMMA MapNext == StoreInv /\ [Next]_vars => MapInv'
<1> SUFFICES ASSUME StoreInv, [Next]_vars PROVE MapInv'
  OBVIOUS
<1>0. TypeOK /\ MapInv
  BY DEF StoreInv
<1> DEFINE Fits(r) ==
             r.pc \in {"read", "swap"} =>
               /\ r.modTime <= file.mtime
               /\ r.modTime = file.mtime => r.map = file.map
<1>1. \A l \in Lookups : lk[l] \in LookupType /\ Fits(lk[l])
  BY <1>0 DEF TypeOK, MapInv
<1>2. /\ file \in [present : BOOLEAN, mtime : 0..MaxEdits, map : Maps \cup {EmptyMap}]
      /\ edits \in 0..MaxEdits /\ mapModTime \in 0..MaxEdits
  BY <1>0 DEF TypeOK
<1>3. ASSUME NEW l \in Lookups, Reading(l)
      PROVE  MapInv'
  <2>1. UNCHANGED <<file, edits>>
    BY <1>0, <1>3, LookupSteps DEF fileVars
  <2>2. PICK r \in LookupType :
          /\ Goto(l, r)
          /\ r.pc \in {"read", "swap"} =>
               \/ r.modTime = file.mtime /\ r.map = file.map
               \/ /\ lk[l].pc = "read" /\ r.modTime = lk[l].modTime
                  /\ r.map \in {lk[l].map, file.map}
    BY <1>0, <1>3, LookupSteps
  <2>3. Fits(r)
    BY <1>1, <1>2, <2>2
  <2>4. \A m \in Lookups : Fits(lk'[m])
    BY <1>0, <1>1, <2>2, <2>3, GotoType
  <2>5. mapModTime' <= file.mtime /\ (mapModTime' = file.mtime => selectors' = file.map)
    <3>1. CASE UNCHANGED <<selectors, mapModTime>>
      BY <1>0, <3>1 DEF MapInv
    <3>2. CASE lk[l].pc = "swap" /\ selectors' = lk[l].map /\ mapModTime' = lk[l].modTime
      BY <1>1, <3>2
    <3> QED
      BY <1>0, <1>3, <3>1, <3>2, LookupSteps
  <2> QED
    BY <1>0, <2>1, <2>4, <2>5 DEF MapInv
<1>4. ASSUME NEW l \in Lookups, storeCacheEntry(l)
      PROVE  MapInv'
  <2>1. UNCHANGED <<file, edits, selectors, mapModTime>>
    BY <1>4, StoreStep DEF fileVars, mapVars
  <2>2. Idle \in LookupType /\ Idle.pc = "idle"
    BY DEF Idle, LookupType
  <2>3. Goto(l, Idle)
    BY <1>4, StoreStep
  <2>4. \A m \in Lookups : Fits(lk'[m])
    BY <1>0, <1>1, <2>2, <2>3, GotoType
  <2> QED
    BY <1>0, <2>1, <2>4 DEF MapInv
<1>5. ASSUME NEW f \in Files, EditKey(f)
      PROVE  MapInv'
  BY <1>0, <1>2, <1>5 DEF MapInv, EditKey, mapVars
<1>6. ASSUME EditMap
      PROVE  MapInv'
  <2>1. UNCHANGED <<selectors, mapModTime, lk>> /\ edits' = edits + 1
    BY <1>6 DEF EditMap, mapVars
  <2>2. ASSUME NEW m \in Maps,
               file' = [present |-> TRUE, mtime |-> edits + 1, map |-> m]
        PROVE  MapInv'
    <3>1. file'.mtime = edits + 1 /\ file.mtime <= edits
      BY <1>0, <2>2 DEF MapInv
    <3>2. \A l \in Lookups : lk[l].pc \in {"read", "swap"} =>
                               lk[l].modTime \in Nat /\ lk[l].modTime < edits + 1
      BY <1>1, <1>2, <3>1, Fields
    <3> QED
      BY <1>0, <1>2, <2>1, <3>1, <3>2 DEF MapInv
  <2>3. ASSUME file' = [file EXCEPT !.present = FALSE]
        PROVE  MapInv'
    BY <1>0, <1>2, <2>1, <2>3 DEF MapInv
  <2> QED
    BY <1>6, <2>2, <2>3 DEF EditMap
<1>7. ASSUME Tick
      PROVE  MapInv'
  <2>1. UNCHANGED <<file, edits, selectors, mapModTime>>
    BY <1>7 DEF Tick
  <2>2. \A l \in Lookups : lk[l].pc \in {"read", "swap"} \/ lk'[l].pc \in {"read", "swap"}
                           => lk'[l] = lk[l]
    <3> SUFFICES ASSUME NEW l \in Lookups, lk'[l] # lk[l]
                 PROVE  lk[l].pc \in {"key", "store"} /\ lk'[l].pc = lk[l].pc
      OBVIOUS
    <3>1. /\ lk[l].pc \in {"key", "store"}
          /\ lk'[l] = [lk[l] EXCEPT !.lag = Later(@)]
      BY <1>7 DEF Tick
    <3>2. \/ lk[l] \in [pc : {"key"}, file : Files, lag : 0..(PositiveTTL + 1)]
          \/ lk[l] \in [pc : {"store"}, file : Files, lag : 0..(PositiveTTL + 1),
                         key : Answers]
      BY <1>1, <3>1, Fields
    <3> QED
      BY <3>1, <3>2
  <2> QED
    BY <1>0, <2>1, <2>2 DEF MapInv
<1>8. CASE UNCHANGED vars
  BY <1>0, <1>8 DEF MapInv, vars
<1> QED
  BY <1>3, <1>4, <1>5, <1>6, <1>7, <1>8, StepCases

(***************************************************************************)
(* The age of the answers.                                                 *)
(***************************************************************************)
LEMMA AgeNext == StoreInv /\ [Next]_vars => AgeInv'
<1> SUFFICES ASSUME StoreInv, [Next]_vars PROVE AgeInv'
  OBVIOUS
<1> USE KeyStoreAssumption
<1>0. TypeOK /\ AgeInv
  BY DEF StoreInv
<1>1. /\ \A l \in Lookups : lk[l] \in LookupType
      /\ \A f \in Files : \A a \in Answers : since[f][a] \in 0..(PositiveTTL + 1)
      /\ \A f \in DOMAIN cache :
           /\ f \in Files /\ cache[f].key \in Answers
           /\ cache[f] \in [key : Answers, left : Past..PositiveTTL]
           /\ cache[f].left \in Past..PositiveTTL
  BY <1>0 DEF TypeOK
<1>2. \A l \in Lookups : lk[l].pc = "store" =>
        /\ lk[l].file \in Files /\ lk[l].key \in Answers
        /\ lk[l].lag \in 0..(PositiveTTL + 1)
  BY <1>1, Fields
<1>3. ASSUME NEW l \in Lookups, Reading(l)
      PROVE  AgeInv'
  <2>1. UNCHANGED <<disk, since, cache>>
    BY <1>0, <1>3, LookupSteps DEF fileVars
  <2>2. PICK r \in LookupType :
          /\ Goto(l, r)
          /\ r.pc = "store" => r.key = Parsed(disk[r.file])
    BY <1>0, <1>3, LookupSteps
  <2>3. r.pc = "store" => since[r.file][r.key] <= r.lag
    BY <1>0, <2>2, Fields DEF AgeInv
  <2>4. \A m \in Lookups :
          lk'[m].pc = "store" => since[lk'[m].file][lk'[m].key] <= lk'[m].lag
    BY <1>0, <2>2, <2>3, GotoType DEF AgeInv
  <2> QED
    BY <1>0, <2>1, <2>4 DEF AgeInv, StaleKeyBound
<1>4. ASSUME NEW l \in Lookups, storeCacheEntry(l)
      PROVE  AgeInv'
  <2>1. UNCHANGED <<disk, since>>
    BY <1>4, StoreStep DEF fileVars
  <2>2. Idle \in LookupType /\ Idle.pc = "idle"
    BY DEF Idle, LookupType
  <2>3. \A m \in Lookups :
          lk'[m].pc = "store" => since[lk'[m].file][lk'[m].key] <= lk'[m].lag
    BY <1>0, <1>4, <2>2, StoreStep, GotoType DEF AgeInv
  <2>4. PICK kept \in Kept, left \in Past..PositiveTTL :
              /\ left > 0 => left = TTL(lk[l].key) - lk[l].lag
              /\ cache' = [f \in kept \cup {lk[l].file} |->
                             IF f = lk[l].file
                               THEN [key |-> lk[l].key, left |-> left]
                               ELSE cache[f]]
    BY <1>4, StoreStep, Zenon
  <2>5. kept \subseteq DOMAIN cache
    BY EvictionKeeps DEF StoreInv
  <2>6. ASSUME NEW f \in DOMAIN cache', cache'[f].left > 0
        PROVE  since[f][cache'[f].key] + cache'[f].left <= TTL(cache'[f].key)
    <3>1. CASE f = lk[l].file
      <4>1. cache'[f] = [key |-> lk[l].key, left |-> left]
        BY <2>4, <3>1
      <4>2. left = TTL(lk[l].key) - lk[l].lag
        BY <2>4, <2>6, <4>1
      <4>3. /\ since[f][lk[l].key] <= lk[l].lag /\ lk[l].lag \in Nat
            /\ TTL(lk[l].key) \in Int /\ since[f][lk[l].key] \in Nat
        BY <1>1, <1>4, <3>1, StoreStep, Lifetimes
      <4> QED
        BY <4>1, <4>2, <4>3
    <3>2. CASE f # lk[l].file
      <4>1. f \in DOMAIN cache /\ cache'[f] = cache[f]
        BY <2>4, <2>5, <3>2
      <4> QED
        BY <1>0, <2>6, <4>1 DEF AgeInv, StaleKeyBound
    <3> QED
      BY <3>1, <3>2
  <2> QED
    BY <1>0, <2>1, <2>3, <2>6 DEF AgeInv, StaleKeyBound
<1>5. ASSUME NEW f \in Files, EditKey(f)
      PROVE  AgeInv'
  <2>1. PICK c : /\ disk' = [disk EXCEPT ![f] = c]
                 /\ since' = [since EXCEPT ![f][Parsed(c)] = 0]
    BY <1>5 DEF EditKey
  <2>2. UNCHANGED <<cache, lk>>
    BY <1>5 DEF EditKey
  <2>3. \A g \in Files : \A a \in Answers :
          since'[g][a] = IF g = f /\ a = Parsed(c) THEN 0 ELSE since[g][a]
    BY <1>0, <2>1, ParsedType DEF TypeOK
  <2>4. \A g \in Files : disk'[g] = IF g = f THEN c ELSE disk[g]
    BY <1>0, <2>1 DEF TypeOK
  <2>5. \A g \in Files : since'[g][Parsed(disk'[g])] = 0
    BY <1>0, <2>3, <2>4, ParsedType DEF AgeInv
  <2>6. \A g \in Files : \A a \in Answers :
          since'[g][a] \in Nat /\ since'[g][a] <= since[g][a]
    BY <1>1, <2>3
  <2>7. \A l \in Lookups :
          lk[l].pc = "store" => since'[lk[l].file][lk[l].key] <= lk[l].lag
    BY <1>0, <1>1, <1>2, <2>6 DEF AgeInv
  <2>8. \A g \in DOMAIN cache : cache[g].left > 0 =>
          since'[g][cache[g].key] + cache[g].left <= TTL(cache[g].key)
    BY <1>0, <1>1, <2>6, Lifetimes DEF AgeInv, StaleKeyBound
  <2> QED
    BY <2>2, <2>5, <2>7, <2>8 DEF AgeInv, StaleKeyBound
<1>6. ASSUME EditMap
      PROVE  AgeInv'
  BY <1>0, <1>6 DEF EditMap, AgeInv, StaleKeyBound
<1>7. ASSUME Tick
      PROVE  AgeInv'
  <2>1. UNCHANGED disk /\ DOMAIN cache' = DOMAIN cache
    BY <1>7 DEF Tick
  <2>2. \A f \in Files : \A a \in Answers :
          since'[f][a] = IF a = Parsed(disk[f]) THEN 0 ELSE Later(since[f][a])
    BY <1>7 DEF Tick
  <2>3. \A f \in Files : since'[f][Parsed(disk[f])] = 0
    BY <2>2, ParsedType
  <2>4. \A f \in Files : \A a \in Answers :
          /\ since'[f][a] \in Nat
          /\ since'[f][a] <= since[f][a] + 1
          /\ since'[f][a] <= Later(since[f][a])
          /\ Later(since[f][a]) \in Nat
    BY <1>1, <2>2, LaterFacts
  <2>5. ASSUME NEW l \in Lookups, lk'[l].pc = "store"
        PROVE  since'[lk'[l].file][lk'[l].key] <= lk'[l].lag
    <3>1. /\ lk[l] \in [pc : {"store"}, file : Files, lag : 0..(PositiveTTL + 1),
                         key : Answers]
          /\ lk'[l] = [lk[l] EXCEPT !.lag = Later(@)]
      <4>1. CASE lk[l].pc \notin {"key", "store"}
        BY <1>7, <2>5, <4>1 DEF Tick
      <4>2. CASE lk[l].pc = "key"
        BY <1>1, <1>7, <2>5, <4>2, Fields DEF Tick
      <4>3. CASE lk[l].pc = "store"
        BY <1>1, <1>7, <4>3, Fields DEF Tick
      <4> QED
        BY <4>1, <4>2, <4>3
    <3>2. lk'[l].file = lk[l].file /\ lk'[l].key = lk[l].key /\ lk'[l].lag = Later(lk[l].lag)
      BY <3>1
    <3>3. PICK s \in 0..(PositiveTTL + 1) : s = since[lk[l].file][lk[l].key]
      BY <1>1, <3>1
    <3>4. s <= lk[l].lag
      BY <1>0, <3>1, <3>3 DEF AgeInv
    <3>5. Later(s) <= Later(lk[l].lag) /\ Later(lk[l].lag) \in Nat
      BY <3>1, <3>4, LaterFacts
    <3> QED
      BY <2>4, <3>1, <3>2, <3>3, <3>5
  <2>6. ASSUME NEW f \in DOMAIN cache, cache'[f].left > 0
        PROVE  since'[f][cache'[f].key] + cache'[f].left <= TTL(cache'[f].key)
    <3>1. cache'[f].key = cache[f].key /\ cache'[f].left = Sooner(cache[f].left)
      BY <1>1, <1>7 DEF Tick
    <3>2. cache[f].left > 0 /\ cache'[f].left = cache[f].left - 1
      BY <1>1, <2>6, <3>1 DEF Sooner, Past
    <3>3. since[f][cache[f].key] + cache[f].left <= TTL(cache[f].key)
      BY <1>0, <3>2 DEF AgeInv, StaleKeyBound
    <3> QED
      BY <1>1, <2>4, <3>1, <3>2, <3>3, Lifetimes
  <2> QED
    BY <2>1, <2>3, <2>5, <2>6 DEF AgeInv, StaleKeyBound
<1>8. CASE UNCHANGED vars
  BY <1>0, <1>8 DEF AgeInv, StaleKeyBound, vars
<1> QED
  BY <1>3, <1>4, <1>5, <1>6, <1>7, <1>8, StepCases

(***************************************************************************)
(* The size of the cache, and what an eviction takes from it.              *)
(***************************************************************************)
LEMMA CacheNext == StoreInv /\ [Next]_vars => CacheIsBounded'
<1> SUFFICES ASSUME StoreInv, [Next]_vars PROVE CacheIsBounded'
  OBVIOUS
<1>0. TypeOK /\ CacheIsBounded
  BY DEF StoreInv
<1>1. ASSUME NEW l \in Lookups, storeCacheEntry(l)
      PROVE  CacheIsBounded'
  <2>1. PICK kept \in Kept : DOMAIN cache' = kept \cup {lk[l].file}
    BY <1>1 DEF storeCacheEntry
  <2>2. IsFiniteSet(kept) /\ Cardinality(kept) <= CacheSize - 1
    BY <1>0, EvictionKeeps
  <2>3. Cardinality(kept) \in Nat
    BY <2>2, FS_CardinalityType
  <2>4. PICK g : g = lk[l].file
    OBVIOUS
  <2>5. IsFiniteSet(kept \cup {g}) /\ Cardinality(kept \cup {g}) <= Cardinality(kept) + 1
    BY <2>2, <2>3, FS_AddElement
  <2>6. Cardinality(kept \cup {g}) \in Nat
    BY <2>5, FS_CardinalityType
  <2> QED
    BY <2>1, <2>2, <2>3, <2>4, <2>5, <2>6, KeyStoreAssumption DEF CacheIsBounded
<1>2. ASSUME DOMAIN cache' = DOMAIN cache
      PROVE  CacheIsBounded'
  BY <1>0, <1>2 DEF CacheIsBounded
<1>3. ASSUME NEW l \in Lookups, Reading(l)
      PROVE  DOMAIN cache' = DOMAIN cache
  BY <1>0, <1>3, LookupSteps
<1>4. (\E f \in Files : EditKey(f)) \/ EditMap \/ Tick \/ UNCHANGED vars
        => DOMAIN cache' = DOMAIN cache
  BY DEF EditKey, EditMap, Tick, vars
<1> QED
  BY <1>1, <1>2, <1>3, <1>4, StepCases

(* Fewer live keys, and no more lost ones, keep the burst invariant.       *)
LEMMA BurstKept ==
  ASSUME StoreInv, lost' = lost, Hot' \subseteq Hot
  PROVE  BurstInv'
<1>1. IsFiniteSet(Hot) /\ Cardinality(Hot) \in Nat
  BY LossFinite DEF StoreInv
<1>2. Cardinality(Hot') \in Nat /\ Cardinality(Hot') <= Cardinality(Hot)
  BY <1>1, FS_Subset, FS_CardinalityType
<1> QED
  BY <1>1, <1>2, KeyStoreAssumption DEF StoreInv, BurstInv, TypeOK

(* A negative answer takes a live key only from a cache of nothing but     *)
(* live keys; then it leaves one less, and the next has an entry to take   *)
(* that is no key.                                                         *)
LEMMA NegativeStored ==
  ASSUME StoreInv, NEW l \in Lookups, storeCacheEntry(l), lk[l].key = NoKey
  PROVE  BurstInv'
<1>0. CacheIsBounded /\ BurstInv /\ lost \in Nat
  BY DEF StoreInv, TypeOK
<1>1. PICK g : g = lk[l].file
  OBVIOUS
<1>2. PICK left : left = Max({Past, TTL(NoKey) - lk[l].lag})
  OBVIOUS
<1>3. PICK kept \in Kept :
              cache' = [f \in kept \cup {g} |->
                             IF f = g
                               THEN [key |-> NoKey, left |-> left]
                               ELSE cache[f]]
  BY <1>1, <1>2 DEF storeCacheEntry
<1>4. DOMAIN cache' = kept \cup {g} /\ Hot' \subseteq kept \ {g} /\ Hot' \subseteq Hot
  <2>1. kept \subseteq DOMAIN cache
    BY <1>0, EvictionKeeps
  <2> QED
    BY <1>3, <2>1 DEF Hot
<1>5. lost' = lost + Cardinality(Hot \ (kept \cup {g}))
  BY <1>4 DEF storeCacheEntry, Count
<1>6. CASE Hot \ (kept \cup {g}) = {}
  BY <1>0, <1>4, <1>5, <1>6, BurstKept, FS_EmptySet
<1>7. CASE Hot \ (kept \cup {g}) # {}
  <2>1. Cardinality(Hot) = CacheSize /\ \E x \in Hot : kept = Hot \ {x}
    BY <1>0, <1>7, EvictionKeeps
  <2>2. PICK x \in Hot : kept = Hot \ {x}
    BY <2>1
  <2>3. Hot \ (kept \cup {g}) = {x}
    BY <1>7, <2>2
  <2>4. lost' = lost + 1
    BY <1>5, <2>3, FS_Singleton
  <2>5. lost = 0
    BY <1>0, <2>1, KeyStoreAssumption DEF BurstInv
  <2>6. Hot' \subseteq Hot \ {x}
    BY <1>4, <2>2
  <2>7. /\ IsFiniteSet(Hot \ {x})
        /\ Cardinality(Hot \ {x}) = CacheSize - 1
    BY <1>0, <2>1, LossFinite, FS_RemoveElement
  <2>8. Cardinality(Hot') \in Nat /\ Cardinality(Hot') <= CacheSize - 1
    BY <2>6, <2>7, FS_Subset, FS_CardinalityType
  <2> QED
    BY <2>4, <2>5, <2>8, KeyStoreAssumption DEF BurstInv
<1> QED
  BY <1>6, <1>7

LEMMA BurstNext == StoreInv /\ [Next]_vars => BurstInv'
<1> SUFFICES ASSUME StoreInv, [Next]_vars PROVE BurstInv'
  OBVIOUS
<1>0. TypeOK
  BY DEF StoreInv
<1>1. ASSUME NEW l \in Lookups, storeCacheEntry(l)
      PROVE  BurstInv'
  <2>1. CASE lk[l].key = NoKey
    BY <1>1, <2>1, NegativeStored
  <2>2. CASE lk[l].key # NoKey
    BY <1>1, <2>2 DEF storeCacheEntry, Count, BurstInv
  <2> QED
    BY <2>1, <2>2
<1>2. ASSUME NEW l \in Lookups, Reading(l)
      PROVE  lost' = lost /\ Hot' \subseteq Hot
  BY <1>0, <1>2, LookupSteps DEF Hot
<1>3. (\E f \in Files : EditKey(f)) \/ EditMap \/ UNCHANGED vars
        => lost' = lost /\ Hot' \subseteq Hot
  BY DEF EditKey, EditMap, vars, Hot
<1>4. Tick => lost' = lost /\ Hot' \subseteq Hot
  <2> SUFFICES ASSUME Tick PROVE lost' = lost /\ Hot' \subseteq Hot
    OBVIOUS
  <2>1. lost' = lost /\ DOMAIN cache' = DOMAIN cache
    BY DEF Tick
  <2>2. ASSUME NEW f \in DOMAIN cache
        PROVE  cache'[f].key = cache[f].key /\ (cache'[f].left >= 0 => cache[f].left >= 0)
    <3>1. /\ cache[f] \in [key : Answers, left : Past..PositiveTTL]
          /\ cache'[f] = [cache[f] EXCEPT !.left = Sooner(@)]
      BY <1>0 DEF TypeOK, Tick
    <3>2. cache'[f].key = cache[f].key /\ cache'[f].left = Sooner(cache[f].left)
      BY <3>1
    <3> QED
      BY <3>1, <3>2, KeyStoreAssumption DEF Sooner, Past
  <2> QED
    BY <2>1, <2>2 DEF Hot
<1> QED
  BY <1>1, <1>2, <1>3, <1>4, StepCases, BurstKept

-----------------------------------------------------------------------------
(* The inductive invariant of the key store.                               *)
LEMMA StoreAlways == Spec => []StoreInv
<1>1. StoreInv /\ [Next]_vars => StoreInv'
  BY TypeNext, MapNext, AgeNext, CacheNext, BurstNext DEF StoreInv
<1> QED
  BY StoreInit, <1>1, PTL DEF Spec

(* Whatever the lookups and the operator do, every variable of the key     *)
(* store keeps its type.                                                   *)
THEOREM TypeCorrect == Spec => []TypeOK
<1>1. StoreInv => TypeOK
  BY DEF StoreInv
<1> QED
  BY <1>1, StoreAlways, PTL

(* maybeReloadSelectorMap never settles on an outdated map: however        *)
(* reloads overlap with each other and with edits, the key store has the   *)
(* file's mtime only together with its content.                            *)
THEOREM EveryEditIsSeen == Spec => []NoEditMissed
<1>1. StoreInv => NoEditMissed
  BY DEF StoreInv, MapInv, NoEditMissed
<1> QED
  BY <1>1, StoreAlways, PTL

(* A key file's former answer is served for at most its lifetime, however  *)
(* long the lookup that stored it was delayed: Lookup counts the lifetime  *)
(* from a clock it read before it read the file.                           *)
THEOREM StaleKeysExpire == Spec => []StaleKeyBound
<1>1. StoreInv => StaleKeyBound
  BY DEF StoreInv, AgeInv
<1> QED
  BY <1>1, StoreAlways, PTL

(* storeCacheEntry never lets the cache grow beyond cacheSize, and so never*)
(* has to evict more than one live entry.                                  *)
THEOREM CacheStaysBounded == Spec => []CacheIsBounded
<1>1. StoreInv => CacheIsBounded
  BY DEF StoreInv
<1> QED
  BY <1>1, StoreAlways, PTL

(* storeCacheEntry gives up at most one live signing key for any number of *)
(* negative answers between two stored keys: a burst of unknown From       *)
(* domains costs the cache one key, not none and not its contents.         *)
THEOREM BurstsCostOneKey == Spec => []BurstCostsOneKey
<1>1. StoreInv => BurstCostsOneKey
  BY DEF StoreInv, BurstInv, BurstCostsOneKey
<1> QED
  BY <1>1, StoreAlways, PTL

-----------------------------------------------------------------------------
(***************************************************************************)
(* Signatures.                                                             *)
(***************************************************************************)
LEMMA UnsetIsNoOrigin ==
  Unset \notin {"request", "config", "store", "header", "sender"}
BY DEF Unset

LEMMA DKIMFits ==
  ASSUME NEW cfg \in ConfigType, NEW req \in RequestType,
         NEW store \in StoresFor(cfg),
         NEW h \in From("header"), NEW s \in From("sender")
  PROVE  FitsDKIM(cfg, req, store, h, s)
<1> DEFINE used == deliverDKIM(handlerDKIM(req, cfg), store, h, s)
           Meant == Complete(used) =>
                      /\ cfg.enabled
                      /\ used.key = "request" => used.selector = "request"
                      /\ used.key = "store" => /\ used.selector = "store"
                                               /\ used.domain = Or(h, s)
           Signed == cfg.enabled /\ req = Blank /\ s # Unset =>
                       (Complete(used) <=> IF cfg.key = Unset THEN store = "found"
                                                           ELSE cfg.selector # Unset)
<1> SUFFICES Meant /\ Signed
  BY DEF FitsDKIM
<1> USE UnsetIsNoOrigin DEF Or, From
<1>1. /\ req.key \in {Unset, "request"} /\ req.selector \in {Unset, "request"}
      /\ req.domain \in {Unset, "request"}
      /\ req = [key |-> req.key, selector |-> req.selector, domain |-> req.domain]
  BY DEF RequestType
<1>2. /\ cfg.key \in {Unset, "config"} /\ cfg.selector \in {Unset, "config"}
      /\ cfg.domain \in {Unset, "config"} /\ cfg.enabled \in BOOLEAN
  BY DEF ConfigType
<1>3. req = Blank => req.key = Unset /\ req.selector = Unset /\ req.domain = Unset
  BY DEF Blank
<1>4. CASE ~cfg.enabled
  <2>1. handlerDKIM(req, cfg) = Blank /\ store = "none"
    BY <1>4 DEF handlerDKIM, StoresFor
  <2>2. used = Blank
    BY <2>1 DEF deliverDKIM, Blank
  <2>3. ~Complete(used)
    BY <2>2 DEF Complete, Blank
  <2> HIDE DEF used
  <2> QED
    BY <1>4, <2>3
<1>5. CASE cfg.enabled /\ req.key = Unset /\ cfg.key # Unset
  <2> DEFINE p == [key |-> cfg.key, selector |-> Or(req.selector, cfg.selector),
                   domain |-> Or(req.domain, cfg.domain)]
  <2>1. handlerDKIM(req, cfg) = p
    BY <1>5 DEF handlerDKIM
  <2>2. used = IF p.selector # Unset THEN [p EXCEPT !.domain = Or(p.domain, s)] ELSE p
    BY <1>5, <2>1 DEF deliverDKIM
  <2>3. /\ used.key = cfg.key /\ used.selector = Or(req.selector, cfg.selector)
        /\ used.selector # Unset => used.domain = Or(Or(req.domain, cfg.domain), s)
    <3> HIDE DEF used
    <3> QED
      BY <2>2
  <2> HIDE DEF used, p
  <2>4. Meant
    BY <1>2, <1>5, <2>3
  <2>5. Signed
    BY <1>2, <1>3, <1>5, <2>3 DEF Complete
  <2> QED
    BY <2>4, <2>5
<1>6. CASE cfg.enabled /\ ~(req.key = Unset /\ cfg.key # Unset)
  <2>1. handlerDKIM(req, cfg) = req
    BY <1>6 DEF handlerDKIM
  <2>2. CASE req.key # Unset /\ req.selector # Unset
    <3>1. used = [req EXCEPT !.domain = Or(req.domain, s)]
      BY <2>1, <2>2 DEF deliverDKIM
    <3>2. used.key = "request" /\ used.selector = "request"
      BY <1>1, <2>2, <3>1
    <3> HIDE DEF used
    <3> QED
      BY <1>3, <1>6, <2>2, <3>2
  <2>3. CASE req.key = Unset /\ store = "found" /\ Or(h, s) # Unset
    <3>1. used = [key |-> "store", selector |-> "store", domain |-> Or(h, s)]
      BY <2>1, <2>3 DEF deliverDKIM
    <3>2. used.key = "store" /\ used.selector = "store" /\ used.domain = Or(h, s)
      <4> HIDE DEF used
      <4> QED
        BY <3>1
    <3> HIDE DEF used
    <3> QED
      BY <1>6, <2>3, <3>2 DEF Complete
  <2>4. CASE /\ ~(req.key # Unset /\ req.selector # Unset)
             /\ ~(req.key = Unset /\ store = "found" /\ Or(h, s) # Unset)
    <3>1. used = req
      BY <2>1, <2>4 DEF deliverDKIM
    <3>2. ~Complete(used)
      BY <3>1, <2>4 DEF Complete
    <3>3. req = Blank /\ s # Unset => store # "found" /\ cfg.key = Unset
      BY <1>2, <1>3, <1>6, <2>4
    <3> HIDE DEF used
    <3> QED
      BY <3>2, <3>3
  <2> QED
    BY <2>2, <2>3, <2>4
<1> QED
  BY <1>4, <1>5, <1>6

(* An unbroken ARC chain of n sets: the headers carry the instances 1 to n,*)
(* one seal each, and only the first seal has no chain before it.          *)
Seals(headers) == {i \in 1..Len(headers) : headers[i].name = "seal"}

HeaderType == [name : {"seal", "signature", "results"}, instance : Nat,
               cv : {"none", "pass", Unset}]

Chain(headers, n) ==
  /\ headers \in Seq(HeaderType)
  /\ {headers[i].instance : i \in 1..Len(headers)} = 1..n
  /\ {headers[i].instance : i \in Seals(headers)} = 1..n
  /\ IsFiniteSet(Seals(headers)) /\ Cardinality(Seals(headers)) = n
  /\ \A i \in Seals(headers) :
       (headers[i].cv = "none") <=> (headers[i].instance = 1)

LEMMA NoChain == Chain(<< >>, 0)
<1>1. << >> \in Seq(HeaderType)
  OBVIOUS
<1>2. 1..Len(<< >>) = {} /\ 1..0 = {}
  OBVIOUS
<1>3. Seals(<< >>) = {}
  BY <1>2 DEF Seals
<1> QED
  BY <1>1, <1>2, <1>3, FS_EmptySet DEF Chain

(* determineInstance gives the new set the number after the last one.      *)
LEMMA NextInstance ==
  ASSUME NEW headers, NEW n \in Nat, Chain(headers, n)
  PROVE  determineInstance(headers) = n + 1
<1>1. PICK S : S = {0} \cup {headers[i].instance : i \in 1..Len(headers)}
  OBVIOUS
<1>2. S = {0} \cup 1..n
  BY <1>1 DEF Chain
<1>3. n \in S /\ \A y \in S : y \in Nat /\ y <= n
  BY <1>2
<1>4. \E x \in S : \A y \in S : x >= y
  BY <1>3
<1>5. PICK m \in S : m = Max(S) /\ \A y \in S : m >= y
  BY <1>4 DEF Max
<1>6. m = n
  <2>1. m \in Nat /\ m <= n /\ m >= n
    BY <1>3, <1>5
  <2> QED
    BY <2>1
<1> QED
  BY <1>1, <1>5, <1>6 DEF determineInstance

(* A set put before an unbroken chain makes it longer by one and leaves it *)
(* unbroken.                                                               *)
LEMMA ChainGrows ==
  ASSUME NEW headers, NEW n \in Nat, Chain(headers, n)
  PROVE  Chain(signARC(headers), n + 1)
<1> DEFINE new == signARC(headers)
           seal == [name |-> "seal", instance |-> n + 1, cv |-> ChainStatus(n + 1)]
           signature == [name |-> "signature", instance |-> n + 1, cv |-> Unset]
           results == [name |-> "results", instance |-> n + 1, cv |-> Unset]
<1>1. headers \in Seq(HeaderType)
  BY DEF Chain
<1>2. new = <<seal, signature, results>> \o headers
  BY NextInstance DEF signARC
<1>3. seal \in HeaderType /\ signature \in HeaderType /\ results \in HeaderType
  BY DEF HeaderType, ChainStatus
<1>4. new \in Seq(HeaderType) /\ Len(new) = Len(headers) + 3 /\ Len(headers) \in Nat
  BY <1>1, <1>2, <1>3
<1>5. /\ new[1] = seal /\ new[2] = signature /\ new[3] = results
      /\ \A i \in 1..Len(headers) : new[i + 3] = headers[i]
  BY <1>1, <1>2
<1> HIDE DEF new
<1>6. 1..Len(new) = {1, 2, 3} \cup {i + 3 : i \in 1..Len(headers)}
  <2>1. ASSUME NEW j \in 1..Len(new), j \notin {1, 2, 3}
        PROVE  j \in {i + 3 : i \in 1..Len(headers)}
    <3>1. j - 3 \in 1..Len(headers) /\ j = (j - 3) + 3
      BY <1>4, <2>1
    <3> QED
      BY <3>1
  <2>2. {1, 2, 3} \cup {i + 3 : i \in 1..Len(headers)} \subseteq 1..Len(new)
    BY <1>4
  <2> QED
    BY <2>1, <2>2
<1>7. Seals(new) = {1} \cup {i + 3 : i \in Seals(headers)}
  <2>1. seal.name = "seal" /\ signature.name # "seal" /\ results.name # "seal"
    OBVIOUS
  <2>2. \A i \in {1, 2, 3} : new[i].name = "seal" <=> i = 1
    BY <1>5, <2>1
  <2>3. \A i \in 1..Len(headers) : new[i + 3].name = headers[i].name
    BY <1>5
  <2>4. ASSUME NEW j \in Seals(new) PROVE j \in {1} \cup {i + 3 : i \in Seals(headers)}
    <3>1. CASE j \in {1, 2, 3}
      BY <2>2, <3>1 DEF Seals
    <3>2. CASE j \notin {1, 2, 3}
      <4>1. PICK i \in 1..Len(headers) : j = i + 3
        BY <1>6, <3>2 DEF Seals
      <4>2. i \in Seals(headers)
        BY <2>3, <4>1 DEF Seals
      <4> QED
        BY <4>1, <4>2
    <3> QED
      BY <3>1, <3>2
  <2>5. 1 \in Seals(new)
    BY <1>6, <2>2 DEF Seals
  <2>6. ASSUME NEW i \in Seals(headers) PROVE i + 3 \in Seals(new)
    BY <1>6, <2>3 DEF Seals
  <2> QED
    BY <2>4, <2>5, <2>6
<1>8. {new[i].instance : i \in 1..Len(new)} = 1..(n + 1)
  <2>1. {headers[i].instance : i \in 1..Len(headers)} = 1..n
    BY DEF Chain
  <2>2. {new[i].instance : i \in 1..Len(new)}
          = {n + 1} \cup {headers[i].instance : i \in 1..Len(headers)}
    <3>1. \A i \in {1, 2, 3} : new[i].instance = n + 1
      BY <1>5
    <3>2. \A i \in 1..Len(headers) : new[i + 3].instance = headers[i].instance
      BY <1>5
    <3>3. {new[i].instance : i \in {1, 2, 3}} = {n + 1}
      BY <3>1
    <3>4. {new[i + 3].instance : i \in 1..Len(headers)} = {headers[i].instance : i \in 1..Len(headers)}
      BY <3>2
    <3>5. {new[i].instance : i \in 1..Len(new)}
            = {new[i].instance : i \in {1, 2, 3}} \cup {new[i + 3].instance : i \in 1..Len(headers)}
      BY <1>6
    <3> QED
      BY <3>3, <3>4, <3>5
  <2>3. 1..(n + 1) = {n + 1} \cup 1..n
    OBVIOUS
  <2> QED
    BY <2>1, <2>2, <2>3
<1>9. {new[i].instance : i \in Seals(new)} = 1..(n + 1)
  <2>1. {headers[i].instance : i \in Seals(headers)} = 1..n
    BY DEF Chain
  <2>2. \A i \in Seals(headers) : new[i + 3] = headers[i]
    BY <1>5 DEF Seals
  <2>3. {new[i].instance : i \in Seals(new)}
          = {n + 1} \cup {headers[i].instance : i \in Seals(headers)}
    BY <1>5, <1>7, <2>2
  <2> QED
    BY <2>1, <2>3
<1>10. IsFiniteSet(Seals(new)) /\ Cardinality(Seals(new)) = n + 1
  <2> DEFINE S == Seals(headers)
             T == {i + 3 : i \in S}
             f == [i \in S |-> i + 3]
  <2>1. IsFiniteSet(S) /\ Cardinality(S) = n /\ S \subseteq Nat \ {0}
    BY DEF Chain, Seals
  <2>2. f \in Bijection(S, T)
    BY <2>1 DEF Bijection, Injection, Surjection, IsInjective
  <2>3. IsFiniteSet(T) /\ Cardinality(T) = n
    BY <2>1, <2>2, FS_Bijection DEF ExistsBijection
  <2>4. 1 \notin T
    BY <2>1
  <2>5. Seals(new) = T \cup {1}
    BY <1>7
  <2> HIDE DEF T
  <2> QED
    BY <2>3, <2>4, <2>5, FS_AddElement
<1>11. \A i \in Seals(new) : (new[i].cv = "none") <=> (new[i].instance = 1)
  <2>1. (seal.cv = "none") <=> (seal.instance = 1)
    BY DEF ChainStatus
  <2>2. \A i \in Seals(headers) : /\ new[i + 3] = headers[i]
                                  /\ (headers[i].cv = "none") <=> (headers[i].instance = 1)
    BY <1>5 DEF Seals, Chain
  <2> QED
    BY <1>5, <1>7, <2>1, <2>2
<1> QED
  BY <1>4, <1>8, <1>9, <1>10, <1>11 DEF Chain, new

LEMMA ARCFits ==
  ASSUME NEW cfg \in ConfigType, NEW req \in RequestType
  PROVE  FitsARC(cfg, req)
<1> DEFINE p == handlerARC(req, cfg)
           once == DeliverARC(p, cfg, << >>)
           twice == DeliverARC(p, cfg, once)
<1>1. CASE Complete(deliverARC(p, cfg))
  <2>1. once = signARC(<< >>) /\ twice = signARC(once)
    BY <1>1 DEF DeliverARC
  <2> HIDE DEF p, once, twice
  <2>2. Chain(once, 1)
    BY <2>1, NoChain, ChainGrows
  <2>3. Chain(twice, 2)
    BY <2>1, <2>2, ChainGrows
  <2>4. cfg.enabled
    <3>1. ~cfg.enabled => p = Blank
      BY DEF p, handlerARC
    <3>2. ~cfg.enabled => deliverARC(p, cfg).key = Unset
      BY <3>1 DEF deliverARC, Blank, Or
    <3> QED
      BY <1>1, <3>2 DEF Complete
  <2> QED
    BY <2>3, <2>4 DEF FitsARC, Chain, Seals, p, once, twice
<1>2. CASE ~Complete(deliverARC(p, cfg))
  <2>1. twice = << >>
    BY <1>2 DEF DeliverARC
  <2> HIDE DEF p, once, twice
  <2>2. Chain(twice, 0)
    BY <2>1, NoChain
  <2> QED
    BY <2>1, <2>2 DEF FitsARC, Chain, Seals, p, once, twice
<1> QED
  BY <1>1, <1>2

-----------------------------------------------------------------------------
(* SignMessage extends every unbroken ARC chain by one set and leaves it   *)
(* unbroken, so a message that passes any number of signing hops carries   *)
(* one set per hop: what SignaturesFit checks for two.                     *)
THEOREM ChainsStayUnbroken ==
  /\ Chain(<< >>, 0)
  /\ \A n \in Nat : \A headers :
       Chain(headers, n) => Chain(signARC(headers), n + 1)
BY NoChain, ChainGrows

(* The handler's and the deliverer's choice of signing parameters never    *)
(* combine a request's DKIM key with a selector of the server nor a key of *)
(* the store with another selector or domain, never sign where signing is  *)
(* disabled, never miss a DKIM signature left to a server that has a key   *)
(* and a selector, and never break an ARC chain.                           *)
THEOREM SignaturesAlwaysFit == Spec => []SignaturesFit
<1>1. Misfits = {}
  BY DKIMFits, ARCFits DEF Misfits
<1>2. SignaturesFit
  BY <1>1 DEF SignaturesFit
<1> QED
  BY <1>2, PTL
=============================================================================
