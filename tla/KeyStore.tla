------------------------------ MODULE KeyStore ------------------------------
(***************************************************************************)
(* The DKIM key store (internal/dkim/keystore.go): the selector map that   *)
(* is read again when its file changes, and the cache of key files.        *)
(* Lookups run concurrently, one per delivery; the map is guarded by mapMu *)
(* and the cache by cacheMu, and neither lock is held during file access,  *)
(* so files may change and other lookups may finish between any two steps  *)
(* of a lookup.  Operators edit the files at any time.                     *)
(*                                                                         *)
(* Time is measured in ticks of one selectorMapCheckIntv, and only as      *)
(* distances: left is what remains of a deadline, and is Past once the     *)
(* deadline lies behind (at 0 an entry is neither served nor expired).     *)
(* A domain that fails safePathComponent is answered before any state is   *)
(* touched and is left out; an empty or unsafe selector is NoSelector.     *)
(* What is done with the answer is in Signing.                             *)
(***************************************************************************)
EXTENDS Integers, FiniteSets, FiniteSetsExt, Signing

CONSTANTS
  Lookups,       \* deliveries that ask for a key concurrently
  Domains,       \* From-header domains
  Selectors,     \* directories of the key directory
  NoSelector,    \* fallbackSelector is empty, or the selector is unsafe
  Keys,          \* contents of a key file that parse as a private key
  Broken,        \* states of a key file without one: missing, unparseable
  Maps,          \* contents the selector map file takes
  CacheSize,     \* cacheSize
  PositiveTTL,   \* positiveCacheTTL
  NegativeTTL,   \* negativeCacheTTL
  MapCheck,      \* selectorMapCheckIntv
  Configs,       \* settings: is selectorMapPath set, and fallbackSelector
  InitialDisks,  \* what the key files hold at the start
  MaxEdits       \* bound: how often the operator changes a file

ASSUME KeyStoreAssumption ==
  /\ Configs \subseteq [path : BOOLEAN, fallback : Selectors \cup {NoSelector}]
  /\ InitialDisks \subseteq [Selectors \X Domains -> Keys \cup Broken]
  /\ Maps \subseteq [Domains -> Selectors \cup {NoSelector}]
  /\ CacheSize \in Nat \ {0}
  /\ NegativeTTL \in Nat \ {0} /\ PositiveTTL \in Nat /\ MapCheck \in Nat
  /\ NegativeTTL <= PositiveTTL
  /\ MaxEdits \in Nat

VARIABLES
  config,        \* the settings of this key store
  disk,          \* content of each key file: a key, or broken
  since,         \* history: ticks since a key file last gave an answer
  file,          \* the selector map file
  selectors,     \* ks.selectors
  mapModTime,    \* ks.mapModTime
  mapLeft,       \* what is left until ks.nextMapCheck
  cache,         \* ks.cache
  lost,          \* history: live keys that storing negative answers evicted
                 \* since a key was last stored
  lk,            \* local state of each lookup
  edits          \* number of file changes so far

vars == <<config, disk, since, file, selectors, mapModTime, mapLeft, cache,
          lost, lk, edits>>
mapVars == <<selectors, mapModTime, mapLeft>>
fileVars == <<config, disk, since, file, edits>>

NoKey == "none"
Past == -1
Files == Selectors \X Domains
Answers == Keys \cup {NoKey}

(* What a lookup answers from a key file: a file that is missing, cannot   *)
(* be read or does not parse is no key.                                    *)
Parsed(content) == IF content \in Keys THEN content ELSE NoKey

TTL(answer) == IF answer = NoKey THEN NegativeTTL ELSE PositiveTTL

EmptyMap == [d \in Domains |-> NoSelector]

Idle == [pc |-> "idle"]

(* NewKeyStore loads the map; nextMapCheck is the zero time.               *)
Init ==
  /\ config \in Configs
  /\ disk \in InitialDisks
  /\ since = [f \in Files |->
                [a \in Answers |-> IF a = Parsed(disk[f]) THEN 0
                                                          ELSE PositiveTTL + 1]]
  /\ \E m \in IF config.path THEN Maps ELSE {EmptyMap} :
       /\ file = [present |-> config.path, mtime |-> 0, map |-> m]
       /\ selectors = m
  /\ mapModTime = 0
  /\ mapLeft = Past
  /\ cache = << >>
  /\ lost = 0
  /\ lk = [l \in Lookups |-> Idle]
  /\ edits = 0

(***************************************************************************)
(* The selector map.                                                       *)
(***************************************************************************)
Goto(l, r) == lk' = [lk EXCEPT ![l] = r]
Select(l, d) == Goto(l, [pc |-> "select", domain |-> d])

(* Lookup starts, and maybeReloadSelectorMap claims the check when it is   *)
(* due.  The read of the clock, the check under the read lock and the      *)
(* check under the lock are one step: the loser of the race finds what a   *)
(* lookup that starts after it would find.                                 *)
Lookup(l, d) ==
  /\ lk[l].pc = "idle"
  /\ IF config.path /\ mapLeft < 0
       THEN /\ mapLeft' = MapCheck
            /\ Goto(l, [pc |-> "stat", domain |-> d, modTime |-> mapModTime])
       ELSE Select(l, d) /\ UNCHANGED mapLeft
  /\ UNCHANGED <<selectors, mapModTime, cache, lost, fileVars>>

(* os.Stat: nothing to do when the file is gone or has the known mtime.    *)
maybeReloadSelectorMap(l) ==
  /\ lk[l].pc = "stat"
  /\ IF file.present /\ file.mtime # lk[l].modTime
       THEN Goto(l, [pc |-> "open", domain |-> lk[l].domain])
       ELSE Select(l, lk[l].domain)
  /\ UNCHANGED <<mapVars, cache, lost, fileVars>>

(* reloadSelectorMap opens the file and takes the mtime before it reads.   *)
OpenMap(l) ==
  /\ lk[l].pc = "open"
  /\ IF file.present
       THEN Goto(l, [pc |-> "read", domain |-> lk[l].domain,
                     modTime |-> file.mtime, map |-> file.map])
       ELSE Select(l, lk[l].domain)
  /\ UNCHANGED <<mapVars, cache, lost, fileVars>>

\* Mutant of ReadMap: the mtime is taken once the file has been read.
ReadMapStatsLast(l) ==
  /\ lk[l].pc = "read"
  /\ Goto(l, [lk[l] EXCEPT !.pc = "swap", !.modTime = file.mtime])
  /\ UNCHANGED <<mapVars, cache, lost, fileVars>>

(* The scan gives the content the file had when it was opened, or, when it *)
(* was rewritten in place since, what it has now; or it fails and the      *)
(* previous map stays.                                                     *)
ReadMap(l) ==
  /\ lk[l].pc = "read"
  /\ \/ \E m \in {lk[l].map} \cup (IF file.present THEN {file.map} ELSE {}) :
          Goto(l, [lk[l] EXCEPT !.pc = "swap", !.map = m])
     \/ Select(l, lk[l].domain)
  /\ UNCHANGED <<mapVars, cache, lost, fileVars>>

SwapMap(l) ==
  /\ lk[l].pc = "swap"
  /\ selectors' = lk[l].map
  /\ mapModTime' = lk[l].modTime
  /\ Select(l, lk[l].domain)
  /\ UNCHANGED <<mapLeft, cache, lost, fileVars>>

(***************************************************************************)
(* The key cache.                                                          *)
(***************************************************************************)
SelectorOf(d) == IF selectors[d] = NoSelector THEN config.fallback ELSE selectors[d]
Served(f) == f \in DOMAIN cache /\ cache[f].left > 0

(* No selector: the domain is not signed.  A live entry is the answer.     *)
Answer(l) ==
  /\ lk[l].pc = "select"
  /\ LET s == SelectorOf(lk[l].domain)
     IN s = NoSelector \/ Served(<<s, lk[l].domain>>)
  /\ Goto(l, Idle)
  /\ UNCHANGED <<mapVars, cache, lost, fileVars>>

(* A miss: the clock was read before the file is, lag counts from there.   *)
Miss(l) ==
  /\ lk[l].pc = "select"
  /\ LET s == SelectorOf(lk[l].domain)
         f == <<s, lk[l].domain>>
     IN /\ s # NoSelector /\ ~Served(f)
        /\ Goto(l, [pc |-> "key", file |-> f, lag |-> 0])
  /\ UNCHANGED <<mapVars, cache, lost, fileVars>>

ReadKey(l) ==
  /\ lk[l].pc = "key"
  /\ Goto(l, [pc |-> "store", file |-> lk[l].file, lag |-> lk[l].lag,
              key |-> Parsed(disk[lk[l].file])])
  /\ UNCHANGED <<mapVars, cache, lost, fileVars>>

\* Mutant of Kept: entries are dropped in any order once the expired are gone.
KeptAny ==
  LET live == {f \in DOMAIN cache : cache[f].left >= 0}
      excess == Cardinality(live) - (CacheSize - 1)
  IN IF Cardinality(DOMAIN cache) < CacheSize THEN {DOMAIN cache}
     ELSE {live \ r : r \in kSubset(IF excess > 0 THEN excess ELSE 0, live)}

(* The sets of entries the eviction may leave before an entry is stored.   *)
(* Ranging over a map while deleting from it visits the entries in any     *)
(* order.                                                                  *)
Kept ==
  LET live == {f \in DOMAIN cache : cache[f].left >= 0}
      negative == {f \in live : cache[f].key = NoKey}
      excess == Cardinality(live) - (CacheSize - 1)
  IN CASE Cardinality(DOMAIN cache) < CacheSize -> {DOMAIN cache}
       [] Cardinality(DOMAIN cache) >= CacheSize /\ excess <= 0 -> {live}
       [] excess > 0 /\ excess <= Cardinality(negative) ->
            {live \ r : r \in kSubset(excess, negative)}
       [] OTHER ->
            {(live \ negative) \ r :
               r \in kSubset(excess - Cardinality(negative), live \ negative)}

(* The live signing keys.                                                  *)
Hot == {f \in DOMAIN cache : cache[f].left >= 0 /\ cache[f].key # NoKey}

Count(answer) ==
  lost' = IF answer = NoKey THEN lost + Cardinality(Hot \ DOMAIN cache') ELSE 0

\* Mutant of storeCacheEntry: the lifetime starts when the entry is stored.
storeCacheEntryRestarts(l) ==
  /\ lk[l].pc = "store"
  /\ \E kept \in Kept :
       cache' = [f \in kept \cup {lk[l].file} |->
                   IF f = lk[l].file
                     THEN [key |-> lk[l].key, left |-> TTL(lk[l].key)]
                     ELSE cache[f]]
  /\ Count(lk[l].key)
  /\ Goto(l, Idle)
  /\ UNCHANGED <<mapVars, fileVars>>

storeCacheEntry(l) ==
  /\ lk[l].pc = "store"
  /\ \E kept \in Kept :
       cache' = [f \in kept \cup {lk[l].file} |->
                   IF f = lk[l].file
                     THEN [key |-> lk[l].key,
                           left |-> Max({Past, TTL(lk[l].key) - lk[l].lag})]
                     ELSE cache[f]]
  /\ Count(lk[l].key)
  /\ Goto(l, Idle)
  /\ UNCHANGED <<mapVars, fileVars>>

(***************************************************************************)
(* The operator and the clock.                                             *)
(***************************************************************************)
EditKey(f) ==
  /\ edits < MaxEdits
  /\ edits' = edits + 1
  /\ \E c \in (Keys \cup Broken) \ {disk[f]} :
       /\ disk' = [disk EXCEPT ![f] = c]
       /\ since' = [since EXCEPT ![f][Parsed(c)] = 0]
  /\ UNCHANGED <<config, file, mapVars, cache, lost, lk>>

(* Every change of the map file gives it an mtime of its own.              *)
EditMap ==
  /\ config.path
  /\ edits < MaxEdits
  /\ edits' = edits + 1
  /\ \/ \E m \in Maps :
          file' = [present |-> TRUE, mtime |-> edits + 1, map |-> m]
     \/ file.present /\ file' = [file EXCEPT !.present = FALSE]
  /\ UNCHANGED <<config, disk, since, mapVars, cache, lost, lk>>

Sooner(left) == IF left = Past THEN Past ELSE left - 1
Later(n) == IF n > PositiveTTL THEN n ELSE n + 1

Tick ==
  /\ mapLeft' = Sooner(mapLeft)
  /\ cache' = [f \in DOMAIN cache |->
                 [cache[f] EXCEPT !.left = Sooner(@)]]
  /\ since' = [f \in Files |->
                 [a \in Answers |-> IF a = Parsed(disk[f]) THEN 0
                                    ELSE Later(since[f][a])]]
  /\ lk' = [l \in Lookups |->
              IF lk[l].pc \in {"key", "store"}
                THEN [lk[l] EXCEPT !.lag = Later(@)] ELSE lk[l]]
  /\ UNCHANGED <<config, disk, file, selectors, mapModTime, lost, edits>>

(* The steps that end a lookup that has started.                           *)
Advance(l) ==
  \/ maybeReloadSelectorMap(l) \/ OpenMap(l) \/ ReadMap(l) \/ SwapMap(l)
  \/ Answer(l) \/ Miss(l) \/ ReadKey(l) \/ storeCacheEntry(l)

Next ==
  \/ \E l \in Lookups : Advance(l)
  \/ \E l \in Lookups, d \in Domains : Lookup(l, d)
  \/ \E f \in Files : EditKey(f)
  \/ EditMap
  \/ Tick

Spec == Init /\ [][Next]_vars

(***************************************************************************)
(* Properties.                                                             *)
(***************************************************************************)
LookupType ==
  [pc : {"idle"}]
    \cup [pc : {"stat"}, domain : Domains, modTime : 0..MaxEdits]
    \cup [pc : {"open", "select"}, domain : Domains]
    \cup [pc : {"read", "swap"}, domain : Domains, modTime : 0..MaxEdits,
          map : Maps \cup {EmptyMap}]
    \cup [pc : {"key"}, file : Files, lag : 0..(PositiveTTL + 1)]
    \cup [pc : {"store"}, file : Files, lag : 0..(PositiveTTL + 1), key : Answers]

TypeOK ==
  /\ config \in Configs
  /\ disk \in [Files -> Keys \cup Broken]
  /\ since \in [Files -> [Answers -> 0..(PositiveTTL + 1)]]
  /\ file \in [present : BOOLEAN, mtime : 0..MaxEdits, map : Maps \cup {EmptyMap}]
  /\ selectors \in Maps \cup {EmptyMap}
  /\ mapModTime \in 0..MaxEdits
  /\ mapLeft \in Past..MapCheck
  /\ DOMAIN cache \subseteq Files
  /\ cache \in [DOMAIN cache -> [key : Answers, left : Past..PositiveTTL]]
  /\ lost \in Nat
  /\ lk \in [Lookups -> LookupType]
  /\ edits \in 0..MaxEdits

(* An answer is served from the cache for at most its lifetime after the   *)
(* key file stopped giving it, however long the lookup that stored it was  *)
(* delayed between reading the file and storing the entry, and whichever   *)
(* of two lookups stored last: a replaced or removed key is in use for at  *)
(* most an hour, an added one is ignored for at most five minutes.         *)
StaleKeyBound ==
  \A f \in DOMAIN cache :
    cache[f].left > 0 =>
      since[f][cache[f].key] + cache[f].left <= TTL(cache[f].key)

(* A burst of unknown From domains, however long and whatever expires      *)
(* meanwhile, evicts at most one live signing key.  The comment in         *)
(* storeCacheEntry says that it evicts none: a cache full of live keys     *)
(* gives up one for the first negative answer, which the next replace.     *)
BurstCostsOneKey == lost <= 1

(* No edit of the selector map is missed: while the key store holds the    *)
(* mtime the file has, it holds its content too.  A reload that overlaps   *)
(* an edit, or that finishes after a later reload, leaves an mtime that    *)
(* differs from the file's, and the next check repairs it.                 *)
NoEditMissed ==
  file.present /\ mapModTime = file.mtime => selectors = file.map

(* Signatures fit, whatever the lookups that are ending answer and where   *)
(* there is no key store, for all settings and requests: what FitsDKIM and *)
(* FitsARC say of the request's DKIM key, of the keys of the store, of     *)
(* disabled signing, of requests that leave DKIM to the server and of the  *)
(* ARC chain.  It says nothing of a configured DKIM key, which goes with a *)
(* selector and a domain of the request, nor of the parameters of ARC,     *)
(* where a request's key may go with the configured selector and domain.   *)
SignaturesFit ==
  LET answers == {IF lk[l].key = NoKey THEN "missing" ELSE "found" :
                    l \in {m \in Lookups : lk[m].pc = "store"}}
  IN \A m \in Misfits : m.store \notin {"none"} \cup answers
=============================================================================
