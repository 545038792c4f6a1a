-------------------------- MODULE RateLimits_proofs -------------------------
(***************************************************************************)
(* Proofs about RateLimits, for every quota, window, interval, burst and   *)
(* cutoff and any number of concurrent requests.                           *)
(*                                                                         *)
(* The bounds hold for a span of time that moves, so both invariants speak *)
(* of every shorter span too: for the client, of what was let through      *)
(* before and since the last refill; for the domain, of what was sent in   *)
(* the last n ticks together with the tokens that can still be spent.      *)
(***************************************************************************)
EXTENDS RateLimits, FiniteSetTheorems, WellFoundedInduction, TLAPS

(* While the bucket is in its window, what was let through since the       *)
(* refill is what the bucket lacks, the refill itself let one through, and *)
(* what remains of the window before it held at most the quota less one.   *)
(* Otherwise nothing was let through in this tick, and in the window at    *)
(* most the quota less one.                                                *)
InboundInv ==
    IF bucket = None \/ bucket.age >= Window
    THEN /\ passed[0] = 0
         /\ InLast(passed, Window)[Window] <= RequestsPerIP - 1
    ELSE /\ InLast(passed, Window)[bucket.age + 1] = RequestsPerIP - bucket.tokens
         /\ passed[bucket.age] >= 1
         /\ InLast(passed, Window)[Window]
              <= InLast(passed, Window)[bucket.age + 1] + RequestsPerIP - 1

Spent(n) == Interval * InLast(sent, Cutoff)[n]

(* What the next request finds: a missing limiter is stored full.          *)
Stock == IF stored = None THEN Full ELSE Tokens(stored)

(* Limiters that were deleted while requests held them.                    *)
Deleted(l) == l # None /\ l # stored

(* What was spent in the last n ticks and what can be spent stays within   *)
(* two bursts and the refill; a deleted limiter that is still held is part *)
(* of the two. There is one of them at a time, as the next deletion needs  *)
(* a limiter that has been idle for Cutoff, and by then all was idle.      *)
LoadedHolds == \A s \in Senders : pc[s] = "loaded" <=> held[s] # None

SpendBound == \A n \in 1..Cutoff : Spent(n) + Stock <= 2 * Full + n - 1

DeletedIsOne ==
    \A s \in Senders : Deleted(held[s]) =>
      /\ \A t \in Senders : Deleted(held[t]) => held[t] = held[s]
      /\ \A n \in 1..Cutoff : Spent(n) + Stock + Tokens(held[s]) <= 2 * Full + n - 1

IdleSince ==
    stored # None =>
      /\ \A i \in 0..(Cutoff - 1) : i < limiter[stored].age => sent[i] = 0
      /\ limiter[stored].age >= 1 => \A s \in Senders : ~Deleted(held[s])

SweptIsOld ==
    sweeping =>
      /\ stored # None
      /\ \A s \in Senders : ~Deleted(held[s])
      /\ \A n \in 1..Cutoff : Spent(n) + Tokens(stored) <= Full + n - 1

DomainInv == LoadedHolds /\ SpendBound /\ DeletedIsOne /\ IdleSince /\ SweptIsOld

LimitsInv == TypeOK /\ InboundInv /\ DomainInv

-----------------------------------------------------------------------------
(***************************************************************************)
(* Induction, by the least counterexample.                                 *)
(***************************************************************************)
LEMMA LeastNat ==
  ASSUME NEW S \in SUBSET Nat, S # {}
  PROVE  \E x \in S : \A y \in S : x <= y
<1>1. PICK x \in S : \A y \in S : <<y, x>> \notin OpToRel(<, Nat)
  BY NatLessThanWellFounded, WFMin
<1>2. \A y \in S : ~(y < x)
  BY <1>1 DEF OpToRel
<1> QED
  BY <1>2

LEMMA UpTo ==
  ASSUME NEW n \in Nat, NEW S, 0 \in S, \A i \in 1..n : i - 1 \in S => i \in S
  PROVE  \A i \in 0..n : i \in S
<1> DEFINE Bad == (0..n) \ S
<1> SUFFICES ASSUME Bad # {} PROVE FALSE
  OBVIOUS
<1>1. PICK m \in Bad : \A k \in Bad : m <= k
  <2>1. Bad \in SUBSET Nat
    OBVIOUS
  <2> QED
    BY <2>1, LeastNat
<1>2. m \in 1..n /\ m - 1 \in 0..n /\ m - 1 \notin Bad
  BY <1>1
<1> QED
  BY <1>2

-----------------------------------------------------------------------------
(***************************************************************************)
(* Sums over the last ticks.                                               *)
(***************************************************************************)
IsSum(g, count, n) == \A i \in 0..n : g[i] = IF i = 0 THEN 0 ELSE g[i - 1] + count[i - 1]

LEMMA SumExists ==
  ASSUME NEW size \in Nat, NEW count \in [0..(size - 1) -> Nat]
  PROVE  \E g \in [0..size -> Nat] : IsSum(g, count, size)
<1> DEFINE Good == {n \in 0..size : \E g \in [0..n -> Nat] : IsSum(g, count, n)}
<1>1. 0 \in Good
  <2> DEFINE g == [i \in 0..0 |-> 0]
  <2>1. g \in [0..0 -> Nat] /\ 0 \in 0..size
    OBVIOUS
  <2>2. \A i \in 0..0 : i = 0 /\ g[i] = 0
    OBVIOUS
  <2>3. IsSum(g, count, 0)
    BY <2>2 DEF IsSum
  <2> QED
    BY <2>1, <2>3
<1>2. ASSUME NEW n \in 1..size, n - 1 \in Good PROVE n \in Good
  <2>1. PICK g \in [0..(n - 1) -> Nat] : IsSum(g, count, n - 1)
    BY <1>2
  <2> DEFINE h == [i \in 0..n |-> IF i = n THEN g[n - 1] + count[n - 1] ELSE g[i]]
  <2>2. g[n - 1] + count[n - 1] \in Nat
    OBVIOUS
  <2>3. h \in [0..n -> Nat]
    BY <2>2
  <2>4. IsSum(h, count, n)
    <3> SUFFICES ASSUME NEW i \in 0..n
                 PROVE  h[i] = IF i = 0 THEN 0 ELSE h[i - 1] + count[i - 1]
      BY DEF IsSum
    <3>1. CASE i = n
      <4>1. h[i] = g[n - 1] + count[n - 1] /\ h[i - 1] = g[n - 1] /\ i # 0
        BY <3>1
      <4> QED
        BY <3>1, <4>1
    <3>2. CASE i # n
      <4>1. i \in 0..(n - 1) /\ h[i] = g[i] /\ (i # 0 => h[i - 1] = g[i - 1])
        BY <3>2
      <4>2. g[i] = IF i = 0 THEN 0 ELSE g[i - 1] + count[i - 1]
        BY <2>1, <4>1 DEF IsSum
      <4> QED
        BY <4>1, <4>2
    <3> QED
      BY <3>1, <3>2
  <2>5. \E f \in [0..n -> Nat] : IsSum(f, count, n)
    <3> HIDE DEF h
    <3> QED
      BY <2>3, <2>4
  <2>6. n \in 0..size
    OBVIOUS
  <2> QED
    BY <2>5, <2>6
<1>3. \A n \in 0..size : n \in Good
  <2> HIDE DEF Good
  <2> QED
    BY <1>1, <1>2, UpTo
<1>4. size \in Good
  <2> HIDE DEF Good
  <2> QED
    BY <1>3
<1> QED
  BY <1>4

(* InLast is the running sum.                                              *)
LEMMA Sums ==
  ASSUME NEW size \in Nat, NEW count \in [0..(size - 1) -> Nat]
  PROVE  /\ InLast(count, size) \in [0..size -> Nat]
         /\ InLast(count, size)[0] = 0
         /\ \A i \in 1..size :
              InLast(count, size)[i] = InLast(count, size)[i - 1] + count[i - 1]
<1> DEFINE Rounds(f) == [n \in 0..size |-> IF n = 0 THEN 0 ELSE f[n - 1] + count[n - 1]]
           sum == CHOOSE f : f = Rounds(f)
<1>1. \E f : f = Rounds(f)
  <2>1. PICK g \in [0..size -> Nat] : IsSum(g, count, size)
    BY SumExists
  <2>2. g = Rounds(g)
    BY <2>1 DEF IsSum
  <2> QED
    BY <2>2
<1>2. sum = Rounds(sum)
  <2> HIDE DEF Rounds
  <2> QED
    BY <1>1
<1>3. InLast(count, size) = sum
  BY DEF InLast
<1> HIDE DEF sum
<1>4. PICK g : g = sum
  OBVIOUS
<1>5. g[0] = 0 /\ \A i \in 1..size : g[i] = g[i - 1] + count[i - 1]
  BY <1>2, <1>4
<1>6. \A i \in 0..size : g[i] \in Nat
  <2> DEFINE Good == {i \in 0..size : g[i] \in Nat}
  <2>1. 0 \in Good
    BY <1>5
  <2>2. \A i \in 1..size : i - 1 \in Good => i \in Good
    BY <1>5
  <2>3. \A i \in 0..size : i \in Good
    <3> HIDE DEF Good
    <3> QED
      BY <2>1, <2>2, UpTo
  <2> QED
    BY <2>3
<1>7. g \in [0..size -> Nat]
  BY <1>2, <1>4, <1>6
<1> QED
  BY <1>3, <1>4, <1>5, <1>7

(* A longer span holds at least as much.                                   *)
LEMMA SumsGrow ==
  ASSUME NEW size \in Nat, NEW count \in [0..(size - 1) -> Nat], NEW m \in 0..size
  PROVE  \A n \in 0..size : m <= n => InLast(count, size)[m] <= InLast(count, size)[n]
<1>1. PICK g \in [0..size -> Nat] :
        g = InLast(count, size) /\ \A i \in 1..size : g[i] = g[i - 1] + count[i - 1]
  BY Sums
<1> DEFINE Good == {n \in 0..size : m <= n => g[m] <= g[n]}
<1>2. 0 \in Good
  OBVIOUS
<1>3. ASSUME NEW n \in 1..size, n - 1 \in Good PROVE n \in Good
  <2>1. g[n] = g[n - 1] + count[n - 1] /\ count[n - 1] \in Nat /\ g[n - 1] \in Nat
    BY <1>1
  <2> QED
    BY <1>3, <2>1
<1>4. \A n \in 0..size : n \in Good
  <2> HIDE DEF Good
  <2> QED
    BY <1>2, <1>3, UpTo
<1> QED
  BY <1>1, <1>4

(* Nothing counted adds up to nothing.                                     *)
LEMMA SumsIdle ==
  ASSUME NEW size \in Nat, NEW count \in [0..(size - 1) -> Nat],
         \A i \in 0..(size - 1) : count[i] = 0
  PROVE  \A n \in 0..size : InLast(count, size)[n] = 0
<1>1. PICK g \in [0..size -> Nat] :
        /\ g = InLast(count, size) /\ g[0] = 0
        /\ \A i \in 1..size : g[i] = g[i - 1] + count[i - 1]
  BY Sums
<1> DEFINE Good == {n \in 0..size : g[n] = 0}
<1>2. 0 \in Good
  BY <1>1
<1>3. ASSUME NEW n \in 1..size, n - 1 \in Good PROVE n \in Good
  <2>1. n \in 0..size /\ n - 1 \in 0..(size - 1)
    OBVIOUS
  <2>2. g[n] = g[n - 1] + count[n - 1] /\ g[n - 1] = 0 /\ count[n - 1] = 0
    BY <1>1, <1>3, <2>1
  <2> QED
    BY <2>1, <2>2
<1>4. \A n \in 0..size : n \in Good
  <2> HIDE DEF Good
  <2> QED
    BY <1>2, <1>3, UpTo
<1> QED
  BY <1>1, <1>4

(* One more in this tick.                                                  *)
LEMMA SumsCount ==
  ASSUME NEW size \in Nat \ {0}, NEW count \in [0..(size - 1) -> Nat],
         NEW more, more = [count EXCEPT ![0] = @ + 1]
  PROVE  /\ more \in [0..(size - 1) -> Nat]
         /\ \A n \in 1..size : InLast(more, size)[n] = InLast(count, size)[n] + 1
<1>1. /\ more \in [0..(size - 1) -> Nat]
      /\ more[0] = count[0] + 1
      /\ \A i \in 1..(size - 1) : more[i] = count[i]
  OBVIOUS
<1>2. PICK g \in [0..size -> Nat] :
        /\ g = InLast(count, size) /\ g[0] = 0
        /\ \A i \in 1..size : g[i] = g[i - 1] + count[i - 1]
  BY Sums
<1>3. PICK h \in [0..size -> Nat] :
        /\ h = InLast(more, size) /\ h[0] = 0
        /\ \A i \in 1..size : h[i] = h[i - 1] + more[i - 1]
  <2>1. more \in [0..(size - 1) -> Nat] /\ size \in Nat
    BY <1>1
  <2>2. /\ InLast(more, size) \in [0..size -> Nat] /\ InLast(more, size)[0] = 0
        /\ \A i \in 1..size : InLast(more, size)[i] = InLast(more, size)[i - 1] + more[i - 1]
    BY <2>1, Sums
  <2> QED
    BY <2>2
<1> DEFINE Good == {n \in 0..size : n # 0 => h[n] = g[n] + 1}
<1>4. 0 \in Good
  OBVIOUS
<1>5. ASSUME NEW n \in 1..size, n - 1 \in Good PROVE n \in Good
  <2>1. h[n] = h[n - 1] + more[n - 1] /\ g[n] = g[n - 1] + count[n - 1]
    BY <1>2, <1>3
  <2>2. CASE n = 1
    BY <1>1, <1>2, <1>3, <2>1, <2>2
  <2>3. CASE n # 1
    <3>0. n - 1 \in 1..(size - 1) /\ n - 1 # 0
      BY <2>3
    <3>1. more[n - 1] = count[n - 1] /\ h[n - 1] = g[n - 1] + 1
      BY <1>1, <1>5, <3>0
    <3>2. PICK x \in Nat, y \in Nat : x = g[n - 1] /\ y = count[n - 1]
      <4>1. n - 1 \in 0..size /\ n - 1 \in 0..(size - 1)
        BY <3>0
      <4>2. g[n - 1] \in Nat
        BY <4>1
      <4>3. count[n - 1] \in Nat
        BY <4>1
      <4> QED
        BY <4>2, <4>3
    <3>3. h[n] = (x + 1) + y /\ g[n] = x + y
      BY <2>1, <3>1, <3>2
    <3>4. h[n] = g[n] + 1
      BY <3>2, <3>3
    <3>5. n \in 0..size
      OBVIOUS
    <3> QED
      BY <3>4, <3>5
  <2> QED
    BY <2>2, <2>3
<1>6. \A n \in 0..size : n \in Good
  <2> HIDE DEF Good
  <2> QED
    BY <1>4, <1>5, UpTo
<1>7. \A n \in 1..size : h[n] = g[n] + 1
  BY <1>6
<1> HIDE DEF Good
<1> QED
  BY <1>1, <1>2, <1>3, <1>7

(* A tick later the last n + 1 ticks hold what the last n held.            *)
LEMMA SumsShift ==
  ASSUME NEW size \in Nat \ {0}, NEW count \in [0..(size - 1) -> Nat]
  PROVE  /\ Shifted(count) \in [0..(size - 1) -> Nat]
         /\ \A n \in 1..size : InLast(Shifted(count), size)[n] = InLast(count, size)[n - 1]
<1>1. PICK old : old = Shifted(count)
  OBVIOUS
<1>2. /\ old \in [0..(size - 1) -> Nat] /\ old[0] = 0
      /\ \A i \in 1..(size - 1) : old[i] = count[i - 1]
  BY <1>1 DEF Shifted
<1>3. PICK g \in [0..size -> Nat] :
        /\ g = InLast(count, size) /\ g[0] = 0
        /\ \A i \in 1..size : g[i] = g[i - 1] + count[i - 1]
  BY Sums
<1>4. PICK h \in [0..size -> Nat] :
        /\ h = InLast(old, size) /\ h[0] = 0
        /\ \A i \in 1..size : h[i] = h[i - 1] + old[i - 1]
  BY <1>2, Sums
<1> DEFINE Good == {n \in 0..size : n # 0 => h[n] = g[n - 1]}
<1>5. 0 \in Good
  OBVIOUS
<1>6. ASSUME NEW n \in 1..size, n - 1 \in Good PROVE n \in Good
  <2>1. h[n] = h[n - 1] + old[n - 1]
    BY <1>4
  <2>2. CASE n = 1
    BY <1>2, <1>3, <1>4, <2>1, <2>2
  <2>3. CASE n # 1
    <3>1. PICK k \in 1..(size - 1) : k = n - 1
      BY <2>3
    <3>2. old[k] = count[k - 1] /\ h[k] = g[k - 1] /\ g[k] = g[k - 1] + count[k - 1]
      BY <1>2, <1>3, <1>6, <3>1
    <3> QED
      BY <2>1, <3>1, <3>2
  <2> QED
    BY <2>2, <2>3
<1>7. \A n \in 0..size : n \in Good
  <2> HIDE DEF Good
  <2> QED
    BY <1>5, <1>6, UpTo
<1> QED
  BY <1>1, <1>2, <1>3, <1>4, <1>7

-----------------------------------------------------------------------------
(***************************************************************************)
(* Bounds.                                                                 *)
(***************************************************************************)
LEMMA Constants ==
  /\ RequestsPerIP \in Nat \ {0} /\ Window \in Nat \ {0} /\ Interval \in Nat \ {0}
  /\ Burst \in Nat \ {0} /\ Cutoff \in Nat \ {0}
  /\ Full \in Nat /\ MaxBucketAge \in Nat /\ MaxBucketAge > 2 * Window
BY ConstantsAssumption DEF Full, MaxBucketAge

LEMMA OlderOf ==
  ASSUME NEW max \in Nat, NEW age \in 0..max
  PROVE  /\ Older(age, max) \in 0..max
         /\ age < max => Older(age, max) = age + 1
         /\ age = max => Older(age, max) = age
BY DEF Older

LEMMA BucketIsThere ==
  ASSUME NEW r \in [tokens : 0..RequestsPerIP, age : 0..MaxBucketAge]
  PROVE  r # None
<1>1. r.tokens \in Nat /\ r.age \in Nat /\ r = [tokens |-> r.tokens, age |-> r.age]
  BY Constants
<1>2. r \in [tokens : Nat, age : Nat]
  BY <1>1
<1> QED
  BY <1>2, ConstantsAssumption

LEMMA TakeToken ==
  ASSUME NEW r \in [tokens : 0..RequestsPerIP, age : 0..MaxBucketAge], r.tokens > 0
  PROVE  /\ r.tokens - 1 \in 0..RequestsPerIP
         /\ [r EXCEPT !.tokens = @ - 1] = [tokens |-> r.tokens - 1, age |-> r.age]
         /\ [r EXCEPT !.tokens = @ - 1] \in [tokens : 0..RequestsPerIP, age : 0..MaxBucketAge]
<1>1. r.tokens \in 0..RequestsPerIP /\ r.age \in 0..MaxBucketAge
  OBVIOUS
<1>2. r.tokens - 1 \in 0..RequestsPerIP
  BY <1>1, Constants
<1> QED
  BY <1>1, <1>2

LEMMA MaxOf ==
  ASSUME NEW a \in Nat, NEW b \in Nat
  PROVE  Max({a, b}) \in Nat /\ Max({a, b}) >= a /\ Max({a, b}) >= b
<1>1. \E x \in {a, b} : \A y \in {a, b} : x >= y
  OBVIOUS
<1>2. Max({a, b}) \in {a, b} /\ \A y \in {a, b} : Max({a, b}) >= y
  BY <1>1 DEF Max
<1> QED
  BY <1>2

LEMMA MinOf ==
  ASSUME NEW a \in Nat, NEW b \in Nat
  PROVE  Min({a, b}) = IF a <= b THEN a ELSE b
<1>1. \E x \in {a, b} : \A y \in {a, b} : x <= y
  OBVIOUS
<1>2. Min({a, b}) \in {a, b} /\ \A y \in {a, b} : Min({a, b}) <= y
  BY <1>1 DEF Min
<1> QED
  BY <1>2

LEMMA LimiterAges ==
  MaxLimiterAge \in Nat /\ MaxLimiterAge >= Cutoff + 1 /\ MaxLimiterAge >= Full
<1>1. Cutoff + 1 \in Nat /\ Full \in Nat
  BY Constants
<1> QED
  BY <1>1, MaxOf DEF MaxLimiterAge

LEMMA TokensOf ==
  ASSUME TypeOK, NEW l \in Limiters
  PROVE  /\ Tokens(l) \in 0..Full
         /\ Tokens(l) = IF Full <= limiter[l].tokens + limiter[l].age
                         THEN Full ELSE limiter[l].tokens + limiter[l].age
<1>1. limiter[l].tokens \in 0..Full /\ limiter[l].age \in 0..MaxLimiterAge
  BY DEF TypeOK
<1>2. limiter[l].tokens + limiter[l].age \in Nat /\ Full \in Nat
  BY <1>1, Constants, LimiterAges
<1>3. Tokens(l) = IF Full <= limiter[l].tokens + limiter[l].age
                  THEN Full ELSE limiter[l].tokens + limiter[l].age
  BY <1>2, MinOf DEF Tokens
<1> QED
  BY <1>2, <1>3

(* There is a limiter to store when none is: each request holds at most    *)
(* one, and they are one more than the requests.                           *)
LEMMA UnusedLimiter ==
  ASSUME TypeOK, stored = None
  PROVE  /\ Min(Unused) \in Limiters
         /\ \A s \in Senders : held[s] # Min(Unused)
<1>1. IsFiniteSet(Senders) /\ Cardinality(Senders) \in Nat
  BY ConstantsAssumption, FS_CardinalityType
<1>2. IsFiniteSet(Limiters) /\ Cardinality(Limiters) = Cardinality(Senders) + 1
  BY <1>1, FS_Interval DEF Limiters
<1>3. Unused # {}
  <2> SUFFICES ASSUME Unused = {} PROVE FALSE
    OBVIOUS
  <2> DEFINE S == {s \in Senders : held[s] \in Limiters}
             f == [s \in S |-> held[s]]
  <2>1. stored \notin Limiters
    BY ConstantsAssumption, <1>1 DEF Limiters
  <2>2. \A l \in Limiters : \E s \in S : held[s] = l
    BY <2>1 DEF Unused
  <2>3. f \in Surjection(S, Limiters)
    BY <2>2 DEF Surjection
  <2>4. S \in SUBSET Senders
    OBVIOUS
  <2> HIDE DEF S, f
  <2>5. IsFiniteSet(S) /\ Cardinality(S) <= Cardinality(Senders) /\ Cardinality(S) \in Nat
    BY <1>1, <2>4, FS_Subset, FS_CardinalityType
  <2>6. Cardinality(Limiters) <= Cardinality(S)
    BY <2>3, <2>5, FS_Surjection
  <2> QED
    BY <1>1, <1>2, <2>5, <2>6
<1>4. Unused \in SUBSET Nat
  BY <1>1 DEF Unused, Limiters
<1>5. \E x \in Unused : \A y \in Unused : x <= y
  BY <1>3, <1>4, LeastNat
<1>6. Min(Unused) \in Unused
  BY <1>5 DEF Min
<1> QED
  BY <1>6 DEF Unused

-----------------------------------------------------------------------------
(***************************************************************************)
(* Types.                                                                  *)
(***************************************************************************)
LEMMA TypeNext == LimitsInv /\ [Next]_vars => TypeOK'
<1> SUFFICES ASSUME LimitsInv, [Next]_vars PROVE TypeOK'
  OBVIOUS
<1>0. TypeOK
  BY DEF LimitsInv
<1> USE <1>0, Constants, LimiterAges DEF TypeOK, inboundVars, domainVars
<1>1. ASSUME NEW s \in Senders, Allow(s) PROVE TypeOK'
  <2>1. Refilled \in [tokens : 0..RequestsPerIP, age : 0..MaxBucketAge]
    BY DEF Refilled
  <2>2. CASE /\ Refilled.tokens > 0
             /\ bucket' = [Refilled EXCEPT !.tokens = @ - 1]
             /\ passed' = [passed EXCEPT ![0] = @ + 1]
             /\ pc' = [pc EXCEPT ![s] = "admitted"]
    <3>1. bucket' \in [tokens : 0..RequestsPerIP, age : 0..MaxBucketAge]
      BY <2>1, <2>2, TakeToken, Zenon
    <3>2. passed' \in [0..(Window - 1) -> Nat]
      BY <2>2, SumsCount
    <3> QED
      BY <1>1, <2>2, <3>1, <3>2 DEF Allow
  <2>3. CASE bucket' = Refilled /\ UNCHANGED <<passed, pc>>
    BY <1>1, <2>1, <2>3 DEF Allow
  <2> QED
    BY <1>1, <2>2, <2>3 DEF Allow
<1>2. ASSUME NEW s \in Senders, AllowOther(s) \/ Bypass(s) PROVE TypeOK'
  BY <1>2 DEF AllowOther, Bypass
<1>3. ASSUME NEW s \in Senders, LoadLimiter(s) PROVE TypeOK'
  <2>1. pc' = [pc EXCEPT ![s] = "loaded"] /\ UNCHANGED <<inboundVars, sweeping, sent>>
    BY <1>3 DEF LoadLimiter
  <2>2. CASE /\ stored # None
             /\ held' = [held EXCEPT ![s] = stored]
             /\ UNCHANGED <<stored, limiter>>
    BY <2>1, <2>2
  <2>3. CASE /\ stored = None
             /\ stored' = Min(Unused)
             /\ held' = [held EXCEPT ![s] = stored']
             /\ limiter' = [limiter EXCEPT ![stored'] = Fresh]
    <3>1. stored' \in Limiters
      BY <2>3, UnusedLimiter
    <3>2. Fresh \in [tokens : 0..Full, age : 0..MaxLimiterAge]
      BY DEF Fresh
    <3> QED
      BY <2>1, <2>3, <3>1, <3>2
  <2> QED
    BY <1>3, <2>2, <2>3 DEF LoadLimiter
<1>4. ASSUME NEW s \in Senders, waitForDomainRateLimit(s) PROVE TypeOK'
  <2>1. held[s] \in Limiters
    BY <1>4 DEF waitForDomainRateLimit, LimitsInv, DomainInv, LoadedHolds
  <2>2. Tokens(held[s]) \in 0..Full
    BY <2>1, TokensOf
  <2>3. /\ pc' = [pc EXCEPT ![s] = "idle"] /\ held' = [held EXCEPT ![s] = None]
        /\ UNCHANGED <<inboundVars, stored, sweeping>>
    BY <1>4 DEF waitForDomainRateLimit
  <2>4. limiter' \in [Limiters -> [tokens : 0..Full, age : 0..MaxLimiterAge]]
    <3>1. PICK k \in 0..Full : limiter' = [limiter EXCEPT ![held[s]] = [tokens |-> k, age |-> 0]]
      <4>1. CASE Tokens(held[s]) >= Interval
        <5>1. Tokens(held[s]) - Interval \in 0..Full
          BY <2>2, <4>1
        <5> QED
          BY <1>4, <2>2, <4>1, <5>1 DEF waitForDomainRateLimit
      <4>2. CASE Tokens(held[s]) < Interval
        BY <1>4, <2>2, <4>2 DEF waitForDomainRateLimit
      <4> QED
        BY <2>2, <4>1, <4>2
    <3>2. [tokens |-> k, age |-> 0] \in [tokens : 0..Full, age : 0..MaxLimiterAge]
      OBVIOUS
    <3> QED
      BY <2>1, <3>1, <3>2
  <2>5. sent' \in [0..(Cutoff - 1) -> Nat]
    BY <1>4, SumsCount DEF waitForDomainRateLimit
  <2> QED
    BY <2>3, <2>4, <2>5
<1>5. CASE Cleanup \/ CleanupReads \/ CleanupDeletes
  BY <1>5 DEF Cleanup, CleanupReads, CleanupDeletes
<1>6. CASE Tick
  <2>1. UNCHANGED <<pc, held, stored, sweeping>>
    BY <1>6 DEF Tick
  <2>2. bucket' \in {None} \cup [tokens : 0..RequestsPerIP, age : 0..MaxBucketAge]
    <3>1. CASE bucket = None
      BY <1>6, <3>1 DEF Tick
    <3>2. CASE bucket # None
      <4>1. bucket \in [tokens : 0..RequestsPerIP, age : 0..MaxBucketAge]
        BY <3>2
      <4>2. Older(bucket.age, MaxBucketAge) \in 0..MaxBucketAge
        <5>1. PICK a \in 0..MaxBucketAge : a = bucket.age
          BY <4>1
        <5> QED
          BY <5>1, Constants, OlderOf
      <4>3. bucket' = [bucket EXCEPT !.age = Older(bucket.age, MaxBucketAge)]
        BY <1>6, <3>2 DEF Tick
      <4> QED
        BY <4>1, <4>2, <4>3
    <3> QED
      BY <3>1, <3>2
  <2>3. passed' \in [0..(Window - 1) -> Nat] /\ sent' \in [0..(Cutoff - 1) -> Nat]
    BY <1>6, SumsShift DEF Tick
  <2>4. limiter' \in [Limiters -> [tokens : 0..Full, age : 0..MaxLimiterAge]]
    <3>1. Fresh \in [tokens : 0..Full, age : 0..MaxLimiterAge]
      BY DEF Fresh
    <3>2. ASSUME NEW l \in Limiters
          PROVE  [limiter[l] EXCEPT !.age = Older(@, MaxLimiterAge)]
                   \in [tokens : 0..Full, age : 0..MaxLimiterAge]
      <4>1. limiter[l] \in [tokens : 0..Full, age : 0..MaxLimiterAge]
        OBVIOUS
      <4>2. Older(limiter[l].age, MaxLimiterAge) \in 0..MaxLimiterAge
        <5>1. PICK a \in 0..MaxLimiterAge : a = limiter[l].age
          BY <4>1
        <5> QED
          BY <5>1, LimiterAges, OlderOf
      <4> QED
        BY <4>1, <4>2
    <3>3. limiter' = [l \in Limiters |-> IF l = stored
                        THEN [limiter[l] EXCEPT !.age = Older(@, MaxLimiterAge)] ELSE Fresh]
      BY <1>6 DEF Tick
    <3> QED
      BY <3>1, <3>2, <3>3
  <2> QED
    BY <2>1, <2>2, <2>3, <2>4
<1>7. CASE UNCHANGED vars
  BY <1>7 DEF vars
<1> QED
  BY <1>1, <1>2, <1>3, <1>4, <1>5, <1>6, <1>7 DEF Next, Request

-----------------------------------------------------------------------------
(***************************************************************************)
(* The client's bucket.                                                    *)
(***************************************************************************)
InWindow(b) == ~(b = None \/ b.age >= Window)

LEMMA InboundNext == LimitsInv /\ [Next]_vars => InboundInv'
<1> SUFFICES ASSUME LimitsInv, [Next]_vars PROVE InboundInv'
  OBVIOUS
<1>0. TypeOK /\ InboundInv
  BY DEF LimitsInv
<1>1. bucket \in {None} \cup [tokens : 0..RequestsPerIP, age : 0..MaxBucketAge]
  BY <1>0 DEF TypeOK
<1>10. /\ passed \in [0..(Window - 1) -> Nat]
       /\ Window \in Nat \ {0} /\ RequestsPerIP \in Nat \ {0}
       /\ MaxBucketAge \in Nat /\ MaxBucketAge > 2 * Window
  BY <1>0, Constants DEF TypeOK
<1>2. PICK g \in [0..Window -> Nat] :
        /\ g = InLast(passed, Window) /\ g[0] = 0
        /\ \A i \in 1..Window : g[i] = g[i - 1] + passed[i - 1]
  BY <1>10, Sums
<1>3. /\ ~InWindow(bucket) => passed[0] = 0 /\ g[Window] <= RequestsPerIP - 1
      /\ InWindow(bucket) => /\ g[bucket.age + 1] = RequestsPerIP - bucket.tokens
                             /\ passed[bucket.age] >= 1
                             /\ g[Window] <= g[bucket.age + 1] + RequestsPerIP - 1
  BY <1>0, <1>2 DEF InboundInv, InWindow
<1>4. ASSUME NEW s \in Senders, Allow(s) PROVE InboundInv'
  <2>1. CASE bucket' = Refilled /\ UNCHANGED passed /\ Refilled.tokens = 0
    <3>1. bucket' = bucket
      BY <1>1, <1>10, <2>1 DEF Refilled
    <3> QED
      BY <1>0, <2>1, <3>1 DEF InboundInv
  <2>2. CASE /\ Refilled.tokens > 0
             /\ bucket' = [Refilled EXCEPT !.tokens = @ - 1]
             /\ passed' = [passed EXCEPT ![0] = @ + 1]
    <3>1. PICK h : h = InLast(passed', Window)
      OBVIOUS
    <3>2. \A n \in 1..Window : h[n] = g[n] + 1
      <4>1. PICK more : more = passed' /\ more = [passed EXCEPT ![0] = @ + 1]
        BY <2>2
      <4>2. \A n \in 1..Window : InLast(more, Window)[n] = InLast(passed, Window)[n] + 1
        BY <1>10, <4>1, SumsCount
      <4> QED
        BY <1>2, <3>1, <4>1, <4>2
    <3>3. CASE ~InWindow(bucket)
      <4>1. Refilled = [tokens |-> RequestsPerIP, age |-> 0]
        BY <3>3 DEF Refilled, InWindow
      <4>2. bucket' = [tokens |-> RequestsPerIP - 1, age |-> 0]
        BY <2>2, <4>1
      <4>3. passed'[0] = 1 /\ h[1] = 1 /\ h[Window] <= RequestsPerIP
        <5>1. 0 \in 0..(Window - 1) /\ 1 \in 1..Window /\ Window \in 1..Window
          BY <1>10
        <5>2. passed[0] = 0 /\ g[Window] <= RequestsPerIP - 1
          BY <1>3, <3>3
        <5>3. passed'[0] = 1
          BY <1>10, <2>2, <5>1, <5>2
        <5>4. g[1] = 0
          BY <1>2, <5>1, <5>2
        <5>5. h[1] = 1 /\ h[Window] = g[Window] + 1 /\ g[Window] \in Nat
          BY <1>2, <3>2, <5>1, <5>4
        <5> QED
          BY <1>10, <5>2, <5>3, <5>5
      <4>4. bucket' # None => InboundInv'
        BY <1>1, <1>10, <3>1, <4>2, <4>3 DEF InboundInv
      <4>5. bucket' # None
        <5>1. RequestsPerIP - 1 \in 0..RequestsPerIP /\ 0 \in 0..MaxBucketAge
          BY <1>10
        <5>2. bucket' \in [tokens : 0..RequestsPerIP, age : 0..MaxBucketAge]
          BY <4>2, <5>1
        <5> QED
          BY <5>2, BucketIsThere
      <4> QED
        BY <4>4, <4>5
    <3>4. CASE InWindow(bucket)
      <4>1. Refilled = bucket /\ bucket \in [tokens : 0..RequestsPerIP, age : 0..MaxBucketAge]
        BY <1>1, <1>10, <3>4 DEF Refilled, InWindow
      <4>2. bucket' = [tokens |-> bucket.tokens - 1, age |-> bucket.age]
        BY <2>2, <4>1
      <4> QED
        <5>1. PICK a \in 0..(Window - 1) : a = bucket.age
          BY <1>10, <3>4, <4>1 DEF InWindow
        <5>2. PICK b \in 1..Window : b = a + 1
          BY <1>10, <5>1
        <5>3. /\ g[b] = RequestsPerIP - bucket.tokens /\ passed[a] >= 1
              /\ g[Window] <= g[b] + RequestsPerIP - 1
          BY <1>3, <3>4, <5>1, <5>2
        <5>4. passed'[a] >= 1
          BY <1>10, <2>2, <5>1, <5>3
        <5>5. h[b] = g[b] + 1 /\ h[Window] = g[Window] + 1 /\ g[b] \in Nat /\ g[Window] \in Nat
          BY <1>2, <1>10, <3>2, <5>2
        <5>6. /\ h[b] = RequestsPerIP - (bucket.tokens - 1)
              /\ h[Window] <= h[b] + RequestsPerIP - 1
          <6>1. PICK t \in 0..RequestsPerIP : t = bucket.tokens
            BY <4>1
          <6>2. RequestsPerIP \in Nat
            BY <1>10
          <6>3. PICK x \in Nat, y \in Nat : x = g[b] /\ y = g[Window]
            BY <5>5
          <6>4. x = RequestsPerIP - t /\ y <= x + RequestsPerIP - 1
            BY <5>3, <6>1, <6>3
          <6>5. x + 1 = RequestsPerIP - (t - 1) /\ y + 1 <= (x + 1) + RequestsPerIP - 1
            BY <6>2, <6>4
          <6>6. h[b] = x + 1 /\ h[Window] = y + 1
            BY <5>5, <6>3
          <6> QED
            BY <6>1, <6>5, <6>6
        <5>7. /\ bucket'.tokens = bucket.tokens - 1 /\ bucket'.age = a
              /\ ~(bucket'.age >= Window)
          BY <1>10, <4>2, <5>1
        <5>8. bucket' # None
          <6>1. bucket.tokens > 0
            BY <2>2, <4>1
          <6>2. bucket' \in [tokens : 0..RequestsPerIP, age : 0..MaxBucketAge]
            BY <2>2, <4>1, <6>1, TakeToken
          <6> QED
            BY <6>2, BucketIsThere
        <5> QED
          BY <3>1, <5>2, <5>4, <5>6, <5>7, <5>8 DEF InboundInv
    <3> QED
      BY <3>3, <3>4
  <2> QED
    BY <1>4, <2>1, <2>2 DEF Allow
<1>5. ASSUME UNCHANGED <<bucket, passed>> PROVE InboundInv'
  BY <1>0, <1>5 DEF InboundInv
<1>6. CASE Cleanup
  <2>1. ~InWindow(bucket) /\ bucket' = None /\ UNCHANGED passed
    BY <1>1, <1>10, <1>6 DEF Cleanup, InWindow
  <2> QED
    BY <1>2, <1>3, <2>1 DEF InboundInv
<1>7. CASE Tick
  <2>1. passed' = Shifted(passed)
    BY <1>7 DEF Tick
  <2>2. PICK h : h = InLast(passed', Window)
    OBVIOUS
  <2>3. /\ passed'[0] = 0 /\ \A i \in 1..(Window - 1) : passed'[i] = passed[i - 1]
        /\ \A n \in 1..Window : h[n] = g[n - 1]
    <3>1. passed'[0] = 0 /\ \A i \in 1..(Window - 1) : passed'[i] = passed[i - 1]
      BY <1>10, <2>1 DEF Shifted
    <3>2. \A n \in 1..Window : h[n] = g[n - 1]
      BY <1>10, <1>2, <2>1, <2>2, SumsShift
    <3> QED
      BY <3>1, <3>2
  <2>4. h[Window] = g[Window - 1] /\ g[Window] = g[Window - 1] + passed[Window - 1]
    BY <1>10, <1>2, <2>3
  <2>5. g[Window - 1] \in Nat /\ passed[Window - 1] \in Nat /\ g[Window] \in Nat
    BY <1>10, <1>2
  <2>6. CASE bucket = None
    <3>1. bucket' = None
      BY <1>7, <2>6 DEF Tick
    <3>2. h[Window] <= RequestsPerIP - 1
      BY <1>10, <1>3, <2>4, <2>5, <2>6 DEF InWindow
    <3> QED
      BY <2>2, <2>3, <3>1, <3>2 DEF InboundInv
  <2>7. CASE bucket # None
    <3>1. bucket \in [tokens : 0..RequestsPerIP, age : 0..MaxBucketAge]
      BY <1>1, <1>10, <2>7
    <3>0. PICK o \in 0..MaxBucketAge : o = bucket.age
      BY <3>1
    <3>2. PICK a \in 0..MaxBucketAge :
            /\ a = Older(bucket.age, MaxBucketAge)
            /\ o < MaxBucketAge => a = o + 1
            /\ o = MaxBucketAge => a = o
      BY <1>10, <3>0, OlderOf
    <3>3. bucket' = [tokens |-> bucket.tokens, age |-> a]
      BY <1>7, <2>7, <3>1, <3>2 DEF Tick
    <3>4. bucket' # None
      BY <3>1, <3>2, <3>3, BucketIsThere
    <3>5. CASE bucket.age >= Window \/ bucket.age = Window - 1
      <4>1. a >= Window
        <5>1. o >= Window \/ o = Window - 1
          BY <3>0, <3>5
        <5>2. Window \in Nat \ {0} /\ MaxBucketAge \in Nat /\ MaxBucketAge > 2 * Window
          BY <1>10
        <5>3. (o < MaxBucketAge => a = o + 1) /\ (o = MaxBucketAge => a = o)
          BY <3>2
        <5> QED
          BY <5>1, <5>2, <5>3
      <4>2. h[Window] <= RequestsPerIP - 1
        <5>1. CASE bucket.age >= Window
          BY <1>10, <1>3, <2>4, <2>5, <5>1 DEF InWindow
        <5>2. CASE bucket.age = Window - 1
          <6>1. g[Window] = RequestsPerIP - bucket.tokens /\ passed[Window - 1] >= 1
            BY <1>10, <1>3, <2>7, <5>2 DEF InWindow
          <6>2. PICK t \in 0..RequestsPerIP : t = bucket.tokens
            BY <3>1
          <6>3. PICK x \in Nat, y \in Nat, z \in Nat :
                  x = g[Window - 1] /\ y = passed[Window - 1] /\ z = g[Window]
            BY <2>5
          <6>4. z = x + y /\ z = RequestsPerIP - t /\ y >= 1
            BY <2>4, <6>1, <6>2, <6>3
          <6>5. x <= RequestsPerIP - 1
            BY <1>10, <6>4
          <6> QED
            BY <2>4, <6>3, <6>5
        <5> QED
          BY <3>5, <5>1, <5>2
      <4> QED
        BY <2>2, <2>3, <3>3, <4>1, <4>2 DEF InboundInv
    <3>6. CASE bucket.age < Window - 1
      <4>1. a = bucket.age + 1 /\ a \in 1..(Window - 1)
        <5>1. o < Window - 1 /\ (o < MaxBucketAge => a = o + 1)
          BY <3>0, <3>2, <3>6
        <5>2. Window \in Nat \ {0} /\ MaxBucketAge \in Nat /\ MaxBucketAge > 2 * Window
          BY <1>10
        <5>3. a = o + 1 /\ a \in 1..(Window - 1)
          BY <5>1, <5>2
        <5> QED
          BY <3>0, <5>3
      <4>2. /\ g[a] = RequestsPerIP - bucket.tokens /\ passed[a - 1] >= 1
            /\ g[Window] <= g[a] + RequestsPerIP - 1
        <5>1. InWindow(bucket)
          BY <1>10, <2>7, <3>1, <3>6 DEF InWindow
        <5>2. bucket.age = a - 1 /\ bucket.age + 1 = a
          BY <3>1, <4>1
        <5> QED
          BY <1>3, <5>1, <5>2
      <4>3. h[a + 1] = g[a] /\ passed'[a] = passed[a - 1]
        <5>0. a \in Nat /\ a >= 1 /\ a <= Window - 1 /\ Window \in Nat
          BY <1>10, <4>1
        <5>1. a + 1 \in 1..Window /\ (a + 1) - 1 = a
          BY <5>0
        <5>2. PICK b \in 1..Window : b = a + 1 /\ b - 1 = a
          BY <5>1
        <5> QED
          BY <2>3, <4>1, <5>2
      <4>4. h[Window] <= h[a + 1] + RequestsPerIP - 1
        <5>1. g[a] \in Nat
          BY <1>2, <1>10, <4>1
        <5> QED
          BY <1>10, <2>4, <2>5, <4>2, <4>3, <5>1
      <4>5. /\ h[a + 1] = RequestsPerIP - bucket'.tokens /\ passed'[a] >= 1
            /\ bucket'.age = a /\ ~(a >= Window)
        BY <1>10, <3>3, <4>1, <4>2, <4>3
      <4> QED
        BY <2>2, <3>4, <4>4, <4>5 DEF InboundInv
    <3>7. PICK k \in Nat : k = bucket.age
      BY <1>10, <3>1
    <3>8. k >= Window \/ k = Window - 1 \/ k < Window - 1
      BY <1>10
    <3> QED
      BY <3>5, <3>6, <3>7, <3>8
  <2> QED
    BY <2>6, <2>7
<1>8. ASSUME NEW s \in Senders,
             AllowOther(s) \/ Bypass(s) \/ LoadLimiter(s) \/ waitForDomainRateLimit(s)
      PROVE  UNCHANGED <<bucket, passed>>
  BY <1>8 DEF AllowOther, Bypass, LoadLimiter, waitForDomainRateLimit, inboundVars
<1>9. CleanupReads \/ CleanupDeletes \/ UNCHANGED vars => UNCHANGED <<bucket, passed>>
  BY DEF CleanupReads, CleanupDeletes, vars, inboundVars
<1> QED
  BY <1>4, <1>5, <1>6, <1>7, <1>8, <1>9 DEF Next, Request

-----------------------------------------------------------------------------
(***************************************************************************)
(* The domain's limiters.                                                  *)
(***************************************************************************)
LimiterType == [tokens : 0..Full, age : 0..MaxLimiterAge]

LEMMA Refill ==
  ASSUME NEW r \in LimiterType
  PROVE  Min({Full, r.tokens + r.age})
           = IF Full <= r.tokens + r.age THEN Full ELSE r.tokens + r.age
<1>1. r.tokens + r.age \in Nat /\ Full \in Nat
  BY Constants, LimiterAges DEF LimiterType
<1> QED
  BY <1>1, MinOf

(* A request that finds T tokens leaves them, or takes what a send costs.  *)
LEMMA LimiterStep ==
  ASSUME LimitsInv, NEW s \in Senders, waitForDomainRateLimit(s)
  PROVE  /\ held[s] \in Limiters
         /\ held' = [held EXCEPT ![s] = None] /\ pc' = [pc EXCEPT ![s] = "idle"]
         /\ UNCHANGED <<stored, sweeping>>
         /\ \E cost \in {0, Interval} :
              /\ cost <= Tokens(held[s])
              /\ limiter' = [limiter EXCEPT ![held[s]] = [tokens |-> Tokens(held[s]) - cost, age |-> 0]]
              /\ \/ cost = 0 /\ UNCHANGED sent
                 \/ cost = Interval /\ sent' = [sent EXCEPT ![0] = @ + 1]
<1>1. held[s] \in Limiters
  BY DEF waitForDomainRateLimit, LimitsInv, DomainInv, LoadedHolds, TypeOK
<1>2. /\ held' = [held EXCEPT ![s] = None] /\ pc' = [pc EXCEPT ![s] = "idle"]
      /\ UNCHANGED <<stored, sweeping>>
  BY DEF waitForDomainRateLimit
<1>3. PICK T \in 0..Full : T = Tokens(held[s])
  BY <1>1, TokensOf DEF LimitsInv
<1>4. Interval \in Nat /\ Full \in Nat
  BY Constants
<1>5. CASE /\ T >= Interval
           /\ limiter' = [limiter EXCEPT ![held[s]] = [tokens |-> T - Interval, age |-> 0]]
           /\ sent' = [sent EXCEPT ![0] = @ + 1]
  BY <1>1, <1>2, <1>3, <1>4, <1>5
<1>6. CASE /\ T < Interval
           /\ limiter' = [limiter EXCEPT ![held[s]] = [tokens |-> T, age |-> 0]]
           /\ UNCHANGED sent
  <2>1. T - 0 = T /\ 0 <= T
    BY <1>3, <1>4
  <2> QED
    BY <1>1, <1>2, <1>3, <1>6, <2>1
<1> QED
  BY <1>3, <1>5, <1>6 DEF waitForDomainRateLimit

LEMMA SpentType ==
  ASSUME TypeOK
  PROVE  \A n \in 1..Cutoff : Spent(n) \in Nat
<1>1. InLast(sent, Cutoff) \in [0..Cutoff -> Nat] /\ Cutoff \in Nat \ {0} /\ Interval \in Nat
  BY Sums, Constants DEF TypeOK
<1> SUFFICES ASSUME NEW n \in 1..Cutoff PROVE Spent(n) \in Nat
  OBVIOUS
<1>2. PICK x \in Nat : x = InLast(sent, Cutoff)[n]
  BY <1>1
<1>3. Interval * x \in Nat
  BY <1>1
<1> QED
  BY <1>2, <1>3 DEF Spent

LEMMA SpentSend ==
  ASSUME TypeOK, sent' = [sent EXCEPT ![0] = @ + 1]
  PROVE  \A n \in 1..Cutoff : Spent(n)' = Spent(n) + Interval
<1>1. /\ InLast(sent, Cutoff) \in [0..Cutoff -> Nat]
      /\ Cutoff \in Nat \ {0} /\ Interval \in Nat
  BY Sums, Constants DEF TypeOK
<1> SUFFICES ASSUME NEW n \in 1..Cutoff PROVE Spent(n)' = Spent(n) + Interval
  OBVIOUS
<1>2. PICK x \in Nat : x = InLast(sent, Cutoff)[n]
  BY <1>1
<1>3. InLast(sent', Cutoff)[n] = x + 1
  <2>1. sent \in [0..(Cutoff - 1) -> Nat]
    BY DEF TypeOK
  <2>2. PICK more : more = sent' /\ more = [sent EXCEPT ![0] = @ + 1]
    OBVIOUS
  <2>3. \A m \in 1..Cutoff : InLast(more, Cutoff)[m] = InLast(sent, Cutoff)[m] + 1
    BY <2>1, <2>2, Constants, SumsCount
  <2> QED
    BY <1>2, <2>2, <2>3
<1>4. Interval * (x + 1) = Interval * x + Interval
  BY <1>1
<1> QED
  BY <1>2, <1>3, <1>4 DEF Spent

LEMMA SpentTick ==
  ASSUME TypeOK, sent' = Shifted(sent)
  PROVE  \A n \in 1..Cutoff : Spent(n)' = IF n = 1 THEN 0 ELSE Spent(n - 1)
<1>1. /\ Cutoff \in Nat \ {0} /\ Interval \in Nat /\ InLast(sent, Cutoff)[0] = 0
      /\ sent \in [0..(Cutoff - 1) -> Nat]
  BY Sums, Constants DEF TypeOK
<1> SUFFICES ASSUME NEW n \in 1..Cutoff PROVE Spent(n)' = IF n = 1 THEN 0 ELSE Spent(n - 1)
  OBVIOUS
<1>2. InLast(sent', Cutoff)[n] = InLast(sent, Cutoff)[n - 1]
  BY <1>1, SumsShift
<1>3. Interval * 0 = 0
  BY <1>1
<1> QED
  BY <1>1, <1>2, <1>3 DEF Spent

LEMMA SpentIdle ==
  ASSUME TypeOK, \A i \in 0..(Cutoff - 1) : sent[i] = 0
  PROVE  \A n \in 1..Cutoff : Spent(n) = 0
<1>1. Cutoff \in Nat \ {0} /\ Interval \in Nat /\ sent \in [0..(Cutoff - 1) -> Nat]
  BY Constants DEF TypeOK
<1>2. \A n \in 1..Cutoff : InLast(sent, Cutoff)[n] = 0
  BY <1>1, SumsIdle
<1>3. Interval * 0 = 0
  BY <1>1
<1> QED
  BY <1>2, <1>3 DEF Spent

(* Names for the numbers the domain's invariant relates.                   *)
LEMMA Numbers ==
  ASSUME TypeOK
  PROVE  /\ Full \in Nat /\ Cutoff \in Nat \ {0} /\ None \notin Limiters
         /\ \A n \in 1..Cutoff : Spent(n) \in Nat
         /\ \A l \in Limiters : Tokens(l) \in 0..Full
         /\ Stock \in 0..Full
         /\ \A s \in Senders : Deleted(held[s]) => held[s] \in Limiters
<1>1. Full \in Nat /\ Cutoff \in Nat \ {0}
  BY Constants
<1>2. Cardinality(Senders) \in Nat
  BY ConstantsAssumption, FS_CardinalityType
<1>3. None \notin Limiters
  BY <1>2, ConstantsAssumption DEF Limiters
<1>4. \A l \in Limiters : Tokens(l) \in 0..Full
  BY TokensOf
<1>5. Stock \in 0..Full
  <2>1. CASE stored = None
    BY <1>1, <2>1 DEF Stock
  <2>2. CASE stored # None
    BY <1>4, <2>2 DEF Stock, TypeOK
  <2> QED
    BY <2>1, <2>2
<1>6. \A s \in Senders : Deleted(held[s]) => held[s] \in Limiters
  BY DEF Deleted, TypeOK
<1> QED
  BY <1>1, <1>3, <1>4, <1>5, <1>6, SpentType

(* A limiter whose record stays keeps its tokens.                          *)
LEMMA SameTokens ==
  ASSUME NEW l, limiter'[l] = limiter[l]
  PROVE  Tokens(l)' = Tokens(l)
BY DEF Tokens

LEMMA DomainSend ==
  ASSUME LimitsInv, NEW s \in Senders, waitForDomainRateLimit(s)
  PROVE  DomainInv'
<1>0. /\ TypeOK /\ LoadedHolds /\ SpendBound /\ DeletedIsOne /\ IdleSince /\ SweptIsOld
  BY DEF LimitsInv, DomainInv
<1>1. PICK l \in Limiters : l = held[s]
  BY LimiterStep
<1>2. /\ held' = [held EXCEPT ![s] = None] /\ pc' = [pc EXCEPT ![s] = "idle"]
      /\ UNCHANGED <<stored, sweeping>>
  BY LimiterStep
<1>3. PICK cost \in {0, Interval} :
        /\ cost <= Tokens(l)
        /\ limiter' = [limiter EXCEPT ![l] = [tokens |-> Tokens(l) - cost, age |-> 0]]
        /\ \/ cost = 0 /\ UNCHANGED sent
           \/ cost = Interval /\ sent' = [sent EXCEPT ![0] = @ + 1]
  BY <1>1, LimiterStep
<1>4. cost \in Nat
  BY <1>3, Constants
<1>5. PICK T \in 0..Full : T = Tokens(l) /\ cost <= T
  BY <1>0, <1>3, Numbers
<1>6. limiter \in [Limiters -> LimiterType] /\ held \in [Senders -> Limiters \cup {None}]
  BY <1>0 DEF TypeOK, LimiterType
<1>7. \A n \in 1..Cutoff : Spent(n)' = Spent(n) + cost
  <2>1. CASE cost = 0 /\ UNCHANGED sent
    <3>1. \A n \in 1..Cutoff : Spent(n)' = Spent(n) /\ Spent(n) \in Nat
      BY <1>0, <2>1, SpentType DEF Spent
    <3> QED
      BY <2>1, <3>1
  <2>2. CASE cost = Interval /\ sent' = [sent EXCEPT ![0] = @ + 1]
    BY <1>0, <2>2, SpentSend
  <2> QED
    BY <1>3, <2>1, <2>2
<1>8. limiter'[l] = [tokens |-> T - cost, age |-> 0] /\ \A k \in Limiters : k # l => limiter'[k] = limiter[k]
  BY <1>3, <1>5, <1>6
<1>9. Tokens(l)' = T - cost
  <2>1. PICK r : r = limiter'[l]
    OBVIOUS
  <2>2. T - cost \in 0..Full /\ (T - cost) + 0 = T - cost /\ Full \in Nat
    BY <1>4, <1>5, Constants
  <2>3. r.tokens + r.age = T - cost
    BY <1>8, <2>1, <2>2
  <2>4. Tokens(l)' = Min({Full, T - cost})
    BY <2>1, <2>3 DEF Tokens
  <2> QED
    BY <2>2, <2>4, MinOf
<1>10. \A k \in Limiters : k # l => Tokens(k)' = Tokens(k)
  BY <1>8, SameTokens
<1>11. ASSUME NEW t \in Senders, Deleted(held[t])'
       PROVE  t # s /\ held'[t] = held[t] /\ Deleted(held[t]) /\ held[t] \in Limiters
  BY <1>2, <1>6, <1>11 DEF Deleted
<1>12. LoadedHolds'
  BY <1>0, <1>2, <1>6 DEF LoadedHolds, TypeOK
<1>13. CASE l = stored
  <2>1. stored # None /\ Stock = T /\ Stock' = T - cost
    BY <1>0, <1>2, <1>5, <1>9, <1>13, Numbers DEF Stock
  <2>2. SpendBound'
    <3> SUFFICES ASSUME NEW n \in 1..Cutoff PROVE Spent(n)' + Stock' <= 2 * Full + n - 1
      BY DEF SpendBound
    <3>1. PICK x \in Nat : x = Spent(n)
      BY <1>0, Numbers
    <3>2. x + T <= 2 * Full + n - 1
      BY <1>0, <2>1, <3>1 DEF SpendBound
    <3>3. (x + cost) + (T - cost) <= 2 * Full + n - 1
      BY <1>4, <1>5, <3>2, Constants
    <3> QED
      BY <1>7, <2>1, <3>1, <3>3
  <2>3. DeletedIsOne'
    <3> SUFFICES ASSUME NEW t \in Senders, Deleted(held[t])'
                 PROVE  /\ \A u \in Senders : Deleted(held[u])' => held'[u] = held'[t]
                        /\ \A n \in 1..Cutoff :
                             Spent(n)' + Stock' + Tokens(held[t])' <= 2 * Full + n - 1
      BY DEF DeletedIsOne
    <3>1. \A u \in Senders : Deleted(held[u])' => held'[u] = held'[t]
      BY <1>0, <1>11 DEF DeletedIsOne
    <3>2. PICK k \in Limiters : k = held[t] /\ k = held'[t] /\ k # l /\ Deleted(held[t])
      BY <1>11, <1>13 DEF Deleted
    <3>3. Tokens(held[t])' = Tokens(k)
      BY <1>10, <3>2 DEF Tokens
    <3>4. ASSUME NEW n \in 1..Cutoff
          PROVE  Spent(n)' + Stock' + Tokens(held[t])' <= 2 * Full + n - 1
      <4>1. PICK x \in Nat, y \in 0..Full : x = Spent(n) /\ y = Tokens(k)
        BY <1>0, Numbers
      <4>2. x + T + y <= 2 * Full + n - 1
        BY <1>0, <2>1, <3>2, <4>1 DEF DeletedIsOne
      <4>3. (x + cost) + (T - cost) + y <= 2 * Full + n - 1
        BY <1>4, <1>5, <4>2, Constants
      <4> QED
        BY <1>7, <2>1, <3>3, <4>1, <4>3
    <3> QED
      BY <3>1, <3>4
  <2>4. IdleSince'
    <3>1. limiter'[stored'].age = 0
      BY <1>2, <1>8, <1>13
    <3> QED
      BY <3>1, Constants DEF IdleSince
  <2>5. SweptIsOld'
    <3> SUFFICES ASSUME sweeping'
                 PROVE  /\ stored' # None
                        /\ \A t \in Senders : ~Deleted(held[t])'
                        /\ \A n \in 1..Cutoff : Spent(n)' + Tokens(stored)' <= Full + n - 1
      BY DEF SweptIsOld
    <3>1. sweeping /\ \A t \in Senders : ~Deleted(held[t])
      BY <1>0, <1>2 DEF SweptIsOld
    <3>2. stored' # None /\ \A t \in Senders : ~Deleted(held[t])'
      BY <1>2, <1>11, <2>1, <3>1
    <3>3. ASSUME NEW n \in 1..Cutoff PROVE Spent(n)' + Tokens(stored)' <= Full + n - 1
      <4>1. PICK x \in Nat : x = Spent(n)
        BY <1>0, Numbers
      <4>2. x + T <= Full + n - 1
        BY <1>0, <1>5, <1>13, <3>1, <4>1 DEF SweptIsOld
      <4>3. (x + cost) + (T - cost) <= Full + n - 1
        BY <1>4, <1>5, <4>2, Constants
      <4>4. Tokens(stored)' = T - cost
        BY <1>2, <1>9, <1>13 DEF Tokens
      <4> QED
        BY <1>7, <4>1, <4>3, <4>4
    <3> QED
      BY <3>2, <3>3
  <2> QED
    BY <1>12, <2>2, <2>3, <2>4, <2>5 DEF DomainInv
<1>14. CASE l # stored
  <2>1. Deleted(held[s])
    BY <1>0, <1>1, <1>14, Numbers DEF Deleted
  <2>2. Stock' = Stock
    <3>1. CASE stored = None
      BY <1>2, <3>1 DEF Stock
    <3>2. CASE stored # None
      <4>1. stored \in Limiters
        BY <1>0, <3>2 DEF TypeOK
      <4>2. limiter'[stored] = limiter[stored]
        BY <1>8, <1>14, <4>1
      <4> QED
        BY <1>2, <4>2 DEF Stock, Tokens
    <3> QED
      BY <3>1, <3>2
  <2>3. ASSUME NEW n \in 1..Cutoff
        PROVE  /\ Spent(n)' + Stock' <= 2 * Full + n - 1
               /\ Spent(n)' + Stock' + Tokens(l)' <= 2 * Full + n - 1
    <3>1. PICK x \in Nat, y \in 0..Full : x = Spent(n) /\ y = Stock
      BY <1>0, Numbers
    <3>2. x + y + T <= 2 * Full + n - 1
      BY <1>0, <1>1, <1>5, <2>1, <3>1 DEF DeletedIsOne
    <3>3. (x + cost) + y <= 2 * Full + n - 1 /\ (x + cost) + y + (T - cost) <= 2 * Full + n - 1
      BY <1>4, <1>5, <3>2, Constants
    <3> QED
      BY <1>7, <1>9, <2>2, <3>1, <3>3
  <2>4. SpendBound'
    BY <2>3 DEF SpendBound
  <2>5. DeletedIsOne'
    <3> SUFFICES ASSUME NEW t \in Senders, Deleted(held[t])'
                 PROVE  /\ \A u \in Senders : Deleted(held[u])' => held'[u] = held'[t]
                        /\ \A n \in 1..Cutoff :
                             Spent(n)' + Stock' + Tokens(held[t])' <= 2 * Full + n - 1
      BY DEF DeletedIsOne
    <3>1. \A u \in Senders : Deleted(held[u])' => held'[u] = held'[t]
      BY <1>0, <1>11 DEF DeletedIsOne
    <3>2. held'[t] = l
      BY <1>0, <1>1, <1>11, <2>1 DEF DeletedIsOne
    <3>3. Tokens(held[t])' = Tokens(l)'
      BY <3>2 DEF Tokens
    <3> QED
      BY <2>3, <3>1, <3>3
  <2>6. IdleSince'
    <3> SUFFICES ASSUME stored # None PROVE IdleSince'
      BY <1>2 DEF IdleSince
    <3>1. stored \in Limiters /\ limiter'[stored'] = limiter[stored]
      BY <1>0, <1>2, <1>8, <1>14 DEF TypeOK
    <3>2. PICK a \in 0..MaxLimiterAge : a = limiter[stored].age
      BY <1>6, <3>1 DEF LimiterType
    <3>3. ~(a >= 1)
      BY <1>0, <2>1, <3>2 DEF IdleSince
    <3>4. limiter'[stored'].age = 0
      BY <3>1, <3>2, <3>3, LimiterAges
    <3> QED
      BY <3>4, Constants DEF IdleSince
  <2>7. SweptIsOld'
    BY <1>0, <1>2, <2>1 DEF SweptIsOld
  <2> QED
    BY <1>12, <2>4, <2>5, <2>6, <2>7 DEF DomainInv
<1> QED
  BY <1>13, <1>14

(* When the state the invariant speaks of stays.                           *)
LEMMA DomainSame ==
  ASSUME DomainInv, UNCHANGED <<held, stored, limiter, sweeping, sent>>,
         \A s \in Senders : pc'[s] = "loaded" <=> pc[s] = "loaded"
  PROVE  DomainInv'
BY DEF DomainInv, LoadedHolds, SpendBound, DeletedIsOne, IdleSince, SweptIsOld,
       Spent, Stock, Deleted, Tokens

LEMMA DomainLoad ==
  ASSUME LimitsInv, NEW s \in Senders, LoadLimiter(s)
  PROVE  DomainInv'
<1>0. /\ TypeOK /\ LoadedHolds /\ SpendBound /\ DeletedIsOne /\ IdleSince /\ SweptIsOld
  BY DEF LimitsInv, DomainInv
<1>1. pc' = [pc EXCEPT ![s] = "loaded"] /\ UNCHANGED <<sweeping, sent>>
  BY DEF LoadLimiter
<1>2. limiter \in [Limiters -> LimiterType] /\ held \in [Senders -> Limiters \cup {None}]
  BY <1>0 DEF TypeOK, LimiterType
<1>3. \A n \in 1..Cutoff : Spent(n)' = Spent(n)
  BY <1>1 DEF Spent
<1>4. CASE stored # None /\ held' = [held EXCEPT ![s] = stored] /\ UNCHANGED <<stored, limiter>>
  <2>1. ASSUME NEW t \in Senders, Deleted(held[t])'
        PROVE  held'[t] = held[t] /\ Deleted(held[t])
    BY <1>2, <1>4, <2>1 DEF Deleted
  <2>2. Stock' = Stock /\ \A k : Tokens(k)' = Tokens(k)
    BY <1>4 DEF Stock, Tokens
  <2>3. LoadedHolds'
    BY <1>0, <1>1, <1>2, <1>4 DEF LoadedHolds, TypeOK
  <2>4. SpendBound'
    BY <1>0, <1>3, <2>2 DEF SpendBound
  <2>5. DeletedIsOne'
    <3> SUFFICES ASSUME NEW t \in Senders, Deleted(held[t])'
                 PROVE  /\ \A u \in Senders : Deleted(held[u])' => held'[u] = held'[t]
                        /\ \A n \in 1..Cutoff :
                             Spent(n)' + Stock' + Tokens(held[t])' <= 2 * Full + n - 1
      BY DEF DeletedIsOne
    <3>1. Tokens(held[t])' = Tokens(held[t])
      BY <1>4, <2>1 DEF Tokens
    <3> QED
      BY <1>0, <1>3, <2>1, <2>2, <3>1 DEF DeletedIsOne
  <2>6. IdleSince'
    BY <1>0, <1>1, <1>4, <2>1 DEF IdleSince
  <2>7. SweptIsOld'
    <3>1. Tokens(stored)' = Tokens(stored)
      BY <1>4 DEF Tokens
    <3> QED
      BY <1>0, <1>1, <1>3, <1>4, <2>1, <3>1 DEF SweptIsOld
  <2> QED
    BY <2>3, <2>4, <2>5, <2>6, <2>7 DEF DomainInv
<1>5. CASE /\ stored = None /\ stored' = Min(Unused) /\ held' = [held EXCEPT ![s] = stored']
           /\ limiter' = [limiter EXCEPT ![stored'] = Fresh]
  <2>1. PICK m \in Limiters : m = Min(Unused) /\ \A t \in Senders : held[t] # m
    BY <1>0, <1>5, UnusedLimiter
  <2>2. /\ stored' = m /\ held' = [held EXCEPT ![s] = m]
        /\ limiter'[m] = Fresh /\ \A k \in Limiters : k # m => limiter'[k] = limiter[k]
    BY <1>2, <1>5, <2>1
  <2>3. m # None
    BY <1>0, <2>1, Numbers
  <2>4. Tokens(m)' = Full
    <3>1. PICK r : r = limiter'[m]
      OBVIOUS
    <3>2. r.tokens + r.age = Full
      BY <2>2, <3>1, Constants DEF Fresh
    <3>3. Tokens(m)' = Min({Full, Full})
      BY <3>1, <3>2 DEF Tokens
    <3> QED
      BY <3>3, Constants, MinOf
  <2>5. Stock' = Stock
    <3>1. Tokens(stored)' = Tokens(m)'
      BY <2>2 DEF Tokens
    <3> QED
      BY <1>5, <2>2, <2>3, <2>4, <3>1 DEF Stock
  <2>6. ASSUME NEW t \in Senders, Deleted(held[t])'
        PROVE  /\ held'[t] = held[t] /\ Deleted(held[t])
               /\ Tokens(held[t])' = Tokens(held[t])
    <3>1. held'[t] = held[t] /\ Deleted(held[t])
      BY <1>2, <1>5, <2>1, <2>2, <2>6 DEF Deleted
    <3>2. limiter'[held[t]] = limiter[held[t]]
      BY <1>0, <2>1, <2>2, <3>1, Numbers
    <3> QED
      BY <3>1, <3>2 DEF Tokens
  <2>7. LoadedHolds'
    BY <1>0, <1>1, <1>2, <2>2, <2>3 DEF LoadedHolds, TypeOK
  <2>8. SpendBound'
    BY <1>0, <1>3, <2>5 DEF SpendBound
  <2>9. DeletedIsOne'
    BY <1>0, <1>3, <2>5, <2>6 DEF DeletedIsOne
  <2>10. IdleSince'
    <3>1. limiter'[stored'].age = 0
      BY <2>2 DEF Fresh
    <3> QED
      BY <3>1, Constants DEF IdleSince
  <2>11. SweptIsOld'
    BY <1>0, <1>1, <1>5 DEF SweptIsOld
  <2> QED
    BY <2>7, <2>8, <2>9, <2>10, <2>11 DEF DomainInv
<1> QED
  BY <1>4, <1>5 DEF LoadLimiter

(* A limiter found old was idle for Cutoff, so nothing counts any more.    *)
LEMMA DomainCleanupReads ==
  ASSUME LimitsInv, CleanupReads
  PROVE  DomainInv'
<1>0. /\ TypeOK /\ LoadedHolds /\ SpendBound /\ DeletedIsOne /\ IdleSince /\ SweptIsOld
  BY DEF LimitsInv, DomainInv
<1>1. /\ UNCHANGED <<pc, held, stored, limiter, sent>>
      /\ stored # None /\ limiter[stored].age > Cutoff
  BY DEF CleanupReads
<1>2. stored \in Limiters
  BY <1>0, <1>1 DEF TypeOK
<1>3. PICK a \in Nat : a = limiter[stored].age /\ a > Cutoff
  BY <1>0, <1>1, <1>2, LimiterAges DEF TypeOK
<1>4. \A s \in Senders : ~Deleted(held[s])
  <2>1. a >= 1
    BY <1>3, Constants
  <2> QED
    BY <1>0, <1>1, <1>3, <2>1 DEF IdleSince
<1>5. \A i \in 0..(Cutoff - 1) : sent[i] = 0
  <2>1. \A i \in 0..(Cutoff - 1) : i < a
    BY <1>3, Constants
  <2> QED
    BY <1>0, <1>1, <1>3, <2>1 DEF IdleSince
<1>6. \A n \in 1..Cutoff : Spent(n) + Tokens(stored) <= Full + n - 1
  <2> SUFFICES ASSUME NEW n \in 1..Cutoff PROVE Spent(n) + Tokens(stored) <= Full + n - 1
    OBVIOUS
  <2>1. PICK y \in 0..Full : y = Tokens(stored)
    BY <1>0, <1>2, Numbers
  <2>2. 0 + y <= Full + n - 1
    BY <2>1, Constants
  <2> QED
    BY <1>0, <1>5, <2>1, <2>2, SpentIdle
<1>7. LoadedHolds' /\ SpendBound' /\ DeletedIsOne' /\ IdleSince'
  BY <1>0, <1>1 DEF LoadedHolds, SpendBound, DeletedIsOne, IdleSince, Spent, Stock, Deleted, Tokens
<1>8. SweptIsOld'
  BY <1>1, <1>4, <1>6 DEF SweptIsOld, Spent, Deleted, Tokens
<1> QED
  BY <1>7, <1>8 DEF DomainInv

(* The deletion makes a full burst available next to the deleted limiter,  *)
(* which is the only one held.                                             *)
LEMMA DomainCleanupDeletes ==
  ASSUME LimitsInv, CleanupDeletes
  PROVE  DomainInv'
<1>0. /\ TypeOK /\ LoadedHolds /\ SpendBound /\ DeletedIsOne /\ IdleSince /\ SweptIsOld
  BY DEF LimitsInv, DomainInv
<1>1. UNCHANGED <<pc, held, limiter, sent>> /\ stored' = None /\ sweeping' = FALSE
  BY DEF CleanupDeletes
<1>2. /\ stored \in Limiters /\ \A s \in Senders : ~Deleted(held[s])
      /\ \A n \in 1..Cutoff : Spent(n) + Tokens(stored) <= Full + n - 1
  BY <1>0 DEF CleanupDeletes, SweptIsOld, TypeOK
<1>3. Stock' = Full /\ \A n \in 1..Cutoff : Spent(n)' = Spent(n)
  BY <1>1 DEF Stock, Spent
<1>4. ASSUME NEW t \in Senders, Deleted(held[t])'
      PROVE  held'[t] = stored /\ Tokens(held[t])' = Tokens(stored)
  <2>1. held'[t] = stored
    BY <1>1, <1>2, <1>4 DEF Deleted
  <2> QED
    BY <1>1, <2>1 DEF Tokens
<1>5. ASSUME NEW n \in 1..Cutoff
      PROVE  /\ Spent(n)' + Stock' <= 2 * Full + n - 1
             /\ Spent(n)' + Stock' + Tokens(stored) <= 2 * Full + n - 1
  <2>1. PICK x \in Nat, y \in 0..Full : x = Spent(n) /\ y = Tokens(stored)
    BY <1>0, <1>2, Numbers
  <2>2. x + y <= Full + n - 1
    BY <1>2, <2>1
  <2>3. x + Full <= 2 * Full + n - 1 /\ x + Full + y <= 2 * Full + n - 1
    BY <2>2, Constants
  <2> QED
    BY <1>3, <2>1, <2>3
<1>6. LoadedHolds' /\ IdleSince' /\ SweptIsOld'
  BY <1>0, <1>1 DEF LoadedHolds, IdleSince, SweptIsOld
<1>7. SpendBound'
  BY <1>5 DEF SpendBound
<1>8. DeletedIsOne'
  BY <1>4, <1>5 DEF DeletedIsOne
<1> QED
  BY <1>6, <1>7, <1>8 DEF DomainInv

(* A tick refills at most one unit and opens a span of one tick more.      *)
LEMMA DomainTick ==
  ASSUME LimitsInv, Tick
  PROVE  DomainInv'
<1>0. /\ TypeOK /\ LoadedHolds /\ SpendBound /\ DeletedIsOne /\ IdleSince /\ SweptIsOld
  BY DEF LimitsInv, DomainInv
<1>1. UNCHANGED <<pc, held, stored, sweeping>> /\ sent' = Shifted(sent) /\ ~sweeping
  BY DEF Tick
<1>2. \A s \in Senders : held[s] = None
  BY <1>0 DEF Tick, LoadedHolds
<1>3. \A s \in Senders : ~Deleted(held[s])'
  BY <1>1, <1>2 DEF Deleted
<1>4. LoadedHolds' /\ DeletedIsOne' /\ SweptIsOld'
  BY <1>0, <1>1, <1>3 DEF LoadedHolds, DeletedIsOne, SweptIsOld
<1>5. ASSUME stored # None
      PROVE  /\ stored \in Limiters
             /\ \E t \in 0..Full, a \in 0..MaxLimiterAge :
                  /\ limiter[stored].tokens = t /\ limiter[stored].age = a
                  /\ limiter'[stored].tokens = t
                  /\ limiter'[stored].age = Older(a, MaxLimiterAge)
  <2>1. stored \in Limiters
    BY <1>0, <1>5 DEF TypeOK
  <2>2. limiter[stored] \in [tokens : 0..Full, age : 0..MaxLimiterAge]
    BY <1>0, <2>1 DEF TypeOK
  <2>3. limiter'[stored] = [limiter[stored] EXCEPT !.age = Older(@, MaxLimiterAge)]
    BY <2>1 DEF Tick
  <2> QED
    BY <2>1, <2>2, <2>3
<1>6. Stock' \in 0..Full /\ Stock' <= Stock + 1
  <2>1. CASE stored = None
    <3>1. Stock' = Full /\ Stock = Full
      BY <1>1, <2>1 DEF Stock
    <3> QED
      BY <3>1, Constants
  <2>2. CASE stored # None
    <3>1. PICK t \in 0..Full, a \in 0..MaxLimiterAge :
            /\ limiter[stored].tokens = t /\ limiter[stored].age = a
            /\ limiter'[stored].tokens = t
            /\ limiter'[stored].age = Older(a, MaxLimiterAge)
      BY <1>5, <2>2
    <3>2. PICK b \in Nat : b = Older(a, MaxLimiterAge) /\ b <= a + 1
      BY LimiterAges DEF Older
    <3>3. Stock = Min({Full, t + a}) /\ Stock' = Min({Full, t + b})
      BY <1>1, <2>2, <3>1, <3>2 DEF Stock, Tokens
    <3>4. Full \in Nat /\ t + a \in Nat /\ t + b \in Nat
      BY Constants, LimiterAges
    <3>5. /\ Stock = IF Full <= t + a THEN Full ELSE t + a
          /\ Stock' = IF Full <= t + b THEN Full ELSE t + b
      BY <3>3, <3>4, MinOf
    <3> QED
      BY <3>2, <3>4, <3>5, LimiterAges
  <2> QED
    BY <2>1, <2>2
<1>7. SpendBound'
  <2> SUFFICES ASSUME NEW n \in 1..Cutoff PROVE Spent(n)' + Stock' <= 2 * Full + n - 1
    BY DEF SpendBound
  <2>1. PICK y \in 0..Full, z \in 0..Full : y = Stock /\ z = Stock' /\ z <= y + 1
    BY <1>0, <1>6, Numbers
  <2>2. CASE n = 1
    <3>1. Spent(n)' = 0
      BY <1>0, <1>1, <2>2, SpentTick
    <3>2. 0 + z <= 2 * Full + 1 - 1
      BY Constants
    <3> QED
      BY <2>1, <2>2, <3>1, <3>2
  <2>3. CASE n # 1
    <3>1. PICK m \in 1..Cutoff : m = n - 1
      BY <2>3, Constants
    <3>2. PICK x \in Nat : x = Spent(m)
      BY <1>0, Numbers
    <3>3. Spent(n)' = x
      BY <1>0, <1>1, <2>3, <3>1, <3>2, SpentTick
    <3>4. x + y <= 2 * Full + m - 1
      BY <1>0, <2>1, <3>2 DEF SpendBound
    <3>5. x + z <= 2 * Full + n - 1
      <4>1. z <= y + 1 /\ y \in Nat /\ z \in Nat /\ Full \in Nat /\ m \in Nat /\ n = m + 1
        BY <2>1, <3>1, Constants
      <4> QED
        BY <3>4, <4>1
    <3> QED
      BY <2>1, <3>3, <3>5
  <2> QED
    BY <2>2, <2>3
<1>8. IdleSince'
  <2> SUFFICES ASSUME stored # None
               PROVE  \A i \in 0..(Cutoff - 1) : i < limiter'[stored].age => sent'[i] = 0
    BY <1>1, <1>3 DEF IdleSince
  <2> SUFFICES ASSUME NEW i \in 0..(Cutoff - 1), i < limiter'[stored].age PROVE sent'[i] = 0
    OBVIOUS
  <2>1. PICK a \in 0..MaxLimiterAge :
          limiter[stored].age = a /\ limiter'[stored].age = Older(a, MaxLimiterAge)
    BY <1>5
  <2>2. sent'[i] = IF i = 0 THEN 0 ELSE sent[i - 1]
    BY <1>0, <1>1 DEF Shifted, TypeOK
  <2>3. CASE i # 0
    <3>1. PICK j \in 0..(Cutoff - 1) : j = i - 1
      BY <2>3, Constants
    <3>2. j < a
      BY <2>1, <3>1, LimiterAges DEF Older
    <3>3. sent[j] = 0
      BY <1>0, <2>1, <3>2 DEF IdleSince
    <3> QED
      BY <2>2, <3>1, <3>3
  <2> QED
    BY <2>2, <2>3
<1> QED
  BY <1>4, <1>7, <1>8 DEF DomainInv

LEMMA DomainNext == LimitsInv /\ [Next]_vars => DomainInv'
<1> SUFFICES ASSUME LimitsInv, [Next]_vars PROVE DomainInv'
  OBVIOUS
<1>0. DomainInv /\ pc \in [Senders -> {"idle", "admitted", "loaded"}]
  BY DEF LimitsInv, TypeOK
<1>1. ASSUME NEW s \in Senders, Allow(s) \/ AllowOther(s) \/ Bypass(s)
      PROVE  DomainInv'
  BY <1>0, <1>1, DomainSame DEF Allow, AllowOther, Bypass, domainVars
<1>2. Cleanup \/ UNCHANGED vars => DomainInv'
  BY <1>0, DomainSame DEF Cleanup, vars, domainVars
<1> QED
  BY <1>1, <1>2, DomainLoad, DomainSend, DomainCleanupReads, DomainCleanupDeletes, DomainTick
     DEF Next, Request

-----------------------------------------------------------------------------
(***************************************************************************)
(* The invariant and what follows from it.                                 *)
(***************************************************************************)
LEMMA LimitsInit == Init => LimitsInv
<1> SUFFICES ASSUME Init PROVE LimitsInv
  OBVIOUS
<1>1. TypeOK
  <2>1. Fresh \in [tokens : 0..Full, age : 0..MaxLimiterAge]
    BY Constants, LimiterAges DEF Fresh
  <2>2. limiter \in [Limiters -> [tokens : 0..Full, age : 0..MaxLimiterAge]]
    BY <2>1 DEF Init
  <2> QED
    BY <2>2 DEF Init, TypeOK
<1>2. InboundInv
  <2>1. /\ passed \in [0..(Window - 1) -> Nat] /\ \A i \in 0..(Window - 1) : passed[i] = 0
        /\ Window \in Nat \ {0} /\ RequestsPerIP \in Nat \ {0}
    BY Constants DEF Init
  <2>2. InLast(passed, Window)[Window] = 0
    BY <2>1, SumsIdle
  <2> QED
    BY <2>1, <2>2 DEF Init, InboundInv
<1>3. DomainInv
  <2>1. \A n \in 1..Cutoff : Spent(n) = 0
    BY <1>1, SpentIdle DEF Init
  <2>2. Stock = Full
    BY DEF Init, Stock
  <2>3. SpendBound
    <3>1. \A n \in 1..Cutoff : 0 + Full <= 2 * Full + n - 1
      BY Constants
    <3> QED
      BY <2>1, <2>2, <3>1 DEF SpendBound
  <2>4. \A s \in Senders : ~Deleted(held[s])
    BY DEF Init, Deleted
  <2> QED
    BY <2>3, <2>4 DEF Init, DomainInv, LoadedHolds, DeletedIsOne, IdleSince, SweptIsOld
<1> QED
  BY <1>1, <1>2, <1>3 DEF LimitsInv

LEMMA LimitsAlways == Spec => []LimitsInv
<1>1. Init => LimitsInv
  BY LimitsInit
<1>2. LimitsInv /\ [Next]_vars => LimitsInv'
  BY TypeNext, InboundNext, DomainNext DEF LimitsInv
<1> QED
  BY <1>1, <1>2, PTL DEF Spec

(* Buckets, limiters and histories keep their types: no limiter holds more *)
(* than a burst, no bucket more than the quota, and neither goes below 0.  *)
THEOREM TypeCorrect == Spec => []TypeOK
<1>1. LimitsInv => TypeOK
  BY DEF LimitsInv
<1> QED
  BY <1>1, LimitsAlways, PTL

(* RateLimiter.Allow with its cleanup: in any span of one window a client  *)
(* gets less than twice its quota through, whatever the quota, the window  *)
(* and the moments at which idle buckets are dropped.                      *)
THEOREM QuotaHolds == Spec => []InboundWindowBound
<1>1. ASSUME LimitsInv PROVE InboundWindowBound
  <2>1. TypeOK /\ InboundInv
    BY <1>1 DEF LimitsInv
  <2>2. PICK g \in [0..Window -> Nat] : g = InLast(passed, Window)
    BY <2>1, Sums, Constants DEF TypeOK
  <2>3. PICK x \in Nat : x = g[Window]
    BY <2>2, Constants
  <2>4. CASE bucket = None \/ bucket.age >= Window
    <3>1. x <= RequestsPerIP - 1
      BY <2>1, <2>2, <2>3, <2>4 DEF InboundInv
    <3>2. x < 2 * RequestsPerIP
      BY <3>1, Constants
    <3> QED
      BY <2>2, <2>3, <3>2 DEF InboundWindowBound
  <2>5. CASE ~(bucket = None \/ bucket.age >= Window)
    <3>1. PICK t \in 0..RequestsPerIP : t = bucket.tokens
      BY <2>1, <2>5 DEF TypeOK
    <3>2. x <= (RequestsPerIP - t) + RequestsPerIP - 1
      BY <2>1, <2>2, <2>3, <2>5, <3>1 DEF InboundInv
    <3>3. x < 2 * RequestsPerIP
      BY <3>2, Constants
    <3> QED
      BY <2>2, <2>3, <3>3 DEF InboundWindowBound
  <2> QED
    BY <2>4, <2>5
<1> QED
  BY <1>1, LimitsAlways, PTL

(* Comparing what was paid for sends with what they cost.                  *)
LEMMA Cheaper ==
  ASSUME NEW i \in Nat \ {0}, NEW x \in Nat, NEW y \in Nat, i * x < i * y
  PROVE  x < y
<1> SUFFICES ASSUME x >= y PROVE FALSE
  OBVIOUS
<1>1. PICK d \in Nat : x = y + d
  <2>1. x - y \in Nat /\ x = y + (x - y)
    OBVIOUS
  <2> QED
    BY <2>1
<1>2. i * x = i * y + i * d /\ i * d \in Nat /\ i * y \in Nat
  BY <1>1
<1> QED
  BY <1>2

LEMMA Remainder ==
  ASSUME NEW c \in Nat, NEW i \in Nat \ {0}
  PROVE  c \div i \in Nat /\ c < i * (c \div i) + i
OBVIOUS

(* waitForDomainRateLimit with cleanupDomainLimiters: in any span of the   *)
(* cutoff a domain is sent at most two bursts and what the interval        *)
(* refills, however many requests load, lock and lose a limiter while the  *)
(* cleanup deletes it.                                                     *)
THEOREM BurstsStayBounded == Spec => []DomainBurstBound
<1>1. ASSUME LimitsInv PROVE DomainBurstBound
  <2>1. TypeOK /\ SpendBound
    BY <1>1 DEF LimitsInv, DomainInv
  <2>2. Cutoff \in Nat \ {0} /\ Interval \in Nat \ {0} /\ Burst \in Nat /\ Full \in Nat
    BY Constants
  <2>3. PICK g \in [0..Cutoff -> Nat] : g = InLast(sent, Cutoff)
    BY <2>1, <2>2, Sums DEF TypeOK
  <2>4. PICK x \in Nat : x = g[Cutoff]
    BY <2>2, <2>3
  <2>5. PICK y \in 0..Full : y = Stock
    BY <2>1, Numbers
  <2>6. Interval * x + y <= 2 * Full + Cutoff - 1
    <3>1. Cutoff \in 1..Cutoff
      BY <2>2
    <3>2. Spent(Cutoff) + Stock <= 2 * Full + Cutoff - 1
      BY <2>1, <3>1 DEF SpendBound
    <3> QED
      BY <2>3, <2>4, <2>5, <3>2 DEF Spent
  <2>7. PICK q \in Nat : q = (Cutoff - 1) \div Interval /\ Cutoff - 1 < Interval * q + Interval
    <3>1. PICK c \in Nat : c = Cutoff - 1
      BY <2>2
    <3>2. c \div Interval \in Nat /\ c < Interval * (c \div Interval) + Interval
      BY <2>2, Remainder
    <3> QED
      BY <3>1, <3>2
  <2>8. Interval * (2 * Burst + q + 1) = 2 * Full + Interval * q + Interval
    BY <2>2 DEF Full
  <2>9. Interval * x < Interval * (2 * Burst + q + 1)
    <3>1. PICK u \in Nat, v \in Nat : u = Interval * x /\ v = Interval * q
      BY <2>2
    <3>2. u + y <= 2 * Full + Cutoff - 1 /\ Cutoff - 1 < v + Interval
      BY <2>6, <2>7, <3>1
    <3>3. u < 2 * Full + v + Interval
      BY <2>2, <3>2
    <3> QED
      BY <2>8, <3>1, <3>3
  <2>10. x < 2 * Burst + q + 1
    <3>1. 2 * Burst + q + 1 \in Nat
      BY <2>2
    <3> QED
      BY <2>2, <2>9, <3>1, Cheaper
  <2>11. x <= 2 * Burst + q
    BY <2>2, <2>10
  <2> QED
    BY <2>3, <2>4, <2>7, <2>11 DEF DomainBurstBound
<1> QED
  BY <1>1, LimitsAlways, PTL

=============================================================================
