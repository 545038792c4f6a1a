------------------------- MODULE IPReputation_proofs ------------------------
(***************************************************************************)
(* Proofs about IPReputation and the algorithms it is composed with, the   *)
(* error classifier and the rotation, for any number of reporting          *)
(* goroutines, any thresholds and windows, any reply code and any number   *)
(* of peers.                                                               *)
(*                                                                         *)
(* Induction over sequences is done with the least counterexample: the set *)
(* of the positions where a statement fails has no smallest element.       *)
(***************************************************************************)
EXTENDS IPReputation, FiniteSetTheorems, WellFoundedInduction, TLAPS

(* Every set of natural numbers has a smallest element.                    *)
LEMMA LeastNat ==
  ASSUME NEW S \in SUBSET Nat, S # {}
  PROVE  \E x \in S : \A y \in S : x <= y
<1>1. PICK x \in S : \A y \in S : <<y, x>> \notin OpToRel(<, Nat)
  BY NatLessThanWellFounded, WFMin
<1>2. \A y \in S : ~(y < x)
  BY <1>1 DEF OpToRel
<1> QED
  BY <1>2

(* Induction up to n over a set of positions.                              *)
LEMMA UpTo ==
  ASSUME NEW n \in Nat, NEW S, 0 \in S, \A i \in 1..n : i - 1 \in S => i \in S
  PROVE  \A i \in 0..n : i \in S
<1> DEFINE Bad == (0..n) \ S
<1> SUFFICES ASSUME Bad # {} PROVE FALSE
  OBVIOUS
<1>1. PICK m \in Bad : \A k \in Bad : m <= k
  <2>1. Bad \in SUBSET Nat
    OBVIOUS
  <2> QED
    BY <2>1, LeastNat
<1>2. m \in 1..n /\ m - 1 \in 0..n /\ m - 1 \notin Bad
  BY <1>1
<1> QED
  BY <1>2

-----------------------------------------------------------------------------
(***************************************************************************)
(* The loop that keeps some elements of a sequence.                        *)
(***************************************************************************)
(* One round of the loop.                                                  *)
KeepStep(seq, keep, i, prev) == IF seq[i] \in keep THEN Append(prev, seq[i]) ELSE prev

(* The results of the first n rounds.                                      *)
IsLoop(g, seq, keep, n) == \A i \in 0..n : g[i] = IF i = 0 THEN << >> ELSE KeepStep(seq, keep, i, g[i - 1])

LEMMA LoopExists ==
  ASSUME NEW S, NEW seq \in Seq(S), NEW keep
  PROVE  \E g \in [0..Len(seq) -> Seq(S)] : IsLoop(g, seq, keep, Len(seq))
<1> DEFINE Good == {n \in 0..Len(seq) : \E g \in [0..n -> Seq(S)] : IsLoop(g, seq, keep, n)}
<1>1. 0 \in Good
  <2> DEFINE g == [i \in 0..0 |-> << >>]
  <2>1. g \in [0..0 -> Seq(S)]
    OBVIOUS
  <2>2. IsLoop(g, seq, keep, 0)
    <3>1. \A i \in 0..0 : i = 0 /\ g[i] = << >>
      OBVIOUS
    <3> QED
      BY <3>1 DEF IsLoop
  <2>3. 0 \in 0..Len(seq)
    OBVIOUS
  <2> QED
    BY <2>1, <2>2, <2>3
<1>2. ASSUME NEW n \in 1..Len(seq), n - 1 \in Good PROVE n \in Good
  <2>1. PICK g \in [0..(n - 1) -> Seq(S)] : IsLoop(g, seq, keep, n - 1)
    BY <1>2
  <2> DEFINE h == [i \in 0..n |-> IF i = n THEN KeepStep(seq, keep, n, g[n - 1]) ELSE g[i]]
  <2>2. KeepStep(seq, keep, n, g[n - 1]) \in Seq(S)
    BY DEF KeepStep
  <2>3. h \in [0..n -> Seq(S)]
    BY <2>2
  <2>4. IsLoop(h, seq, keep, n)
    <3> SUFFICES ASSUME NEW i \in 0..n
                 PROVE  h[i] = IF i = 0 THEN << >> ELSE KeepStep(seq, keep, i, h[i - 1])
      BY DEF IsLoop
    <3>1. CASE i = n
      <4>1. h[i] = KeepStep(seq, keep, n, g[n - 1]) /\ h[i - 1] = g[n - 1] /\ i # 0
        BY <3>1
      <4> QED
        BY <3>1, <4>1
    <3>2. CASE i # n
      <4>1. i \in 0..(n - 1) /\ h[i] = g[i] /\ (i # 0 => h[i - 1] = g[i - 1])
        BY <3>2
      <4>2. g[i] = IF i = 0 THEN << >> ELSE KeepStep(seq, keep, i, g[i - 1])
        BY <2>1, <4>1 DEF IsLoop
      <4> QED
        BY <4>1, <4>2
    <3> QED
      BY <3>1, <3>2
  <2> QED
    BY <2>3, <2>4
<1>3. \A n \in 0..Len(seq) : n \in Good
  <2>1. Len(seq) \in Nat
    OBVIOUS
  <2> HIDE DEF Good
  <2> QED
    BY <1>1, <1>2, <2>1, UpTo
<1> QED
  BY <1>3

(* Only is the result of the last round.                                   *)
LEMMA OnlyIsLoop ==
  ASSUME NEW S, NEW seq \in Seq(S), NEW keep
  PROVE  \E g \in [0..Len(seq) -> Seq(S)] : IsLoop(g, seq, keep, Len(seq)) /\ Only(seq, keep) = g[Len(seq)]
<1> DEFINE Rounds(f) == [i \in 0..Len(seq) |->
                           IF i = 0 THEN << >>
                           ELSE IF seq[i] \in keep THEN Append(f[i - 1], seq[i]) ELSE f[i - 1]]
           loop == CHOOSE f : f = Rounds(f)
<1>1. \E f : f = Rounds(f)
  <2>1. PICK g \in [0..Len(seq) -> Seq(S)] : IsLoop(g, seq, keep, Len(seq))
    BY LoopExists
  <2>2. g = Rounds(g)
    BY <2>1 DEF IsLoop, KeepStep
  <2> QED
    BY <2>2
<1>2. loop = Rounds(loop)
  <2> HIDE DEF Rounds
  <2> QED
    BY <1>1
<1>3. Only(seq, keep) = loop[Len(seq)]
  BY DEF Only
<1> HIDE DEF loop
<1> PICK kept : kept = loop
  OBVIOUS
<1>4. IsLoop(kept, seq, keep, Len(seq))
  BY <1>2 DEF IsLoop, KeepStep
<1>5. \A i \in 0..Len(seq) : kept[i] \in Seq(S)
  <2> DEFINE Good == {i \in 0..Len(seq) : kept[i] \in Seq(S)}
  <2>1. 0 \in Good
    <3>1. 0 \in 0..Len(seq)
      OBVIOUS
    <3>2. kept[0] = << >>
      BY <1>4, <3>1 DEF IsLoop
    <3>3. kept[0] \in Seq(S)
      BY <3>2
    <3> QED
      BY <3>1, <3>3
  <2>2. ASSUME NEW i \in 1..Len(seq), i - 1 \in Good PROVE i \in Good
    <3>1. i \in 0..Len(seq) /\ i # 0 /\ seq[i] \in S /\ kept[i - 1] \in Seq(S)
      BY <2>2
    <3>2. kept[i] = KeepStep(seq, keep, i, kept[i - 1])
      BY <1>4, <3>1 DEF IsLoop
    <3>3. kept[i] \in Seq(S)
      BY <3>1, <3>2 DEF KeepStep
    <3> QED
      BY <3>1, <3>3
  <2>3. Len(seq) \in Nat
    OBVIOUS
  <2>4. \A i \in 0..Len(seq) : i \in Good
    <3> HIDE DEF Good
    <3> QED
      BY <2>1, <2>2, <2>3, UpTo
  <2> QED
    BY <2>4
<1>6. kept \in [0..Len(seq) -> Seq(S)]
  BY <1>2, <1>5
<1> QED
  BY <1>3, <1>4, <1>6

(* What occurs in a sequence.                                              *)
Elements(seq) == {seq[i] : i \in 1..Len(seq)}

Distinct(seq) == \A i, j \in 1..Len(seq) : seq[i] = seq[j] => i = j

LEMMA ElementsAppend ==
  ASSUME NEW S, NEW seq \in Seq(S), NEW e \in S
  PROVE  Elements(Append(seq, e)) = Elements(seq) \cup {e}
<1>1. /\ Len(Append(seq, e)) = Len(seq) + 1
      /\ \A i \in 1..Len(seq) : Append(seq, e)[i] = seq[i]
      /\ Append(seq, e)[Len(seq) + 1] = e
      /\ Len(seq) \in Nat
  OBVIOUS
<1>2. Elements(Append(seq, e)) \subseteq Elements(seq) \cup {e}
  <2> SUFFICES ASSUME NEW i \in 1..(Len(seq) + 1) PROVE Append(seq, e)[i] \in Elements(seq) \cup {e}
    BY <1>1 DEF Elements
  <2> QED
    BY <1>1 DEF Elements
<1>3. Elements(seq) \subseteq Elements(Append(seq, e))
  <2> SUFFICES ASSUME NEW i \in 1..Len(seq) PROVE seq[i] \in Elements(Append(seq, e))
    BY DEF Elements
  <2>1. i \in 1..Len(Append(seq, e)) /\ Append(seq, e)[i] = seq[i]
    BY <1>1
  <2> QED
    BY <2>1 DEF Elements
<1>4. e \in Elements(Append(seq, e))
  <2>1. Len(seq) + 1 \in 1..Len(Append(seq, e)) /\ Append(seq, e)[Len(seq) + 1] = e
    BY <1>1
  <2> QED
    BY <2>1 DEF Elements
<1> QED
  BY <1>2, <1>3, <1>4

(* The loop returns the elements it is to keep; if they were distinct, it  *)
(* returns each of them once.                                              *)
LEMMA OnlyKeeps ==
  ASSUME NEW S, NEW seq \in Seq(S), NEW keep
  PROVE  /\ Only(seq, keep) \in Seq(S)
         /\ Elements(Only(seq, keep)) = Elements(seq) \cap keep
         /\ Distinct(seq) => /\ IsFiniteSet(Elements(Only(seq, keep)))
                             /\ Cardinality(Elements(Only(seq, keep))) = Len(Only(seq, keep))
<1>1. PICK g \in [0..Len(seq) -> Seq(S)] : IsLoop(g, seq, keep, Len(seq)) /\ Only(seq, keep) = g[Len(seq)]
  BY OnlyIsLoop
<1> DEFINE Seen(i) == {seq[j] : j \in 1..i}
           Right(i) == /\ Elements(g[i]) = Seen(i) \cap keep
                       /\ Distinct(seq) => /\ IsFiniteSet(Elements(g[i]))
                                           /\ Cardinality(Elements(g[i])) = Len(g[i])
           Good == {i \in 0..Len(seq) : Right(i)}
<1>2. 0 \in Good
  <2>1. 0 \in 0..Len(seq) /\ g[0] = << >>
    BY <1>1 DEF IsLoop
  <2>2. Elements(g[0]) = {} /\ Seen(0) = {} /\ Len(g[0]) = 0
    BY <2>1 DEF Elements
  <2> QED
    BY <2>1, <2>2, FS_EmptySet
<1>3. ASSUME NEW i \in 1..Len(seq), i - 1 \in Good PROVE i \in Good
  <2>1. /\ i \in 0..Len(seq) /\ i - 1 \in 0..Len(seq) /\ i # 0
        /\ seq[i] \in S /\ g[i - 1] \in Seq(S) /\ Len(g[i - 1]) \in Nat
    OBVIOUS
  <2>2. g[i] = KeepStep(seq, keep, i, g[i - 1])
    BY <1>1, <2>1 DEF IsLoop
  <2>3. Right(i - 1)
    BY <1>3
  <2>4. Seen(i) = Seen(i - 1) \cup {seq[i]}
    OBVIOUS
  <2>5. CASE seq[i] \in keep
    <3>1. g[i] = Append(g[i - 1], seq[i])
      BY <2>2, <2>5 DEF KeepStep
    <3>2. Elements(g[i]) = Elements(g[i - 1]) \cup {seq[i]} /\ Len(g[i]) = Len(g[i - 1]) + 1
      BY <2>1, <3>1, ElementsAppend
    <3>3. Distinct(seq) => seq[i] \notin Seen(i - 1)
      BY DEF Distinct
    <3>4. Elements(g[i]) = Seen(i) \cap keep
      BY <2>3, <2>4, <2>5, <3>2
    <3>5. ASSUME Distinct(seq)
          PROVE  IsFiniteSet(Elements(g[i])) /\ Cardinality(Elements(g[i])) = Len(g[i])
      <4>1. seq[i] \notin Elements(g[i - 1])
        BY <2>3, <3>3, <3>5
      <4>2. IsFiniteSet(Elements(g[i - 1])) /\ Cardinality(Elements(g[i - 1])) = Len(g[i - 1])
        BY <2>3, <3>5
      <4> HIDE DEF Seen, Right
      <4>3. /\ IsFiniteSet(Elements(g[i - 1]) \cup {seq[i]})
            /\ Cardinality(Elements(g[i - 1]) \cup {seq[i]}) = Cardinality(Elements(g[i - 1])) + 1
        BY <4>1, <4>2, FS_AddElement
      <4> QED
        BY <3>2, <4>2, <4>3
    <3> QED
      BY <2>1, <3>4, <3>5
  <2>6. CASE seq[i] \notin keep
    <3>1. g[i] = g[i - 1]
      BY <2>2, <2>6 DEF KeepStep
    <3> QED
      BY <2>1, <2>3, <2>4, <2>6, <3>1
  <2> QED
    BY <2>5, <2>6
<1>4. \A i \in 0..Len(seq) : i \in Good
  <2>1. Len(seq) \in Nat
    OBVIOUS
  <2> HIDE DEF Good
  <2> QED
    BY <1>2, <1>3, <2>1, UpTo
<1>5. Right(Len(seq)) /\ g[Len(seq)] \in Seq(S)
  <2>1. Len(seq) \in 0..Len(seq)
    OBVIOUS
  <2> QED
    BY <1>4, <2>1
<1> QED
  BY <1>1, <1>5 DEF Elements

(* It never returns more than it was given.                                *)
LEMMA OnlyShortens ==
  ASSUME NEW S, NEW seq \in Seq(S), NEW keep
  PROVE  Len(Only(seq, keep)) <= Len(seq)
<1>1. PICK g \in [0..Len(seq) -> Seq(S)] : IsLoop(g, seq, keep, Len(seq)) /\ Only(seq, keep) = g[Len(seq)]
  BY OnlyIsLoop
<1> DEFINE Good == {i \in 0..Len(seq) : Len(g[i]) <= i}
<1>2. 0 \in Good
  <2>1. 0 \in 0..Len(seq) /\ g[0] = << >>
    BY <1>1 DEF IsLoop
  <2>2. Len(g[0]) = 0
    BY <2>1
  <2> QED
    BY <2>1, <2>2
<1>3. ASSUME NEW i \in 1..Len(seq), i - 1 \in Good PROVE i \in Good
  <2>1. /\ i \in 0..Len(seq) /\ i # 0 /\ i - 1 \in 0..Len(seq)
        /\ seq[i] \in S /\ g[i - 1] \in Seq(S) /\ Len(g[i - 1]) \in Nat
    OBVIOUS
  <2>2. g[i] = KeepStep(seq, keep, i, g[i - 1])
    BY <1>1, <2>1 DEF IsLoop
  <2>3. Len(g[i]) <= Len(g[i - 1]) + 1
    BY <2>1, <2>2 DEF KeepStep
  <2>4. Len(g[i - 1]) <= i - 1 /\ Len(g[i]) \in Nat
    BY <1>3, <2>1
  <2> QED
    BY <2>1, <2>3, <2>4
<1>4. \A i \in 0..Len(seq) : i \in Good
  <2>1. Len(seq) \in Nat
    OBVIOUS
  <2> HIDE DEF Good
  <2> QED
    BY <1>2, <1>3, <2>1, UpTo
<1>5. Len(seq) \in 0..Len(seq)
  OBVIOUS
<1> QED
  BY <1>1, <1>4, <1>5

-----------------------------------------------------------------------------
(***************************************************************************)
(* Rotation.                                                               *)
(***************************************************************************)
LEMMA ModRange ==
  ASSUME NEW n \in Nat \ {0}, NEW a \in Nat
  PROVE  a % n \in 0..(n - 1)
OBVIOUS

LEMMA ModOnce ==
  ASSUME NEW n \in Nat \ {0}, NEW a \in 0..(2 * n - 1)
  PROVE  a % n = IF a < n THEN a ELSE a - n
OBVIOUS

LEMMA ModIs ==
  ASSUME NEW n \in Nat \ {0}, NEW q \in Nat, NEW r \in 0..(n - 1)
  PROVE  (n * q + r) % n = r
OBVIOUS

LEMMA ModNext ==
  ASSUME NEW n \in Nat \ {0}, NEW a \in Nat
  PROVE  (a + 1) % n = (1 + (a % n)) % n
<1> DEFINE q == a \div n
           r == a % n
<1>1. q \in Nat /\ r \in 0..(n - 1) /\ a = n * q + r
  OBVIOUS
<1> HIDE DEF q, r
<1>2. CASE r + 1 < n
  <2>1. r + 1 \in 0..(n - 1) /\ a + 1 = n * q + (r + 1)
    BY <1>1, <1>2
  <2>2. (a + 1) % n = r + 1
    BY <1>1, <2>1, ModIs
  <2>3. (1 + r) % n = r + 1
    BY <1>1, <1>2
  <2> QED
    BY <2>2, <2>3 DEF r
<1>3. CASE r + 1 = n
  <2>1. n * (q + 1) = n * q + n
    BY <1>1
  <2>2. a + 1 = n * (q + 1) + 0 /\ q + 1 \in Nat /\ 0 \in 0..(n - 1)
    BY <1>1, <1>3, <2>1
  <2>3. (a + 1) % n = 0
    BY <2>2, ModIs
  <2>4. (1 + r) % n = 0
    BY <1>1, <1>3
  <2> QED
    BY <2>3, <2>4 DEF r
<1> QED
  BY <1>1, <1>2, <1>3

(* From, applied to n peers, is a rotation: it names every peer once.      *)
LEMMA FromRotates ==
  ASSUME NEW n \in Nat \ {0}, NEW start \in 0..(n - 1)
  PROVE  /\ From(Peers(n), start) \in Seq(1..n)
         /\ Len(From(Peers(n), start)) = n
         /\ From(Peers(n), start)[1] = 1 + start
         /\ Distinct(From(Peers(n), start))
         /\ Elements(From(Peers(n), start)) = 1..n
<1> DEFINE At(i) == IF start + i - 1 < n THEN start + i ELSE start + i - n
           turn == From(Peers(n), start)
<1>1. Peers(n) \in Seq(1..n) /\ Len(Peers(n)) = n /\ \A i \in 1..n : Peers(n)[i] = i
  BY DEF Peers
<1>2. \A i \in 1..n : 1 + ((start + i - 1) % n) = At(i) /\ At(i) \in 1..n
  <2> SUFFICES ASSUME NEW i \in 1..n PROVE 1 + ((start + i - 1) % n) = At(i) /\ At(i) \in 1..n
    OBVIOUS
  <2>1. PICK a \in 0..(2 * n - 1) : a = start + i - 1
    OBVIOUS
  <2>2. a % n = IF a < n THEN a ELSE a - n
    BY ModOnce
  <2> QED
    BY <2>1, <2>2
<1>3. turn = [i \in 1..n |-> At(i)]
  BY <1>1, <1>2 DEF From
<1>4. turn \in Seq(1..n) /\ Len(turn) = n /\ \A i \in 1..n : turn[i] = At(i)
  BY <1>2, <1>3
<1>5. Distinct(turn)
  <2>1. \A i, j \in 1..n : At(i) = At(j) => i = j
    OBVIOUS
  <2> HIDE DEF At, turn
  <2> QED
    BY <1>4, <2>1 DEF Distinct
<1>6. Elements(turn) = 1..n
  <2>1. Elements(turn) \subseteq 1..n
    BY <1>2, <1>4 DEF Elements
  <2>2. ASSUME NEW p \in 1..n PROVE p \in Elements(turn)
    <3> DEFINE i == IF p > start THEN p - start ELSE p - start + n
    <3>1. i \in 1..n /\ At(i) = p
      OBVIOUS
    <3> QED
      BY <1>4, <3>1 DEF Elements
  <2> QED
    BY <2>1, <2>2
<1>7. turn[1] = 1 + start
  BY <1>4
<1> QED
  BY <1>4, <1>5, <1>6, <1>7

LEMMA CounterSizeType == CounterSize \in Nat \ {0}
BY RotationAssumption DEF RotationAssumption, CounterSize

(* SelectIPs undoes the increment of the counter, also when it wrapped.    *)
LEMMA CounterBack ==
  ASSUME NEW counter \in Counters
  PROVE  (Add(counter) + CounterSize - 1) % CounterSize = counter
<1> DEFINE size == CounterSize
<1>1. size \in Nat \ {0} /\ counter \in 0..(size - 1)
  BY CounterSizeType DEF Counters
<1> HIDE DEF size
<1>2. PICK a \in 0..(2 * size - 1) : a = counter + 1
  BY <1>1
<1>3. a % size = IF a < size THEN a ELSE a - size
  BY <1>1, ModOnce
<1>4. PICK b \in 0..(2 * size - 1) : b = (a % size) + size - 1
  BY <1>1, <1>2, <1>3
<1>5. b % size = IF b < size THEN b ELSE b - size
  BY <1>1, ModOnce
<1>6. b % size = counter
  BY <1>1, <1>2, <1>3, <1>4, <1>5
<1> QED
  BY <1>2, <1>4, <1>6 DEF size, Add

LEMMA SelectRotates ==
  ASSUME NEW n \in Nat \ {0}, NEW counter \in Counters, NEW strategy \in Strategies, NEW pick \in Nat
  PROVE  /\ SelectIPs(Peers(n), strategy, counter, pick) \in Seq(1..n)
         /\ Len(SelectIPs(Peers(n), strategy, counter, pick)) = n
         /\ strategy = "round-robin" => SelectIPs(Peers(n), strategy, counter, pick)[1] = 1 + (counter % n)
         /\ Distinct(SelectIPs(Peers(n), strategy, counter, pick))
         /\ Elements(SelectIPs(Peers(n), strategy, counter, pick)) = 1..n
<1> DEFINE ips == SelectIPs(Peers(n), strategy, counter, pick)
<1>1. Peers(n) \in Seq(1..n) /\ Len(Peers(n)) = n /\ \A i \in 1..n : Peers(n)[i] = i
  BY DEF Peers
<1>2. CASE n = 1
  <2>1. ips = Peers(1) /\ Len(ips) = 1 /\ ips[1] = 1 /\ ips \in Seq(1..1)
    BY <1>1, <1>2 DEF SelectIPs
  <2>2. counter \in Nat /\ counter % n = 0
    BY <1>2, CounterSizeType, ModRange DEF Counters
  <2>3. Distinct(ips)
    BY <2>1 DEF Distinct
  <2>4. Elements(ips) = 1..1
    BY <2>1 DEF Elements
  <2> QED
    BY <1>2, <2>1, <2>2, <2>3, <2>4
<1>3. CASE n > 1
  <2> DEFINE start == IF strategy = "round-robin" THEN counter % n ELSE pick % n
  <2>1. ips = From(Peers(n), start)
    BY <1>1, <1>3, CounterBack DEF SelectIPs
  <2>2. start \in 0..(n - 1)
    BY CounterSizeType, ModRange DEF Counters
  <2>3. strategy = "round-robin" => start = counter % n
    OBVIOUS
  <2> HIDE DEF start, ips
  <2> QED
    BY <2>1, <2>2, <2>3, FromRotates DEF ips
<1> QED
  BY <1>2, <1>3

LEMMA EveryPeerTried ==
  ASSUME NEW n \in Nat \ {0}, NEW healthy \in SUBSET (1..n)
  PROVE  AllTried(n, healthy)
<1> SUFFICES ASSUME NEW counter \in Counters, NEW strategy \in Strategies, NEW pick \in 0..n
             PROVE  LET ips == Candidates(SelectIPs(Peers(n), strategy, counter, pick), healthy)
                        used == {ips[i] : i \in 1..Len(ips)}
                    IN /\ used = (IF healthy = {} THEN 1..n ELSE healthy)
                       /\ Len(ips) = Cardinality(used)
  BY DEF AllTried
<1> DEFINE all == SelectIPs(Peers(n), strategy, counter, pick)
           passed == Only(all, healthy)
           ips == Candidates(all, healthy)
<1>1. all \in Seq(1..n) /\ Len(all) = n /\ Distinct(all) /\ Elements(all) = 1..n
  BY SelectRotates
<1> HIDE DEF all
<1>2. /\ passed \in Seq(1..n) /\ Elements(passed) = healthy
      /\ Cardinality(Elements(passed)) = Len(passed)
  <2>1. /\ passed \in Seq(1..n)
        /\ Elements(passed) = Elements(all) \cap healthy
        /\ Distinct(all) => Cardinality(Elements(passed)) = Len(passed)
    BY <1>1, OnlyKeeps, Zenon
  <2>2. (1..n) \cap healthy = healthy
    OBVIOUS
  <2> QED
    BY <1>1, <2>1, <2>2
<1>3. ips = IF passed = << >> THEN all ELSE passed
  BY DEF Candidates
<1> HIDE DEF passed, ips
<1>4. passed = << >> <=> healthy = {}
  <2>1. passed = << >> => healthy = {}
    BY <1>2 DEF Elements
  <2>2. passed # << >> => passed[1] \in Elements(passed)
    <3>1. passed # << >> => 1 \in 1..Len(passed)
      BY <1>2
    <3> QED
      BY <3>1 DEF Elements
  <2> QED
    BY <1>2, <2>1, <2>2
<1>5. Elements(ips) = (IF healthy = {} THEN 1..n ELSE healthy)
  BY <1>1, <1>2, <1>3, <1>4
<1>6. Len(ips) = Cardinality(Elements(ips))
  <2>1. Cardinality(1..n) = n
    BY FS_Interval
  <2> QED
    BY <1>1, <1>2, <1>3, <2>1
<1> QED
  BY <1>5, <1>6 DEF Elements, ips, all

LEMMA PeersInTurn ==
  ASSUME NEW n \in Nat \ {0}
  PROVE  InTurn(n)
<1> DEFINE First(c) == SelectIPs(Peers(n), "round-robin", c, 0)[1]
<1>1. \A c \in Counters : First(c) = 1 + (c % n)
  <2>1. "round-robin" \in Strategies /\ 0 \in Nat
    BY DEF Strategies
  <2> QED
    BY <2>1, SelectRotates
<1> HIDE DEF First
<1> SUFFICES ASSUME NEW counter \in Counters
             PROVE  IF counter = CounterSize - 1 THEN First(Add(counter)) = 1
                    ELSE First(Add(counter)) = 1 + (First(counter) % n)
  BY DEF InTurn, First
<1>2. counter \in Nat /\ counter <= CounterSize - 1 /\ CounterSize \in Nat \ {0}
  BY CounterSizeType DEF Counters
<1>3. CASE counter = CounterSize - 1
  <2>1. Add(counter) = 0
    <3>1. CounterSize % CounterSize = 0
      BY <1>2
    <3>2. counter + 1 = CounterSize
      BY <1>2, <1>3
    <3> QED
      BY <3>1, <3>2 DEF Add
  <2>2. 0 \in Counters /\ 0 % n = 0
    BY <1>2 DEF Counters
  <2> QED
    BY <1>1, <1>3, <2>1, <2>2
<1>4. CASE counter # CounterSize - 1
  <2>1. Add(counter) = counter + 1 /\ counter + 1 \in Counters
    BY <1>2, <1>4 DEF Add, Counters
  <2>2. First(Add(counter)) = 1 + ((counter + 1) % n) /\ First(counter) = 1 + (counter % n)
    BY <1>1, <2>1
  <2>3. (counter + 1) % n = (1 + (counter % n)) % n
    BY <1>2, ModNext
  <2> QED
    BY <1>4, <2>2, <2>3
<1> QED
  BY <1>3, <1>4

(* dialResolver goes through all servers, so it finds one that can be      *)
(* reached, over a network it may use.                                     *)
LEMMA ServersAnswer ==
  ASSUME NEW n \in Nat \ {0}
  PROVE  Answered(n)
<1> SUFFICES ASSUME NEW counter \in Counters, NEW wantTCP \in BOOLEAN,
                    NEW reachable \in SUBSET ((1..n) \X {"udp", "tcp"})
             PROVE  LET dialed == dialResolver(Peers(n), counter, wantTCP, reachable)
                    IN IF dialed # << >>
                         THEN dialed \in reachable /\ (wantTCP => dialed[2] = "tcp")
                         ELSE \A s \in 1..n : /\ <<s, "tcp">> \notin reachable
                                              /\ ~wantTCP => <<s, "udp">> \notin reachable
  BY DEF Answered
<1> DEFINE order == From(Peers(n), Add(counter) % n)
           tried == [i \in 1..Len(order) |->
                       IF ~wantTCP /\ <<order[i], "udp">> \in reachable
                         THEN "udp"
                         ELSE IF <<order[i], "tcp">> \in reachable THEN "tcp" ELSE "none"]
           hits == {i \in 1..Len(order) : tried[i] # "none"}
           first == CHOOSE i \in hits : \A j \in hits : i <= j
           dialed == dialResolver(Peers(n), counter, wantTCP, reachable)
<1>1. Len(order) = n /\ Elements(order) = 1..n /\ order \in Seq(1..n)
  <2>1. Add(counter) \in Nat
    <3>1. counter + 1 \in Nat
      BY CounterSizeType DEF Counters
    <3> QED
      BY <3>1, CounterSizeType, ModRange DEF Add
  <2>2. Add(counter) % n \in 0..(n - 1)
    BY <2>1, ModRange
  <2> QED
    BY <2>2, FromRotates
<1>2. dialed = IF hits = {} THEN << >> ELSE <<order[first], tried[first]>>
  <2>1. Len(Peers(n)) = n
    BY DEF Peers
  <2> QED
    BY <2>1 DEF dialResolver
<1> HIDE DEF order, dialed
<1>3. CASE hits = {}
  <2>1. \A i \in 1..n : tried[i] = "none"
    BY <1>1, <1>3
  <2>2. \A i \in 1..n : /\ <<order[i], "tcp">> \notin reachable
                        /\ ~wantTCP => <<order[i], "udp">> \notin reachable
    BY <1>1, <2>1
  <2>3. \A s \in 1..n : \E i \in 1..n : order[i] = s
    BY <1>1 DEF Elements
  <2>4. \A s \in 1..n : /\ <<s, "tcp">> \notin reachable
                        /\ ~wantTCP => <<s, "udp">> \notin reachable
    BY <2>2, <2>3
  <2>5. dialed = << >>
    BY <1>2, <1>3
  <2> QED
    BY <2>4, <2>5 DEF dialed
<1>4. CASE hits # {}
  <2>1. first \in hits
    <3>1. hits \in SUBSET Nat
      BY <1>1
    <3>2. \E i \in hits : \A j \in hits : i <= j
      BY <1>4, <3>1, LeastNat
    <3> HIDE DEF hits
    <3> QED
      BY <3>2
  <2> HIDE DEF first
  <2>2. /\ tried[first] = "udp" => ~wantTCP /\ <<order[first], "udp">> \in reachable
        /\ tried[first] # "udp" => tried[first] = "tcp" /\ <<order[first], "tcp">> \in reachable
    BY <2>1
  <2> HIDE DEF tried, hits
  <2>3. dialed = <<order[first], tried[first]>>
    BY <1>2, <1>4
  <2>4. dialed \in reachable /\ dialed[2] = tried[first] /\ dialed # << >>
    BY <2>2, <2>3
  <2> QED
    BY <2>2, <2>4 DEF dialed
<1> QED
  BY <1>3, <1>4

LEMMA NoneUnfair == Unfair = {}
<1>1. \A n \in 1..MaxPeers : \A h \in SUBSET (1..n) : AllTried(n, h) /\ InTurn(n) /\ Answered(n)
  <2>1. 1..MaxPeers \subseteq Nat \ {0}
    BY RotationAssumption DEF RotationAssumption
  <2> QED
    BY <2>1, EveryPeerTried, PeersInTurn, ServersAnswer
<1> QED
  BY <1>1 DEF Unfair

-----------------------------------------------------------------------------
(***************************************************************************)
(* The classifier, for every natural number as a reply code.               *)
(***************************************************************************)
LEMMA ReplyClasses ==
  ASSUME NEW code \in Nat
  PROVE  /\ Class(code, 2) <=> 200 <= code /\ code < 300
         /\ Class(code, 4) <=> 400 <= code /\ code < 500
         /\ Class(code, 5) <=> 500 <= code /\ code < 600
BY DEF Class

LEMMA ReputationKinds ==
  ASSUME NEW code \in Nat, NEW words, NEW quoted \in BOOLEAN
  PROVE  /\ isReputationError(code, words, quoted) \in {"strong", "weak", "no"}
         /\ isReputationError(code, words, quoted) = "strong" => "strong" \in words
         /\ isReputationError(code, words, quoted) = "weak" =>
              Class(code, 5) /\ (quoted \/ "signal" \in words)
BY DEF isReputationError, hasIPScopedSignal

(* The verdicts, by code and by what the words say of the IP.              *)
LEMMA Verdicts ==
  ASSUME NEW code \in Nat, NEW words, NEW quoted \in BOOLEAN
  PROVE  LET verdict == ClassifyError(code, words, quoted)
             reputation == isReputationError(code, words, quoted)
         IN /\ verdict.category = "none" <=> 200 <= code /\ code < 300
            /\ verdict.category = "reputation" => code > 0 /\ reputation # "no"
            /\ verdict.category = "reputation" => (verdict.immediate <=> reputation = "strong")
            /\ verdict.category = "permanent" => 500 <= code /\ code < 600
            /\ verdict.category \in Categories \cup {"none"}
<1> DEFINE reputation == isReputationError(code, words, quoted)
           Verdict(c) == [category |-> c, immediate |-> FALSE]
           verdict == ClassifyError(code, words, quoted)
<1>1. reputation \in {"strong", "weak", "no"}
  BY ReputationKinds
<1>2. CASE code = 0
  BY <1>2 DEF ClassifyError, classifyNetworkError, Categories
<1>3. CASE 200 <= code /\ code < 300
  <2>1. verdict = NoError
    BY <1>3, ReplyClasses DEF ClassifyError, classifySMTPCode
  <2> QED
    BY <1>3, <2>1 DEF NoError
<1>4. CASE code # 0 /\ ~Class(code, 2) /\ reputation # "no"
  <2>1. verdict = [category |-> "reputation", immediate |-> reputation = "strong"]
    BY <1>4, ReplyClasses DEF ClassifyError, classifySMTPCode
  <2>2. verdict.category = "reputation"
    BY <2>1
  <2>3. verdict.immediate <=> reputation = "strong"
    <3>1. CASE reputation = "strong"
      <4>1. verdict = [category |-> "reputation", immediate |-> TRUE]
        BY <2>1, <3>1
      <4> QED
        BY <3>1, <4>1
    <3>2. CASE reputation # "strong"
      <4>1. verdict = [category |-> "reputation", immediate |-> FALSE]
        BY <2>1, <3>2
      <4> QED
        BY <3>2, <4>1
    <3> QED
      BY <3>1, <3>2
  <2>4. code > 0 /\ ~(200 <= code /\ code < 300)
    BY <1>4, ReplyClasses
  <2> QED
    BY <1>4, <2>2, <2>3, <2>4 DEF Categories
<1>5. CASE code # 0 /\ ~Class(code, 2) /\ reputation = "no"
  <2>1. \/ Class(code, 4) /\ verdict \in {Verdict("greylist"), Verdict("temporary")}
        \/ Class(code, 5) /\ verdict = Verdict("permanent")
        \/ verdict = Verdict("network")
    BY <1>5, ReplyClasses DEF ClassifyError, classifySMTPCode
  <2> QED
    BY <1>5, <2>1, ReplyClasses DEF Categories
<1> QED
  BY <1>2, <1>3, <1>4, <1>5, ReplyClasses

(* Every verdict is sound: who is told what never contradicts.             *)
LEMMA VerdictIsSound ==
  ASSUME NEW code \in Nat, NEW words, NEW quoted \in BOOLEAN, NEW bind \in BOOLEAN
  PROVE  Sound(code, words, quoted, bind)
<1> DEFINE verdict == ClassifyError(code, words, quoted)
           category == verdict.category
           reputation == isReputationError(code, words, quoted)
           status == StatusOf(code, words, quoted, bind)
           report == ReportOf(code, words, quoted)
<1>1. /\ category = "none" <=> 200 <= code /\ code < 300
      /\ category = "reputation" => code > 0 /\ reputation # "no"
      /\ category = "reputation" => (verdict.immediate <=> reputation = "strong")
      /\ category = "permanent" => 500 <= code /\ code < 600
      /\ category \in Categories \cup {"none"}
  BY Verdicts
<1>2. /\ report = "nothing" <=> category # "reputation"
      /\ report = "strong" => category = "reputation" /\ verdict.immediate
      /\ report \in {"nothing", "strong", "weak"}
      /\ report = "weak" => category = "reputation" /\ ~verdict.immediate
  BY DEF ReportOf
<1>3. /\ category # "none" /\ code >= 500 => status = "hard_bounce"
      /\ status = "temp_fail" => category # "none" /\ code > 0 /\ code < 500
  BY DEF StatusOf
<1> HIDE DEF verdict, category, reputation, status, report
<1>4. ShouldDeactivateEmail(category, code, words) =>
        status = "hard_bounce" /\ report = "nothing" /\ ~IsRetryable(category)
  <2> SUFFICES ASSUME ShouldDeactivateEmail(category, code, words)
               PROVE  status = "hard_bounce" /\ report = "nothing" /\ ~IsRetryable(category)
    OBVIOUS
  <2>1. category = "permanent"
    BY DEF ShouldDeactivateEmail
  <2>2. code >= 500
    BY <1>1, <2>1
  <2>3. status = "hard_bounce" /\ report = "nothing"
    BY <1>2, <1>3, <2>1, <2>2
  <2> QED
    BY <2>1, <2>3 DEF IsRetryable
<1>5. report # "nothing" => "strong" \in words \/ (status = "hard_bounce" /\ (quoted \/ "signal" \in words))
  <2>1. reputation = "strong" => "strong" \in words
    BY ReputationKinds DEF reputation
  <2>2. reputation = "weak" => 500 <= code /\ (quoted \/ "signal" \in words)
    BY ReputationKinds, ReplyClasses DEF reputation
  <2>3. reputation \in {"strong", "weak", "no"}
    BY ReputationKinds DEF reputation
  <2> QED
    BY <1>1, <1>2, <1>3, <2>1, <2>2, <2>3
<1>6. code \div 100 = 2 => report = "nothing" /\ category = "none"
  <2>1. code \div 100 = 2 => 200 <= code /\ code < 300
    OBVIOUS
  <2> QED
    BY <1>1, <1>2, <2>1
<1>7. status = "temp_fail" => IsRetryable(category)
  BY <1>1, <1>3 DEF IsRetryable, Categories
<1> QED
  BY <1>4, <1>5, <1>6, <1>7 DEF Sound, verdict, category, status, report

LEMMA NoneMisjudged == Misjudged = {}
<1>1. \A q \in Codes \X (SUBSET Keywords) \X BOOLEAN :
        q[1] \in Nat /\ q[3] \in BOOLEAN
  BY DEF Codes
<1>2. \A q \in Codes \X (SUBSET Keywords) \X BOOLEAN :
        \A bind \in BOOLEAN : Sound(q[1], q[2], q[3], bind)
  BY <1>1, VerdictIsSound
<1> QED
  BY <1>2 DEF Misjudged

-----------------------------------------------------------------------------
(***************************************************************************)
(* The tracker.                                                            *)
(***************************************************************************)
(* While a success that nobody overlapped is reported, its goroutine is    *)
(* the only one, and past the first lock the strikes are gone.             *)
CalmInv ==
    calm => /\ \A v \in Workers : pc[v] # "idle" =>
                  /\ kind[v] = "success"
                  /\ pc[v] \in {"check", "delete", "was", "recover"}
                  /\ pc[v] \in {"was", "recover"} => strikes = << >>
                  /\ \A u \in Workers : pc[u] # "idle" => u = v
            /\ Quiet => degraded = None /\ strikes = << >>

(* The strikes kept stay below the threshold: the report that causes a     *)
(* crossing clears them. And every one of them was counted since the last  *)
(* crossing or calm success.                                               *)
StrikesBelowThreshold == Len(strikes) = 0 \/ Len(strikes) < threshold

StrikesCounted == Len(strikes) <= signals

TrackerInv == TypeOK /\ StrikesBelowThreshold /\ StrikesCounted /\ CalmInv

LEMMA NoStrikes == << >> \in Seq(0..(Window + 1)) /\ Len(<< >>) = 0
OBVIOUS

LEMMA TrackerInit == Init => TrackerInv
<1> SUFFICES ASSUME Init PROVE TrackerInv
  OBVIOUS
<1>0. threshold \in Nat /\ Len(strikes) = 0
  BY ConstantsAssumption DEF Init, ConstantsAssumption
<1>1. TypeOK
  <2>1. "success" \in Reports
    BY DEF Reports
  <2>2. signals \in 0..threshold
    BY <1>0 DEF Init
  <2> QED
    BY <2>1, <2>2, NoStrikes DEF Init, TypeOK
<1>2. StrikesBelowThreshold /\ StrikesCounted
  BY <1>0 DEF Init, StrikesBelowThreshold, StrikesCounted
<1>3. CalmInv
  BY DEF Init, CalmInv
<1> QED
  BY <1>1, <1>2, <1>3 DEF TrackerInv

LEMMA Ages ==
  /\ None \notin Nat /\ Thresholds \subseteq Nat /\ Window \in Nat \ {0}
  /\ Retry \in Nat /\ CleanupAfter \in Nat
  /\ MaxAge \in Nat /\ MaxAge > Retry /\ MaxAge > CleanupAfter
BY ConstantsAssumption DEF ConstantsAssumption, MaxAge

(* A strike: what is kept is a sequence of ages again.                     *)
LEMMA StrikeType ==
  ASSUME TypeOK
  PROVE  /\ Append(Only(strikes, 0..(Window - 1)), 0) \in Seq(0..(Window + 1))
         /\ Len(Append(Only(strikes, 0..(Window - 1)), 0)) <= Len(strikes) + 1
<1>1. Only(strikes, 0..(Window - 1)) \in Seq(0..(Window + 1))
  BY OnlyKeeps DEF TypeOK
<1>2. 0 \in 0..(Window + 1)
  BY Ages
<1>3. Len(Only(strikes, 0..(Window - 1))) <= Len(strikes)
  BY OnlyShortens DEF TypeOK
<1>4. Len(Append(Only(strikes, 0..(Window - 1)), 0)) = Len(Only(strikes, 0..(Window - 1))) + 1
  BY <1>1, <1>2
<1>5. Len(strikes) \in Nat /\ Len(Only(strikes, 0..(Window - 1))) \in Nat
  BY <1>1 DEF TypeOK
<1> QED
  BY <1>1, <1>2, <1>3, <1>4, <1>5

(* A tick: as many strikes as before, each older or at its last age.       *)
LEMMA TickStrikes ==
  ASSUME TypeOK, Tick
  PROVE  strikes' \in Seq(0..(Window + 1)) /\ Len(strikes') = Len(strikes) /\ (strikes = << >> => strikes' = << >>)
<1>1. strikes \in Seq(0..(Window + 1)) /\ DOMAIN strikes = 1..Len(strikes) /\ Len(strikes) \in Nat
  BY DEF TypeOK
<1>2. \A i \in 1..Len(strikes) :
        (IF strikes[i] > Window THEN strikes[i] ELSE strikes[i] + 1) \in 0..(Window + 1)
  BY <1>1, Ages
<1>3. strikes' = [i \in 1..Len(strikes) |-> IF strikes[i] > Window THEN strikes[i] ELSE strikes[i] + 1]
  BY <1>1 DEF Tick
<1> QED
  BY <1>1, <1>2, <1>3

(* One critical section of a report.                                       *)
LEMMA ReportKeeps ==
  ASSUME TrackerInv, NEW w \in Workers, Report(w)
  PROVE  TrackerInv'
<1> USE DEF TrackerInv
<1>1. CASE \E r \in Reports : RecordDeliveryAttempt(w, r)
  <2>1. PICK r \in Reports : RecordDeliveryAttempt(w, r)
    BY <1>1
  <2>2. TypeOK'
    BY <2>1 DEF RecordDeliveryAttempt, Step, TypeOK
  <2>3. StrikesBelowThreshold' /\ StrikesCounted'
    BY <2>1 DEF RecordDeliveryAttempt, StrikesBelowThreshold, StrikesCounted
  <2>4. CalmInv'
    BY <2>1 DEF RecordDeliveryAttempt, Step, CalmInv, Quiet, TypeOK
  <2> QED
    BY <2>2, <2>3, <2>4
<1>2. CASE ClearCheck(w) \/ ClearDelete(w)
  <2>1. TypeOK'
    BY <1>2, NoStrikes DEF ClearCheck, ClearDelete, AfterClear, Step, TypeOK
  <2>2. StrikesBelowThreshold' /\ StrikesCounted'
    <3>1. threshold \in Nat /\ signals \in 0..threshold
      BY Ages DEF TypeOK
    <3> QED
      BY <1>2, <3>1, NoStrikes DEF ClearCheck, ClearDelete, StrikesBelowThreshold, StrikesCounted
  <2>3. CalmInv'
    <3> SUFFICES ASSUME calm PROVE CalmInv'
      BY <1>2 DEF ClearCheck, ClearDelete, CalmInv
    <3>1. kind[w] = "success" /\ \A u \in Workers : u # w => pc[u] = "idle"
      BY <1>2 DEF ClearCheck, ClearDelete, CalmInv
    <3>2. /\ pc'[w] \in {"was", "delete"} /\ \A u \in Workers : u # w => pc'[u] = "idle"
          /\ UNCHANGED kind
      BY <1>2, <3>1 DEF ClearCheck, ClearDelete, AfterClear, Step, TypeOK
    <3>3. pc'[w] = "was" => strikes' = << >>
      BY <1>2 DEF ClearCheck, ClearDelete, AfterClear, Step, TypeOK
    <3> QED
      BY <3>1, <3>2, <3>3 DEF CalmInv, Quiet
  <2> QED
    BY <2>1, <2>2, <2>3
<1>3. CASE WasDegraded(w) \/ MarkIPRecovered(w)
  <2>0. threshold \in Nat /\ signals \in 0..threshold
    BY Ages DEF TypeOK
  <2>1. TypeOK'
    <3>1. signals' \in 0..threshold /\ UNCHANGED threshold
      BY <1>3, <2>0 DEF WasDegraded, MarkIPRecovered
    <3> QED
      BY <1>3, <3>1 DEF WasDegraded, MarkIPRecovered, Step, TypeOK
  <2>2. StrikesBelowThreshold'
    BY <1>3 DEF WasDegraded, MarkIPRecovered, StrikesBelowThreshold
  <2>4. StrikesCounted'
    <3>1. calm => Len(strikes) = 0
      BY <1>3, NoStrikes DEF WasDegraded, MarkIPRecovered, CalmInv
    <3>2. UNCHANGED strikes /\ (signals' = signals \/ (calm /\ signals' = 0))
      BY <1>3 DEF WasDegraded, MarkIPRecovered
    <3> QED
      BY <3>1, <3>2 DEF StrikesCounted
  <2>3. CalmInv'
    <3> SUFFICES ASSUME calm PROVE CalmInv'
      BY <1>3 DEF WasDegraded, MarkIPRecovered, CalmInv
    <3>1. /\ kind[w] = "success" /\ strikes = << >>
          /\ \A u \in Workers : u # w => pc[u] = "idle"
      BY <1>3 DEF WasDegraded, MarkIPRecovered, CalmInv
    <3>2. /\ \A u \in Workers : u # w => pc'[u] = "idle"
          /\ UNCHANGED <<kind, strikes>>
      BY <1>3, <3>1 DEF WasDegraded, MarkIPRecovered, Step, TypeOK
    <3>3. pc'[w] = "recover" \/ (pc'[w] = "idle" /\ degraded' = None)
      BY <1>3 DEF WasDegraded, MarkIPRecovered, Step, TypeOK
    <3> QED
      BY <3>1, <3>2, <3>3 DEF CalmInv, Quiet
  <2> QED
    BY <2>1, <2>2, <2>3, <2>4
<1>4. CASE CheckHealthy(w) \/ MarkIPDegraded(w)
  <2>1. TypeOK'
    <3>1. 0 \in 0..MaxAge
      BY Ages
    <3> QED
      BY <1>4, <3>1 DEF CheckHealthy, MarkIPDegraded, Step, TypeOK
  <2>2. StrikesBelowThreshold' /\ StrikesCounted'
    BY <1>4 DEF CheckHealthy, MarkIPDegraded, StrikesBelowThreshold, StrikesCounted
  <2>3. ~calm /\ UNCHANGED calm
    BY <1>4 DEF CheckHealthy, MarkIPDegraded, CalmInv
  <2> QED
    BY <2>1, <2>2, <2>3 DEF CalmInv
<1>5. CASE recordStrike(w)
  <2> DEFINE kept == Append(Only(strikes, 0..(Window - 1)), 0)
  <2>1. kept \in Seq(0..(Window + 1)) /\ Len(kept) <= Len(strikes) + 1
    BY StrikeType
  <2>2. \/ /\ strikes' = strikes /\ threshold <= 1 /\ signals' = 0
        \/ /\ strikes' = << >> /\ signals' = 0
        \/ /\ strikes' = kept /\ Len(kept) < threshold
           /\ signals' = IF signals < threshold THEN signals + 1 ELSE signals
    BY <1>5 DEF recordStrike, Crossed, Counted
  <2>3. (\E p \in {"mark", "idle"} : pc' = [pc EXCEPT ![w] = p]) /\ UNCHANGED <<degraded, kind, threshold, calm>>
    BY <1>5 DEF recordStrike, Crossed, Counted, Step
  <2> HIDE DEF kept
  <2>4. threshold \in Nat /\ signals \in 0..threshold /\ Len(strikes) \in Nat /\ Len(kept) \in Nat
    BY <2>1, Ages DEF TypeOK
  <2>5. signals' \in 0..threshold
    BY <2>2, <2>4
  <2>6. TypeOK'
    BY <2>1, <2>2, <2>3, <2>5, NoStrikes DEF TypeOK
  <2>7. StrikesBelowThreshold'
    BY <2>2, <2>3, <2>4, NoStrikes DEF StrikesBelowThreshold
  <2>8. StrikesCounted'
    <3>1. CASE threshold <= 1 /\ strikes' = strikes /\ signals' = 0
      BY <2>4, <3>1 DEF StrikesBelowThreshold, StrikesCounted
    <3>2. CASE strikes' = << >> /\ signals' = 0
      BY <3>2, NoStrikes DEF StrikesCounted
    <3>3. CASE /\ strikes' = kept /\ Len(kept) < threshold
               /\ signals' = IF signals < threshold THEN signals + 1 ELSE signals
      BY <2>1, <2>4, <3>3 DEF StrikesCounted
    <3> QED
      BY <2>2, <3>1, <3>2, <3>3
  <2>9. ~calm
    BY <1>5 DEF recordStrike, CalmInv
  <2> QED
    BY <2>3, <2>6, <2>7, <2>8, <2>9 DEF CalmInv
<1> QED
  BY <1>1, <1>2, <1>3, <1>4, <1>5 DEF Report

LEMMA TrackerNext == TrackerInv /\ [Next]_vars => TrackerInv'
<1> SUFFICES ASSUME TrackerInv, [Next]_vars PROVE TrackerInv'
  OBVIOUS
<1> USE DEF TrackerInv
<1>1. CASE \E w \in Workers : Report(w)
  BY <1>1, ReportKeeps
<1>2. CASE Cleanup
  <2>1. /\ degraded' \in {degraded, None} /\ strikes' \in {strikes, << >>}
        /\ UNCHANGED <<pc, kind, threshold, calm, signals>>
    BY <1>2 DEF Cleanup
  <2>2. threshold \in Nat /\ signals \in 0..threshold
    BY Ages DEF TypeOK
  <2>3. TypeOK'
    BY <2>1, NoStrikes DEF TypeOK
  <2>4. StrikesBelowThreshold' /\ StrikesCounted'
    BY <2>1, <2>2, NoStrikes DEF StrikesBelowThreshold, StrikesCounted
  <2>5. CalmInv'
    BY <2>1 DEF CalmInv, Quiet
  <2> QED
    BY <2>3, <2>4, <2>5
<1>3. CASE Tick
  <2>1. strikes' \in Seq(0..(Window + 1)) /\ Len(strikes') = Len(strikes) /\ (strikes = << >> => strikes' = << >>)
    BY <1>3, TickStrikes
  <2>2. /\ degraded' \in {None} \cup 0..MaxAge
        /\ degraded = None => degraded' = None
        /\ UNCHANGED <<pc, kind, threshold, calm, signals>>
    BY <1>3, Ages DEF Tick, TypeOK
  <2>3. TypeOK'
    BY <2>1, <2>2 DEF TypeOK
  <2>4. StrikesBelowThreshold' /\ StrikesCounted'
    BY <2>1, <2>2, NoStrikes DEF StrikesBelowThreshold, StrikesCounted
  <2>5. CalmInv'
    BY <2>1, <2>2 DEF CalmInv, Quiet
  <2> QED
    BY <2>3, <2>4, <2>5
<1>4. CASE UNCHANGED vars
  BY <1>4 DEF vars, TypeOK, StrikesBelowThreshold, StrikesCounted, CalmInv, Quiet
<1> QED
  BY <1>1, <1>2, <1>3, <1>4 DEF Next

LEMMA TrackerInvariant == Spec => []TrackerInv
BY TrackerInit, TrackerNext, PTL DEF Spec

-----------------------------------------------------------------------------
(***************************************************************************)
(* The results.                                                            *)
(***************************************************************************)
(* Every variable keeps its type: recordStrike stores ages of the window,  *)
(* whatever it pruned.                                                     *)
THEOREM TypeCorrect == Spec => []TypeOK
BY TrackerInvariant, PTL DEF TrackerInv

(* recordStrike lets weak signals degrade the IP only when there were as   *)
(* many as the threshold says since the last crossing and the last calm    *)
(* success, for every threshold and any number of concurrent reports.      *)
THEOREM CrossingIsCorroborated == Spec => WeakSignalsCorroborated
<1> DEFINE Corroborated == \A w \in Workers : pc[w] = "strike" /\ pc'[w] = "mark" => signals + 1 >= threshold
<1>1. TrackerInv /\ [Next]_vars => [Corroborated]_vars
  <2> SUFFICES ASSUME TrackerInv, Next, NEW w \in Workers, pc[w] = "strike", pc'[w] = "mark"
               PROVE  signals + 1 >= threshold
    OBVIOUS
  <2>1. recordStrike(w)
    <3>1. PICK v \in Workers : Report(v)
      BY DEF Next, Cleanup, Tick
    <3>2. v = w
      BY <3>1 DEF Report, RecordDeliveryAttempt, ClearCheck, ClearDelete, WasDegraded, MarkIPRecovered,
                  CheckHealthy, recordStrike, Crossed, Counted, MarkIPDegraded, Step, TrackerInv, TypeOK
    <3> QED
      BY <3>1, <3>2 DEF Report, RecordDeliveryAttempt, ClearCheck, ClearDelete, WasDegraded,
                        MarkIPRecovered, CheckHealthy, MarkIPDegraded
  <2> DEFINE kept == Append(Only(strikes, 0..(Window - 1)), 0)
  <2>2. kept \in Seq(0..(Window + 1)) /\ Len(kept) <= Len(strikes) + 1
    BY StrikeType DEF TrackerInv
  <2>3. threshold <= 1 \/ Len(kept) >= threshold
    BY <2>1 DEF recordStrike, Counted, Step, TrackerInv, TypeOK
  <2> HIDE DEF kept
  <2>4. /\ threshold \in Nat /\ signals \in 0..threshold /\ Len(strikes) \in Nat /\ Len(kept) \in Nat
        /\ Len(strikes) <= signals
    BY <2>2, Ages DEF TrackerInv, TypeOK, StrikesCounted
  <2> QED
    BY <2>2, <2>3, <2>4
<1> QED
  BY <1>1, TrackerInvariant, PTL DEF Spec, WeakSignalsCorroborated

(* RecordDeliveryAttempt of a success that overlapped no other report puts *)
(* the IP back into rotation and clears its strikes, although it takes the *)
(* lock up to four times.                                                  *)
THEOREM SuccessIsRestorative == Spec => []SuccessRestores
<1>1. TrackerInv => SuccessRestores
  BY DEF TrackerInv, CalmInv, SuccessRestores
<1> QED
  BY <1>1, TrackerInvariant, PTL

(* ClassifyError, mapSMTPError, ShouldDeactivateEmail and the report to    *)
(* the tracker never contradict each other: no reply is misjudged.         *)
THEOREM CulpritIsOne == Spec => []OneCulprit
<1>1. OneCulprit
  BY NoneMisjudged DEF OneCulprit
<1> QED
  BY <1>1, PTL

(* For every reply code, not only the ones the runs look at, and any words *)
(* in the reply.                                                           *)
THEOREM VerdictsAreSound ==
  \A code \in Nat : \A words \in SUBSET Keywords : \A quoted, bind \in BOOLEAN :
    Sound(code, words, quoted, bind)
BY VerdictIsSound

(* SelectIPs, GetHealthyIPs and dialResolver pass over nobody and start    *)
(* one further at each call, for any number of peers and any width of the  *)
(* atomic counter, also when it wraps around.                              *)
THEOREM PeersTakeTurns == Spec => []EveryPeerGetsItsTurn
<1>1. EveryPeerGetsItsTurn
  BY NoneUnfair DEF EveryPeerGetsItsTurn
<1> QED
  BY <1>1, PTL
=============================================================================
