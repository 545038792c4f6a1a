------------------------------ MODULE Rotation ------------------------------
(***************************************************************************)
(* The order in which source IPs and DNS servers are tried: IPRotator and  *)
(* its use in tryDeliveryWithIPVersion (internal/delivery/delivery.go),    *)
(* and DNSResolver (internal/delivery/dns_resolver.go).  Both take the     *)
(* place to start from an atomic uint32 counter that wraps around.         *)
(***************************************************************************)
EXTENDS Integers, Sequences, FiniteSets

CONSTANTS
  CounterWidth,  \* bits of the counters: 32 in the code
  MaxPeers       \* bound: source IPs, or DNS servers

(* The power is a natural number: said here for the provers, which know    *)
(* nothing of exponentiation.                                              *)
ASSUME RotationAssumption ==
  /\ CounterWidth \in Nat \ {0} /\ MaxPeers \in Nat \ {0}
  /\ 2 ^ CounterWidth \in Nat \ {0}

CounterSize == 2 ^ CounterWidth

(* atomic.AddUint32(counter, 1)                                            *)
Add(counter) == (counter + 1) % CounterSize

(* The elements of a sequence that are in a set, in their order: a loop    *)
(* that appends what it keeps. (SelectSeq is opaque to the provers.)       *)
Only(seq, keep) ==
  LET kept[i \in 0..Len(seq)] ==
        IF i = 0 THEN << >>
        ELSE IF seq[i] \in keep THEN Append(kept[i - 1], seq[i]) ELSE kept[i - 1]
  IN kept[Len(seq)]

From(seq, start) ==
  [i \in 1..Len(seq) |-> seq[1 + ((start + i - 1) % Len(seq))]]

Strategies == {"random", "hash-domain", "round-robin"}

(* pick: the random number, or the hash of the domain.                     *)
SelectIPs(ips, strategy, counter, pick) ==
  IF Len(ips) <= 1 THEN ips
  ELSE From(ips, IF strategy = "round-robin"
                   THEN ((Add(counter) + CounterSize - 1) % CounterSize) % Len(ips)
                   ELSE pick % Len(ips))

\* Mutant of Candidates: degraded IPs are not used even as a last resort.
CandidatesHealthy(ips, healthy) == Only(ips, healthy)

(* The IPs GetHealthyIPs lets through, or all of them if there are none.   *)
Candidates(ips, healthy) ==
  LET passed == Only(ips, healthy)
  IN IF passed = << >> THEN ips ELSE passed

(* dialResolver: the server and network it connects to, of those that are  *)
(* reachable, or none.  A truncated answer is asked for again over TCP.    *)
dialResolver(servers, counter, wantTCP, reachable) ==
  LET order == From(servers, Add(counter) % Len(servers))
      tried == [i \in 1..Len(order) |->
                  IF ~wantTCP /\ <<order[i], "udp">> \in reachable
                    THEN "udp"
                    ELSE IF <<order[i], "tcp">> \in reachable THEN "tcp" ELSE "none"]
      hits == {i \in 1..Len(order) : tried[i] # "none"}
      first == CHOOSE i \in hits : \A j \in hits : i <= j
  IN IF hits = {} THEN << >> ELSE <<order[first], tried[first]>>

(***************************************************************************)
(* Turns.                                                                  *)
(***************************************************************************)
Peers(n) == [i \in 1..n |-> i]
Counters == 0..(CounterSize - 1)

(* An attempt is made from every usable one of n source IPs, once each,    *)
(* and from all of them if none is healthy.                                *)
AllTried(n, healthy) ==
  \A counter \in Counters, strategy \in Strategies, pick \in 0..n :
    LET ips == Candidates(SelectIPs(Peers(n), strategy, counter, pick), healthy)
        used == {ips[i] : i \in 1..Len(ips)}
    IN /\ used = (IF healthy = {} THEN 1..n ELSE healthy)
       /\ Len(ips) = Cardinality(used)

(* Calls that follow each other start one IP further on, except once when  *)
(* the counter wraps around.                                               *)
InTurn(n) ==
  \A counter \in Counters :
    LET Start(c) == SelectIPs(Peers(n), "round-robin", c, 0)[1]
    IN IF counter = CounterSize - 1 THEN Start(Add(counter)) = 1
       ELSE Start(Add(counter)) = 1 + (Start(counter) % n)

(* A DNS query finds a server as long as one of n can be reached over a    *)
(* network it may use, however the others fail.                            *)
Answered(n) ==
  \A counter \in Counters, wantTCP \in BOOLEAN, reachable \in SUBSET ((1..n) \X {"udp", "tcp"}) :
    LET dialed == dialResolver(Peers(n), counter, wantTCP, reachable)
    IN IF dialed # << >>
         THEN dialed \in reachable /\ (wantTCP => dialed[2] = "tcp")
         ELSE \A s \in 1..n : /\ <<s, "tcp">> \notin reachable
                              /\ ~wantTCP => <<s, "udp">> \notin reachable

(* The numbers of peers, and the healthy ones among them, for which one of *)
(* these fails.                                                            *)
Unfair ==
  UNION {{[peers |-> n, healthy |-> h] :
            h \in {s \in SUBSET (1..n) : ~(AllTried(n, s) /\ InTurn(n) /\ Answered(n))}} :
         n \in 1..MaxPeers}
=============================================================================
