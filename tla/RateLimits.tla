----------------------------- MODULE RateLimits -----------------------------
(***************************************************************************)
(* The two limits a delivery request passes: RateLimiter.Allow, a counter  *)
(* per client IP that is refilled once per window, and the token bucket    *)
(* per recipient domain of waitForDomainRateLimit. Both forget keys that   *)
(* were not used for a while.                                              *)
(*                                                                         *)
(* Keys share nothing, so one client and one domain are watched; requests  *)
(* of other clients to the domain arrive freely. Allow and cleanup hold    *)
(* the limiter's lock throughout. The domain limiters live in a sync.Map:  *)
(* a request loads a limiter and locks it later, and the cleanup looks at  *)
(* a limiter and deletes its key later.                                    *)
(*                                                                         *)
(* Times are ages in ticks that stop where nothing changes any more. The   *)
(* tokens of a domain are counted in units of 1/Interval, what one tick    *)
(* refills.                                                                *)
(***************************************************************************)
EXTENDS Naturals, FiniteSetsExt

CONSTANTS
    Senders,         \* requests in progress at a time
    None,            \* no bucket, no limiter
    RequestsPerIP,   \* rate_limit_requests_per_ip
    Window,          \* rate_limit_window_seconds
    Interval,        \* per_domain_interval_seconds
    Burst,           \* per_domain_burst
    Cutoff           \* the ten minutes of cleanupDomainLimiters

ASSUME ConstantsAssumption ==
    /\ None \notin Nat \cup [tokens : Nat, age : Nat]
    /\ IsFiniteSet(Senders)
    /\ {RequestsPerIP, Window, Interval, Burst, Cutoff} \subseteq Nat \ {0}

Full == Burst * Interval

(* The limiters that can exist at once: the stored one and one per sender. *)
Limiters == 1..(Cardinality(Senders) + 1)

VARIABLES
    bucket,     \* buckets[ip]: None, or its tokens and the age of lastRefill
    passed,     \* history: requests of the client let through, by age
    pc,         \* where each request is
    held,       \* the limiter it has loaded
    stored,     \* domainLimiters[domain]
    limiter,    \* the limiters: tokens and the age of lastUpdate
    sweeping,   \* cleanupDomainLimiters has seen an old limiter
    sent        \* history: sends to the domain, by age

inboundVars == <<bucket, passed>>
domainVars == <<held, stored, limiter, sweeping, sent>>
vars == <<inboundVars, pc, domainVars>>

MaxBucketAge == 2 * Window + 1
MaxLimiterAge == Max({Cutoff + 1, Full})

Fresh == [tokens |-> Full, age |-> 0]

TypeOK ==
    /\ bucket \in {None} \cup [tokens : 0..RequestsPerIP, age : 0..MaxBucketAge]
    /\ passed \in [0..(Window - 1) -> Nat]
    /\ pc \in [Senders -> {"idle", "admitted", "loaded"}]
    /\ held \in [Senders -> Limiters \cup {None}]
    /\ stored \in Limiters \cup {None}
    /\ limiter \in [Limiters -> [tokens : 0..Full, age : 0..MaxLimiterAge]]
    /\ sweeping \in BOOLEAN
    /\ sent \in [0..(Cutoff - 1) -> Nat]

Init ==
    /\ bucket = None
    /\ passed = [a \in 0..(Window - 1) |-> 0]
    /\ pc = [s \in Senders |-> "idle"]
    /\ held = [s \in Senders |-> None]
    /\ stored = None
    /\ limiter = [l \in Limiters |-> Fresh]
    /\ sweeping = FALSE
    /\ sent = [a \in 0..(Cutoff - 1) |-> 0]

-----------------------------------------------------------------------------
(***************************************************************************)
(* The client's bucket.                                                    *)
(***************************************************************************)
(* The bucket Allow finds: new and full, refilled after a window, or as it *)
(* was left.                                                               *)
Refilled ==
    IF bucket = None \/ bucket.age >= Window
    THEN [tokens |-> RequestsPerIP, age |-> 0]
    ELSE bucket

Allow(s) ==
    /\ pc[s] = "idle"
    /\ \/ /\ Refilled.tokens > 0
          /\ bucket' = [Refilled EXCEPT !.tokens = @ - 1]
          /\ passed' = [passed EXCEPT ![0] = @ + 1]
          /\ pc' = [pc EXCEPT ![s] = "admitted"]
       \/ /\ Refilled.tokens = 0
          /\ bucket' = Refilled
          /\ UNCHANGED <<passed, pc>>
    /\ UNCHANGED domainVars

(* A request of another client.                                            *)
AllowOther(s) ==
    /\ pc[s] = "idle"
    /\ pc' = [pc EXCEPT ![s] = "admitted"]
    /\ UNCHANGED <<inboundVars, domainVars>>

(* Mutant of Cleanup: buckets are dropped after half a window.             *)
CleanupEarly ==
    /\ bucket # None /\ bucket.age * 2 >= Window
    /\ bucket' = None
    /\ UNCHANGED <<passed, pc, domainVars>>

(* cleanup, whose interval is two windows.                                 *)
Cleanup ==
    /\ bucket # None /\ bucket.age > 2 * Window
    /\ bucket' = None
    /\ UNCHANGED <<passed, pc, domainVars>>

-----------------------------------------------------------------------------
(***************************************************************************)
(* The domain's limiter.                                                   *)
(***************************************************************************)
(* The request ends before it reaches the domain limit: no slot, a bad     *)
(* request, or a whitelisted domain.                                       *)
Bypass(s) ==
    /\ pc[s] = "admitted"
    /\ pc' = [pc EXCEPT ![s] = "idle"]
    /\ UNCHANGED <<inboundVars, domainVars>>

Unused == {l \in Limiters : l # stored /\ \A s \in Senders : held[s] # l}

(* waitForDomainRateLimit, first half: LoadOrStore of a full limiter.      *)
LoadLimiter(s) ==
    /\ pc[s] = "admitted"
    /\ pc' = [pc EXCEPT ![s] = "loaded"]
    /\ \/ /\ stored # None
          /\ held' = [held EXCEPT ![s] = stored]
          /\ UNCHANGED <<stored, limiter>>
       \/ /\ stored = None
          /\ stored' = Min(Unused)
          /\ held' = [held EXCEPT ![s] = stored']
          /\ limiter' = [limiter EXCEPT ![stored'] = Fresh]
    /\ UNCHANGED <<inboundVars, sweeping, sent>>

(* The tokens of a limiter after the refill for the time since lastUpdate. *)
Tokens(l) == Min({Full, limiter[l].tokens + limiter[l].age})

(* Mutant of waitForDomainRateLimit: a rejection does not move lastUpdate  *)
(* but keeps the refill.                                                   *)
waitForDomainRateLimitTwice(s) ==
    /\ pc[s] = "loaded"
    /\ pc' = [pc EXCEPT ![s] = "idle"]
    /\ held' = [held EXCEPT ![s] = None]
    /\ LET l == held[s] IN
       \/ /\ Tokens(l) >= Interval
          /\ limiter' = [limiter EXCEPT ![l] = [tokens |-> Tokens(l) - Interval, age |-> 0]]
          /\ sent' = [sent EXCEPT ![0] = @ + 1]
       \/ /\ Tokens(l) < Interval
          /\ limiter' = [limiter EXCEPT ![l].tokens = Tokens(l)]
          /\ UNCHANGED sent
    /\ UNCHANGED <<inboundVars, stored, sweeping>>

(* Second half, under the limiter's lock: refill, then take a token or     *)
(* fail.                                                                   *)
waitForDomainRateLimit(s) ==
    /\ pc[s] = "loaded"
    /\ pc' = [pc EXCEPT ![s] = "idle"]
    /\ held' = [held EXCEPT ![s] = None]
    /\ LET l == held[s] IN
       \/ /\ Tokens(l) >= Interval
          /\ limiter' = [limiter EXCEPT ![l] = [tokens |-> Tokens(l) - Interval, age |-> 0]]
          /\ sent' = [sent EXCEPT ![0] = @ + 1]
       \/ /\ Tokens(l) < Interval
          /\ limiter' = [limiter EXCEPT ![l] = [tokens |-> Tokens(l), age |-> 0]]
          /\ UNCHANGED sent
    /\ UNCHANGED <<inboundVars, stored, sweeping>>

(* cleanupDomainLimiters: look at lastUpdate under the limiter's lock ...  *)
CleanupReads ==
    /\ ~sweeping /\ stored # None
    /\ limiter[stored].age > Cutoff
    /\ sweeping' = TRUE
    /\ UNCHANGED <<inboundVars, pc, held, stored, limiter, sent>>

(* ... and delete the key, whoever has used the limiter since.             *)
CleanupDeletes ==
    /\ sweeping
    /\ sweeping' = FALSE
    /\ stored' = None
    /\ UNCHANGED <<inboundVars, pc, held, limiter, sent>>

-----------------------------------------------------------------------------
Older(age, max) == IF age = max THEN max ELSE age + 1

Shifted(count) == [a \in DOMAIN count |-> IF a = 0 THEN 0 ELSE count[a - 1]]

(* A tick is far longer than the gaps between the steps of a request or of *)
(* the cleanup, so it finds none of them half way.                         *)
Tick ==
    /\ ~sweeping /\ \A s \in Senders : pc[s] # "loaded"
    /\ bucket' = IF bucket = None THEN None ELSE [bucket EXCEPT !.age = Older(@, MaxBucketAge)]
    /\ passed' = Shifted(passed)
    /\ limiter' = [l \in Limiters |->
                     IF l = stored THEN [limiter[l] EXCEPT !.age = Older(@, MaxLimiterAge)] ELSE Fresh]
    /\ sent' = Shifted(sent)
    /\ UNCHANGED <<pc, held, stored, sweeping>>

Request(s) ==
    \/ Allow(s) \/ AllowOther(s)
    \/ Bypass(s) \/ LoadLimiter(s) \/ waitForDomainRateLimit(s)

Next ==
    \/ \E s \in Senders : Request(s)
    \/ Cleanup
    \/ CleanupReads \/ CleanupDeletes
    \/ Tick

Spec == Init /\ [][Next]_vars

-----------------------------------------------------------------------------
(***************************************************************************)
(* Properties.                                                             *)
(***************************************************************************)
(* How many of the things counted by age happened in the last n ticks, for *)
(* every n up to size.                                                     *)
InLast(count, size) ==
    LET sum[n \in 0..size] == IF n = 0 THEN 0 ELSE sum[n - 1] + count[n - 1]
    IN  sum

(* A client gets less than twice its quota through in any span of one      *)
(* window: what a window left over and the next refill. Dropping idle      *)
(* buckets gives it nothing more.                                          *)
InboundWindowBound == InLast(passed, Window)[Window] < 2 * RequestsPerIP

(* In any span of Cutoff a domain is sent at most two bursts and what the  *)
(* interval refills. One burst is the promise; the second is what deleting *)
(* a limiter that was just used, and storing a full one, can add.          *)
DomainBurstBound == InLast(sent, Cutoff)[Cutoff] <= 2 * Burst + (Cutoff - 1) \div Interval

=============================================================================
