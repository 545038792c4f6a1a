---------------------------- MODULE IPReputation ----------------------------
(***************************************************************************)
(* IPReputationTracker for one source IP (the maps hold independent        *)
(* entries per IP), composed with the classifier whose verdicts are        *)
(* reported and with the rotation that leaves degraded IPs out: deliveries *)
(* that end at the same time report their outcome through                  *)
(* RecordDeliveryAttempt, which enters and leaves the tracker's lock       *)
(* several times. Metrics and alerts are set off outside the lock and are  *)
(* left out.                                                               *)
(*                                                                         *)
(* Each action is one critical section. Times are ages in ticks that stop  *)
(* at the first value where nothing changes any more. recordStrike reads   *)
(* the clock just before it takes the lock; the two are one step here.     *)
(***************************************************************************)
EXTENDS Naturals, Sequences, ErrorClassifier, Rotation

CONSTANTS
    Workers,        \* goroutines that report a delivery attempt
    None,           \* no entry
    Thresholds,     \* the values DegradeFailureThreshold may have
    Window,         \* DegradeWindowMinutes
    Retry,          \* DegradedRetryHours
    CleanupAfter    \* DegradedIPCleanupHours

ASSUME ConstantsAssumption ==
    /\ None \notin Nat
    /\ Thresholds \subseteq Nat
    /\ Window \in Nat \ {0}
    /\ Retry \in Nat
    /\ CleanupAfter \in Nat

MaxAge == 1 + (IF Retry > CleanupAfter THEN Retry ELSE CleanupAfter)

VARIABLES
    degraded,   \* None, or ticks since DegradedAt; RetryAfter is Retry later
    strikes,    \* repStrikes[ip], the ages of the strikes, oldest first
    pc,         \* where each reporting goroutine is
    kind,       \* what it reports: "success", "strong", "weak"
    threshold,  \* DegradeFailureThreshold, fixed when the tracker is made
    calm,       \* history: a success was the last report and none overlapped it
    signals     \* history: weak signals counted against the IP, up to threshold,
                \* since weak signals last degraded it or a calm success ended

vars == <<degraded, strikes, pc, kind, threshold, calm, signals>>

(* A success, or the verdict on a reply that says something about the IP.  *)
Reports ==
    {"success"} \cup
    ({ReportOf(code, words, quoted) :
        code \in Codes, words \in SUBSET Keywords, quoted \in BOOLEAN} \ {"nothing"})

TypeOK ==
    /\ degraded \in {None} \cup 0..MaxAge
    /\ strikes \in Seq(0..(Window + 1))
    /\ pc \in [Workers -> {"idle", "check", "delete", "was", "recover",
                           "healthy", "strike", "mark"}]
    /\ kind \in [Workers -> Reports]
    /\ threshold \in Thresholds
    /\ calm \in BOOLEAN
    /\ signals \in 0..threshold

Init ==
    /\ degraded = None
    /\ strikes = <<>>
    /\ pc = [w \in Workers |-> "idle"]
    /\ kind = [w \in Workers |-> "success"]
    /\ threshold \in Thresholds
    /\ calm = FALSE
    /\ signals = 0

RetryPassed == degraded > Retry

IsIPHealthy == degraded = None \/ RetryPassed

Step(w, next) == pc' = [pc EXCEPT ![w] = next]

-----------------------------------------------------------------------------
(* RecordDeliveryAttempt: every report but a weak one starts with          *)
(* clearStrikes. Reports of other failures return at once.                 *)
RecordDeliveryAttempt(w, r) ==
    /\ pc[w] = "idle"
    /\ kind' = [kind EXCEPT ![w] = r]
    /\ Step(w, IF r = "weak" THEN "healthy" ELSE "check")
    /\ calm' = (r = "success" /\ \A v \in Workers : pc[v] = "idle")
    /\ UNCHANGED <<degraded, strikes, threshold, signals>>

(* clearStrikes: a look under the read lock, then the delete.              *)
AfterClear(w) == IF kind[w] = "success" THEN "was" ELSE "mark"

(* Mutant of ClearCheck: the success path forgets the strikes.             *)
ClearCheckSkipped(w) ==
    /\ pc[w] = "check"
    /\ Step(w, AfterClear(w))
    /\ UNCHANGED <<degraded, strikes, kind, threshold, calm, signals>>

ClearCheck(w) ==
    /\ pc[w] = "check"
    /\ Step(w, IF strikes = <<>> THEN AfterClear(w) ELSE "delete")
    /\ UNCHANGED <<degraded, strikes, kind, threshold, calm, signals>>

ClearDelete(w) ==
    /\ pc[w] = "delete"
    /\ strikes' = <<>>
    /\ Step(w, AfterClear(w))
    /\ UNCHANGED <<degraded, kind, threshold, calm, signals>>

(* A success: was the IP degraded? MarkIPRecovered looks again.            *)
WasDegraded(w) ==
    /\ pc[w] = "was"
    /\ Step(w, IF degraded = None THEN "idle" ELSE "recover")
    /\ signals' = IF degraded = None /\ calm THEN 0 ELSE signals
    /\ UNCHANGED <<degraded, strikes, kind, threshold, calm>>

MarkIPRecovered(w) ==
    /\ pc[w] = "recover"
    /\ degraded' = None
    /\ Step(w, "idle")
    /\ signals' = IF calm THEN 0 ELSE signals
    /\ UNCHANGED <<strikes, kind, threshold, calm>>

(* A weak signal counts only while the IP is in rotation.                  *)
CheckHealthy(w) ==
    /\ pc[w] = "healthy"
    /\ Step(w, IF IsIPHealthy THEN "strike" ELSE "idle")
    /\ UNCHANGED <<degraded, strikes, kind, threshold, calm, signals>>

(* The report of a weak signal ends here, or it degrades the IP.           *)
Counted(w) ==
    /\ Step(w, "idle")
    /\ signals' = IF signals < threshold THEN signals + 1 ELSE signals

Crossed(w) == Step(w, "mark") /\ signals' = 0

(* Mutant of recordStrike: the crossing leaves the strikes in place.       *)
recordStrikeKeeps(w) ==
    /\ pc[w] = "strike"
    /\ strikes' = Append(Only(strikes, 0..(Window - 1)), 0)
    /\ IF Len(strikes') >= threshold THEN Crossed(w) ELSE Counted(w)
    /\ UNCHANGED <<degraded, kind, threshold, calm>>

(* recordStrike: prune, append, and clear when the threshold is reached.   *)
recordStrike(w) ==
    /\ pc[w] = "strike"
    /\ LET kept == Append(Only(strikes, 0..(Window - 1)), 0)
       IN  \/ /\ threshold <= 1
              /\ Crossed(w)
              /\ UNCHANGED strikes
           \/ /\ threshold > 1 /\ Len(kept) >= threshold
              /\ strikes' = <<>>
              /\ Crossed(w)
           \/ /\ threshold > 1 /\ Len(kept) < threshold
              /\ strikes' = kept
              /\ Counted(w)
    /\ UNCHANGED <<degraded, kind, threshold, calm>>

(* MarkIPDegraded: a new entry, or the old one with its times renewed.     *)
MarkIPDegraded(w) ==
    /\ pc[w] = "mark"
    /\ degraded' = 0
    /\ Step(w, "idle")
    /\ UNCHANGED <<strikes, kind, threshold, calm, signals>>

(* Cleanup: drop an entry that is old and past its retry time, and strikes *)
(* whose newest is older than the window.                                  *)
Cleanup ==
    /\ degraded' = IF degraded # None /\ degraded > CleanupAfter /\ RetryPassed THEN None ELSE degraded
    /\ strikes' = IF strikes # <<>> /\ strikes[Len(strikes)] > Window THEN <<>> ELSE strikes
    /\ <<degraded, strikes>>' # <<degraded, strikes>>
    /\ UNCHANGED <<pc, kind, threshold, calm, signals>>

Tick ==
    /\ degraded' = IF degraded = None \/ degraded = MaxAge THEN degraded ELSE degraded + 1
    /\ strikes' = [i \in DOMAIN strikes |-> IF strikes[i] > Window THEN strikes[i] ELSE strikes[i] + 1]
    /\ <<degraded, strikes>>' # <<degraded, strikes>>
    /\ UNCHANGED <<pc, kind, threshold, calm, signals>>

Report(w) ==
    \/ \E r \in Reports : RecordDeliveryAttempt(w, r)
    \/ ClearCheck(w) \/ ClearDelete(w) \/ WasDegraded(w) \/ MarkIPRecovered(w)
    \/ CheckHealthy(w) \/ recordStrike(w) \/ MarkIPDegraded(w)

Next ==
    \/ \E w \in Workers : Report(w)
    \/ Cleanup
    \/ Tick

Spec == Init /\ [][Next]_vars

-----------------------------------------------------------------------------
(***************************************************************************)
(* Properties.                                                             *)
(***************************************************************************)
Quiet == \A w \in Workers : pc[w] = "idle"

(* However reports interleave, weak signals degrade the IP only with       *)
(* corroboration: as many of them as the threshold says, counted since     *)
(* weak signals last degraded it or a success that nothing overlapped was  *)
(* reported. Neither old strikes nor another report's crossing count       *)
(* twice. That strikes are taken only while the IP is in rotation, and     *)
(* that a crossing is followed by a degrade of its own, is not said:       *)
(* CheckHealthy is a critical section of its own.                          *)
WeakSignalsCorroborated ==
    [][\A w \in Workers : pc[w] = "strike" /\ pc'[w] = "mark" => signals + 1 >= threshold]_vars

(* A successful delivery that overlapped no other report leaves the IP in  *)
(* rotation and without strikes, until the next report starts.             *)
SuccessRestores == calm /\ Quiet => degraded = None /\ strikes = <<>>

(* One refused message has one culprit. No report that is under way was    *)
(* made of a reply that gives up the recipient's address as well, or that  *)
(* names neither a blocklist nor, for good, the IP; and no reply that goes *)
(* unreported is judged wrongly either.                                    *)
OneCulprit ==
    \A reply \in Misjudged :
        reply.report \notin {"nothing"} \cup {kind[w] : w \in {v \in Workers : pc[v] # "idle"}}

(* Whatever the tracker says of this IP, the first of the peers, and       *)
(* whichever of the others are healthy, a delivery tries every usable      *)
(* source IP once, all of them if none is usable, in turn from call to     *)
(* call; and the servers of a DNS query, which are rotated in the same     *)
(* way, are asked until one can be reached.                                *)
EveryPeerGetsItsTurn ==
    \A unfair \in Unfair : (1 \in unfair.healthy) # IsIPHealthy
=============================================================================
