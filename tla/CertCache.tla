----------------------------- MODULE CertCache ------------------------------
(***************************************************************************)
(* The storage of TLS certificates: on every node a ClusterAwareCache over *)
(* a FallbackCache (S3 first, a local directory beside it) and the worker  *)
(* that pushes local certificates to S3; S3 is shared. The callers are     *)
(* TLS handshakes through autocert, which read, and on the leader store a  *)
(* renewed certificate.                                                    *)
(*                                                                         *)
(* One certificate name is enough: entries are independent. Its contents   *)
(* are numbered in the order of issue, 0 is no entry. Each S3 call is a    *)
(* step that fails when S3 is unreachable. Get is one step: a local miss   *)
(* followed by a local write is reached through the delayed write as well. *)
(* Failures of reading a local file, and Delete, which autocert uses for   *)
(* challenge tokens only, are left out.                                    *)
(***************************************************************************)
EXTENDS Cluster

CONSTANTS
    MaxIssued,     \* bound: certificates issued
    MaxOutages,    \* bound: outages of S3
    MaxEvents      \* bound: certificates, outages and changes together

ASSUME CertCacheAssumption == {MaxIssued, MaxOutages, MaxEvents} \subseteq Nat

VARIABLES
    s3,          \* the object in the bucket
    s3Up,        \* is S3 reachable?
    outages,     \* how often it was not
    issued,      \* certificates issued so far
    local,       \* the file in each node's fallback directory
    breaker,     \* s3Available: "closed" (TRUE), "open", or "retry" after checkInterval
    needsSync,   \* the flag that asks for a periodic sync
    mu,          \* FallbackCache.mu: is it held by SyncAllToS3?
    ppc, pdata,  \* a Put in progress and its data
    wpc, wdata,  \* the sync worker and the data SyncAllToS3 has read
    sleeping,    \* data of the syncToS3 goroutines in their time.Sleep
    bg,          \* data of those that have slept
    fetched      \* data of the local writes Get has started

s3Vars == <<s3, s3Up, outages, issued>>
putVars == <<ppc, pdata>>
workerVars == <<wpc, wdata, mu>>
goVars == <<sleeping, bg, fetched>>
vars == <<clusterVars, s3Vars, local, breaker, needsSync, putVars, workerVars, goVars>>

Certs == 0..MaxIssued

Room == changes + issued + outages < MaxEvents

TypeOK ==
    /\ ClusterTypeOK
    /\ s3 \in Certs /\ s3Up \in BOOLEAN /\ outages \in 0..MaxOutages /\ issued \in Certs
    /\ local \in [Nodes -> Certs]
    /\ breaker \in [Nodes -> {"closed", "open", "retry"}]
    /\ needsSync \in [Nodes -> BOOLEAN]
    /\ mu \in [Nodes -> BOOLEAN]
    /\ ppc \in [Nodes -> {"idle", "s3", "local", "flag", "fallback"}]
    /\ pdata \in [Nodes -> Certs]
    /\ wpc \in [Nodes -> {"off", "startup", "idle", "get", "put"}]
    /\ wdata \in [Nodes -> Certs]
    /\ sleeping \in [Nodes -> SUBSET (Certs \ {0})]
    /\ bg \in [Nodes -> SUBSET (Certs \ {0})]
    /\ fetched \in [Nodes -> SUBSET (Certs \ {0})]

Init ==
    /\ ClusterInit
    /\ s3 = 0 /\ s3Up = TRUE /\ outages = 0 /\ issued = 0
    /\ local = [n \in Nodes |-> 0]
    /\ breaker = [n \in Nodes |-> "closed"]
    /\ needsSync = [n \in Nodes |-> FALSE]
    /\ mu = [n \in Nodes |-> FALSE]
    /\ ppc = [n \in Nodes |-> "idle"] /\ pdata = [n \in Nodes |-> 0]
    /\ wpc = [n \in Nodes |-> "startup"] /\ wdata = [n \in Nodes |-> 0]
    /\ sleeping = [n \in Nodes |-> {}] /\ bg = [n \in Nodes |-> {}]
    /\ fetched = [n \in Nodes |-> {}]

-----------------------------------------------------------------------------
(***************************************************************************)
(* The circuit breaker.                                                    *)
(***************************************************************************)
isS3Available(n) == breaker[n] # "open"

markS3Available(n) == breaker' = [breaker EXCEPT ![n] = "closed"]

markS3Unavailable(n) == breaker' = [breaker EXCEPT ![n] = "open"]

IntervalPasses(n) ==
    /\ n \in up /\ breaker[n] = "open"
    /\ breaker' = [breaker EXCEPT ![n] = "retry"]
    /\ UNCHANGED <<clusterVars, s3Vars, local, needsSync, putVars, workerVars, goVars>>

-----------------------------------------------------------------------------
(***************************************************************************)
(* Get: the local copy answers, whatever S3 holds. Otherwise S3 is asked,  *)
(* and a hit is written to the local directory by a goroutine.             *)
(***************************************************************************)
Get(n) ==
    /\ n \in up /\ local[n] = 0 /\ isS3Available(n)
    /\ \/ /\ s3Up /\ s3 # 0
          /\ markS3Available(n)
          /\ fetched' = [fetched EXCEPT ![n] = @ \cup {s3}]
       \/ /\ ~s3Up
          /\ markS3Unavailable(n)
          /\ UNCHANGED fetched
    /\ UNCHANGED <<clusterVars, s3Vars, local, needsSync, putVars, workerVars, sleeping, bg>>

SyncToLocal(n, v) ==
    /\ n \in up /\ v \in fetched[n]
    /\ fetched' = [fetched EXCEPT ![n] = @ \ {v}]
    /\ local' = [local EXCEPT ![n] = v]
    /\ UNCHANGED <<clusterVars, s3Vars, breaker, needsSync, putVars, workerVars, sleeping, bg>>

-----------------------------------------------------------------------------
(***************************************************************************)
(* Put of a new certificate. On a node that is not the leader it returns   *)
(* an error and changes nothing.                                           *)
(***************************************************************************)
PutStart(n) ==
    /\ n \in up /\ ppc[n] = "idle" /\ IsLeader(n) /\ issued < MaxIssued /\ Room
    /\ issued' = issued + 1
    /\ pdata' = [pdata EXCEPT ![n] = issued + 1]
    /\ ppc' = [ppc EXCEPT ![n] = IF isS3Available(n) THEN "s3" ELSE "flag"]
    /\ UNCHANGED <<clusterVars, s3, s3Up, outages, local, breaker, needsSync, workerVars, goVars>>

PutS3(n) ==
    /\ n \in up /\ ppc[n] = "s3"
    /\ \/ /\ s3Up
          /\ s3' = pdata[n]
          /\ markS3Available(n)
          /\ ppc' = [ppc EXCEPT ![n] = "local"]
       \/ /\ ~s3Up
          /\ markS3Unavailable(n)
          /\ ppc' = [ppc EXCEPT ![n] = "flag"]
          /\ UNCHANGED s3
    /\ UNCHANGED <<clusterVars, s3Up, outages, issued, local, needsSync, pdata, workerVars, goVars>>

(* The copy in the local directory, after S3 has it. Failing is tolerated. *)
PutLocal(n) ==
    /\ n \in up /\ ppc[n] = "local"
    /\ ppc' = [ppc EXCEPT ![n] = "idle"]
    /\ pdata' = [pdata EXCEPT ![n] = 0]
    /\ \/ local' = [local EXCEPT ![n] = pdata[n]]
       \/ UNCHANGED local
    /\ UNCHANGED <<clusterVars, s3Vars, breaker, needsSync, workerVars, goVars>>

(* The flag is set under mu, before the file is written.                   *)
PutFlag(n) ==
    /\ n \in up /\ ppc[n] = "flag" /\ ~mu[n]
    /\ needsSync' = [needsSync EXCEPT ![n] = TRUE]
    /\ ppc' = [ppc EXCEPT ![n] = "fallback"]
    /\ UNCHANGED <<clusterVars, s3Vars, local, breaker, pdata, workerVars, goVars>>

(* The file, and a goroutine that will try S3 again; or both tiers failed. *)
PutFallback(n) ==
    /\ n \in up /\ ppc[n] = "fallback"
    /\ ppc' = [ppc EXCEPT ![n] = "idle"]
    /\ pdata' = [pdata EXCEPT ![n] = 0]
    /\ \/ /\ local' = [local EXCEPT ![n] = pdata[n]]
          /\ sleeping' = [sleeping EXCEPT ![n] = @ \cup {pdata[n]}]
       \/ UNCHANGED <<local, sleeping>>
    /\ UNCHANGED <<clusterVars, s3Vars, breaker, needsSync, workerVars, bg, fetched>>

(* syncToS3 sleeps for checkInterval. The failure that led to it came      *)
(* before, so the breaker lets a call through when the sleep ends, unless  *)
(* a later failure opened it again by then.                                *)
Wakes(n, v) ==
    /\ n \in up /\ v \in sleeping[n] /\ isS3Available(n)
    /\ sleeping' = [sleeping EXCEPT ![n] = @ \ {v}]
    /\ bg' = [bg EXCEPT ![n] = @ \cup {v}]
    /\ UNCHANGED <<clusterVars, s3Vars, local, breaker, needsSync, putVars, workerVars, fetched>>

(* The rest of syncToS3: it gives up for good when the breaker is open or  *)
(* the call fails.                                                         *)
syncToS3(n, v) ==
    /\ n \in up /\ v \in bg[n]
    /\ bg' = [bg EXCEPT ![n] = @ \ {v}]
    /\ \/ ~isS3Available(n) /\ UNCHANGED <<s3, breaker>>
       \/ isS3Available(n) /\ s3Up /\ s3' = v /\ markS3Available(n)
       \/ isS3Available(n) /\ ~s3Up /\ markS3Unavailable(n) /\ UNCHANGED s3
    /\ UNCHANGED <<clusterVars, s3Up, outages, issued, local, needsSync, putVars, workerVars, sleeping, fetched>>

-----------------------------------------------------------------------------
(***************************************************************************)
(* CertSyncWorker and SyncAllToS3, which holds mu from start to end. The   *)
(* periodic sync runs only when the flag asks for it, the one at startup   *)
(* always. Neither looks at the breaker or at who leads.                   *)
(***************************************************************************)
SyncBegin(n) ==
    /\ n \in up
    /\ \/ wpc[n] = "startup"
       \/ wpc[n] = "idle" /\ needsSync[n]
    /\ ~mu[n]
    /\ mu' = [mu EXCEPT ![n] = TRUE]
    /\ wdata' = [wdata EXCEPT ![n] = local[n]]
    /\ wpc' = [wpc EXCEPT ![n] = "get"]
    /\ UNCHANGED <<clusterVars, s3Vars, local, breaker, needsSync, putVars, goVars>>

(* Mutant of SyncReturns: the lock is released on the error return only.   *)
SyncReturnsLocked(n, ok) ==
    /\ mu' = [mu EXCEPT ![n] = ok]
    /\ wdata' = [wdata EXCEPT ![n] = 0]
    /\ wpc' = [wpc EXCEPT ![n] = "idle"]
    /\ needsSync' = [needsSync EXCEPT ![n] = IF ok THEN FALSE ELSE @]

(* The return: the lock is released, and the flag cleared if nothing       *)
(* counted as failed.                                                      *)
SyncReturns(n, ok) ==
    /\ mu' = [mu EXCEPT ![n] = FALSE]
    /\ wdata' = [wdata EXCEPT ![n] = 0]
    /\ wpc' = [wpc EXCEPT ![n] = "idle"]
    /\ needsSync' = [needsSync EXCEPT ![n] = IF ok THEN FALSE ELSE @]

(* Mutant of SyncCompare: a missing object is skipped like any error.      *)
SyncCompareSkipsMiss(n) ==
    /\ n \in up /\ wpc[n] = "get"
    /\ \/ /\ wdata[n] = 0 \/ ~s3Up \/ s3 \in {0, wdata[n]}
          /\ SyncReturns(n, TRUE)
       \/ /\ wdata[n] # 0 /\ s3Up /\ s3 \notin {0, wdata[n]}
          /\ wpc' = [wpc EXCEPT ![n] = "put"]
          /\ UNCHANGED <<mu, wdata, needsSync>>
    /\ UNCHANGED <<clusterVars, s3Vars, local, breaker, putVars, goVars>>

(* No file, the same contents in S3, or an error of S3, which counts as    *)
(* skipped: done. A missing or different object is to be written.          *)
SyncCompare(n) ==
    /\ n \in up /\ wpc[n] = "get"
    /\ \/ /\ wdata[n] = 0 \/ ~s3Up \/ s3 = wdata[n]
          /\ SyncReturns(n, TRUE)
       \/ /\ wdata[n] # 0 /\ s3Up /\ s3 # wdata[n]
          /\ wpc' = [wpc EXCEPT ![n] = "put"]
          /\ UNCHANGED <<mu, wdata, needsSync>>
    /\ UNCHANGED <<clusterVars, s3Vars, local, breaker, putVars, goVars>>

SyncWrite(n) ==
    /\ n \in up /\ wpc[n] = "put"
    /\ \/ s3Up /\ s3' = wdata[n] /\ SyncReturns(n, TRUE)
       \/ ~s3Up /\ SyncReturns(n, FALSE) /\ UNCHANGED s3
    /\ UNCHANGED <<clusterVars, s3Up, outages, issued, local, breaker, putVars, goVars>>

-----------------------------------------------------------------------------
(***************************************************************************)
(* S3 fails and recovers; nodes stop and start. The directory survives,    *)
(* everything in memory is lost.                                           *)
(***************************************************************************)
S3Fails ==
    /\ s3Up /\ outages < MaxOutages /\ Room
    /\ s3Up' = FALSE /\ outages' = outages + 1
    /\ UNCHANGED <<clusterVars, s3, issued, local, breaker, needsSync, putVars, workerVars, goVars>>

S3Recovers ==
    /\ ~s3Up
    /\ s3Up' = TRUE
    /\ UNCHANGED <<clusterVars, s3, outages, issued, local, breaker, needsSync, putVars, workerVars, goVars>>

NodeStops(n) ==
    /\ Leave(n) /\ Room
    /\ breaker' = [breaker EXCEPT ![n] = "closed"]
    /\ needsSync' = [needsSync EXCEPT ![n] = FALSE]
    /\ mu' = [mu EXCEPT ![n] = FALSE]
    /\ ppc' = [ppc EXCEPT ![n] = "idle"] /\ pdata' = [pdata EXCEPT ![n] = 0]
    /\ wpc' = [wpc EXCEPT ![n] = "off"] /\ wdata' = [wdata EXCEPT ![n] = 0]
    /\ sleeping' = [sleeping EXCEPT ![n] = {}] /\ bg' = [bg EXCEPT ![n] = {}]
    /\ fetched' = [fetched EXCEPT ![n] = {}]
    /\ UNCHANGED <<s3Vars, local>>

NodeStarts(n) ==
    /\ NewCluster(n)
    /\ wpc' = [wpc EXCEPT ![n] = "startup"]
    /\ UNCHANGED <<s3Vars, local, breaker, needsSync, putVars, wdata, mu, goVars>>

Election(n) ==
    /\ (MembersChange(n) /\ Room) \/ updateLeader(n)
    /\ UNCHANGED <<s3Vars, local, breaker, needsSync, putVars, workerVars, goVars>>

Put(n) == PutStart(n) \/ PutS3(n) \/ PutLocal(n) \/ PutFlag(n) \/ PutFallback(n)

Worker(n) == SyncBegin(n) \/ SyncCompare(n) \/ SyncWrite(n)

Next ==
    \/ \E n \in Nodes : Get(n) \/ Put(n) \/ Worker(n) \/ IntervalPasses(n)
    \/ \E n \in Nodes, v \in Certs : SyncToLocal(n, v) \/ Wakes(n, v) \/ syncToS3(n, v)
    \/ \E n \in Nodes : NodeStops(n) \/ NodeStarts(n) \/ Election(n)
    \/ S3Fails \/ S3Recovers

Spec == Init /\ [][Next]_vars

UpdateLeader(n) ==
    /\ updateLeader(n)
    /\ UNCHANGED <<s3Vars, local, breaker, needsSync, putVars, workerVars, goVars>>

(* The tickers fire, S3 calls end by their timeouts, locks are fair. S3    *)
(* need not recover, nodes need not come back and no request need arrive.  *)
FairSpec ==
    /\ Spec
    /\ \A n \in Nodes :
         /\ WF_vars(UpdateLeader(n)) /\ WF_vars(Worker(n))
         /\ WF_vars(PutS3(n) \/ PutLocal(n) \/ PutFlag(n) \/ PutFallback(n))

(* And time passes and goroutines run to their end.                        *)
FairGoroutines ==
    /\ FairSpec
    /\ \A n \in Nodes :
         /\ WF_vars(IntervalPasses(n))
         /\ WF_vars(\E v \in Certs : SyncToLocal(n, v))
         /\ WF_vars(\E v \in Certs : Wakes(n, v) \/ syncToS3(n, v))

-----------------------------------------------------------------------------
(***************************************************************************)
(* Properties.                                                             *)
(***************************************************************************)
(* A flag that is still set when no Put and no sync is under way brings    *)
(* the certificate in the file to S3, unless S3 fails, the node stops,     *)
(* another Put comes or the file is replaced: by the next periodic sync,   *)
(* whatever older contents S3 holds and other nodes write there meanwhile. *)
(* A sync that runs between the flag and the file of one Put clears the    *)
(* flag without having compared the new file; the flag is not set then,    *)
(* and nothing is said of it here.                                         *)
SettledFlagSyncs ==
    \A n \in Nodes : \A v \in Certs \ {0} :
        (needsSync[n] /\ ppc[n] = "idle" /\ wpc[n] = "idle" /\ local[n] = v)
            ~> (s3 = v \/ local[n] # v \/ ~s3Up \/ n \notin up \/ ppc[n] # "idle")

(* A Put ends, although it may have to wait for a sync that holds mu for   *)
(* as long as its S3 calls take.                                           *)
PutReturns == \A n \in Nodes : (ppc[n] # "idle") ~> (ppc[n] = "idle")

(* fallback_cache.go: the periodic sync ensures that S3 has all            *)
(* certificates of the fallback cache. The code does not keep this: with   *)
(* S3 reachable again, a certificate may stay on the node that stored it.  *)
PeriodicSyncEnsures ==
    \A n \in Nodes : (local[n] \notin {0, s3}) ~> (local[n] \in {0, s3} \/ ~s3Up \/ n \notin up)
=============================================================================
