------------------------------ MODULE Cluster -------------------------------
(***************************************************************************)
(* Cluster: membership comes from memberlist, whose failure detector may   *)
(* give every node any view of the others; the leader is the member with   *)
(* the smallest name in a node's own view, recomputed when memberlist      *)
(* reports a change and once a second. Nodes are numbers in the order of   *)
(* their names. Nothing but IsLeader is used elsewhere.                    *)
(***************************************************************************)
EXTENDS Naturals, FiniteSetsExt

CONSTANTS
    Nodes,        \* the configured nodes, in the order of their names
    MaxChanges    \* bound: changes of membership views and restarts

ASSUME ClusterAssumption ==
    /\ Nodes \subseteq Nat \ {0} /\ Nodes # {}
    /\ MaxChanges \in Nat

VARIABLES
    up,        \* nodes whose process is running
    view,      \* ml.Members() of each node
    leader,    \* c.leader of each node, 0 for the empty name
    changes    \* how many views and processes have changed

clusterVars == <<up, view, leader, changes>>

ClusterTypeOK ==
    /\ up \subseteq Nodes
    /\ view \in [Nodes -> SUBSET Nodes]
    /\ leader \in [Nodes -> Nodes \cup {0}]
    /\ changes \in 0..MaxChanges

ClusterInit ==
    /\ up = Nodes
    /\ view = [n \in Nodes |-> Nodes]
    /\ leader = [n \in Nodes |-> Min(Nodes)]
    /\ changes = 0

Change == changes < MaxChanges /\ changes' = changes + 1

(* memberlist: a node sees others join, leave, fail or come back. It       *)
(* always is a member of its own list.                                     *)
MembersChange(n) ==
    /\ Change
    /\ n \in up
    /\ \E S \in SUBSET Nodes : n \in S /\ S # view[n] /\ view' = [view EXCEPT ![n] = S]
    /\ UNCHANGED <<up, leader>>

(* Mutant of updateLeader: a leader that is still a member is kept.        *)
updateLeaderSticky(n) ==
    /\ n \in up
    /\ leader' = [leader EXCEPT ![n] = IF @ \in view[n] THEN @ ELSE Min(view[n])]
    /\ UNCHANGED <<up, view, changes>>

(* updateLeader, from the ticker, NotifyJoin or NotifyLeave.               *)
updateLeader(n) ==
    /\ n \in up
    /\ leader' = [leader EXCEPT ![n] = Min(view[n])]
    /\ UNCHANGED <<up, view, changes>>

IsLeader(n) == leader[n] = n

(* The process ends, by Shutdown or a crash.                               *)
Leave(n) ==
    /\ Change
    /\ n \in up
    /\ up' = up \ {n}
    /\ UNCHANGED <<view, leader>>

(* NewCluster: join the peers that answer, and compute the leader.         *)
NewCluster(n) ==
    /\ n \notin up
    /\ up' = up \cup {n}
    /\ \E S \in {{n}, up'} :
         /\ view' = [view EXCEPT ![n] = S]
         /\ leader' = [leader EXCEPT ![n] = Min(S)]
    /\ UNCHANGED changes

(* Every node sees exactly the nodes that are up.                          *)
Converged == \A n \in up : view[n] = up

(* Once the views agree for good, all nodes follow one leader for good,    *)
(* the running node with the smallest name: the second run of updateLeader *)
(* needs no event, so a missed notification does no lasting harm.          *)
LeaderAgreement == <>[]Converged => <>[](\A n \in up : leader[n] = Min(up))
=============================================================================
