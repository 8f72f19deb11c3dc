---------------------------- MODULE Rescheduler ----------------------------
(***************************************************************************)
(* The rescheduler: makes room for critical pods that the scheduler cannot *)
(* place.  It reserves a node with a taint, deletes pods from it, waits    *)
(* for the pod to be scheduled and releases the taint.                     *)
(*                                                                         *)
(* Nodes and unschedulable pods are read from reflectors' caches.  A listed *)
(* node shares its annotations with the cached one until the reflector     *)
(* replaces that.  Every pod takes one slot.  A critical pod that is        *)
(* deleted is made again (here, under the same name); of the other pods    *)
(* there are always some that wait for room, and they are only counted.    *)
(***************************************************************************)
EXTENDS Integers, FiniteSets

CONSTANTS
  Critical,       \* the critical pods, which tolerate the taint
  Nodes, Slots,   \* nodes, all ready, and how many pods each holds
  None,           \* no node
  MaxFaults       \* calls that fail, conflicts, deletions by others, restarts

ASSUME ReschedulerAssumption ==
  /\ IsFiniteSet(Critical) /\ IsFiniteSet(Nodes) /\ None \notin Nodes \cup Critical
  /\ Slots \in [Nodes -> Nat] /\ MaxFaults \in Nat

VARIABLES
  on,             \* the node of each critical pod, None while it is pending
  others,         \* how many other pods each node runs
  taints,         \* of each node: pods named by its CriticalAddonsOnly taints
  cached,         \* the same in the cache of nodes
  cache,          \* the cached node is "fresh", "stale" or not there: "none"
  unschedulable,  \* the cache of unschedulable critical pods
  podsBeingProcessed,   \* each has a goroutine in waitForScheduled
  pc,             \* the loop: "sleep", "pods", "taint", "group", "evict", "release"
  todo,           \* criticalPods still to handle
  job,            \* the pod, its node and how far prepareNodeForPod has come
  listed, held,   \* nodes not yet seen by releaseAllTaints; nodes listed by it or
                  \* for the job that are still the cached ones
  faults

cluster == <<on, others, taints>>
nodeCache == <<cached, cache>>
loop == <<pc, todo, job, listed, held>>
vars == <<cluster, nodeCache, unschedulable, podsBeingProcessed, loop, faults>>

Required(n) == Cardinality({p \in Critical : on[p] = n})
Free(n) == Required(n) + others[n] < Slots[n]
Fault == faults < MaxFaults /\ faults' = faults + 1
NoJob == [pod |-> None, node |-> None, copied |-> {}, required |-> 0,
          kept |-> 0, left |-> 0]

Init ==
  /\ on = [p \in Critical |-> None] /\ others = Slots
  /\ taints = [n \in Nodes |-> {}]
  /\ cached = [n \in Nodes |-> {}] /\ cache = [n \in Nodes |-> "none"]
  /\ unschedulable = {} /\ podsBeingProcessed = {}
  /\ pc = "pods" /\ todo = {} /\ job = NoJob
  /\ listed = {} /\ held = {} /\ faults = 0

Known == {n \in Nodes : cache[n] # "none"}

(***************************************************************************)
(* The loop                                                                *)
(***************************************************************************)

\* filterCriticalPods
Wake ==
  /\ pc = "sleep" /\ pc' = "pods"
  /\ todo' = unschedulable \ podsBeingProcessed
  /\ UNCHANGED <<cluster, nodeCache, unschedulable, podsBeingProcessed, job, listed, held, faults>>

\* CheckPredicates of a critical pod: there is room besides the required pods.
Fits(n) == Required(n) < Slots[n]

\* Mutant: that no node has been found is not checked.
FindUnchecked(p) ==
  /\ pc = "pods" /\ p \in todo /\ pc' = "taint"
  /\ \E n \in Known \cup {None} :
       /\ IF n = None THEN \A m \in Known : ~Fits(m) ELSE Fits(n)
       /\ held' = {n} /\ job' = [NoJob EXCEPT !.pod = p, !.node = n]
  /\ UNCHANGED <<cluster, nodeCache, unschedulable, podsBeingProcessed, listed, todo, faults>>

\* findNodeForPod: a node with a taint is no worse than another.
Find(p) ==
  /\ pc = "pods" /\ p \in todo
  /\ \/ /\ \E n \in Known :
             /\ Fits(n) /\ held' = {n}
             /\ job' = [NoJob EXCEPT !.pod = p, !.node = n, !.copied = cached[n]]
        /\ pc' = "taint" /\ UNCHANGED <<todo, faults>>
     \/ /\ \A n \in Known : ~Fits(n)
        /\ todo' = todo \ {p} /\ UNCHANGED <<pc, job, held, faults>>
     \/ /\ Fault     \* listing its pods has failed for every node
        /\ todo' = todo \ {p} /\ UNCHANGED <<pc, job, held>>
  /\ UNCHANGED <<cluster, nodeCache, unschedulable, podsBeingProcessed, listed>>

\* prepareNodeForPod returns an error.
Abort == pc' = "pods" /\ job' = NoJob /\ todo' = todo \ {job.pod}

\* Update of node n with the taints of its cached object.
Stored(n, new) ==
  /\ cache[n] = "fresh"
  /\ taints' = [taints EXCEPT ![n] = new]
  /\ cache' = [cache EXCEPT ![n] = "stale"]

\* addTaint: the annotation of the cached node changes whether or not the update
\* goes through; an answer may be lost.
addTaint ==
  /\ pc = "taint"
  /\ LET n == job.node
         new == cached[n] \cup {job.pod} IN
     /\ cached' = [cached EXCEPT ![n] = IF n \in held THEN new ELSE @]
     /\ \/ n \in held /\ Stored(n, new) /\ pc' = "group" /\ UNCHANGED <<job, todo, faults>>
        \/ n \in held /\ Stored(n, new) /\ Fault /\ Abort
        \/ (n \notin held \/ cache[n] # "fresh") /\ Abort /\ UNCHANGED <<taints, cache, faults>>
        \/ Fault /\ Abort /\ UNCHANGED <<taints, cache>>
  /\ held' = {}
  /\ UNCHANGED <<on, others, unschedulable, podsBeingProcessed, listed>>

\* groupPods, and whether the pod still fits.
groupPods ==
  /\ pc = "group"
  /\ \/ /\ Fits(job.node) /\ pc' = "evict"
        /\ job' = [job EXCEPT !.required = Required(job.node) + 1,
                              !.left = others[job.node]]
        /\ UNCHANGED <<todo, faults>>
     \/ ~Fits(job.node) /\ Abort /\ UNCHANGED faults
     \/ Fault /\ Abort
  /\ UNCHANGED <<cluster, nodeCache, unschedulable, podsBeingProcessed, listed, held>>

\* Mutant: one pod too many is kept.
StaysTooMany == job.copied = {} /\ job.required + job.kept <= Slots[job.node]

\* CheckPredicates of another pod, against the copy made before the taint: it does
\* not tolerate a taint the node had already.
Stays == job.copied = {} /\ job.required + job.kept < Slots[job.node]

\* The next of the other pods stays or is deleted, unless it is gone already.
Evict ==
  /\ pc = "evict" /\ job.left > 0
  /\ \/ /\ Stays
        /\ job' = [job EXCEPT !.kept = @ + 1, !.left = @ - 1]
        /\ UNCHANGED <<others, pc, todo, faults>>
     \/ /\ ~Stays /\ others[job.node] > 0
        /\ others' = [others EXCEPT ![job.node] = @ - 1]
        /\ \/ job' = [job EXCEPT !.left = @ - 1] /\ UNCHANGED <<pc, todo, faults>>
           \/ Fault /\ Abort
     \/ /\ ~Stays
        /\ Fault \/ (others[job.node] < job.kept + job.left /\ UNCHANGED faults)
        /\ Abort /\ UNCHANGED others
  /\ UNCHANGED <<on, taints, nodeCache, unschedulable, podsBeingProcessed, listed, held>>

\* The node is ready: a goroutine waits for the pod.
Prepared ==
  /\ pc = "evict" /\ job.left = 0
  /\ podsBeingProcessed' = podsBeingProcessed \cup {job.pod}
  /\ Abort
  /\ UNCHANGED <<cluster, nodeCache, unschedulable, listed, held, faults>>

\* releaseAllTaints lists the nodes, after the last pod and when the process starts.
ReleaseAll ==
  /\ pc = "pods" /\ todo = {}
  /\ pc' = "release" /\ listed' = Known /\ held' = Known
  /\ UNCHANGED <<cluster, nodeCache, unschedulable, podsBeingProcessed, todo, job, faults>>

\* Mutant: the test for podsBeingProcessed is inverted.
newTaintsInverted(n) == cached[n] \ podsBeingProcessed

\* The taints of a node that stay.
newTaints(n) == cached[n] \cap podsBeingProcessed

\* One node.  A failed update is not repeated before the reflector has put the
\* taint back into the cache.
Release(n) ==
  /\ pc = "release" /\ n \in listed
  /\ listed' = listed \ {n} /\ held' = held \ {n}
  /\ IF n \in held /\ newTaints(n) # cached[n]
       THEN /\ cached' = [cached EXCEPT ![n] = newTaints(n)]
            /\ \/ Stored(n, newTaints(n)) /\ (UNCHANGED faults \/ Fault)
               \/ cache[n] = "stale" /\ UNCHANGED <<taints, cache, faults>>
               \/ Fault /\ UNCHANGED <<taints, cache>>
       ELSE UNCHANGED <<taints, nodeCache, faults>>
  /\ UNCHANGED <<on, others, unschedulable, podsBeingProcessed, pc, todo, job>>

Sleep ==
  /\ pc = "release" /\ listed = {}
  /\ pc' = "sleep"
  /\ UNCHANGED <<cluster, nodeCache, unschedulable, podsBeingProcessed, todo, job, listed, held, faults>>

(***************************************************************************)
(* waitForScheduled                                                        *)
(***************************************************************************)

\* Mutant: a pod is removed only when it has been scheduled.
RemovedIfScheduled(p) ==
  /\ p \in podsBeingProcessed /\ on[p] # None
  /\ podsBeingProcessed' = podsBeingProcessed \ {p}
  /\ UNCHANGED <<cluster, nodeCache, unschedulable, loop, faults>>

\* The pod has been scheduled, or the wait has timed out.
Remove(p) ==
  /\ p \in podsBeingProcessed
  /\ podsBeingProcessed' = podsBeingProcessed \ {p}
  /\ UNCHANGED <<cluster, nodeCache, unschedulable, loop, faults>>

(***************************************************************************)
(* The rest of the cluster                                                 *)
(***************************************************************************)

\* The scheduler binds a critical pod to a node with room...
Schedule(p) ==
  /\ on[p] = None
  /\ \E n \in Nodes : Free(n) /\ on' = [on EXCEPT ![p] = n]
  /\ UNCHANGED <<others, taints, nodeCache, unschedulable, podsBeingProcessed, loop, faults>>

\* ... and another pod to one without a taint.
ScheduleOther(n) ==
  /\ Free(n) /\ taints[n] = {}
  /\ others' = [others EXCEPT ![n] = @ + 1]
  /\ UNCHANGED <<on, taints, nodeCache, unschedulable, podsBeingProcessed, loop, faults>>

\* The scheduler marks a pod unschedulable, and the reflector hears of it; the
\* pod leaves the cache some time after it has been bound.
ReflectPod(p) ==
  /\ \/ /\ on[p] = None /\ \A n \in Nodes : ~Free(n) /\ p \notin unschedulable
        /\ unschedulable' = unschedulable \cup {p}
     \/ /\ on[p] # None /\ p \in unschedulable
        /\ unschedulable' = unschedulable \ {p}
  /\ UNCHANGED <<cluster, nodeCache, podsBeingProcessed, loop, faults>>

\* The reflector replaces the cached node; who has listed the old one keeps that.
ReflectNode(n) ==
  /\ cache[n] # "fresh"
  /\ cache' = [cache EXCEPT ![n] = "fresh"] /\ cached' = [cached EXCEPT ![n] = taints[n]]
  /\ held' = held \ {n}
  /\ UNCHANGED <<cluster, unschedulable, podsBeingProcessed, pc, todo, job, listed, faults>>

\* A kubelet writes the status of its node, which brings the cache up to date even
\* if it has been edited.  (When that comes between listing a node and updating it,
\* the update conflicts: see Interfere.)
Heartbeat(n) ==
  /\ pc = "sleep" /\ cache[n] = "fresh" /\ cached[n] # taints[n]
  /\ cached' = [cached EXCEPT ![n] = taints[n]]
  /\ UNCHANGED <<cluster, cache, unschedulable, podsBeingProcessed, loop, faults>>

\* Somebody else writes to a node, or deletes a pod.
Interfere ==
  /\ Fault
  /\ \/ /\ \E n \in Nodes : cache[n] = "fresh" /\ cache' = [cache EXCEPT ![n] = "stale"]
        /\ UNCHANGED <<on, others>>
     \/ /\ \E p \in Critical : on[p] # None /\ on' = [on EXCEPT ![p] = None]
        /\ UNCHANGED <<others, cache>>
     \/ /\ \E n \in Nodes : others[n] > 0 /\ others' = [others EXCEPT ![n] = @ - 1]
        /\ UNCHANGED <<on, cache>>
  /\ UNCHANGED <<taints, cached, unschedulable, podsBeingProcessed, loop>>

\* The process dies and is started again; the caches are empty at first.
Restart ==
  /\ Fault
  /\ cached' = [n \in Nodes |-> {}] /\ cache' = [n \in Nodes |-> "none"]
  /\ unschedulable' = {} /\ podsBeingProcessed' = {}
  /\ pc' = "pods" /\ todo' = {} /\ job' = NoJob /\ listed' = {} /\ held' = {}
  /\ UNCHANGED cluster

Loop ==
  \/ Wake \/ addTaint \/ groupPods \/ Evict \/ Prepared \/ ReleaseAll \/ Sleep
  \/ \E p \in Critical : Find(p)
  \/ \E n \in Nodes : Release(n)

Next ==
  \/ Loop \/ Interfere \/ Restart
  \/ \E p \in Critical : Remove(p) \/ ReflectPod(p) \/ Schedule(p)
  \/ \E n \in Nodes : ScheduleOther(n) \/ ReflectNode(n) \/ Heartbeat(n)

Spec == Init /\ [][Next]_vars

\* The loop, its goroutines and the reflectors go on.  The scheduler retries every
\* pod more often than a wait times out, so it finds the room that is made for it,
\* and of the heartbeats of a node some come while the loop sleeps.
FairSpec ==
  /\ Spec /\ WF_vars(Loop)
  /\ WF_vars(\E p \in Critical : Remove(p)) /\ WF_vars(\E p \in Critical : ReflectPod(p))
  /\ WF_vars(\E n \in Nodes : ReflectNode(n))
  /\ SF_vars(\E p \in Critical : Schedule(p)) /\ SF_vars(\E n \in Nodes : Heartbeat(n))

(***************************************************************************)
(* Properties                                                              *)
(***************************************************************************)

TypeOK ==
  /\ on \in [Critical -> Nodes \cup {None}] /\ others \in [Nodes -> Nat]
  /\ taints \in [Nodes -> SUBSET Critical] /\ cached \in [Nodes -> SUBSET Critical]
  /\ cache \in [Nodes -> {"fresh", "stale", "none"}]
  /\ unschedulable \subseteq Critical /\ podsBeingProcessed \subseteq Critical
  /\ pc \in {"sleep", "pods", "taint", "group", "evict", "release"}
  /\ todo \subseteq Critical
  /\ job \in [pod : Critical \cup {None}, node : Nodes \cup {None}, copied : SUBSET Critical,
              required : Nat, kept : Nat, left : Nat]
  /\ pc \in {"taint", "group", "evict"} => job.node \in Nodes /\ job.pod \in todo
  /\ listed \subseteq Nodes /\ held \subseteq Nodes
  /\ faults \in 0 .. MaxFaults

\* While pods are deleted from a node the node is reserved, so no other pod is
\* scheduled to it: what is left there in the end leaves room for the critical pod
\* besides the required pods.
RoomIsMade ==
  pc = "evict" =>
    /\ job.pod \in taints[job.node]
    /\ others[job.node] <= job.kept + job.left
    /\ job.required + job.kept <= Slots[job.node]

\* When faults have stopped, every critical pod ends up on a node, however often
\* others have taken the room that was made for it.
CriticalScheduled == <>[](\A p \in Critical : on[p] # None)

\* And no node stays reserved, although the rescheduler may have died, an update of
\* the node have failed or its answer been lost, and the cache show no taint any more.
TaintsReleased == <>[](\A n \in Nodes : taints[n] = {})
=============================================================================
