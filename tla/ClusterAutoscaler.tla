------------------------- MODULE ClusterAutoscaler -------------------------
(***************************************************************************)
(* The main loop of the cluster autoscaler (cluster_autoscaler.go, run):   *)
(* list nodes and pods, scale up for unschedulable pods, otherwise look    *)
(* for unneeded nodes and remove some.  Around it are the API server with  *)
(* nodes and pods, the scheduler, and the cloud with its node groups, all  *)
(* of which move on while the autoscaler works on the lists that it made.  *)
(*                                                                         *)
(* Pods ask for one unit of a node's Capacity and fit on every node, so    *)
(* that what the searches for a place (findPlaceFor, FitsAny, Estimate)    *)
(* find depends on numbers of pods only.  Lists come out of maps: their    *)
(* order is any order.  The tick of the clock is a unit in which the       *)
(* delays are counted; it passes where the loop sleeps or waits.           *)
(***************************************************************************)
EXTENDS UsageTracker, FiniteSetsExt, SequencesExt

CONSTANTS
  Groups, GroupOf,          \* node groups, and the one of each node, or NoGroup
  NoGroup,
  MinSize, MaxSize,         \* of each group
  MaxNodesTotal,            \* max-nodes-total, 0 for no limit
  MaxEmptyBulkDelete,
  Capacity,                 \* pods per node
  Threshold,                \* fewer pods than this, and a node may be unneeded
  ScaleDownDelay,           \* scale-down-delay, in ticks
  TrialInterval,            \* scale-down-trial-interval, in ticks
  Expander,                 \* "random" or "most-pods"
  Pods, Standalone,         \* the pods, and those that no controller recreates
  InitNodes, InitPod,       \* the ready nodes and the places of the pods at first
  Disruptions, MaxDisruptions   \* what may happen, and how often in all

\* A pod that waits for a node: not yet looked at by the scheduler, or found
\* unschedulable: after the newest node came, before it came ("stale"), or before
\* and the autoscaler's cache does not say so any more ("hidden").
Pending == {"new", "stale", "hidden", "unschedulable"}
Places == Nodes \cup Pending \cup {"absent"}

ASSUME AutoscalerAssumption ==
  /\ IsFiniteSet(Groups) /\ IsFiniteSet(Pods) /\ Standalone \subseteq Pods
  /\ NoGroup \notin Groups
  /\ GroupOf \in [Nodes -> Groups \cup {NoGroup}]
  /\ MinSize \in [Groups -> Nat \ {0}] /\ MaxSize \in [Groups -> Nat]
  /\ MaxNodesTotal \in Nat /\ MaxEmptyBulkDelete \in Nat
  /\ Capacity \in Nat \ {0} /\ Threshold \in Nat
  /\ ScaleDownDelay \in Nat /\ TrialInterval \in Nat
  /\ Expander \in {"random", "most-pods"}
  /\ InitNodes \subseteq Nodes /\ InitPod \in [Pods -> Places]
  /\ MaxDisruptions \in Nat

VARIABLES
  target,       \* the cloud's target size of each group
  node,         \* "none", "ready", or "lost": VM deleted, still listed as ready
  taint,        \* the nodes with ToBeDeletedTaint
  cachedTaint,  \* the same in the autoscaler's own cache of nodes
  pod,          \* the node of each pod, or what it waits for
  settling,     \* the newest node is not yet a minute old
  ca,           \* the autoscaler's place in the loop and its locals
  upAge,        \* lastScaleUpTime
  failAge,      \* lastScaleDownFailedTrial
  disruptions,  \* the disruptions so far
  sharedAge     \* history: since a removed node took space that this one counted on

cloudVars == <<target, node>>
apiVars == <<taint, cachedTaint, pod, settling>>
timeVars == <<upAge, failAge>>
vars == <<trackerVars, cloudVars, apiVars, timeVars, sharedAge, ca, disruptions>>

Nowhere == "nowhere"

IdleCA == [pc |-> "idle", nodes |-> {}, pods |-> [p \in Pods |-> Nowhere],
           help |-> {}, schedulable |-> FALSE, victims |-> {}, sized |-> {}]

On(places, n) == {p \in Pods : places[p] = n}
Free(places, n) == Capacity - Cardinality(On(places, n))
Members(ns, g) == {n \in ns : GroupOf[n] = g}
Instances == {n \in Nodes : node[n] = "ready"}
Listed == {n \in Nodes : node[n] \in {"ready", "lost"}}

Disrupt(kind) ==
  /\ kind \in Disruptions
  /\ disruptions < MaxDisruptions
  /\ disruptions' = disruptions + 1

Init ==
  /\ TrackerInit
  /\ target = [g \in Groups |-> Cardinality(Members(InitNodes, g))]
  /\ node = [n \in Nodes |-> IF n \in InitNodes THEN "ready" ELSE "none"]
  /\ taint = {} /\ cachedTaint = {}
  /\ pod = InitPod
  /\ settling = FALSE
  /\ ca = IdleCA
  /\ upAge = 0 /\ failAge = 0
  /\ disruptions = 0
  /\ sharedAge = [n \in Nodes |-> UnneededTime + 1]

(***************************************************************************)
(* Lists                                                                   *)
(***************************************************************************)

\* Mutant: the check is gone.
GroupsUnchecked(ns) == TRUE

\* CheckGroupsAndNodes
GroupsMatch(ns) == \A g \in Groups : Cardinality(Members(ns, g)) = target[g]

\* Mutant: nothing is released.
cleanToBeDeletedNever(ns) == {}

\* The nodes from which cleanToBeDeleted takes the taint: those whose cached
\* objects have it.
cleanToBeDeleted(ns) == cachedTaint \cap ns

\* List the nodes, check the groups, and clean what is left of an earlier drain.
\* The taint goes from the cached object before Update is called, which may fail.
\* A pass that cannot list or whose check fails has no effect at all.
ListNodes ==
  /\ ca.pc = "idle"
  /\ Listed # {}
  /\ GroupsMatch(Listed)
  /\ LET marked == cleanToBeDeleted(Listed) IN
     /\ cachedTaint' = cachedTaint \ marked
     /\ \/ taint' = taint \ marked /\ UNCHANGED disruptions
        \/ /\ Disrupt("api")
           /\ \E failed \in (SUBSET marked) \ {{}} : taint' = taint \ (marked \ failed)
  /\ ca' = [ca EXCEPT !.pc = "list", !.nodes = Listed]
  /\ UNCHANGED <<trackerVars, cloudVars, pod, settling, timeVars, sharedAge>>

\* Mutant: the old pods are left out and forgotten.
PodsToResetNone == {}

\* The old pods of SlicePodsByPodScheduledTime.
PodsToReset == {p \in Pods : pod[p] = "stale"}

\* SlicePodsByPodScheduledTime, ResetPodScheduledCondition, FilterOutSchedulable:
\* pods that were refused before the newest node was there are given back to the
\* scheduler, pods that would fit are left to it.  The condition changes in the
\* cached pod first; if UpdateStatus then fails, the lister does not list the pod
\* any more.
ListPods ==
  /\ ca.pc = "list"
  /\ LET places == [p \in Pods |-> IF pod[p] \in Nodes THEN pod[p] ELSE Nowhere]
         newPods == {p \in Pods : pod[p] = "unschedulable"}
         fitsAny == \E n \in ca.nodes : Free(places, n) > 0
         help == IF fitsAny THEN {} ELSE newPods
         full == MaxNodesTotal > 0 /\ Cardinality(ca.nodes) >= MaxNodesTotal
         Reset(failed) == [p \in Pods |-> IF p \notin PodsToReset THEN pod[p]
                                          ELSE IF p \in failed THEN "hidden" ELSE "new"]
     IN /\ ca' = [ca EXCEPT !.pc = IF help # {} /\ ~full THEN "up" ELSE "find",
                            !.pods = places, !.help = help,
                            !.schedulable = (help # newPods)]
        /\ \/ pod' = Reset({}) /\ UNCHANGED disruptions
           \/ /\ Disrupt("api")
              /\ \E failed \in (SUBSET PodsToReset) \ {{}} : pod' = Reset(failed)
  /\ UNCHANGED <<trackerVars, cloudVars, taint, cachedTaint, settling, timeVars,
                 sharedAge>>

(***************************************************************************)
(* Scale up                                                                *)
(***************************************************************************)

Smaller(i, j) == IF i < j THEN i ELSE j

\* BinpackingNodeEstimator.Estimate, for pods of one size.
Estimate == ((Cardinality(ca.help) + Capacity) - 1) \div Capacity

\* Mutant: only the limit of the group counts.
NewSizeOfGroup(g) == Smaller(target[g] + Estimate, MaxSize[g])

\* The size that ScaleUp asks for, capped by both limits.
NewSize(g) ==
  LET capped == Smaller(target[g] + Estimate, MaxSize[g]) IN
  IF MaxNodesTotal > 0
    THEN Smaller(capped, (MaxNodesTotal - Cardinality(ca.nodes)) + target[g])
    ELSE capped

ExpansionOptions ==
  {g \in Groups : target[g] < MaxSize[g] /\ Members(ca.nodes, g) # {}}

Grow(g) ==
  /\ target' = [target EXCEPT ![g] = NewSize(g)]

\* IncreaseSize, which checks the limit again, and does what it says, fails, or
\* fails after the cloud has accepted the new size.
ScaleUp(g) ==
  /\ ca.pc = "up"
  /\ g \in ExpansionOptions
  /\ ca' = IdleCA
  /\ \/ NewSize(g) <= MaxSize[g] /\ Grow(g) /\ upAge' = 0 /\ UNCHANGED disruptions
     \/ Disrupt("slow") /\ NewSize(g) <= MaxSize[g] /\ Grow(g) /\ UNCHANGED upAge
     \/ Disrupt("api") /\ UNCHANGED <<target, upAge>>
  /\ UNCHANGED <<trackerVars, node, apiVars, failAge, sharedAge>>

\* BestOption without options, because no group may grow or because TargetSize
\* fails: most-pods and least-waste return nil, random calls rand.Int31n(0).
ScaleUpWithoutOptions ==
  /\ ca.pc = "up"
  /\ IF ExpansionOptions = {} THEN UNCHANGED disruptions ELSE Disrupt("api")
  /\ ca' = IF Expander = "random" THEN [IdleCA EXCEPT !.pc = "panic"]
                                  ELSE [ca EXCEPT !.pc = "find"]
  /\ UNCHANGED <<trackerVars, cloudVars, apiVars, timeVars, sharedAge>>

(***************************************************************************)
(* Unneeded nodes                                                          *)
(***************************************************************************)

\* GetPodsForDeletionOnNodeDrain refuses a node with a pod that is not replicated.
CanDrain(n) == On(ca.pods, n) \cap Standalone = {}

Room(n) == MapThenSumSet(LAMBDA m : Free(ca.pods, m), ca.nodes \ {n})
FindsPlace(n) == Cardinality(On(ca.pods, n)) <= Room(n)

\* findPlaceFor tries hints and then the other nodes in a shuffled order: what it
\* registers are places for all pods of n, or for as many as there is room for.
PlacesFor(n, place) ==
  LET placed == DOMAIN place \cap On(ca.pods, n)
      At(m) == {p \in placed : place[p] = m}
  IN /\ Cardinality(placed) = Smaller(Cardinality(On(ca.pods, n)), Room(n))
     /\ At(n) = {}
     /\ \A m \in ca.nodes \ {n} : Cardinality(At(m)) <= Free(ca.pods, m)

\* FindNodesToRemove: the search for each of the nodes ignores the others.
Simulations(ns) ==
  LET moved == {p \in Pods : ca.pods[p] \in ns} IN
  {place \in UNION {[ps -> ca.nodes] : ps \in SUBSET moved} :
     \A n \in ns : PlacesFor(n, place)}

\* The order in which the pods are placed: node by node.
Orders(place) ==
  {order \in SetToSeqs(DOMAIN place) :
     \A i, j \in DOMAIN order : \A k \in i..j :
       ca.pods[order[i]] = ca.pods[order[j]] => ca.pods[order[k]] = ca.pods[order[i]]}

RegisterAll(u, place, order) ==
  FoldLeft(LAMBDA acc, p : RegisterUsage(acc, ca.pods[p], place[p]), u, order)
UseAll(h, place) ==
  [a \in Nodes |-> [b \in Nodes |->
     IF \E p \in DOMAIN place : ca.pods[p] = a /\ place[p] = b THEN 0 ELSE h[a][b]]]

\* calculateUnneededOnly
UnneededOnly ==
  upAge < ScaleDownDelay \/ failAge < TrialInterval \/ ca.schedulable

\* CleanUp and FindUnneededNodes: a node that is still unneeded keeps its timer.
FindUnneededNodes ==
  /\ ca.pc = "find"
  /\ LET low == {n \in ca.nodes : /\ Cardinality(On(ca.pods, n)) < Threshold
                                  /\ CanDrain(n)}
     IN /\ \E place \in Simulations(low) : \E order \in Orders(place) :
             /\ usage' = RegisterAll(CleanUp(usage), place, order)
             /\ uses' = UseAll(uses, place)
        /\ unneeded' = [n \in Nodes |->
                          IF n \in low /\ FindsPlace(n)
                            THEN Max({0, unneeded[n]}) ELSE Absent]
  /\ ca' = IF UnneededOnly THEN IdleCA ELSE [ca EXCEPT !.pc = "down"]
  /\ UNCHANGED <<cloudVars, apiVars, timeVars, sharedAge, disruptions>>

(***************************************************************************)
(* Scale down                                                              *)
(***************************************************************************)

Candidates ==
  {n \in ca.nodes : /\ unneeded[n] > UnneededTime
                    /\ GroupOf[n] \in Groups
                    /\ target[GroupOf[n]] > MinSize[GroupOf[n]]}

EmptyNodes == {n \in Candidates : On(ca.pods, n) = {}}

\* Mutant: as many nodes of a group as are empty.
getEmptyNodesAll ==
  {ns \in SUBSET EmptyNodes :
     Cardinality(ns) = Smaller(Cardinality(EmptyNodes), MaxEmptyBulkDelete)}

\* getEmptyNodes: the second node of a group finds its group in availabilityMap,
\* whose value is not looked at, so available is 0.  The limit cuts the list.
getEmptyNodes ==
  LET onePerGroup == {ns \in SUBSET EmptyNodes :
                        \A g \in Groups : Cardinality(Members(ns, g)) =
                          Smaller(1, Cardinality(Members(EmptyNodes, g)))}
  IN {ns \in SUBSET EmptyNodes :
        \E all \in onePerGroup :
          /\ ns \subseteq all
          /\ Cardinality(ns) = Smaller(Cardinality(all), MaxEmptyBulkDelete)}

\* RemoveNodeFromTracker for one node, and for each of several.
RemoveOne(acc, n) ==
  [usage |-> Unregister(acc.usage, n),
   unneeded |-> Stopped(acc.unneeded, {n} \cup KeysToRemove(acc.usage, n))]
RemoveAll(u, order) ==
  FoldLeft(RemoveOne, [usage |-> u, unneeded |-> unneeded], order)

\* What the removal of nodes leaves, and what the histories say of it.
Removal(u, h, order) ==
  LET removed == Range(order)
      after == RemoveAll(u, order)
      Shared(v, c) == \E x \in Nodes \ removed : h[v][x] \in Fresh /\ h[c][x] \in Fresh
  IN /\ usage' = after.usage
     /\ unneeded' = after.unneeded
     /\ uses' = [a \in Nodes |-> [b \in Nodes |->
                   IF {a, b} \cap removed # {} THEN Absent ELSE h[a][b]]]
     /\ sharedAge' = [n \in Nodes |->
                        IF \E v \in removed : Shared(v, n) THEN 0 ELSE sharedAge[n]]

\* No candidate: ScaleDownNoUnneeded.
NothingToScaleDown ==
  /\ ca.pc = "down"
  /\ Candidates = {}
  /\ ca' = IdleCA
  /\ UNCHANGED <<trackerVars, cloudVars, apiVars, timeVars, sharedAge, disruptions>>

\* A goroutine for each empty node deletes it at the cloud, without a drain.
ScaleDownEmpty ==
  /\ ca.pc = "down"
  /\ \E ns \in getEmptyNodes :
       /\ ns # {}
       /\ ca' = [ca EXCEPT !.pc = "delete", !.victims = ns]
       /\ \E order \in SetToSeqs(ns) : Removal(usage, uses, order)
  /\ UNCHANGED <<cloudVars, apiVars, timeVars, disruptions>>

\* Otherwise one node that can be drained.
ScaleDownOne ==
  /\ ca.pc = "down"
  /\ Candidates # {}
  /\ getEmptyNodes = {{}}
  /\ \E n \in Candidates : \E place \in Simulations({n}) : \E order \in Orders(place) :
       /\ ca' = [ca EXCEPT !.pc = "mark", !.victims = {n}]
       /\ Removal(RegisterAll(usage, place, order), UseAll(uses, place), <<n>>)
  /\ UNCHANGED <<cloudVars, apiVars, timeVars, disruptions>>

\* DetailedGetPodsForMove finds the controllers gone, or cannot ask for them:
\* ScaleDownNoNodeDeleted.
ScaleDownNone ==
  /\ ca.pc = "down"
  /\ Candidates # {}
  /\ getEmptyNodes = {{}}
  /\ Disrupt("api")
  /\ ca' = IdleCA
  /\ failAge' = 0
  /\ UNCHANGED <<trackerVars, cloudVars, apiVars, upAge, sharedAge>>

\* markToBeDeleted; an error ends the attempt, and leaves failAge alone.
MarkToBeDeleted ==
  /\ ca.pc = "mark"
  /\ \/ /\ taint' = taint \cup ca.victims
        /\ ca' = [ca EXCEPT !.pc = "evict"]
        /\ UNCHANGED disruptions
     \/ Disrupt("api") /\ ca' = IdleCA /\ UNCHANGED taint
  /\ UNCHANGED <<trackerVars, cloudVars, cachedTaint, pod, settling, timeVars,
                 sharedAge>>

\* drainNode: the pods of the list are deleted, those that are still there; a
\* controller makes a new one for each.  Pods that cannot be deleted, or do not go
\* in time, do not stop the removal.
DrainNode ==
  /\ ca.pc = "evict"
  /\ LET evicted == {p \in Pods : ca.pods[p] \in ca.victims /\ pod[p] = ca.pods[p]}
         Without(ps) == [p \in Pods |-> IF p \in ps THEN "new" ELSE pod[p]]
     IN \/ pod' = Without(evicted) /\ UNCHANGED disruptions
        \/ /\ Disrupt("api")
           /\ \E failed \in (SUBSET evicted) \ {{}} : pod' = Without(evicted \ failed)
  /\ ca' = [ca EXCEPT !.pc = "delete"]
  /\ UNCHANGED <<trackerVars, cloudVars, taint, cachedTaint, settling, timeVars,
                 sharedAge>>

\* Mutant: the last goroutine to answer does not end the wait.
DeletedWaits(n) == [ca EXCEPT !.victims = @ \ {n}, !.sized = @ \ {n}]

\* The state of the loop when the deletion of n is over.
Deleted(n) ==
  IF ca.victims = {n} THEN IdleCA
  ELSE [ca EXCEPT !.victims = @ \ {n}, !.sized = @ \ {n}]

\* DeleteNodes reads the size of the group and refuses at the minimum.
CheckSize(n) ==
  /\ ca.pc = "delete"
  /\ n \in ca.victims \ ca.sized
  /\ ca' = IF target[GroupOf[n]] > MinSize[GroupOf[n]]
             THEN [ca EXCEPT !.sized = @ \cup {n}]
             ELSE Deleted(n)
  /\ UNCHANGED <<trackerVars, cloudVars, apiVars, timeVars, sharedAge, disruptions>>

\* DeleteInstances, which also lowers the target.  Whether it answers with an
\* error or not, there is no more to the pass than a message in the log.
DeleteInstance(n) ==
  /\ ca.pc = "delete"
  /\ n \in ca.sized
  /\ ca' = Deleted(n)
  /\ \/ /\ node' = [node EXCEPT ![n] = "lost"]
        /\ target' = [target EXCEPT ![GroupOf[n]] = @ - 1]
        /\ UNCHANGED disruptions
     \/ Disrupt("api") /\ UNCHANGED <<node, target>>
  /\ UNCHANGED <<trackerVars, apiVars, timeVars, sharedAge>>

\* The process starts again, with nothing but what the API server knows.
Restart ==
  /\ \/ ca.pc = "panic" /\ UNCHANGED disruptions
     \/ Disrupt("crash")
  /\ usage' = [n \in Nodes |-> EmptyRecord]
  /\ unneeded' = EmptyMap
  /\ uses' = [n \in Nodes |-> EmptyMap]
  /\ ca' = IdleCA
  /\ upAge' = 0 /\ failAge' = 0
  /\ cachedTaint' = taint
  /\ pod' = [p \in Pods |-> IF pod[p] = "hidden" THEN "stale" ELSE pod[p]]
  /\ UNCHANGED <<cloudVars, taint, settling, sharedAge>>

(***************************************************************************)
(* The cluster (external)                                                  *)
(***************************************************************************)

\* The autoscaler remembers nothing of a node of that name.
Unknown(n) ==
  /\ n \notin ca.nodes
  /\ unneeded[n] = Absent
  /\ usage[n] = EmptyRecord
  /\ \A m \in Nodes : usage[m].using[n] = Absent /\ usage[m].usedBy[n] = Absent

\* A new VM joins the cluster.  Its name is new: one that nobody remembers.
Join(n) ==
  /\ node[n] = "none"
  /\ Unknown(n)
  /\ GroupOf[n] \in Groups
  /\ Cardinality(Members(Instances, GroupOf[n])) < target[GroupOf[n]]
  /\ node' = [node EXCEPT ![n] = "ready"]
  /\ settling' = TRUE
  /\ pod' = [p \in Pods |-> IF pod[p] = "unschedulable" THEN "stale" ELSE pod[p]]
  /\ sharedAge' = [sharedAge EXCEPT ![n] = UnneededTime + 1]
  /\ UNCHANGED <<trackerVars, target, taint, cachedTaint, timeVars, ca,
                 disruptions>>

\* The node of a deleted VM and its pods are removed.
Vanish(n) ==
  /\ node[n] = "lost"
  /\ node' = [node EXCEPT ![n] = "none"]
  /\ taint' = taint \ {n}
  /\ cachedTaint' = cachedTaint \ {n}
  /\ pod' = [p \in Pods |-> IF pod[p] # n THEN pod[p]
                            ELSE IF p \in Standalone THEN "absent" ELSE "new"]
  /\ UNCHANGED <<trackerVars, target, settling, timeVars, sharedAge, ca, disruptions>>

\* The watch brings the present object into the autoscaler's cache.
Heartbeat(n) ==
  /\ (n \in taint) # (n \in cachedTaint)
  /\ cachedTaint' = (cachedTaint \ {n}) \cup (taint \cap {n})
  /\ UNCHANGED <<trackerVars, cloudVars, taint, pod, settling, timeVars, sharedAge,
                 ca, disruptions>>

\* So it does for a pod, when the pod changes or the reflector lists anew.
Reflect(p) ==
  /\ pod[p] = "hidden"
  /\ pod' = [pod EXCEPT ![p] = "stale"]
  /\ UNCHANGED <<trackerVars, cloudVars, taint, cachedTaint, settling, timeVars,
                 sharedAge, ca, disruptions>>

Schedulable(n) == n \in Listed \ taint /\ Free(pod, n) > 0

Bind(p, n) ==
  /\ pod[p] \in Pending
  /\ Schedulable(n)
  /\ pod' = [pod EXCEPT ![p] = n]
  /\ UNCHANGED <<trackerVars, cloudVars, taint, cachedTaint, settling, timeVars,
                 sharedAge, ca, disruptions>>

MarkUnschedulable(p) ==
  /\ pod[p] = "new"
  /\ ~\E n \in Nodes : Schedulable(n)
  /\ pod' = [pod EXCEPT ![p] = IF settling THEN "stale" ELSE "unschedulable"]
  /\ UNCHANGED <<trackerVars, cloudVars, taint, cachedTaint, settling, timeVars,
                 sharedAge, ca, disruptions>>

CreatePod(p) ==
  /\ pod[p] = "absent"
  /\ Disrupt("create")
  /\ pod' = [pod EXCEPT ![p] = "new"]
  /\ UNCHANGED <<trackerVars, cloudVars, taint, cachedTaint, settling, timeVars,
                 sharedAge, ca>>

FinishPod(p) ==
  /\ pod[p] \in Nodes
  /\ Disrupt("finish")
  /\ pod' = [pod EXCEPT ![p] = "absent"]
  /\ UNCHANGED <<trackerVars, cloudVars, taint, cachedTaint, settling, timeVars,
                 sharedAge, ca>>

Tick ==
  /\ ca.pc \in {"idle", "delete"}
  /\ usage' = AgedUsage(usage)
  /\ unneeded' = AgedMap(unneeded)
  /\ uses' = AgedUses(uses)
  /\ settling' = FALSE
  /\ upAge' = Smaller(upAge + 1, ScaleDownDelay)
  /\ failAge' = Smaller(failAge + 1, TrialInterval)
  /\ sharedAge' = AgedMap(sharedAge)
  /\ UNCHANGED <<cloudVars, taint, cachedTaint, pod, ca, disruptions>>

(***************************************************************************)
(* Specification                                                           *)
(***************************************************************************)

Pass ==
  \/ ListNodes
  \/ ListPods
  \/ \E g \in Groups : ScaleUp(g)
  \/ ScaleUpWithoutOptions
  \/ FindUnneededNodes
  \/ NothingToScaleDown
  \/ ScaleDownEmpty
  \/ ScaleDownOne
  \/ ScaleDownNone
  \/ MarkToBeDeleted
  \/ DrainNode
  \/ \E n \in Nodes : CheckSize(n) \/ DeleteInstance(n)

Cluster ==
  \/ \E n \in Nodes : Join(n) \/ Vanish(n) \/ Heartbeat(n)
  \/ \E p \in Pods : \E n \in Nodes : Bind(p, n)
  \/ \E p \in Pods : MarkUnschedulable(p) \/ Reflect(p) \/ CreatePod(p) \/ FinishPod(p)
  \/ Tick

Next == Pass \/ Restart \/ Cluster

Spec == Init /\ [][Next]_vars

\* The loop goes on, the process is restarted, the cloud and the cluster do what
\* they are asked for, and time passes, between passes too.  The scheduler tries a
\* waiting pod again and again, more often than nodes come and go.  Nothing that
\* disturbs is fair.
FairSpec ==
  /\ Spec
  /\ WF_vars(Pass)
  /\ WF_vars(Restart /\ UNCHANGED disruptions)
  /\ SF_vars(Tick)
  /\ \A n \in Nodes : WF_vars(Join(n)) /\ WF_vars(Vanish(n)) /\ WF_vars(Heartbeat(n))
  /\ \A p \in Pods : /\ SF_vars(\E n \in Nodes : Bind(p, n))
                     /\ WF_vars(MarkUnschedulable(p)) /\ WF_vars(Reflect(p))

(***************************************************************************)
(* Properties                                                              *)
(***************************************************************************)

\* Types, and what holds between the place in the loop and its locals.
TypeOK ==
  /\ TrackerTypeOK
  /\ target \in [Groups -> Nat]
  /\ node \in [Nodes -> {"none", "ready", "lost"}]
  /\ taint \subseteq Nodes /\ cachedTaint \subseteq Nodes
  /\ pod \in [Pods -> Places]
  /\ settling \in BOOLEAN
  /\ ca \in [pc : {"idle", "list", "up", "find", "down", "mark", "evict", "delete",
                   "panic"},
             nodes : SUBSET Nodes, pods : [Pods -> Nodes \cup {Nowhere}],
             help : SUBSET Pods, schedulable : BOOLEAN,
             victims : SUBSET Nodes, sized : SUBSET Nodes]
  /\ ca.sized \subseteq ca.victims
  /\ \A n \in ca.victims : GroupOf[n] \in Groups
  /\ (ca.victims # {}) <=> (ca.pc \in {"mark", "evict", "delete"})
  /\ upAge \in 0..ScaleDownDelay /\ failAge \in 0..TrialInterval
  /\ disruptions \in 0..MaxDisruptions
  /\ sharedAge \in [Nodes -> Ages]

\* The size of a group stays between its limits, although the goroutines of
\* ScaleDown check the size of a group and delete from it in two calls.
SizesInBounds ==
  \A g \in Groups : MinSize[g] <= target[g] /\ target[g] <= MaxSize[g]

\* "Cluster autoscaler will not grow the cluster beyond this number": not even
\* with nodes that have been asked for and are not there yet, which ScaleUp does
\* not see in its list of nodes.
TotalInBounds ==
  MaxNodesTotal > 0 =>
    MapThenSumSet(LAMBDA g : target[g], Groups) + Cardinality(Members(Instances, NoGroup))
      <= MaxNodesTotal

\* The loop asks for more nodes only when all that it asked for have come: a
\* pod is not helped twice while its node is starting.
GrowOnlyWhenComplete ==
  [][(\E g \in Groups : target'[g] > target[g]) =>
       \A g \in Groups : Cardinality(Members(Instances, g)) = target[g]]_vars

Picked(n) == ca.pc = "down" /\ n \in ca'.victims

\* A node whose pods counted on the same space as those of a node that has been
\* removed is not removed itself before it has been unneeded for another
\* UnneededTime.
RoomNotPromisedTwice ==
  [][\A n \in Nodes : Picked(n) => sharedAge[n] > UnneededTime]_vars

\* A node that a failed drain or a crash left tainted does not remain so.
TaintReleased == \A n \in Nodes : n \in taint ~> n \notin taint

\* No group can grow, all its nodes are there, and all nodes are full.
AtLimit ==
  /\ \/ \A g \in Groups : target[g] = MaxSize[g]
     \/ MaxNodesTotal > 0 /\ Cardinality(Instances) >= MaxNodesTotal
  /\ \A g \in Groups : Cardinality(Members(Instances, g)) = target[g]
  /\ \A n \in Instances : Free(pod, n) = 0

\* A pod that has no place gets one, unless the cluster is full and at its limits:
\* however often nodes come and go, pods are marked too early, or an update fails.
PodsGetNodes ==
  \A p \in Pods : pod[p] \in Pending ~> (pod[p] \notin Pending \/ AtLimit)
============================================================================
