---------------------- MODULE ClusterAutoscalerProofs ----------------------
(***************************************************************************)
(* The autoscaler's loop, for any number of nodes, groups and pods and any *)
(* bounds: the types, the sizes of the groups and of the cluster, the      *)
(* completeness that growth waits for, and the room that the usage tracker *)
(* keeps from being promised twice.                                        *)
(*                                                                         *)
(* LoopInv is about the loop, the sizes and the VMs.  What the tracker and *)
(* the pods are like makes no difference to it; the rest builds on it.     *)
(***************************************************************************)
EXTENDS ClusterAutoscaler, UsageTrackerProofs

\* The nodes of a group that have a VM.
Ready(g) == Members(Instances, g)

InPass == {"list", "up", "find", "down", "mark", "evict"}

\* The part of TypeOK that the sizes depend on.
LoopType ==
  /\ target \in [Groups -> Nat]
  /\ node \in [Nodes -> {"none", "ready", "lost"}]
  /\ ca \in [pc : InPass \cup {"idle", "delete", "panic"},
             nodes : SUBSET Nodes, pods : [Pods -> Nodes \cup {Nowhere}],
             help : SUBSET Pods, schedulable : BOOLEAN,
             victims : SUBSET Nodes, sized : SUBSET Nodes]

\* The nodes to delete are of different groups and have a VM, and what CheckSize has
\* found out of a group is still so.
Victims ==
  /\ ca.sized \subseteq ca.victims
  /\ \A n \in ca.victims : GroupOf[n] \in Groups /\ node[n] = "ready"
  /\ \A n, m \in ca.victims : GroupOf[n] = GroupOf[m] => n = m
  /\ \A n \in ca.sized : target[GroupOf[n]] > MinSize[GroupOf[n]]
  /\ ca.pc \notin {"mark", "evict", "delete"} => ca.victims = {}

\* While a pass is under way all groups have the nodes they should have; before it
\* deletes any, no node of a group is without a VM, and the list of nodes is right.
\* The limit of the cluster is not reached when it asks for more.
Complete ==
  /\ ca.pc \in InPass \cup {"delete"} => \A g \in Groups : Cardinality(Ready(g)) = target[g]
  /\ ca.pc \in InPass =>
       /\ \A n \in Nodes : GroupOf[n] \in Groups => node[n] # "lost"
       /\ \A n \in ca.nodes : GroupOf[n] \in Groups => node[n] = "ready"
  /\ ca.pc = "up" /\ MaxNodesTotal > 0 => Cardinality(ca.nodes) < MaxNodesTotal

\* A group that waits for nodes has none that is on its way out: the sizes agree
\* with the list of nodes only if they agree with the VMs.
Coming ==
  \A g \in Groups :
    \/ Cardinality(Ready(g)) = target[g]
    \/ /\ Cardinality(Ready(g)) < target[g]
       /\ \A n \in Nodes : GroupOf[n] = g => node[n] # "lost"

LoopInv == LoopType /\ Victims /\ Complete /\ Coming

\* The sizes at the start are within the limits.
WithinLimits ==
  \A g \in Groups : /\ MinSize[g] <= Cardinality(Members(InitNodes, g))
                    /\ Cardinality(Members(InitNodes, g)) <= MaxSize[g]

(***************************************************************************)
(* Lemmas                                                                  *)
(***************************************************************************)

\* Sets of nodes are finite.
LEMMA NodesFinite ==
  ASSUME NEW S, S \subseteq Nodes PROVE IsFiniteSet(S) /\ Cardinality(S) \in Nat
BY FS_Subset, FS_CardinalityType, TrackerAssumption

\* A set of at most one element.
LEMMA AtMostOne ==
  ASSUME NEW S, IsFiniteSet(S), Cardinality(S) <= 1, NEW x \in S, NEW y \in S PROVE x = y
<1>1. Cardinality(S) \in Nat
  BY FS_CardinalityType
<1>2. Cardinality(S) # 0
  BY FS_EmptySet
<1>3. Cardinality(S) = 1
  BY <1>1, <1>2
<1> QED
  BY <1>3, FS_Singleton

\* The steps that concern neither sizes nor VMs nor the loop.
LEMMA SameLoop == ASSUME LoopInv, UNCHANGED <<target, node, ca>> PROVE LoopInv'
BY DEF LoopInv, LoopType, Victims, Complete, Coming, Ready, Instances, Members

\* Steps of the loop that leave it without victims.
LEMMA PassStep ==
  ASSUME LoopInv, UNCHANGED <<target, node>>, LoopType', ca'.victims = {}, ca'.sized = {},
         ca'.pc \in InPass => ca.pc \in InPass /\ ca'.nodes = ca.nodes,
         ca'.pc # "delete",
         ca'.pc = "up" => (MaxNodesTotal > 0 => Cardinality(ca.nodes) < MaxNodesTotal)
  PROVE  LoopInv'
<1>1. Victims'
  BY DEF Victims
<1>2. Complete' /\ Coming'
  BY DEF LoopInv, Complete, Coming, Ready, Instances, Members, InPass
<1> QED
  BY <1>1, <1>2 DEF LoopInv

LEMMA IdleType ==
  /\ IdleCA.pc = "idle" /\ IdleCA.victims = {} /\ IdleCA.sized = {} /\ IdleCA.nodes = {}
  /\ IdleCA \in [pc : InPass \cup {"idle", "delete", "panic"},
             nodes : SUBSET Nodes, pods : [Pods -> Nodes \cup {Nowhere}],
             help : SUBSET Pods, schedulable : BOOLEAN,
             victims : SUBSET Nodes, sized : SUBSET Nodes]
BY DEF IdleCA

\* A pass that ends.
LEMMA IdleStep ==
  ASSUME LoopInv, UNCHANGED <<target, node>>, ca' = IdleCA \/ ca' = [IdleCA EXCEPT !.pc = "panic"]
  PROVE  LoopInv'
<1>1. /\ LoopType' /\ ca'.pc \in {"idle", "panic"} /\ ca'.victims = {} /\ ca'.sized = {}
  BY IdleType DEF LoopInv, LoopType
<1> QED
  BY <1>1, PassStep DEF InPass

(***************************************************************************)
(* The passes                                                              *)
(***************************************************************************)

\* The check of the sizes lets a pass begin only if the list has no node without a VM.
LEMMA ListNodesStep == ASSUME LoopInv, ListNodes PROVE LoopInv'
<1>1. /\ UNCHANGED <<target, node>> /\ LoopType' /\ ca'.pc = "list" /\ ca'.nodes = Listed
      /\ ca'.victims = {} /\ ca'.sized = {}
  BY DEF LoopInv, LoopType, Victims, ListNodes, Listed, cloudVars, InPass
<1>2. ASSUME NEW g \in Groups
      PROVE  /\ Cardinality(Ready(g)) = target[g]
             /\ \A n \in Nodes : GroupOf[n] = g => node[n] # "lost"
  <2> DEFINE L == Members(Listed, g)
  <2>1. /\ Ready(g) \subseteq L /\ L \subseteq Nodes /\ Ready(g) \subseteq Nodes
        /\ Cardinality(L) = target[g]
    BY DEF ListNodes, GroupsMatch, Ready, Members, Listed, Instances
  <2>2. IsFiniteSet(L) /\ Cardinality(L) \in Nat /\ Cardinality(Ready(g)) \in Nat
    BY <2>1, NodesFinite
  <2>3. CASE Cardinality(Ready(g)) = target[g]
    <3>1. Ready(g) = L
      BY <2>1, <2>2, <2>3, FS_Subset
    <3> QED
      BY <2>3, <3>1 DEF Ready, Members, Listed, Instances
  <2>4. CASE \A n \in Nodes : GroupOf[n] = g => node[n] # "lost"
    <3>1. Ready(g) = L
      BY <2>4 DEF Ready, Members, Listed, Instances
    <3> QED
      BY <2>1, <2>4, <3>1
  <2> QED
    BY <2>3, <2>4 DEF LoopInv, Coming
<1>3. \A n \in Listed : GroupOf[n] \in Groups => node[n] = "ready"
  BY <1>2 DEF Listed
<1>4. Victims'
  BY <1>1 DEF Victims
<1>5. Complete'
  BY <1>1, <1>2, <1>3 DEF Complete, Ready, Instances, Members, InPass
<1>6. Coming'
  BY <1>1, <1>2 DEF Coming, Ready, Instances, Members
<1> QED
  BY <1>1, <1>4, <1>5, <1>6 DEF LoopInv

\* It goes on to scale up only below the limit of the cluster.
LEMMA ListPodsStep == ASSUME LoopInv, ListPods PROVE LoopInv'
<1> DEFINE places == [p \in Pods |-> IF pod[p] \in Nodes THEN pod[p] ELSE Nowhere]
           full == MaxNodesTotal > 0 /\ Cardinality(ca.nodes) >= MaxNodesTotal
<1>1. PICK help \in SUBSET Pods, b \in BOOLEAN :
        ca' = [ca EXCEPT !.pc = IF help # {} /\ ~full THEN "up" ELSE "find",
                         !.pods = places, !.help = help, !.schedulable = b]
  BY DEF ListPods
<1>2. places \in [Pods -> Nodes \cup {Nowhere}]
  OBVIOUS
<1> HIDE DEF places
<1>3. UNCHANGED <<target, node>> /\ ca.pc = "list"
  BY DEF ListPods, cloudVars
<1>4. LoopType' /\ ca'.pc \in {"up", "find"} /\ ca'.nodes = ca.nodes
  BY <1>1, <1>2, <1>3 DEF LoopInv, LoopType, InPass
<1>5. ca'.victims = {} /\ ca'.sized = {}
  BY <1>1, <1>3 DEF LoopInv, LoopType, Victims
<1>6. ca.nodes \subseteq Nodes /\ MaxNodesTotal \in Nat
  BY AutoscalerAssumption DEF LoopInv, LoopType
<1>7. Cardinality(ca.nodes) \in Nat
  BY <1>6, NodesFinite
<1>8. ca'.pc = "up" => (MaxNodesTotal > 0 => Cardinality(ca.nodes) < MaxNodesTotal)
  BY <1>1, <1>6, <1>7 DEF LoopInv, LoopType
<1> QED
  BY <1>3, <1>4, <1>5, <1>8, PassStep DEF InPass

\* What the pass asks for is more than there is, and not more than the group may have.
LEMMA NewSizeBounds ==
  ASSUME LoopInv, ca.pc = "up", NEW g \in ExpansionOptions
  PROVE  NewSize(g) \in Nat /\ target[g] <= NewSize(g) /\ NewSize(g) <= MaxSize[g]
<1>1. /\ g \in Groups /\ target[g] \in Nat /\ MaxSize[g] \in Nat /\ target[g] < MaxSize[g]
      /\ MaxNodesTotal \in Nat /\ Capacity \in Nat \ {0} /\ ca.nodes \subseteq Nodes
      /\ ca.help \subseteq Pods /\ IsFiniteSet(Pods)
  BY AutoscalerAssumption DEF LoopInv, LoopType, ExpansionOptions
<1>2. Cardinality(ca.nodes) \in Nat /\ Cardinality(ca.help) \in Nat
  BY <1>1, NodesFinite, FS_Subset, FS_CardinalityType
<1>3. Estimate \in Nat
  BY <1>1, <1>2, Z3 DEF Estimate
<1>4. MaxNodesTotal > 0 => Cardinality(ca.nodes) < MaxNodesTotal
  BY DEF LoopInv, Complete
<1> QED
  BY <1>1, <1>2, <1>3, <1>4 DEF NewSize, Smaller

LEMMA ScaleUpStep == ASSUME LoopInv, NEW g \in Groups, ScaleUp(g) PROVE LoopInv'
<1>1. /\ ca.pc = "up" /\ g \in ExpansionOptions /\ ca' = IdleCA /\ node' = node
      /\ (UNCHANGED target \/ target' = [target EXCEPT ![g] = NewSize(g)])
  BY DEF ScaleUp, Grow
<1>2. CASE UNCHANGED target
  BY <1>1, <1>2, IdleStep
<1>3. CASE target' = [target EXCEPT ![g] = NewSize(g)]
  <2>1. NewSize(g) \in Nat /\ target[g] <= NewSize(g)
    BY <1>1, NewSizeBounds
  <2>2. LoopType' /\ ca'.pc = "idle" /\ ca'.victims = {} /\ ca'.sized = {}
    BY <1>1, <1>3, <2>1, IdleType DEF LoopInv, LoopType
  <2>3. Coming'
    <3>1. \A h \in Groups : Cardinality(Ready(h)) = target[h]
      BY <1>1 DEF LoopInv, Complete, InPass
    <3>2. \A n \in Nodes : GroupOf[n] \in Groups => node'[n] # "lost"
      BY <1>1 DEF LoopInv, Complete, InPass
    <3>3. \A h \in Groups : Ready(h)' = Ready(h)
      BY <1>1 DEF Ready, Members, Instances
    <3>4. \A h \in Groups : target[h] \in Nat /\ target'[h] \in Nat /\ target[h] <= target'[h]
      BY <1>3, <2>1 DEF LoopInv, LoopType
    <3>5. ASSUME NEW h \in Groups
          PROVE  Cardinality(Ready(h)') = target'[h] \/ Cardinality(Ready(h)') < target'[h]
      BY <3>1, <3>3, <3>4
    <3> QED
      BY <3>2, <3>5 DEF Coming
  <2> QED
    BY <2>2, <2>3 DEF LoopInv, Victims, Complete, InPass
<1> QED
  BY <1>1, <1>2, <1>3

LEMMA ScaleUpWithoutOptionsStep == ASSUME LoopInv, ScaleUpWithoutOptions PROVE LoopInv'
<1>1. UNCHANGED <<target, node>> /\ ca.pc = "up"
  BY DEF ScaleUpWithoutOptions, cloudVars
<1>2. CASE Expander = "random"
  BY <1>1, <1>2, IdleStep DEF ScaleUpWithoutOptions
<1>3. CASE Expander # "random"
  <2>1. /\ LoopType' /\ ca'.pc = "find" /\ ca'.nodes = ca.nodes
        /\ ca'.victims = {} /\ ca'.sized = {}
    BY <1>1, <1>3 DEF ScaleUpWithoutOptions, LoopInv, LoopType, Victims, InPass
  <2> QED
    BY <1>1, <2>1, PassStep DEF InPass
<1> QED
  BY <1>2, <1>3

LEMMA FindUnneededNodesStep == ASSUME LoopInv, FindUnneededNodes PROVE LoopInv'
<1>1. /\ UNCHANGED <<target, node>> /\ ca.pc = "find"
      /\ (ca' = IdleCA \/ ca' = [ca EXCEPT !.pc = "down"])
  BY DEF FindUnneededNodes, cloudVars
<1>2. CASE ca' = IdleCA
  BY <1>1, <1>2, IdleStep
<1>3. CASE ca' = [ca EXCEPT !.pc = "down"]
  <2>1. /\ LoopType' /\ ca'.pc = "down" /\ ca'.nodes = ca.nodes
        /\ ca'.victims = {} /\ ca'.sized = {}
    BY <1>1, <1>3 DEF LoopInv, LoopType, Victims, InPass
  <2> QED
    BY <1>1, <2>1, PassStep DEF InPass
<1> QED
  BY <1>1, <1>2, <1>3

\* Every candidate has a VM, and its group is above the minimum.
LEMMA CandidatesReady ==
  ASSUME LoopInv, ca.pc = "down"
  PROVE  \A n \in Candidates : n \in Nodes /\ GroupOf[n] \in Groups /\ node[n] = "ready"
BY DEF LoopInv, LoopType, Complete, InPass, Candidates

\* A pass that has chosen what to remove.
LEMMA ChosenStep ==
  ASSUME LoopInv, ca.pc = "down", UNCHANGED <<target, node>>, NEW ns \in SUBSET Candidates,
         \A n, m \in ns : GroupOf[n] = GroupOf[m] => n = m,
         NEW place \in {"mark", "delete"},
         ca' = [ca EXCEPT !.pc = place, !.victims = ns]
  PROVE  LoopInv'
<1>1. \A n \in ns : n \in Nodes /\ GroupOf[n] \in Groups /\ node[n] = "ready"
  BY CandidatesReady
<1>2. /\ LoopType' /\ ca'.pc = place /\ ca'.victims = ns /\ ca'.nodes = ca.nodes
      /\ ca'.sized = {}
  BY <1>1 DEF LoopInv, LoopType, Victims, InPass
<1>3. Victims'
  BY <1>1, <1>2 DEF Victims
<1>4. Complete' /\ Coming'
  BY <1>2 DEF LoopInv, Complete, Coming, Ready, Instances, Members, InPass
<1> QED
  BY <1>2, <1>3, <1>4 DEF LoopInv

\* getEmptyNodes takes at most one node of a group.
LEMMA OneOfEach ==
  ASSUME LoopInv, NEW ns \in getEmptyNodes
  PROVE  ns \in SUBSET Candidates /\ \A n, m \in ns : GroupOf[n] = GroupOf[m] => n = m
<1>1. PICK all \in SUBSET EmptyNodes :
        /\ ns \subseteq all
        /\ \A g \in Groups : Cardinality(Members(all, g)) =
             Smaller(1, Cardinality(Members(EmptyNodes, g)))
  BY DEF getEmptyNodes
<1>2. EmptyNodes \subseteq Candidates /\ Candidates \subseteq Nodes
  BY DEF EmptyNodes, Candidates, LoopInv, LoopType
<1>3. ASSUME NEW n \in ns, NEW m \in ns, GroupOf[n] = GroupOf[m] PROVE n = m
  <2> DEFINE S == Members(all, GroupOf[n])
             E == Members(EmptyNodes, GroupOf[n])
  <2>1. GroupOf[n] \in Groups /\ n \in S /\ m \in S
    BY <1>1, <1>2, <1>3 DEF Members, Candidates
  <2>2. S \subseteq Nodes /\ E \subseteq Nodes
    BY <1>1, <1>2 DEF Members
  <2>3. Cardinality(S) = Smaller(1, Cardinality(E))
    BY <1>1, <2>1
  <2>4. IsFiniteSet(S) /\ Cardinality(S) \in Nat /\ Cardinality(E) \in Nat
    BY <2>2, NodesFinite
  <2>5. Cardinality(S) <= 1
    BY <2>3, <2>4 DEF Smaller
  <2> HIDE DEF S
  <2> QED
    BY <2>1, <2>4, <2>5, AtMostOne
<1> QED
  BY <1>1, <1>2, <1>3

LEMMA ScaleDownEmptyStep == ASSUME LoopInv, ScaleDownEmpty PROVE LoopInv'
<1>1. PICK ns \in getEmptyNodes :
        /\ ca.pc = "down" /\ UNCHANGED <<target, node>>
        /\ ca' = [ca EXCEPT !.pc = "delete", !.victims = ns]
  BY DEF ScaleDownEmpty, cloudVars
<1> QED
  BY <1>1, OneOfEach, ChosenStep

LEMMA ScaleDownOneStep == ASSUME LoopInv, ScaleDownOne PROVE LoopInv'
<1>1. PICK n \in Candidates :
        /\ ca.pc = "down" /\ UNCHANGED <<target, node>>
        /\ ca' = [ca EXCEPT !.pc = "mark", !.victims = {n}]
  BY DEF ScaleDownOne, cloudVars
<1>2. {n} \in SUBSET Candidates /\ \A a, b \in {n} : GroupOf[a] = GroupOf[b] => a = b
  OBVIOUS
<1> QED
  BY <1>1, <1>2, ChosenStep

\* Steps of a drain, before anything is deleted.
LEMMA DrainStep ==
  ASSUME LoopInv, UNCHANGED <<target, node>>, ca.pc \in {"mark", "evict"},
         NEW place \in {"evict", "delete"}, ca' = [ca EXCEPT !.pc = place]
  PROVE  LoopInv'
<1>1. /\ LoopType' /\ ca'.pc = place /\ ca'.victims = ca.victims /\ ca'.nodes = ca.nodes
      /\ ca'.sized = ca.sized
  BY DEF LoopInv, LoopType, InPass
<1>2. Victims'
  BY <1>1 DEF LoopInv, Victims
<1>3. Complete' /\ Coming'
  BY <1>1 DEF LoopInv, Complete, Coming, Ready, Instances, Members, InPass
<1> QED
  BY <1>1, <1>2, <1>3 DEF LoopInv

LEMMA MarkStep == ASSUME LoopInv, MarkToBeDeleted PROVE LoopInv'
<1>1. /\ UNCHANGED <<target, node>> /\ ca.pc = "mark"
      /\ (ca' = IdleCA \/ ca' = [ca EXCEPT !.pc = "evict"])
  BY DEF MarkToBeDeleted, cloudVars
<1> QED
  BY <1>1, IdleStep, DrainStep

LEMMA DrainNodeStep == ASSUME LoopInv, DrainNode PROVE LoopInv'
<1>1. /\ UNCHANGED <<target, node>> /\ ca.pc = "evict"
      /\ ca' = [ca EXCEPT !.pc = "delete"]
  BY DEF DrainNode, cloudVars
<1> QED
  BY <1>1, DrainStep

\* The deletion of a node is over: the part about the victims and the loop.
LEMMA DeletedType ==
  ASSUME LoopInv, ca.pc = "delete", NEW n \in ca.victims, ca' = Deleted(n)
  PROVE  /\ ca' \in [pc : InPass \cup {"idle", "delete", "panic"},
             nodes : SUBSET Nodes, pods : [Pods -> Nodes \cup {Nowhere}],
             help : SUBSET Pods, schedulable : BOOLEAN,
             victims : SUBSET Nodes, sized : SUBSET Nodes]
         /\ ca'.pc \in {"idle", "delete"}
         /\ ca'.pc = "idle" => ca'.victims = {}
         /\ ca'.victims = ca.victims \ {n}
         /\ ca'.sized = ca.sized \ {n}
<1>1. CASE ca.victims = {n}
  BY <1>1, IdleType DEF Deleted, LoopInv, Victims
<1>2. CASE ca.victims # {n}
  BY <1>2 DEF Deleted, LoopInv, LoopType
<1> QED
  BY <1>1, <1>2

LEMMA CheckSizeStep == ASSUME LoopInv, NEW n \in Nodes, CheckSize(n) PROVE LoopInv'
<1>1. /\ UNCHANGED <<target, node>> /\ ca.pc = "delete" /\ n \in ca.victims
  BY DEF CheckSize, cloudVars
<1>2. LoopType' /\ Victims' /\ ca'.pc \in {"idle", "delete"}
  <2>1. CASE target[GroupOf[n]] > MinSize[GroupOf[n]]
    <3>1. ca' = [ca EXCEPT !.sized = @ \cup {n}]
      BY <2>1 DEF CheckSize
    <3>2. LoopType' /\ ca'.pc = "delete" /\ ca'.victims = ca.victims
          /\ ca'.sized = ca.sized \cup {n}
      BY <1>1, <3>1 DEF LoopInv, LoopType
    <3> QED
      BY <1>1, <2>1, <3>2 DEF LoopInv, Victims
  <2>2. CASE ~(target[GroupOf[n]] > MinSize[GroupOf[n]])
    <3>1. ca' = Deleted(n)
      BY <2>2 DEF CheckSize
    <3> QED
      BY <1>1, <3>1, DeletedType DEF LoopInv, LoopType, Victims
  <2> QED
    BY <2>1, <2>2
<1>3. Complete' /\ Coming'
  BY <1>1, <1>2 DEF LoopInv, Complete, Coming, Ready, Instances, Members, InPass
<1> QED
  BY <1>2, <1>3 DEF LoopInv

\* A VM and its place in the target size go together; the other victims are of other
\* groups, and what has been found out of those is still so.
LEMMA DeleteInstanceStep ==
  ASSUME LoopInv, NEW n \in Nodes, DeleteInstance(n) PROVE LoopInv'
<1> DEFINE g == GroupOf[n]
<1>1. /\ ca.pc = "delete" /\ n \in ca.victims /\ n \in ca.sized /\ ca' = Deleted(n)
      /\ g \in Groups /\ node[n] = "ready" /\ target[g] > MinSize[g]
  BY DEF DeleteInstance, LoopInv, Victims
<1>2. MinSize[g] \in Nat /\ target[g] \in Nat
  BY <1>1, AutoscalerAssumption DEF LoopInv, LoopType
<1>3. CASE UNCHANGED <<node, target>>
  <2>1. LoopType' /\ Victims' /\ ca'.pc \in {"idle", "delete"}
    BY <1>1, <1>3, DeletedType DEF LoopInv, LoopType, Victims
  <2> QED
    BY <1>1, <1>3, <2>1 DEF LoopInv, Complete, Coming, Ready, Instances, Members, InPass
<1>4. CASE /\ node' = [node EXCEPT ![n] = "lost"]
           /\ target' = [target EXCEPT ![g] = @ - 1]
  <2>1. LoopType'
    BY <1>1, <1>2, <1>4, DeletedType DEF LoopInv, LoopType
  <2>2. Victims'
    <3>1. \A m \in ca'.victims : m # n /\ GroupOf[m] # g /\ m \in Nodes
      BY <1>1, DeletedType DEF LoopInv, LoopType, Victims
    <3>2. \A m \in ca'.victims : node'[m] = node[m] /\ target'[GroupOf[m]] = target[GroupOf[m]]
      BY <1>4, <3>1 DEF LoopInv, LoopType, Victims
    <3> QED
      BY <1>1, <3>1, <3>2, DeletedType DEF LoopInv, Victims
  <2>3. \A h \in Groups : Cardinality(Ready(h)') = target'[h]
    <3>1. \A h \in Groups : Cardinality(Ready(h)) = target[h]
      BY <1>1 DEF LoopInv, Complete
    <3>2. Ready(g)' = Ready(g) \ {n} /\ n \in Ready(g) /\ Ready(g) \subseteq Nodes
      BY <1>1, <1>4 DEF Ready, Members, Instances, LoopInv, LoopType
    <3>3. IsFiniteSet(Ready(g))
      BY <3>2, NodesFinite
    <3>4. Cardinality(Ready(g)') = Cardinality(Ready(g)) - 1
      BY <3>2, <3>3, FS_RemoveElement
    <3>5. \A h \in Groups \ {g} : Ready(h)' = Ready(h)
      BY <1>1, <1>4 DEF Ready, Members, Instances, LoopInv, LoopType
    <3>6. target'[g] = target[g] - 1 /\ \A h \in Groups \ {g} : target'[h] = target[h]
      BY <1>1, <1>4 DEF LoopInv, LoopType
    <3> QED
      BY <1>1, <3>1, <3>4, <3>5, <3>6
  <2>4. ca'.pc \in {"idle", "delete"}
    BY <1>1, DeletedType
  <2> QED
    BY <2>1, <2>2, <2>3, <2>4 DEF LoopInv, Complete, Coming, InPass
<1> QED
  BY <1>3, <1>4 DEF DeleteInstance

(***************************************************************************)
(* The cluster                                                             *)
(***************************************************************************)

\* A VM joins a group that waits for one, and there is none during a pass.
LEMMA JoinStep == ASSUME LoopInv, NEW n \in Nodes, Join(n) PROVE LoopInv'
<1> DEFINE g == GroupOf[n]
<1>1. /\ node[n] = "none" /\ g \in Groups /\ node' = [node EXCEPT ![n] = "ready"]
      /\ UNCHANGED <<target, ca>> /\ Cardinality(Ready(g)) < target[g]
  BY DEF Join, Ready
<1>2. target[g] \in Nat /\ Ready(g) \subseteq Nodes
  BY <1>1 DEF LoopInv, LoopType, Ready, Members, Instances
<1>3. IsFiniteSet(Ready(g)) /\ Cardinality(Ready(g)) \in Nat
  BY <1>2, NodesFinite
<1>4. ca.pc \notin InPass \cup {"delete"}
  BY <1>1, <1>2, <1>3 DEF LoopInv, Complete
<1>5. LoopType' /\ Victims' /\ Complete'
  BY <1>1, <1>4 DEF LoopInv, LoopType, Victims, Complete, InPass
<1>6. Ready(g)' = Ready(g) \cup {n} /\ n \notin Ready(g)
  BY <1>1 DEF Ready, Members, Instances, LoopInv, LoopType
<1>7. Cardinality(Ready(g)') = Cardinality(Ready(g)) + 1
  BY <1>3, <1>6, FS_AddElement
<1>8. \A m \in Nodes : GroupOf[m] = g => node'[m] # "lost"
  BY <1>1, <1>2, <1>3 DEF LoopInv, LoopType, Coming
<1>9. Coming'
  <2>1. ASSUME NEW h \in Groups \ {g}
        PROVE  Ready(h)' = Ready(h) /\ \A m \in Nodes : GroupOf[m] = h => node'[m] = node[m]
    BY <1>1 DEF Ready, Members, Instances, LoopInv, LoopType
  <2>2. \/ Cardinality(Ready(g)') = target'[g]
        \/ Cardinality(Ready(g)') < target'[g]
    BY <1>1, <1>2, <1>3, <1>7
  <2> QED
    BY <1>1, <1>8, <2>1, <2>2 DEF LoopInv, Coming
<1> QED
  BY <1>5, <1>9 DEF LoopInv

LEMMA VanishStep == ASSUME LoopInv, NEW n \in Nodes, Vanish(n) PROVE LoopInv'
<1>1. /\ node[n] = "lost" /\ node' = [node EXCEPT ![n] = "none"] /\ UNCHANGED <<target, ca>>
  BY DEF Vanish
<1>2. \A h \in Groups : Ready(h)' = Ready(h)
  BY <1>1 DEF Ready, Members, Instances, LoopInv, LoopType
<1>3. LoopType' /\ Victims'
  BY <1>1 DEF LoopInv, LoopType, Victims
<1>4. \A m \in Nodes : node'[m] = "lost" => node[m] = "lost"
  BY <1>1 DEF LoopInv, LoopType
<1>5. \A m \in Nodes : node[m] = "ready" => node'[m] = "ready"
  BY <1>1 DEF LoopInv, LoopType
<1>6. Complete'
  BY <1>1, <1>2, <1>4, <1>5 DEF LoopInv, LoopType, Complete
<1>7. Coming'
  BY <1>1, <1>2, <1>4 DEF LoopInv, Coming
<1> QED
  BY <1>3, <1>6, <1>7 DEF LoopInv

(***************************************************************************)
(* The invariant                                                           *)
(***************************************************************************)

\* A group starts with the nodes that it should have.
LEMMA StartSizes ==
  ASSUME Init, NEW g \in Groups
  PROVE  target[g] = Cardinality(Members(InitNodes, g)) /\ Ready(g) = Members(InitNodes, g)
BY AutoscalerAssumption DEF Init, Ready, Members, Instances

LEMMA LoopStart == ASSUME Init PROVE LoopInv
<1>1. \A g \in Groups : Cardinality(Members(InitNodes, g)) \in Nat
  BY NodesFinite, AutoscalerAssumption DEF Members
<1>2. target \in [Groups -> Nat]
  BY <1>1 DEF Init
<1>3. LoopType /\ ca.pc = "idle" /\ ca.victims = {} /\ ca.sized = {}
  BY <1>2, IdleType DEF Init, LoopType
<1> QED
  BY <1>3, StartSizes DEF LoopInv, Victims, Complete, Coming, InPass

LEMMA LoopKept == ASSUME LoopInv, [Next]_vars PROVE LoopInv'
<1>1. CASE ListNodes
  BY <1>1, ListNodesStep
<1>2. CASE ListPods
  BY <1>2, ListPodsStep
<1>3. CASE \E g \in Groups : ScaleUp(g)
  BY <1>3, ScaleUpStep
<1>4. CASE ScaleUpWithoutOptions
  BY <1>4, ScaleUpWithoutOptionsStep
<1>5. CASE FindUnneededNodes
  BY <1>5, FindUnneededNodesStep
<1>6. CASE NothingToScaleDown \/ ScaleDownNone
  BY <1>6, IdleStep DEF NothingToScaleDown, ScaleDownNone, cloudVars
<1>7. CASE ScaleDownEmpty
  BY <1>7, ScaleDownEmptyStep
<1>8. CASE ScaleDownOne
  BY <1>8, ScaleDownOneStep
<1>9. CASE MarkToBeDeleted
  BY <1>9, MarkStep
<1>10. CASE DrainNode
  BY <1>10, DrainNodeStep
<1>11. CASE \E n \in Nodes : CheckSize(n) \/ DeleteInstance(n)
  BY <1>11, CheckSizeStep, DeleteInstanceStep
<1>12. CASE Restart
  BY <1>12, IdleStep DEF Restart, cloudVars
<1>13. CASE \E n \in Nodes : Join(n) \/ Vanish(n) \/ Heartbeat(n)
  <2>1. ASSUME NEW n \in Nodes, Heartbeat(n) PROVE LoopInv'
    BY <2>1, SameLoop DEF Heartbeat, cloudVars
  <2> QED
    BY <1>13, <2>1, JoinStep, VanishStep
<1>14. CASE \E p \in Pods : \E n \in Nodes : Bind(p, n)
  BY <1>14, SameLoop DEF Bind, cloudVars
<1>15. CASE \E p \in Pods : MarkUnschedulable(p) \/ Reflect(p) \/ CreatePod(p) \/ FinishPod(p)
  BY <1>15, SameLoop DEF MarkUnschedulable, Reflect, CreatePod, FinishPod, cloudVars
<1>16. CASE Tick
  BY <1>16, SameLoop DEF Tick, cloudVars
<1>17. CASE UNCHANGED vars
  BY <1>17, SameLoop DEF vars, cloudVars
<1> QED
  BY <1>1, <1>2, <1>3, <1>4, <1>5, <1>6, <1>7, <1>8, <1>9, <1>10, <1>11, <1>12, <1>13,
     <1>14, <1>15, <1>16, <1>17 DEF Next, Pass, Cluster

\* Sizes change in two steps only, and grow only in the first.
LEMMA SizeSteps ==
  ASSUME [Next]_vars
  PROVE  \/ UNCHANGED target
         \/ \E g \in Groups : ScaleUp(g) /\ target' = [target EXCEPT ![g] = NewSize(g)]
         \/ \E n \in Nodes : DeleteInstance(n) /\ target' = [target EXCEPT ![GroupOf[n]] = @ - 1]
BY DEF Next, Pass, Cluster, ListNodes, ListPods, ScaleUp, Grow, ScaleUpWithoutOptions,
       FindUnneededNodes, NothingToScaleDown, ScaleDownEmpty, ScaleDownOne, ScaleDownNone,
       MarkToBeDeleted, DrainNode, CheckSize, DeleteInstance, Restart, Join, Vanish,
       Heartbeat, Reflect, Bind, MarkUnschedulable, CreatePod, FinishPod, Tick, vars,
       cloudVars

(***************************************************************************)
(* The tracker in the loop: registrations and removals                     *)
(***************************************************************************)

\* The records after each of the registrations.
Registrations(f, u, place, order) ==
  /\ f[0] = u
  /\ \A k \in DOMAIN order :
       f[k] = RegisterUsage(f[k - 1], ca.pods[order[k]], place[order[k]])

\* RegisterAll is one RegisterUsage after the other.
LEMMA RegisterAllSteps ==
  ASSUME NEW n \in Nat, NEW order, DOMAIN order = 1..n, NEW u \in Records, NEW place,
         \A k \in 1..n : ca.pods[order[k]] \in Nodes /\ place[order[k]] \in Nodes
  PROVE  \E f : /\ Registrations(f, u, place, order)
                /\ RegisterAll(u, place, order) = f[n]
<1> DEFINE R(acc, k) == RegisterUsage(acc, ca.pods[order[k]], place[order[k]])
           Fold(g) == g = [s \in SUBSET (1..n) |-> IF s = {} THEN u
                             ELSE R(g[s \ {Max(s)}], Max(s))]
           G == CHOOSE g : Fold(g)
<1>1. RegisterAll(u, place, order) = G[1..n]
  BY Zenon DEF RegisterAll, FoldLeft, MapThenFoldSet
<1>2. \E g : Fold(g)
  <2> DEFINE F == [k \in 1..n |-> [acc \in Records |-> R(acc, k)]]
             c == [s \in SUBSET (1..n) |-> Max(s)]
  <2>1. \A k \in 1..n : \A acc \in Records : R(acc, k) \in Records
    BY RegisterType
  <2> HIDE DEF R
  <2>2. F \in [1..n -> [Records -> Records]]
    BY <2>1
  <2>3. \A k \in 1..n : \A acc \in Records : F[k][acc] = R(acc, k)
    OBVIOUS
  <2>4. \A s \in SUBSET (1..n) : c[s] = Max(s)
    OBVIOUS
  <2>5. IsChoice(c, 1..n)
    BY <2>4, MaxChosen DEF IsChoice
  <2> HIDE DEF F, c
  <2>6. PICK g : IsFold(g, 1..n, Records, u, F, c)
    <3>1. IsFiniteSet(1..n)
      BY FS_Interval
    <3> QED
      BY <2>2, <2>5, <3>1, FoldExists, Zenon
  <2>7. \A s \in SUBSET (1..n) : g[s] = IF s = {} THEN u ELSE R(g[s \ {Max(s)}], Max(s))
    BY <2>3, <2>4, <2>6, MaxChosen DEF IsFold
  <2>8. g = [s \in SUBSET (1..n) |-> IF s = {} THEN u ELSE R(g[s \ {Max(s)}], Max(s))]
    BY <2>6, <2>7 DEF IsFold
  <2> QED
    BY <2>8
<1> HIDE DEF R
<1>3. Fold(G)
  BY <1>2, Zenon
<1> HIDE DEF G
<1> DEFINE h == [k \in 0..n |-> G[1..k]]
<1>4. h[0] = u
  <2>1. 1..0 = {} /\ 0 \in 0..n
    OBVIOUS
  <2> QED
    BY <1>3, <2>1
<1>5. ASSUME NEW k \in 1..n PROVE h[k] = R(h[k - 1], k)
  <2>1. /\ Max(1..k) = k /\ (1..k) \ {k} = 1..(k - 1) /\ 1..k # {}
        /\ 1..k \in SUBSET (1..n) /\ k \in 0..n /\ k - 1 \in 0..n
    BY MaxOfInterval
  <2> QED
    BY <1>3, <2>1
<1>6. RegisterAll(u, place, order) = h[n]
  BY <1>1
<1> HIDE DEF h
<1> QED
  BY <1>4, <1>5, <1>6 DEF R, Registrations

\* A simulation moves pods of the nodes that it is for, each to another node.
LEMMA SimulationPlaces ==
  ASSUME LoopType, NEW ns \in SUBSET Nodes, NEW place \in Simulations(ns)
  PROVE  /\ IsFiniteSet(DOMAIN place)
         /\ \A p \in DOMAIN place : /\ ca.pods[p] \in Nodes /\ place[p] \in Nodes
                                    /\ ca.pods[p] # place[p]
<1>1. PICK ps \in SUBSET {p \in Pods : ca.pods[p] \in ns} : place \in [ps -> ca.nodes]
  BY DEF Simulations
<1>2. \A n \in ns : PlacesFor(n, place)
  BY DEF Simulations
<1>3. IsFiniteSet(DOMAIN place)
  BY <1>1, FS_Subset, AutoscalerAssumption
<1>4. ASSUME NEW p \in DOMAIN place PROVE ca.pods[p] # place[p]
  BY <1>1, <1>2 DEF PlacesFor, On
<1> QED
  BY <1>1, <1>3, <1>4 DEF LoopType

\* The history after the first k registrations.
UseSome(h, place, order, k) ==
  [a \in Nodes |-> [b \in Nodes |->
     IF \E i \in 1..k : ca.pods[order[i]] = a /\ place[order[i]] = b THEN 0 ELSE h[a][b]]]

\* All registrations of a simulation leave the history covered, whatever the order.
LEMMA RegisterAllCovers ==
  ASSUME LoopType, NEW ns \in SUBSET Nodes, NEW place \in Simulations(ns),
         NEW order \in Orders(place),
         NEW u \in Records, NEW h \in Histories, Covers(u, h)
  PROVE  /\ RegisterAll(u, place, order) \in Records
         /\ UseAll(h, place) \in Histories
         /\ Covers(RegisterAll(u, place, order), UseAll(h, place))
<1> DEFINE n == Cardinality(DOMAIN place)
           H(k) == UseSome(h, place, order, k)
<1>1. order \in SetToSeqs(DOMAIN place)
  BY DEF Orders
<1>2. /\ n \in Nat /\ order \in [1..n -> DOMAIN place]
      /\ \A p \in DOMAIN place : \E i \in 1..n : order[i] = p
  BY <1>1, SimulationPlaces, Permutation
<1>3. \A k \in 1..n : /\ ca.pods[order[k]] \in Nodes /\ place[order[k]] \in Nodes
                      /\ ca.pods[order[k]] # place[order[k]]
  BY <1>2, SimulationPlaces
<1> HIDE DEF n
<1>4. DOMAIN order = 1..n
  BY <1>2
<1>5. PICK f : /\ Registrations(f, u, place, order)
               /\ RegisterAll(u, place, order) = f[n]
  <2>1. \A k \in 1..n : ca.pods[order[k]] \in Nodes /\ place[order[k]] \in Nodes
    BY <1>3
  <2> QED
    BY <1>2, <1>4, <2>1, RegisterAllSteps
<1> DEFINE S == {k \in 0..n : f[k] \in Records /\ H(k) \in Histories /\ Covers(f[k], H(k))}
<1>6. 0 \in S
  <2>1. H(0) = h
    BY DEF UseSome, Histories
  <2> QED
    BY <1>2, <1>5, <2>1 DEF Registrations
<1>7. ASSUME NEW k \in 1..n, k - 1 \in S PROVE k \in S
  <2> DEFINE a == ca.pods[order[k]]
             b == place[order[k]]
  <2>1. a \in Nodes /\ b \in Nodes /\ a # b
    BY <1>3
  <2>2. f[k - 1] \in Records /\ H(k - 1) \in Histories /\ Covers(f[k - 1], H(k - 1))
    BY <1>7
  <2>3. H(k) = Used(H(k - 1), a, b)
    <3>1. \A p, q \in Nodes : H(k)[p][q] = Used(H(k - 1), a, b)[p][q]
      <4>1. 1..k = 1..(k - 1) \cup {k}
        BY <1>2
      <4>2. ASSUME NEW p \in Nodes, NEW q \in Nodes
            PROVE  H(k)[p][q] = IF p = a /\ q = b THEN 0 ELSE H(k - 1)[p][q]
        BY <4>1 DEF UseSome
      <4>3. ASSUME NEW p \in Nodes, NEW q \in Nodes
            PROVE  Used(H(k - 1), a, b)[p][q] = IF p = a /\ q = b THEN 0 ELSE H(k - 1)[p][q]
        BY <2>1, <2>2 DEF Used, Histories
      <4> QED
        BY <4>2, <4>3
    <3>2. H(k) \in Histories
      BY EmptyTypes DEF UseSome, Histories
    <3>3. Used(H(k - 1), a, b) \in Histories
      BY <2>1, <2>2, UsedType
    <3> QED
      BY <3>1, <3>2, <3>3, SameHistory
  <2>4. f[k] = RegisterUsage(f[k - 1], a, b)
    BY <1>4, <1>5 DEF Registrations
  <2> HIDE DEF H, a, b
  <2>5. f[k] \in Records /\ H(k) \in Histories /\ Covers(f[k], H(k))
    BY <2>1, <2>2, <2>3, <2>4, RegisterType, UsedType, RegisterCovers
  <2> QED
    BY <1>2, <2>5
<1> HIDE DEF S
<1>8. n \in S
  BY <1>2, <1>6, <1>7, StepByStep
<1>9. H(n) = UseAll(h, place)
  <2>1. \A a, b \in Nodes : (\E i \in 1..n : ca.pods[order[i]] = a /\ place[order[i]] = b)
                              <=> \E p \in DOMAIN place : ca.pods[p] = a /\ place[p] = b
    BY <1>2
  <2> QED
    BY <2>1 DEF UseSome, UseAll
<1> QED
  BY <1>5, <1>8, <1>9 DEF S

\* Records and timers after each of the removals.
Results == [usage : Records, unneeded : [Nodes -> Ages]]
Removals(f, u, order) ==
  /\ f[0] = [usage |-> u, unneeded |-> unneeded]
  /\ \A k \in DOMAIN order : f[k] = RemoveOne(f[k - 1], order[k])

LEMMA RemoveType ==
  ASSUME NEW acc \in Results, NEW n \in Nodes PROVE RemoveOne(acc, n) \in Results
<1>1. acc.usage \in Records /\ acc.unneeded \in [Nodes -> Ages]
  BY DEF Results
<1> QED
  BY <1>1, UnregisterType, StoppedType DEF RemoveOne, Results

\* RemoveAll is one RemoveNodeFromTracker after the other.
LEMMA RemoveAllSteps ==
  ASSUME NEW n \in Nat, NEW order, DOMAIN order = 1..n, NEW u \in Records,
         unneeded \in [Nodes -> Ages], \A k \in 1..n : order[k] \in Nodes
  PROVE  \E f : /\ Removals(f, u, order)
                /\ RemoveAll(u, order) = f[n]
<1> DEFINE R(acc, k) == RemoveOne(acc, order[k])
           b == [usage |-> u, unneeded |-> unneeded]
           Fold(g) == g = [s \in SUBSET (1..n) |-> IF s = {} THEN b
                             ELSE R(g[s \ {Max(s)}], Max(s))]
           G == CHOOSE g : Fold(g)
<1>1. RemoveAll(u, order) = G[1..n]
  BY Zenon DEF RemoveAll, FoldLeft, MapThenFoldSet
<1>0. b \in Results
  BY DEF Results
<1> HIDE DEF b
<1>2. \E g : Fold(g)
  <2> DEFINE F == [k \in 1..n |-> [acc \in Results |-> R(acc, k)]]
             c == [s \in SUBSET (1..n) |-> Max(s)]
  <2>1. \A k \in 1..n : \A acc \in Results : R(acc, k) \in Results
    BY RemoveType
  <2> HIDE DEF R
  <2>2. F \in [1..n -> [Results -> Results]]
    BY <2>1
  <2>3. \A k \in 1..n : \A acc \in Results : F[k][acc] = R(acc, k)
    OBVIOUS
  <2>4. \A s \in SUBSET (1..n) : c[s] = Max(s)
    OBVIOUS
  <2>5. IsChoice(c, 1..n)
    BY <2>4, MaxChosen DEF IsChoice
  <2> HIDE DEF F, c
  <2>6. PICK g : IsFold(g, 1..n, Results, b, F, c)
    <3>1. IsFiniteSet(1..n)
      BY FS_Interval
    <3> QED
      BY <1>0, <2>2, <2>5, <3>1, FoldExists, Zenon
  <2>7. \A s \in SUBSET (1..n) : g[s] = IF s = {} THEN b ELSE R(g[s \ {Max(s)}], Max(s))
    BY <2>3, <2>4, <2>6, MaxChosen DEF IsFold
  <2>8. g = [s \in SUBSET (1..n) |-> IF s = {} THEN b ELSE R(g[s \ {Max(s)}], Max(s))]
    BY <2>6, <2>7 DEF IsFold
  <2> QED
    BY <2>8
<1> HIDE DEF R
<1>3. Fold(G)
  BY <1>2, Zenon
<1> HIDE DEF G
<1> DEFINE f == [k \in 0..n |-> G[1..k]]
<1>4. f[0] = b
  <2>1. 1..0 = {} /\ 0 \in 0..n
    OBVIOUS
  <2> QED
    BY <1>3, <2>1
<1>5. ASSUME NEW k \in 1..n PROVE f[k] = R(f[k - 1], k)
  <2>1. /\ Max(1..k) = k /\ (1..k) \ {k} = 1..(k - 1) /\ 1..k # {}
        /\ 1..k \in SUBSET (1..n) /\ k \in 0..n /\ k - 1 \in 0..n
    BY MaxOfInterval
  <2> QED
    BY <1>3, <2>1
<1>6. RemoveAll(u, order) = f[n]
  BY <1>1
<1> HIDE DEF f
<1> QED
  BY <1>4, <1>5, <1>6 DEF R, Removals, b

\* The history without the first k nodes of a list.
ForgetSome(h, order, k) ==
  [a \in Nodes |-> [b \in Nodes |->
     IF \E i \in 1..k : order[i] \in {a, b} THEN Absent ELSE h[a][b]]]

\* Two nodes counted on the space of a node that stays.
SharedRest(h, order, v, c) ==
  \E x \in Nodes \ Range(order) : h[v][x] \in Fresh /\ h[c][x] \in Fresh

\* One removal: the history stays covered, no timer is started, and those of the node and
\* of all that shared space with it are stopped.
LEMMA RemoveCovers ==
  ASSUME NEW acc \in Results, NEW h \in Histories, Covers(acc.usage, h), NEW n \in Nodes
  PROVE  /\ Covers(RemoveOne(acc, n).usage, Forget(h, n))
         /\ \A c \in Nodes : RemoveOne(acc, n).unneeded[c] \in {Absent, acc.unneeded[c]}
         /\ RemoveOne(acc, n).unneeded[n] = Absent
         /\ \A c \in Nodes : Share(h, n, c) => RemoveOne(acc, n).unneeded[c] = Absent
<1>1. acc.usage \in Records /\ acc.unneeded \in [Nodes -> Ages]
  BY DEF Results
<1>2. Covers(RemoveOne(acc, n).usage, Forget(h, n))
  BY <1>1, UnregisterCovers DEF RemoveOne
<1>3. \A c \in Nodes : RemoveOne(acc, n).unneeded[c] =
        IF c \in {n} \cup KeysToRemove(acc.usage, n) THEN Absent ELSE acc.unneeded[c]
  BY DEF RemoveOne, Stopped
<1>4. \A c \in Nodes : Share(h, n, c) => c \in KeysToRemove(acc.usage, n)
  BY <1>1, SharersAreFound
<1> QED
  BY <1>2, <1>3, <1>4

\* The removals of a list of nodes.
LEMMA RemovalsCover ==
  ASSUME NEW n \in Nat, NEW order \in [1..n -> Nodes],
         \A i, j \in 1..n : i # j => order[i] # order[j],
         unneeded \in [Nodes -> Ages], NEW u \in Records, NEW h \in Histories, Covers(u, h)
  PROVE  /\ RemoveAll(u, order) \in Results
         /\ ForgetSome(h, order, n) \in Histories
         /\ Covers(RemoveAll(u, order).usage, ForgetSome(h, order, n))
         /\ \A c \in Nodes : RemoveAll(u, order).unneeded[c] \in {Absent, unneeded[c]}
         /\ \A i \in 1..n : \A c \in Nodes :
              SharedRest(h, order, order[i], c) => RemoveAll(u, order).unneeded[c] = Absent
<1> DEFINE H(k) == ForgetSome(h, order, k)
<1>1. DOMAIN order = 1..n /\ \A k \in 1..n : order[k] \in Nodes
  OBVIOUS
<1>2. PICK f : Removals(f, u, order) /\ RemoveAll(u, order) = f[n]
  BY <1>1, RemoveAllSteps
<1> DEFINE Good(k) ==
             /\ f[k] \in Results /\ H(k) \in Histories /\ Covers(f[k].usage, H(k))
             /\ \A c \in Nodes : f[k].unneeded[c] \in {Absent, unneeded[c]}
             /\ \A i \in 1..k : f[k].unneeded[order[i]] = Absent
             /\ \A i \in 1..k : \A c \in Nodes :
                  SharedRest(h, order, order[i], c) => f[k].unneeded[c] = Absent
           S == {k \in 0..n : Good(k)}
<1>3. 0 \in S
  <2>1. H(0) = h
    BY DEF ForgetSome, Histories
  <2>2. f[0] = [usage |-> u, unneeded |-> unneeded]
    BY <1>2 DEF Removals
  <2>3. f[0] \in Results /\ f[0].usage = u /\ f[0].unneeded = unneeded
    BY <2>2 DEF Results
  <2> QED
    BY <2>1, <2>3
<1>4. ASSUME NEW k \in 1..n, k - 1 \in S PROVE k \in S
  <2> DEFINE m == order[k]
  <2>1. m \in Nodes /\ Good(k - 1) /\ k - 1 \in 0..n /\ k \in 0..n
    BY <1>4
  <2>2. 1..k = 1..(k - 1) \cup {k}
    OBVIOUS
  <2>3. H(k) = Forget(H(k - 1), m) /\ H(k) \in Histories
    <3>1. Forget(H(k - 1), m) \in Histories
      BY <2>1, ForgetType
    <3>2. H(k) \in Histories
      BY EmptyTypes DEF ForgetSome, Histories
    <3>3. ASSUME NEW a \in Nodes, NEW b \in Nodes
          PROVE  H(k)[a][b] = Forget(H(k - 1), m)[a][b]
      BY <2>2 DEF ForgetSome, Forget
    <3> QED
      BY <3>1, <3>2, <3>3, SameHistory
  <2>4. f[k] = RemoveOne(f[k - 1], m)
    BY <1>1, <1>2 DEF Removals
  <2>5. f[k] \in Results
    BY <2>1, <2>4, RemoveType
  <2>6. /\ Covers(f[k].usage, H(k))
        /\ \A c \in Nodes : f[k].unneeded[c] \in {Absent, f[k - 1].unneeded[c]}
        /\ f[k].unneeded[m] = Absent
        /\ \A c \in Nodes : Share(H(k - 1), m, c) => f[k].unneeded[c] = Absent
    BY <2>1, <2>3, <2>4, RemoveCovers
  <2>7. \A c \in Nodes : f[k].unneeded[c] \in {Absent, unneeded[c]}
    BY <2>1, <2>6
  <2>8. \A i \in 1..k : f[k].unneeded[order[i]] = Absent
    BY <1>1, <2>1, <2>2, <2>6
  <2>9. ASSUME NEW c \in Nodes, SharedRest(h, order, m, c) PROVE f[k].unneeded[c] = Absent
    <3>1. PICK x \in Nodes : /\ \A i \in 1..n : order[i] # x
                             /\ h[m][x] \in Fresh /\ h[c][x] \in Fresh
      BY <1>1, <2>9 DEF SharedRest, Range
    <3>2. \A i \in 1..(k - 1) : i \in 1..n /\ order[i] # m /\ order[i] # x
      BY <3>1
    <3>3. CASE \E i \in 1..(k - 1) : order[i] = c
      BY <2>8, <3>3
    <3>4. CASE \A i \in 1..(k - 1) : order[i] # c
      <4>1. H(k - 1)[m][x] = h[m][x] /\ H(k - 1)[c][x] = h[c][x]
        BY <2>1, <3>2, <3>4 DEF ForgetSome
      <4> QED
        BY <2>6, <3>1, <4>1 DEF Share
    <3> QED
      BY <3>3, <3>4
  <2>10. \A i \in 1..k : \A c \in Nodes :
           SharedRest(h, order, order[i], c) => f[k].unneeded[c] = Absent
    BY <2>1, <2>2, <2>6, <2>9
  <2> QED
    BY <2>1, <2>3, <2>5, <2>6, <2>7, <2>8, <2>10
<1> HIDE DEF S
<1>5. n \in S
  BY <1>3, <1>4, StepByStep
<1> QED
  BY <1>2, <1>5 DEF S

\* A node whose timer runs has not shared space with a removed node since it started.
Timers ==
  /\ sharedAge \in [Nodes -> 0..(UnneededTime + 1)]
  /\ \A n \in Nodes : unneeded[n] <= sharedAge[n]

RoomInv == TrackerInv /\ Timers

\* Candidates are nodes whose timer has run for UnneededTime.
LEMMA CandidatesRested ==
  ASSUME LoopType, RoomInv, NEW n \in Candidates
  PROVE  n \in Nodes /\ sharedAge[n] > UnneededTime
<1>1. n \in Nodes /\ unneeded[n] > UnneededTime
  BY DEF Candidates, LoopType
<1>2. unneeded[n] \in Ages /\ unneeded[n] <= sharedAge[n] /\ sharedAge[n] \in 0..(UnneededTime + 1)
  BY <1>1 DEF RoomInv, TrackerInv, Timers
<1> QED
  BY <1>1, <1>2, TrackerAssumption DEF Ages, Absent

LEMMA SameRoom == ASSUME RoomInv, UNCHANGED <<trackerVars, sharedAge>> PROVE RoomInv'
BY DEF RoomInv, TrackerInv, Timers, Covers, trackerVars

LEMMA RoomStart == ASSUME Init PROVE RoomInv
<1>1. TrackerInv
  BY TrackerStart DEF Init
<1>2. Timers
  BY TrackerAssumption DEF Init, TrackerInit, Timers, EmptyMap, Absent
<1> QED
  BY <1>1, <1>2 DEF RoomInv

\* Any number of removals: those that shared space start anew.
LEMMA RemovalRoom ==
  ASSUME RoomInv, NEW ns \in SUBSET Nodes, NEW order \in SetToSeqs(ns),
         NEW u \in Records, NEW h \in Histories, Covers(u, h), Removal(u, h, order)
  PROVE  RoomInv'
<1> DEFINE n == Cardinality(ns)
<1>1. /\ n \in Nat /\ order \in [1..n -> Nodes]
      /\ \A i, j \in 1..n : i # j => order[i] # order[j]
  BY NodesFinite, Permutation
<1>2. unneeded \in [Nodes -> Ages] /\ Timers
  BY DEF RoomInv, TrackerInv
<1> HIDE DEF n
<1>3. /\ RemoveAll(u, order) \in Results
      /\ ForgetSome(h, order, n) \in Histories
      /\ Covers(RemoveAll(u, order).usage, ForgetSome(h, order, n))
      /\ \A c \in Nodes : RemoveAll(u, order).unneeded[c] \in {Absent, unneeded[c]}
      /\ \A i \in 1..n : \A c \in Nodes :
           SharedRest(h, order, order[i], c) => RemoveAll(u, order).unneeded[c] = Absent
  BY <1>1, <1>2, RemovalsCover
<1>4. usage' = RemoveAll(u, order).usage /\ unneeded' = RemoveAll(u, order).unneeded
  BY DEF Removal
<1>5. uses' = ForgetSome(h, order, n)
  <2>1. Range(order) = {order[i] : i \in 1..n}
    BY <1>1 DEF Range
  <2>2. \A a, b \in Nodes : {a, b} \cap Range(order) # {} <=> \E i \in 1..n : order[i] \in {a, b}
    BY <2>1
  <2> QED
    BY <2>2 DEF Removal, ForgetSome
<1>6. TrackerInv'
  BY <1>3, <1>4, <1>5 DEF TrackerInv, Results, Covers
<1>7. \A c \in Nodes : sharedAge'[c] =
        IF \E v \in Range(order) : SharedRest(h, order, v, c) THEN 0 ELSE sharedAge[c]
  BY DEF Removal, SharedRest
<1>8. sharedAge' \in [Nodes -> 0..(UnneededTime + 1)]
  <2>1. sharedAge' = [c \in Nodes |->
          IF \E v \in Range(order) : SharedRest(h, order, v, c) THEN 0 ELSE sharedAge[c]]
    BY DEF Removal, SharedRest
  <2> QED
    BY <1>2, <2>1, TrackerAssumption DEF Timers
<1>9. ASSUME NEW c \in Nodes PROVE unneeded'[c] <= sharedAge'[c]
  <2>1. unneeded[c] <= sharedAge[c] /\ sharedAge[c] \in Nat
    BY <1>2 DEF Timers
  <2>2. unneeded'[c] \in {Absent, unneeded[c]}
    BY <1>3, <1>4
  <2>3. CASE \E v \in Range(order) : SharedRest(h, order, v, c)
    <3>1. PICK i \in 1..n : SharedRest(h, order, order[i], c)
      BY <1>1, <2>3 DEF Range
    <3>2. unneeded'[c] = Absent /\ sharedAge'[c] = 0
      BY <1>3, <1>4, <1>7, <2>3, <3>1
    <3> QED
      BY <3>2 DEF Absent
  <2>4. CASE ~\E v \in Range(order) : SharedRest(h, order, v, c)
    BY <1>7, <2>1, <2>2, <2>4 DEF Absent
  <2> QED
    BY <2>3, <2>4
<1> QED
  BY <1>6, <1>8, <1>9 DEF RoomInv, Timers

\* A node that is still unneeded keeps its timer; the timer of another starts at 0.
LEMMA FindRoom == ASSUME LoopType, RoomInv, FindUnneededNodes PROVE RoomInv'
<1> DEFINE low == {n \in ca.nodes : /\ Cardinality(On(ca.pods, n)) < Threshold
                                    /\ CanDrain(n)}
<1>1. PICK place \in Simulations(low) : \E order \in Orders(place) :
        /\ usage' = RegisterAll(CleanUp(usage), place, order)
        /\ uses' = UseAll(uses, place)
  BY DEF FindUnneededNodes
<1>2. unneeded' = [n \in Nodes |-> IF n \in low /\ FindsPlace(n)
                                     THEN Max({0, unneeded[n]}) ELSE Absent]
  BY DEF FindUnneededNodes
<1>3. low \in SUBSET Nodes
  BY DEF LoopType
<1> HIDE DEF low
<1>4. CleanUp(usage) \in Records /\ uses \in Histories /\ Covers(CleanUp(usage), uses)
  BY CleanUpType, CleanUpCovers DEF RoomInv, TrackerInv
<1>5. usage' \in Records /\ uses' \in Histories /\ Covers(usage', uses')
  BY <1>1, <1>3, <1>4, RegisterAllCovers
<1>6. ASSUME NEW n \in Nodes PROVE unneeded'[n] \in Ages /\ unneeded'[n] <= sharedAge[n]
  <2>1. unneeded[n] \in Ages /\ unneeded[n] <= sharedAge[n] /\ sharedAge[n] \in Nat
    BY DEF RoomInv, TrackerInv, Timers
  <2>2. unneeded[n] \in Int
    BY <2>1, TrackerAssumption DEF Ages, Absent
  <2>3. Max({0, unneeded[n]}) \in {0, unneeded[n]}
    <3>1. \E x \in {0, unneeded[n]} : \A y \in {0, unneeded[n]} : x >= y
      BY <2>2
    <3> QED
      BY <3>1, Zenon DEF Max
  <2>4. unneeded'[n] \in {Absent, 0, unneeded[n]}
    BY <1>2, <2>3
  <2> QED
    BY <2>1, <2>4, EmptyTypes DEF Absent
<1>7. unneeded' \in [Nodes -> Ages]
  BY <1>2, <1>6
<1>8. sharedAge' = sharedAge
  BY DEF FindUnneededNodes
<1> QED
  BY <1>5, <1>6, <1>7, <1>8 DEF RoomInv, TrackerInv, Timers, Covers

\* Several empty nodes, or one with the registrations of its own simulation.
LEMMA ScaleDownEmptyRoom ==
  ASSUME LoopInv, RoomInv, ScaleDownEmpty PROVE RoomInv'
<1>1. PICK ns \in getEmptyNodes : \E order \in SetToSeqs(ns) : Removal(usage, uses, order)
  BY DEF ScaleDownEmpty
<1>2. ns \in SUBSET Nodes
  BY <1>1, OneOfEach DEF Candidates, LoopInv, LoopType
<1> QED
  BY <1>1, <1>2, RemovalRoom DEF RoomInv, TrackerInv

LEMMA ScaleDownOneRoom ==
  ASSUME LoopInv, RoomInv, ScaleDownOne PROVE RoomInv'
<1>1. PICK n \in Candidates : \E place \in Simulations({n}) : \E order \in Orders(place) :
        Removal(RegisterAll(usage, place, order), UseAll(uses, place), <<n>>)
  BY DEF ScaleDownOne
<1>2. PICK place \in Simulations({n}) : \E order \in Orders(place) :
        Removal(RegisterAll(usage, place, order), UseAll(uses, place), <<n>>)
  BY <1>1
<1>3. PICK order \in Orders(place) :
        Removal(RegisterAll(usage, place, order), UseAll(uses, place), <<n>>)
  BY <1>2
<1>4. {n} \in SUBSET Nodes /\ LoopType
  BY DEF Candidates, LoopInv, LoopType
<1>5. /\ RegisterAll(usage, place, order) \in Records /\ UseAll(uses, place) \in Histories
      /\ Covers(RegisterAll(usage, place, order), UseAll(uses, place))
  BY <1>4, RegisterAllCovers DEF RoomInv, TrackerInv
<1>6. <<n>> \in SetToSeqs({n})
  <2>1. Cardinality({n}) = 1
    BY FS_Singleton
  <2>2. <<n>> \in [1..1 -> {n}] /\ \A i, j \in 1..1 : i = j
    OBVIOUS
  <2> QED
    BY <2>1, <2>2 DEF SetToSeqs
<1> QED
  BY <1>3, <1>4, <1>5, <1>6, RemovalRoom

\* Both ages stop growing at the same age.
LEMMA TickRoom == ASSUME RoomInv, Tick PROVE RoomInv'
<1>1. TrackerInv'
  BY AgedTypes, AgedCovers, MapTypes DEF RoomInv, TrackerInv, Tick, Covers
<1>2. Timers'
  <2>1. ASSUME NEW n \in Nodes
        PROVE  /\ Older(unneeded[n]) <= Older(sharedAge[n])
               /\ Older(sharedAge[n]) \in 0..(UnneededTime + 1)
    <3>1. unneeded[n] \in Ages /\ unneeded[n] <= sharedAge[n]
          /\ sharedAge[n] \in 0..(UnneededTime + 1)
      BY DEF RoomInv, TrackerInv, Timers
    <3> QED
      BY <3>1, TrackerAssumption DEF Older, Fresh, Ages, Absent
  <2> QED
    BY <2>1 DEF Tick, Timers, AgedMap
<1> QED
  BY <1>1, <1>2 DEF RoomInv

LEMMA RestartRoom == ASSUME RoomInv, Restart PROVE RoomInv'
<1>1. /\ usage' \in Records /\ unneeded' \in [Nodes -> Ages] /\ uses' \in Histories
      /\ \A a, b \in Nodes : uses'[a][b] = Absent
      /\ \A n \in Nodes : unneeded'[n] = Absent
      /\ sharedAge' = sharedAge
  BY EmptyTypes DEF Restart, Records, Histories, EmptyMap
<1>2. Covers(usage', uses')
  BY <1>1, EmptyTypes DEF Covers
<1>3. Timers'
  BY <1>1 DEF RoomInv, Timers, Absent
<1> QED
  BY <1>1, <1>2, <1>3 DEF RoomInv, TrackerInv, Covers

\* A new node has shared nothing.
LEMMA JoinRoom == ASSUME RoomInv, NEW n \in Nodes, Join(n) PROVE RoomInv'
<1>1. UNCHANGED trackerVars /\ sharedAge' = [sharedAge EXCEPT ![n] = UnneededTime + 1]
  BY DEF Join
<1>2. TrackerInv'
  BY <1>1 DEF RoomInv, TrackerInv, Covers, trackerVars
<1>3. Timers'
  <2>1. unneeded[n] \in Ages /\ unneeded[n] <= UnneededTime + 1
    BY TrackerAssumption DEF RoomInv, TrackerInv, Ages, Absent
  <2> QED
    BY <1>1, <2>1, TrackerAssumption DEF RoomInv, Timers, trackerVars
<1> QED
  BY <1>2, <1>3 DEF RoomInv

LEMMA RoomKept == ASSUME LoopInv, RoomInv, [Next]_vars PROVE RoomInv'
<1>1. CASE FindUnneededNodes
  BY <1>1, FindRoom DEF LoopInv
<1>2. CASE ScaleDownEmpty \/ ScaleDownOne
  BY <1>2, ScaleDownEmptyRoom, ScaleDownOneRoom
<1>3. CASE Restart \/ Tick
  BY <1>3, RestartRoom, TickRoom
<1>4. CASE \E n \in Nodes : Join(n)
  BY <1>4, JoinRoom
<1>5. CASE UNCHANGED <<trackerVars, sharedAge>>
  BY <1>5, SameRoom
<1> QED
  BY <1>1, <1>2, <1>3, <1>4, <1>5
     DEF Next, Pass, Cluster, ListNodes, ListPods, ScaleUp, ScaleUpWithoutOptions,
         NothingToScaleDown, ScaleDownNone, MarkToBeDeleted, DrainNode, CheckSize,
         DeleteInstance, Vanish, Heartbeat, Reflect, Bind, MarkUnschedulable, CreatePod,
         FinishPod, vars

\* Who is picked has had its timer run for UnneededTime.
LEMMA PickedAreCandidates ==
  ASSUME LoopInv, [Next]_vars, NEW n \in Nodes, Picked(n) PROVE n \in Candidates
<1>1. ca.pc = "down" /\ n \in ca'.victims /\ ca.victims = {}
  BY DEF Picked, LoopInv, Victims
<1>2. CASE ca' = ca \/ ca' = IdleCA
  BY <1>1, <1>2, IdleType
<1>3. CASE ScaleDownEmpty
  <2>1. PICK ns \in getEmptyNodes : ca' = [ca EXCEPT !.pc = "delete", !.victims = ns]
    BY <1>3 DEF ScaleDownEmpty
  <2> QED
    BY <1>1, <2>1, OneOfEach DEF LoopInv, LoopType
<1>4. CASE ScaleDownOne
  BY <1>1, <1>4 DEF ScaleDownOne, LoopInv, LoopType
<1> QED
  BY <1>1, <1>2, <1>3, <1>4
     DEF Next, Pass, Cluster, ListNodes, ListPods, ScaleUp, ScaleUpWithoutOptions,
         FindUnneededNodes, NothingToScaleDown, ScaleDownNone, MarkToBeDeleted, DrainNode,
         CheckSize, DeleteInstance, Restart, Join, Vanish, Heartbeat, Reflect, Bind,
         MarkUnschedulable, CreatePod, FinishPod, Tick, vars

(***************************************************************************)
(* Types                                                                   *)
(***************************************************************************)

\* What TypeOK says beyond LoopInv and RoomInv.
RestType ==
  /\ taint \subseteq Nodes /\ cachedTaint \subseteq Nodes
  /\ pod \in [Pods -> Places]
  /\ settling \in BOOLEAN
  /\ upAge \in 0..ScaleDownDelay /\ failAge \in 0..TrialInterval
  /\ disruptions \in 0..MaxDisruptions
  /\ ca.pc \in {"mark", "evict", "delete"} => ca.victims # {}

LEMMA AllTypes == ASSUME LoopInv, RoomInv, RestType PROVE TypeOK
<1>1. TrackerTypeOK
  BY DEF RoomInv, TrackerInv, TrackerTypeOK, Records, Histories
<1>2. ca \in [pc : {"idle", "list", "up", "find", "down", "mark", "evict", "delete",
                   "panic"},
             nodes : SUBSET Nodes, pods : [Pods -> Nodes \cup {Nowhere}],
             help : SUBSET Pods, schedulable : BOOLEAN,
             victims : SUBSET Nodes, sized : SUBSET Nodes]
  <2>1. InPass \cup {"idle", "delete", "panic"} =
          {"idle", "list", "up", "find", "down", "mark", "evict", "delete", "panic"}
    BY DEF InPass
  <2> QED
    BY <2>1 DEF LoopInv, LoopType
<1>3. /\ ca.sized \subseteq ca.victims
      /\ \A n \in ca.victims : GroupOf[n] \in Groups
      /\ (ca.victims # {}) <=> (ca.pc \in {"mark", "evict", "delete"})
  BY DEF LoopInv, Victims, RestType
<1>4. sharedAge \in [Nodes -> Ages]
  BY TrackerAssumption DEF RoomInv, Timers, Ages, Absent
<1> QED
  BY <1>1, <1>2, <1>3, <1>4 DEF TypeOK, LoopInv, LoopType, RestType

LEMMA RestStart == ASSUME Init PROVE RestType
<1>1. ca.pc = "idle"
  BY IdleType DEF Init
<1>2. 0 \in 0..ScaleDownDelay /\ 0 \in 0..TrialInterval /\ 0 \in 0..MaxDisruptions
  BY AutoscalerAssumption
<1>3. taint = {} /\ cachedTaint = {} /\ pod \in [Pods -> Places] /\ settling = FALSE
  BY AutoscalerAssumption DEF Init
<1> QED
  BY <1>1, <1>2, <1>3 DEF Init, RestType

\* A pod gets a place, or waits for one.
LEMMA PodTypes ==
  /\ Nodes \subseteq Places /\ Pending \subseteq Places /\ "absent" \in Places
  /\ {"new", "stale", "hidden", "unschedulable"} \subseteq Places
BY DEF Places, Pending

\* The clocks of the loop stop at their delays.
LEMMA Clock == ASSUME NEW d \in Nat, NEW up \in 0..d PROVE Smaller(up + 1, d) \in 0..d
BY DEF Smaller

LEMMA DisruptType ==
  ASSUME RestType, NEW kind, Disrupt(kind) PROVE disruptions' \in 0..MaxDisruptions
BY AutoscalerAssumption DEF RestType, Disrupt

\* Nodes and taints.
LEMMA RestTaints ==
  ASSUME LoopInv, RestType, [Next]_vars
  PROVE  taint' \subseteq Nodes /\ cachedTaint' \subseteq Nodes
<1>1. ca.victims \subseteq Nodes
  BY DEF LoopInv, LoopType
<1> QED
  BY <1>1 DEF RestType, Next, Pass, Cluster, ListNodes, ListPods, ScaleUp, ScaleUpWithoutOptions,
         FindUnneededNodes, NothingToScaleDown, ScaleDownEmpty, ScaleDownOne, ScaleDownNone,
         MarkToBeDeleted, DrainNode,
         CheckSize, DeleteInstance, Restart, Join, Vanish, Heartbeat, Reflect, Bind,
         MarkUnschedulable, CreatePod, FinishPod, Tick, vars, apiVars

LEMMA RestPods == ASSUME RestType, [Next]_vars PROVE pod' \in [Pods -> Places]
<1> USE PodTypes DEF RestType
<1>1. CASE ListPods
  <2> DEFINE Reset(failed) == [p \in Pods |-> IF p \notin PodsToReset THEN pod[p]
                                 ELSE IF p \in failed THEN "hidden" ELSE "new"]
  <2>1. \A failed : Reset(failed) \in [Pods -> Places]
    OBVIOUS
  <2>2. pod' = Reset({}) \/ \E failed \in (SUBSET PodsToReset) \ {{}} : pod' = Reset(failed)
    BY <1>1 DEF ListPods
  <2> HIDE DEF Reset
  <2> QED
    BY <2>1, <2>2
<1>2. CASE DrainNode
  <2>1. PICK ps : pod' = [p \in Pods |-> IF p \in ps THEN "new" ELSE pod[p]]
    BY <1>2 DEF DrainNode
  <2> QED
    BY <2>1
<1>3. CASE Restart
  BY <1>3 DEF Restart
<1>4. CASE \E n \in Nodes : Join(n) \/ Vanish(n)
  BY <1>4 DEF Join, Vanish
<1>5. CASE \E p \in Pods : \E n \in Nodes : Bind(p, n)
  BY <1>5 DEF Bind
<1>6. CASE \E p \in Pods : MarkUnschedulable(p) \/ Reflect(p) \/ CreatePod(p) \/ FinishPod(p)
  BY <1>6 DEF MarkUnschedulable, Reflect, CreatePod, FinishPod
<1>7. CASE UNCHANGED pod
  BY <1>7
<1> QED
  BY <1>1, <1>2, <1>3, <1>4, <1>5, <1>6, <1>7
     DEF Next, Pass, Cluster, ListNodes, ScaleUp, ScaleUpWithoutOptions,
         FindUnneededNodes, NothingToScaleDown, ScaleDownEmpty, ScaleDownOne, ScaleDownNone,
         MarkToBeDeleted, CheckSize, DeleteInstance, Heartbeat, Tick, vars, apiVars

LEMMA RestClocks ==
  ASSUME RestType, [Next]_vars
  PROVE  /\ settling' \in BOOLEAN
         /\ upAge' \in 0..ScaleDownDelay /\ failAge' \in 0..TrialInterval
<1>1. ScaleDownDelay \in Nat /\ TrialInterval \in Nat
  BY AutoscalerAssumption
<1>2. /\ settling' \in {settling, TRUE, FALSE}
      /\ upAge' \in {upAge, 0, Smaller(upAge + 1, ScaleDownDelay)}
      /\ failAge' \in {failAge, 0, Smaller(failAge + 1, TrialInterval)}
  BY DEF Next, Pass, Cluster, ListNodes, ListPods, ScaleUp, ScaleUpWithoutOptions,
         FindUnneededNodes, NothingToScaleDown, ScaleDownEmpty, ScaleDownOne, ScaleDownNone,
         MarkToBeDeleted, DrainNode,
         CheckSize, DeleteInstance, Restart, Join, Vanish, Heartbeat, Reflect, Bind,
         MarkUnschedulable, CreatePod, FinishPod, Tick, vars, apiVars, timeVars
<1>3. settling \in BOOLEAN /\ upAge \in 0..ScaleDownDelay /\ failAge \in 0..TrialInterval
  BY DEF RestType
<1>4. settling' \in BOOLEAN
  BY <1>2, <1>3, Zenon
<1>5. upAge' \in 0..ScaleDownDelay /\ failAge' \in 0..TrialInterval
  <2>1. /\ Smaller(upAge + 1, ScaleDownDelay) \in 0..ScaleDownDelay
        /\ Smaller(failAge + 1, TrialInterval) \in 0..TrialInterval
    BY <1>1, <1>3, Clock
  <2> QED
    BY <1>1, <1>2, <1>3, <2>1
<1> QED
  BY <1>4, <1>5

LEMMA RestDisruptions == ASSUME RestType, [Next]_vars PROVE disruptions' \in 0..MaxDisruptions
<1>1. \/ UNCHANGED disruptions
      \/ \E kind \in {"api", "slow", "crash", "create", "finish"} : Disrupt(kind)
  BY DEF Next, Pass, Cluster, ListNodes, ListPods, ScaleUp, ScaleUpWithoutOptions,
         FindUnneededNodes, NothingToScaleDown, ScaleDownEmpty, ScaleDownOne, ScaleDownNone,
         MarkToBeDeleted, DrainNode,
         CheckSize, DeleteInstance, Restart, Join, Vanish, Heartbeat, Reflect, Bind,
         MarkUnschedulable, CreatePod, FinishPod, Tick, vars
<1> QED
  BY <1>1, DisruptType DEF RestType

\* A pass that deletes always has something left to delete.
LEMMA RestVictims ==
  ASSUME LoopInv, RestType, [Next]_vars, ca'.pc \in {"mark", "evict", "delete"}
  PROVE  ca'.victims # {}
<1>1. CASE ca' = ca \/ ca' = IdleCA
  BY <1>1, IdleType DEF RestType
<1>2. CASE ListNodes \/ ListPods \/ ScaleUpWithoutOptions \/ FindUnneededNodes
  <2>1. CASE ListNodes
    BY <2>1 DEF ListNodes, LoopInv, LoopType
  <2>2. CASE ListPods
    BY <2>2 DEF ListPods, LoopInv, LoopType
  <2>3. CASE ScaleUpWithoutOptions
    BY <2>3 DEF ScaleUpWithoutOptions, LoopInv, LoopType, IdleCA
  <2>4. CASE FindUnneededNodes
    <3>1. ca' = IdleCA \/ ca' = [ca EXCEPT !.pc = "down"]
      BY <2>4 DEF FindUnneededNodes
    <3> QED
      BY <3>1, IdleType DEF LoopInv, LoopType
  <2> QED
    BY <1>2, <2>1, <2>2, <2>3, <2>4
<1>3. CASE ScaleDownEmpty \/ ScaleDownOne
  <2>1. CASE ScaleDownEmpty
    <3>1. PICK ns \in getEmptyNodes :
            ns # {} /\ ca' = [ca EXCEPT !.pc = "delete", !.victims = ns]
      BY <2>1 DEF ScaleDownEmpty
    <3> QED
      BY <3>1 DEF LoopInv, LoopType
  <2>2. CASE ScaleDownOne
    <3>1. PICK n \in Candidates : ca' = [ca EXCEPT !.pc = "mark", !.victims = {n}]
      BY <2>2 DEF ScaleDownOne
    <3> QED
      BY <3>1 DEF LoopInv, LoopType
  <2> QED
    BY <1>3, <2>1, <2>2
<1>4. CASE MarkToBeDeleted \/ DrainNode
  BY <1>4, IdleType DEF MarkToBeDeleted, DrainNode, LoopInv, LoopType, RestType
<1>5. ASSUME NEW n \in Nodes, CheckSize(n) \/ DeleteInstance(n) PROVE ca'.victims # {}
  <2>1. ca.pc = "delete" /\ n \in ca.victims
    BY <1>5 DEF CheckSize, DeleteInstance, LoopInv, Victims
  <2>2. CASE ca' = Deleted(n)
    <3>1. CASE ca.victims = {n}
      BY <2>2, <3>1, IdleType DEF Deleted
    <3>2. CASE ca.victims # {n}
      BY <2>1, <2>2, <3>2 DEF Deleted, LoopInv, LoopType
    <3> QED
      BY <3>1, <3>2
  <2>3. CASE ca' = [ca EXCEPT !.sized = @ \cup {n}]
    BY <2>1, <2>3 DEF LoopInv, LoopType
  <2> QED
    BY <1>5, <2>2, <2>3 DEF CheckSize, DeleteInstance
<1> QED
  BY <1>1, <1>2, <1>3, <1>4, <1>5
     DEF Next, Pass, Cluster, ScaleUp, NothingToScaleDown, ScaleDownNone, Restart, Join,
         Vanish, Heartbeat, Reflect, Bind, MarkUnschedulable, CreatePod, FinishPod, Tick, vars

(***************************************************************************)
(* The size of the cluster                                                 *)
(***************************************************************************)

\* The sum of TotalInBounds, and the groups in the order in which it is taken.
GroupSum(t) == MapThenSumSet(LAMBDA g : t[g], Groups)
AnyGroup == [s \in SUBSET Groups |-> CHOOSE g \in s : TRUE]

LEMMA AnyGroupChosen ==
  /\ IsFiniteSet(Groups) /\ IsChoice(AnyGroup, Groups)
  /\ \A s \in SUBSET Groups : AnyGroup[s] = CHOOSE g \in s : TRUE
<1>1. \A s \in SUBSET Groups : AnyGroup[s] = CHOOSE g \in s : TRUE
  BY DEF AnyGroup
<1>2. ASSUME NEW s \in SUBSET Groups, s # {} PROVE (CHOOSE g \in s : TRUE) \in s
  <2>1. \E g : g \in s
    BY <1>2
  <2> QED
    BY <2>1, Zenon
<1> QED
  BY <1>1, <1>2, AutoscalerAssumption DEF IsChoice

\* The sums over the subsets of the groups.
Sums(f, t) ==
  \A s \in SUBSET Groups :
    f[s] = IF s = {} THEN 0 ELSE t[AnyGroup[s]] + f[s \ {AnyGroup[s]}]

\* The sum is the last of them.
LEMMA SumSteps ==
  ASSUME NEW t \in [Groups -> Nat] PROVE \E f : Sums(f, t) /\ GroupSum(t) = f[Groups]
<1> DEFINE Ch(s) == CHOOSE g \in s : TRUE
           Fold(g) == g = [s \in SUBSET Groups |-> IF s = {} THEN 0
                             ELSE t[Ch(s)] + g[s \ {Ch(s)}]]
           G == CHOOSE g : Fold(g)
<1>1. GroupSum(t) = G[Groups]
  BY Zenon DEF GroupSum, MapThenSumSet, MapThenFoldSet
<1>2. \A s \in SUBSET Groups : AnyGroup[s] = Ch(s)
  BY AnyGroupChosen
<1> HIDE DEF Ch
<1>3. \E g : Fold(g)
  <2> DEFINE F == [x \in Groups |-> [acc \in Nat |-> t[x] + acc]]
  <2>1. F \in [Groups -> [Nat -> Nat]]
    OBVIOUS
  <2>2. \A x \in Groups : \A acc \in Nat : F[x][acc] = t[x] + acc
    OBVIOUS
  <2>3. 0 \in Nat
    OBVIOUS
  <2> HIDE DEF F
  <2>4. PICK g : IsFold(g, Groups, Nat, 0, F, AnyGroup)
    BY <2>1, <2>3, AnyGroupChosen, FoldExists, Zenon
  <2>5. ASSUME NEW s \in SUBSET Groups
        PROVE  g[s] = IF s = {} THEN 0 ELSE t[Ch(s)] + g[s \ {Ch(s)}]
    <3>1. CASE s = {}
      BY <2>4, <3>1 DEF IsFold
    <3>2. CASE s # {}
      <4>1. AnyGroup[s] \in Groups /\ s \ {AnyGroup[s]} \in SUBSET Groups
        BY <3>2, AnyGroupChosen DEF IsChoice
      <4>2. g[s \ {AnyGroup[s]}] \in Nat /\ g[s] = F[AnyGroup[s]][g[s \ {AnyGroup[s]}]]
        BY <2>4, <3>2, <4>1 DEF IsFold
      <4> QED
        BY <1>2, <2>2, <3>2, <4>1, <4>2
    <3> QED
      BY <3>1, <3>2
  <2>6. g = [s \in SUBSET Groups |-> IF s = {} THEN 0 ELSE t[Ch(s)] + g[s \ {Ch(s)}]]
    BY <2>4, <2>5 DEF IsFold
  <2> QED
    BY <2>6
<1>4. Fold(G)
  BY <1>3, Zenon
<1> HIDE DEF G
<1>5. Sums(G, t)
  BY <1>2, <1>4 DEF Sums
<1> QED
  BY <1>1, <1>5

\* A change of one size changes the sum by as much.
LEMMA SumChanges ==
  ASSUME NEW t \in [Groups -> Nat], NEW g \in Groups, NEW v \in Nat
  PROVE  /\ GroupSum(t) \in Nat /\ GroupSum([t EXCEPT ![g] = v]) \in Nat
         /\ GroupSum([t EXCEPT ![g] = v]) = GroupSum(t) + (v - t[g])
<1> DEFINE r == [t EXCEPT ![g] = v]
<1>1. r \in [Groups -> Nat] /\ r[g] = v /\ \A h \in Groups \ {g} : r[h] = t[h]
  OBVIOUS
<1> HIDE DEF r
<1>2. PICK a : Sums(a, t) /\ GroupSum(t) = a[Groups]
  BY SumSteps
<1>3. PICK b : Sums(b, r) /\ GroupSum(r) = b[Groups]
  BY <1>1, SumSteps
<1> DEFINE T == {s \in SUBSET Groups : /\ a[s] \in Nat /\ b[s] \in Nat
                                       /\ b[s] = a[s] + IF g \in s THEN v - t[g] ELSE 0}
<1>4. {} \in T
  BY <1>2, <1>3 DEF Sums
<1>5. ASSUME NEW s \in SUBSET Groups, s # {}, s \ {AnyGroup[s]} \in T PROVE s \in T
  <2> DEFINE x == AnyGroup[s]
             w == s \ {x}
  <2>1. x \in s /\ x \in Groups
    BY <1>5, AnyGroupChosen DEF IsChoice
  <2>2. a[s] = t[x] + a[w] /\ b[s] = r[x] + b[w]
    BY <1>2, <1>3, <1>5 DEF Sums
  <2>3. /\ a[w] \in Nat /\ b[w] \in Nat /\ b[w] = a[w] + IF g \in w THEN v - t[g] ELSE 0
    BY <1>5
  <2>4. t[x] \in Nat /\ r[x] \in Nat /\ t[g] \in Nat
    BY <1>1, <2>1
  <2>5. CASE x = g
    <3>1. g \in s /\ g \notin w /\ r[x] = v
      BY <1>1, <2>1, <2>5
    <3> HIDE DEF x, w
    <3> QED
      BY <2>2, <2>3, <2>4, <2>5, <3>1
  <2>6. CASE x # g
    <3>1. (g \in s <=> g \in w) /\ r[x] = t[x]
      BY <1>1, <2>1, <2>6
    <3> HIDE DEF x, w
    <3> QED
      BY <2>2, <2>3, <2>4, <3>1
  <2> QED
    BY <2>5, <2>6
<1> HIDE DEF T
<1>6. Groups \in T
  BY <1>4, <1>5, AnyGroupChosen, SetByChoice
<1> QED
  BY <1>2, <1>3, <1>6 DEF T, r

\* When all groups have the nodes they should have, the sum is the number of their VMs.
LEMMA SumCounts ==
  ASSUME LoopType, \A g \in Groups : Cardinality(Ready(g)) = target[g]
  PROVE  GroupSum(target) = Cardinality({n \in Instances : GroupOf[n] \in Groups})
<1> DEFINE Of(s) == {n \in Instances : GroupOf[n] \in s}
<1>1. target \in [Groups -> Nat]
  BY DEF LoopType
<1>2. PICK a : Sums(a, target) /\ GroupSum(target) = a[Groups]
  BY <1>1, SumSteps
<1> DEFINE T == {s \in SUBSET Groups : a[s] = Cardinality(Of(s))}
<1>3. {} \in T
  <2>1. Of({}) = {}
    OBVIOUS
  <2> QED
    BY <1>2, <2>1, FS_EmptySet DEF Sums
<1>4. ASSUME NEW s \in SUBSET Groups, s # {}, s \ {AnyGroup[s]} \in T PROVE s \in T
  <2> DEFINE x == AnyGroup[s]
             w == s \ {x}
  <2>1. x \in s /\ x \in Groups
    BY <1>4, AnyGroupChosen DEF IsChoice
  <2>2. a[s] = target[x] + a[w] /\ a[w] = Cardinality(Of(w))
    BY <1>2, <1>4 DEF Sums
  <2>3. Of(s) = Ready(x) \cup Of(w) /\ Ready(x) \cap Of(w) = {}
    BY <2>1 DEF Ready, Members
  <2>4. Ready(x) \subseteq Nodes /\ Of(w) \subseteq Nodes
    BY DEF Ready, Members, Instances
  <2>5. /\ IsFiniteSet(Ready(x)) /\ Cardinality(Ready(x)) \in Nat
        /\ IsFiniteSet(Of(w)) /\ Cardinality(Of(w)) \in Nat
    BY <2>4, NodesFinite
  <2> HIDE DEF Of
  <2>6. Cardinality(Of(s)) = Cardinality(Ready(x)) + Cardinality(Of(w))
    BY <2>3, <2>5, DisjointUnion
  <2> QED
    BY <2>1, <2>2, <2>5, <2>6
<1> HIDE DEF T
<1>5. Groups \in T
  BY <1>3, <1>4, AnyGroupChosen, SetByChoice
<1> QED
  BY <1>2, <1>5 DEF T

\* The nodes that belong to no group.
Own == Members(Instances, NoGroup)

\* Together with those it is the number of all VMs.
LEMMA SumOfAll ==
  ASSUME LoopType, \A g \in Groups : Cardinality(Ready(g)) = target[g]
  PROVE  GroupSum(target) + Cardinality(Own) = Cardinality(Instances)
<1> DEFINE A == {n \in Instances : GroupOf[n] \in Groups}
<1>1. Instances = A \cup Own /\ A \cap Own = {} /\ A \subseteq Nodes /\ Own \subseteq Nodes
  BY AutoscalerAssumption DEF Own, Members, Instances
<1>2. GroupSum(target) = Cardinality(A)
  BY SumCounts
<1> HIDE DEF A
<1>3. /\ IsFiniteSet(A) /\ Cardinality(A) \in Nat /\ IsFiniteSet(Own) /\ Cardinality(Own) \in Nat
  BY <1>1, NodesFinite
<1>4. Cardinality(Instances) = Cardinality(A) + Cardinality(Own)
  BY <1>1, <1>3, DisjointUnion
<1> QED
  BY <1>2, <1>3, <1>4

\* The list of a pass has every VM; no VM joins during a pass.
Seen == ca.pc \in InPass => Instances \subseteq ca.nodes

\* VMs come and go in groups only.
LEMMA OwnKept == ASSUME LoopInv, [Next]_vars PROVE Own' = Own
<1>1. CASE UNCHANGED node
  BY <1>1 DEF Own, Members, Instances
<1>2. ASSUME NEW n \in Nodes, Join(n) \/ Vanish(n) PROVE Own' = Own
  BY <1>2, AutoscalerAssumption DEF Join, Vanish, Own, Members, Instances, LoopInv, LoopType
<1>3. ASSUME NEW n \in Nodes, DeleteInstance(n) PROVE Own' = Own
  <2>1. GroupOf[n] \in Groups
    BY <1>3 DEF DeleteInstance, LoopInv, Victims
  <2> QED
    BY <1>3, <2>1, AutoscalerAssumption
       DEF DeleteInstance, Own, Members, Instances, LoopInv, LoopType
<1> QED
  BY <1>1, <1>2, <1>3
     DEF Next, Pass, Cluster, ListNodes, ListPods, ScaleUp, ScaleUpWithoutOptions,
         FindUnneededNodes, NothingToScaleDown, ScaleDownEmpty, ScaleDownOne, ScaleDownNone,
         MarkToBeDeleted, DrainNode, CheckSize, Restart, Heartbeat, Reflect, Bind,
         MarkUnschedulable, CreatePod, FinishPod, Tick, vars, cloudVars

LEMMA SeenKept == ASSUME LoopInv, Seen, [Next]_vars PROVE Seen'
<1> SUFFICES ASSUME ca'.pc \in InPass PROVE Instances' \subseteq ca'.nodes
  BY DEF Seen
<1>1. CASE ListNodes
  <2>1. ca'.nodes = Listed /\ node' = node
    BY <1>1 DEF ListNodes, LoopInv, LoopType, cloudVars
  <2> QED
    BY <2>1 DEF Listed, Instances
<1>2. CASE UNCHANGED node /\ ca'.nodes = ca.nodes /\ ca.pc \in InPass
  BY <1>2 DEF Seen, Instances
<1>3. CASE ca' = IdleCA
  BY <1>3, IdleType DEF InPass
<1>4. CASE ListPods \/ ScaleUpWithoutOptions \/ FindUnneededNodes
  <2>1. UNCHANGED node /\ ca.pc \in InPass
    BY <1>4 DEF ListPods, ScaleUpWithoutOptions, FindUnneededNodes, InPass, cloudVars
  <2>2. CASE ListPods
    BY <1>2, <2>1, <2>2 DEF ListPods, LoopInv, LoopType
  <2>3. CASE ScaleUpWithoutOptions
    BY <1>2, <2>1, <2>3, IdleType DEF ScaleUpWithoutOptions, LoopInv, LoopType, InPass
  <2>4. CASE FindUnneededNodes
    <3>1. ca' = IdleCA \/ ca' = [ca EXCEPT !.pc = "down"]
      BY <2>4 DEF FindUnneededNodes
    <3> QED
      BY <1>2, <1>3, <2>1, <3>1 DEF LoopInv, LoopType
  <2> QED
    BY <1>4, <2>2, <2>3, <2>4
<1>5. CASE ScaleDownEmpty \/ ScaleDownOne
  <2>1. UNCHANGED node /\ ca.pc \in InPass /\ ca'.nodes = ca.nodes
    BY <1>5 DEF ScaleDownEmpty, ScaleDownOne, InPass, cloudVars, LoopInv, LoopType
  <2> QED
    BY <1>2, <2>1
<1>6. CASE MarkToBeDeleted \/ DrainNode
  <2>1. UNCHANGED node /\ ca.pc \in InPass /\ (ca' = IdleCA \/ ca'.nodes = ca.nodes)
    BY <1>6 DEF MarkToBeDeleted, DrainNode, InPass, cloudVars, LoopInv, LoopType
  <2> QED
    BY <1>2, <1>3, <2>1
<1>7. ASSUME NEW n \in Nodes, CheckSize(n) \/ DeleteInstance(n) PROVE FALSE
  <2>1. ca.pc = "delete" /\ n \in ca.victims
    BY <1>7 DEF CheckSize, DeleteInstance, LoopInv, Victims
  <2>2. ca' = Deleted(n) \/ ca' = [ca EXCEPT !.sized = @ \cup {n}]
    BY <1>7 DEF CheckSize, DeleteInstance
  <2>3. CASE ca' = Deleted(n)
    BY <2>1, <2>3, DeletedType DEF InPass
  <2>4. CASE ca' = [ca EXCEPT !.sized = @ \cup {n}]
    BY <2>1, <2>4 DEF LoopInv, LoopType, InPass
  <2> QED
    BY <2>2, <2>3, <2>4
<1>8. ASSUME NEW n \in Nodes, Join(n) PROVE FALSE
  <2>1. /\ GroupOf[n] \in Groups /\ ca' = ca
        /\ Cardinality(Ready(GroupOf[n])) < target[GroupOf[n]]
    BY <1>8 DEF Join, Ready
  <2>2. Cardinality(Ready(GroupOf[n])) = target[GroupOf[n]] /\ target[GroupOf[n]] \in Nat
    BY <2>1 DEF LoopInv, LoopType, Complete
  <2> QED
    BY <2>1, <2>2
<1>9. ASSUME NEW n \in Nodes, Vanish(n) PROVE Instances' \subseteq ca'.nodes
  <2>1. ca' = ca /\ Instances' \subseteq Instances
    BY <1>9 DEF Vanish, Instances, LoopInv, LoopType
  <2> QED
    BY <2>1 DEF Seen
<1>10. CASE UNCHANGED <<node, ca>>
  BY <1>10 DEF Seen, Instances
<1> QED
  BY <1>1, <1>3, <1>4, <1>5, <1>6, <1>7, <1>8, <1>9, <1>10
     DEF Next, Pass, Cluster, ScaleUp, NothingToScaleDown, ScaleDownNone, Restart, Heartbeat,
         Reflect, Bind, MarkUnschedulable, CreatePod, FinishPod, Tick, vars, cloudVars

\* The cluster starts within its limit.
WithinTotal == MaxNodesTotal > 0 => Cardinality(InitNodes) <= MaxNodesTotal

\* TotalInBounds, with names for its parts.
InTotal == MaxNodesTotal > 0 => GroupSum(target) + Cardinality(Own) <= MaxNodesTotal

\* What is asked for beyond the list of nodes is what the limit leaves.
LEMMA ScaleUpTotal ==
  ASSUME LoopInv, Seen, NEW g \in Groups, ScaleUp(g), MaxNodesTotal > 0,
         target' = [target EXCEPT ![g] = NewSize(g)]
  PROVE  GroupSum(target') + Cardinality(Own) <= MaxNodesTotal
<1>1. /\ ca.pc = "up" /\ g \in ExpansionOptions /\ Instances \subseteq ca.nodes
      /\ ca.nodes \subseteq Nodes /\ target \in [Groups -> Nat]
      /\ \A h \in Groups : Cardinality(Ready(h)) = target[h]
  BY DEF ScaleUp, Seen, LoopInv, LoopType, Complete, InPass
<1>2. NewSize(g) \in Nat
  BY <1>1, NewSizeBounds
<1>3. GroupSum(target') = GroupSum(target) + (NewSize(g) - target[g]) /\ GroupSum(target) \in Nat
  BY <1>1, <1>2, SumChanges
<1>4. GroupSum(target) + Cardinality(Own) = Cardinality(Instances)
  BY <1>1, SumOfAll DEF LoopInv
<1>5. /\ Cardinality(Instances) <= Cardinality(ca.nodes) /\ Cardinality(Instances) \in Nat
      /\ Cardinality(ca.nodes) \in Nat /\ Cardinality(Own) \in Nat
  <2>1. Instances \subseteq Nodes /\ Own \subseteq Nodes
    BY DEF Own, Members, Instances
  <2> QED
    BY <1>1, <2>1, NodesFinite, FS_Subset
<1>6. NewSize(g) <= (MaxNodesTotal - Cardinality(ca.nodes)) + target[g]
  <2>1. MaxNodesTotal \in Nat /\ target[g] \in Nat /\ MaxSize[g] \in Nat
    BY <1>1, AutoscalerAssumption
  <2>2. Smaller(target[g] + Estimate, MaxSize[g]) \in Int
    <3>1. IsFiniteSet(ca.help)
      BY AutoscalerAssumption, FS_Subset DEF LoopInv, LoopType
    <3>2. Cardinality(ca.help) \in Nat /\ Capacity \in Nat \ {0}
      BY <3>1, FS_CardinalityType, AutoscalerAssumption
    <3>3. Estimate \in Nat
      BY <3>2, Z3 DEF Estimate
    <3> QED
      BY <2>1, <3>3 DEF Smaller
  <2> QED
    BY <1>5, <2>1, <2>2 DEF NewSize, Smaller
<1> QED
  BY <1>1, <1>2, <1>3, <1>4, <1>5, <1>6, AutoscalerAssumption

LEMMA TotalKept == ASSUME LoopInv, Seen, InTotal, [Next]_vars PROVE InTotal'
<1> SUFFICES ASSUME MaxNodesTotal > 0
             PROVE  GroupSum(target') + Cardinality(Own') <= MaxNodesTotal
  BY DEF InTotal
<1>1. Own' = Own
  BY OwnKept
<1>2. CASE UNCHANGED target
  BY <1>1, <1>2 DEF InTotal
<1>3. ASSUME NEW g \in Groups, ScaleUp(g), target' = [target EXCEPT ![g] = NewSize(g)]
      PROVE  GroupSum(target') + Cardinality(Own') <= MaxNodesTotal
  BY <1>1, <1>3, ScaleUpTotal
<1>4. ASSUME NEW n \in Nodes, DeleteInstance(n), target' = [target EXCEPT ![GroupOf[n]] = @ - 1]
      PROVE  GroupSum(target') + Cardinality(Own') <= MaxNodesTotal
  <2> DEFINE g == GroupOf[n]
  <2>1. g \in Groups /\ target[g] > MinSize[g]
    BY <1>4 DEF DeleteInstance, LoopInv, Victims
  <2>2. target \in [Groups -> Nat] /\ target[g] \in Nat /\ MinSize[g] \in Nat
    BY <2>1, AutoscalerAssumption DEF LoopInv, LoopType
  <2>3. target[g] - 1 \in Nat /\ target' = [target EXCEPT ![g] = target[g] - 1]
    BY <1>4, <2>1, <2>2
  <2>4. GroupSum(target') = GroupSum(target) + ((target[g] - 1) - target[g])
        /\ GroupSum(target) \in Nat
    BY <2>1, <2>2, <2>3, SumChanges
  <2>5. Cardinality(Own) \in Nat
    BY NodesFinite DEF Own, Members, Instances
  <2> QED
    BY <1>1, <2>2, <2>4, <2>5, AutoscalerAssumption DEF InTotal
<1> QED
  BY <1>2, <1>3, <1>4, SizeSteps

LEMMA TotalStart == ASSUME Init, WithinTotal PROVE Seen /\ InTotal
<1>1. LoopInv /\ \A g \in Groups : Cardinality(Ready(g)) = target[g]
  BY LoopStart, StartSizes
<1>2. GroupSum(target) + Cardinality(Own) = Cardinality(Instances)
  BY <1>1, SumOfAll DEF LoopInv
<1>3. Instances = InitNodes
  BY AutoscalerAssumption DEF Init, Instances
<1> QED
  BY <1>2, <1>3, IdleType DEF Init, Seen, InTotal, WithinTotal, InPass

(***************************************************************************)
(* Theorems                                                                *)
(***************************************************************************)

\* The loop asks for nodes only when every node it asked for before has come, whatever
\* the pods do, whoever fails and however often the process starts again.
THEOREM GrowsWhenComplete == Spec => GrowOnlyWhenComplete
<1>1. Init => LoopInv
  BY LoopStart
<1>2. LoopInv /\ [Next]_vars => LoopInv'
  BY LoopKept
<1>3. LoopInv /\ [Next]_vars =>
        [(\E g \in Groups : target'[g] > target[g]) =>
           \A g \in Groups : Cardinality(Members(Instances, g)) = target[g]]_vars
  <2> SUFFICES ASSUME LoopInv, [Next]_vars, NEW g \in Groups, target'[g] > target[g]
               PROVE  \A h \in Groups : Cardinality(Members(Instances, h)) = target[h]
    OBVIOUS
  <2>1. target[g] \in Nat
    BY DEF LoopInv, LoopType
  <2>2. CASE \E h \in Groups : ScaleUp(h)
    BY <2>2 DEF ScaleUp, LoopInv, Complete, InPass, Ready
  <2>3. CASE \E n \in Nodes : DeleteInstance(n) /\ target' = [target EXCEPT ![GroupOf[n]] = @ - 1]
    BY <2>1, <2>3 DEF LoopInv, LoopType
  <2> QED
    BY <2>1, <2>2, <2>3, SizeSteps
<1> QED
  BY <1>1, <1>2, <1>3, PTL DEF Spec, GrowOnlyWhenComplete

\* Groups that start within their limits stay there, although the size that a goroutine
\* checks and the one that it lowers are read in two calls: all goroutines of a pass work
\* for different groups.
THEOREM SizesStay == ASSUME WithinLimits PROVE Spec => []SizesInBounds
<1>1. Init => LoopInv /\ SizesInBounds
  BY LoopStart, StartSizes DEF WithinLimits, SizesInBounds
<1>2. LoopInv /\ SizesInBounds /\ [Next]_vars => LoopInv' /\ SizesInBounds'
  <2> SUFFICES ASSUME LoopInv, SizesInBounds, [Next]_vars PROVE SizesInBounds'
    BY LoopKept
  <2>1. CASE UNCHANGED target
    BY <2>1 DEF SizesInBounds
  <2>2. ASSUME NEW g \in Groups, ScaleUp(g), target' = [target EXCEPT ![g] = NewSize(g)]
        PROVE  SizesInBounds'
    <3>1. NewSize(g) \in Nat /\ target[g] <= NewSize(g) /\ NewSize(g) <= MaxSize[g]
      BY <2>2, NewSizeBounds DEF ScaleUp
    <3>2. target[g] \in Nat /\ MinSize[g] \in Nat
      BY AutoscalerAssumption DEF LoopInv, LoopType
    <3> QED
      BY <2>2, <3>1, <3>2 DEF SizesInBounds, LoopInv, LoopType
  <2>3. ASSUME NEW n \in Nodes, DeleteInstance(n), target' = [target EXCEPT ![GroupOf[n]] = @ - 1]
        PROVE  SizesInBounds'
    <3>1. GroupOf[n] \in Groups /\ target[GroupOf[n]] > MinSize[GroupOf[n]]
      BY <2>3 DEF DeleteInstance, LoopInv, Victims
    <3>2. /\ target[GroupOf[n]] \in Nat /\ MinSize[GroupOf[n]] \in Nat
          /\ MaxSize[GroupOf[n]] \in Nat
      BY <3>1, AutoscalerAssumption DEF LoopInv, LoopType
    <3> QED
      BY <2>3, <3>1, <3>2 DEF SizesInBounds, LoopInv, LoopType
  <2> QED
    BY <2>1, <2>2, <2>3, SizeSteps
<1> QED
  BY <1>1, <1>2, PTL DEF Spec

\* A cluster that starts with no more than MaxNodesTotal nodes never has more, nor asks for
\* more, although ScaleUp counts the nodes of its list only: a pass begins when all nodes
\* that were asked for are in the list.
THEOREM TotalStays == ASSUME WithinTotal PROVE Spec => []TotalInBounds
<1>1. Init => LoopInv /\ Seen /\ InTotal
  BY LoopStart, TotalStart
<1>2. LoopInv /\ Seen /\ InTotal /\ [Next]_vars => LoopInv' /\ Seen' /\ InTotal'
  BY LoopKept, SeenKept, TotalKept
<1>3. InTotal => TotalInBounds
  BY DEF InTotal, GroupSum, Own, TotalInBounds
<1> QED
  BY <1>1, <1>2, <1>3, PTL DEF Spec

LEMMA RoomAlways == Spec => [](LoopInv /\ RoomInv)
<1>1. Init => LoopInv /\ RoomInv
  BY LoopStart, RoomStart
<1>2. LoopInv /\ RoomInv /\ [Next]_vars => LoopInv' /\ RoomInv'
  BY LoopKept, RoomKept
<1> QED
  BY <1>1, <1>2, PTL DEF Spec

\* The records of the tracker cover the simulations of the loop: FindUnneededNodes and
\* ScaleDown never make it forget a recent use silently, whatever the order of the
\* registrations, and however many nodes are removed at a time.
THEOREM RecordsCover == Spec => []UsesAreCovered
<1>1. RoomInv => UsesAreCovered
  BY DEF RoomInv, TrackerInv, Covers, UsesAreCovered
<1> QED
  BY <1>1, RoomAlways, PTL

\* ScaleDown picks no node whose pods counted on space that a removed node has taken, before
\* the node has been unneeded for another UnneededTime.
THEOREM RoomForOne == Spec => RoomNotPromisedTwice
<1>1. LoopInv /\ RoomInv /\ [Next]_vars =>
        [\A n \in Nodes : Picked(n) => sharedAge[n] > UnneededTime]_vars
  BY PickedAreCandidates, CandidatesRested DEF LoopInv
<1> QED
  BY <1>1, RoomAlways, PTL DEF Spec, RoomNotPromisedTwice

\* Types, and the agreement of the place in the loop with its locals: a pass that marks,
\* drains or deletes has victims, and no other has.
THEOREM LoopTypes == Spec => []TypeOK
<1>1. Init => RestType
  BY RestStart
<1>2. LoopInv /\ RestType /\ [Next]_vars => RestType'
  BY RestTaints, RestPods, RestClocks, RestDisruptions, RestVictims DEF RestType
<1>3. LoopInv /\ RoomInv /\ RestType => TypeOK
  BY AllTypes
<1> QED
  BY <1>1, <1>2, <1>3, RoomAlways, PTL DEF Spec
=============================================================================
