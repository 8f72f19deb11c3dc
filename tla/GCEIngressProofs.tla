-------------------------- MODULE GCEIngressProofs --------------------------
(***************************************************************************)
(* Whatever the Ingresses, services, ports, nodes and zones, and whichever *)
(* calls fail: the controller remembers every port and load balancer for   *)
(* which it may have created something (Tracked), so that GC will find it, *)
(* and no instance group goes while a backend is linked to it (in TypeOK). *)
(* The invariant adds what the pass has in hand at each of its steps.      *)
(***************************************************************************)
EXTENDS GCEIngress, TLAPS

\* What is left to do are ports or load balancers, according to the step, and a
\* pass has a key.
InHand ==
  /\ pc \in {"backends", "gcbackends"} => todo \subseteq Ports
  /\ pc \in {"lbs", "gclbs"} => todo \subseteq Ingresses
  /\ pc # "idle" => job.key \in Ingresses
  /\ restarts <= faults

TypeInv == TypeOK /\ InHand

\* The parts of TypeOK, by what steps change.
KubeOK ==
  /\ exists \subseteq Ingresses /\ port \in [Services -> Ports \cup {None}]
  /\ ready \in (SUBSET Nodes) \ {{}} /\ cordoned \subseteq Nodes /\ bare \subseteq Zones

LinkedOK ==
  /\ groups \subseteq Zones /\ members \subseteq In(groups)
  /\ backends \in [AllPorts -> SUBSET groups] /\ healthChecks \subseteq AllPorts

RoutedOK ==
  /\ urlMaps \in [Ingresses -> (SUBSET Ports) \cup {None}] /\ firewall \subseteq AllPorts

PoolsOK == backendPool \subseteq Ports /\ l7Pool \subseteq Ingresses /\ nodePool \in BOOLEAN

JobType ==
  [key : Ingresses \cup {None}, names : SUBSET Ingresses, ports : SUBSET Ports,
   nodes : SUBSET Nodes, listed : SUBSET Nodes]

Steps ==
  {"idle", "backends", "list", "apply", "default", "lbs", "firewall", "urlmap",
   "gclbs", "gcbackends"}

PassOK ==
  /\ ingQueue \subseteq Ingresses /\ pc \in Steps /\ job \in JobType
  /\ todo \subseteq Ports \cup Ingresses /\ failed \in BOOLEAN
  /\ pc \in {"backends", "gcbackends"} => todo \subseteq Ports
  /\ pc \in {"lbs", "gclbs"} => todo \subseteq Ingresses
  /\ pc # "idle" => job.key \in Ingresses

NodesOK ==
  /\ nodeQueue \in BOOLEAN /\ npc \in {"idle", "apply"}
  /\ njob \in [nodes : SUBSET Nodes, listed : SUBSET Nodes]

CountsOK ==
  /\ changes \in 0 .. MaxChanges /\ faults \in 0 .. MaxFaults /\ restarts \in 0 .. MaxFaults
  /\ restarts <= faults

\* Together they are TypeInv.
LEMMA Parts ==
  TypeInv <=> KubeOK /\ LinkedOK /\ RoutedOK /\ PoolsOK /\ PassOK /\ NodesOK /\ CountsOK
BY DEF TypeInv, TypeOK, InHand, KubeOK, LinkedOK, RoutedOK, PoolsOK, JobType, Steps, PassOK,
       NodesOK, CountsOK

-----------------------------------------------------------------------------

\* Zones with ready nodes are zones, and ports of services are ports.
LEMMA ZonesType == KubeOK => ListZones \subseteq Zones
BY IngressAssumption DEF KubeOK, ListZones

LEMMA PortsType == ASSUME KubeOK, NEW i \in Ingresses PROVE PortsOf(i) \subseteq Ports
BY IngressAssumption DEF KubeOK, PortsOf

LEMMA NodePortsType == KubeOK => toNodePorts \subseteq Ports
BY PortsType DEF toNodePorts, KubeOK

\* A call that fails is counted, and so is one that does not.
LEMMA FaultCount ==
  ASSUME CountsOK, Failing \/ NoneFails, UNCHANGED <<changes, restarts>> PROVE CountsOK'
BY IngressAssumption DEF CountsOK, Failing, NoneFails

\* Add, complete or not, links backends to groups that exist.
LEMMA AddLinks ==
  ASSUME KubeOK, LinkedOK, NEW p \in AllPorts, Add(p), UNCHANGED members
  PROVE  LinkedOK' /\ nodePool' \in BOOLEAN
<1>1. groups \subseteq groups' /\ groups' \subseteq Zones /\ ListZones \subseteq groups'
  BY ZonesType DEF Add, LinkedOK
<1>2. edgeHop(p) \subseteq groups'
  BY <1>1 DEF edgeHop, LinkedOK
<1>3. backends' \in [AllPorts -> SUBSET groups']
  BY <1>1, <1>2 DEF Add, LinkedOK
<1>4. healthChecks' \subseteq AllPorts /\ nodePool' \in BOOLEAN
  BY DEF Add, LinkedOK
<1>5. members' \subseteq In(groups)'
  BY <1>1 DEF LinkedOK, In
<1> QED
  BY <1>1, <1>3, <1>4, <1>5 DEF LinkedOK

LEMMA HealthCheckLinks ==
  ASSUME KubeOK, LinkedOK, NEW p \in AllPorts, HealthCheckOnly(p), UNCHANGED members
  PROVE  LinkedOK'
<1>1. /\ groups \subseteq groups' /\ groups' \subseteq Zones /\ backends' = backends
      /\ healthChecks' \subseteq AllPorts
  BY ZonesType DEF HealthCheckOnly, LinkedOK
<1>2. backends' \in [AllPorts -> SUBSET groups'] /\ members' \subseteq In(groups)'
  BY <1>1 DEF LinkedOK, In
<1> QED
  BY <1>1, <1>2 DEF LinkedOK

LEMMA AddFailsLinks ==
  ASSUME KubeOK, LinkedOK, PoolsOK, NEW p \in AllPorts, AddFails(p), UNCHANGED members
  PROVE  LinkedOK' /\ nodePool' \in BOOLEAN
<1>1. CASE Add(p)
  BY <1>1, AddLinks
<1>2. CASE ~Add(p)
  <2>1. /\ groups \subseteq groups' /\ groups' \subseteq Zones /\ backends' = backends
        /\ healthChecks' \subseteq AllPorts
    BY <1>2, ZonesType DEF AddFails, HealthCheckOnly, LinkedOK
  <2>2. nodePool' \in BOOLEAN
    BY <1>2, Zenon DEF AddFails, PoolsOK
  <2>3. backends' \in [AllPorts -> SUBSET groups'] /\ members' \subseteq In(groups)'
    BY <2>1 DEF LinkedOK, In
  <2> QED
    BY <2>1, <2>2, <2>3 DEF LinkedOK
<1> QED
  BY <1>1, <1>2

\* Delete, complete or not, takes away.
LEMMA DeleteLinks ==
  ASSUME LinkedOK, NEW p \in AllPorts, Delete(p) \/ DeleteFails(p) \/ BackendOnly(p),
         UNCHANGED <<groups, members>>
  PROVE  LinkedOK'
<1>1. backends' \in [AllPorts -> SUBSET groups]
  BY DEF Delete, DeleteFails, BackendOnly, LinkedOK
<1>2. healthChecks' \subseteq AllPorts
  BY DEF Delete, DeleteFails, BackendOnly, LinkedOK
<1> QED
  BY <1>1, <1>2 DEF LinkedOK, In

\* Nodes are only added to groups that exist.
LEMMA ApplyLinks ==
  ASSUME LinkedOK, NEW j, (CanApply(j) /\ Apply(j)) \/ ApplyFails(j),
         UNCHANGED <<groups, backends, healthChecks>>
  PROVE  LinkedOK'
<1>1. ASSUME NEW zones PROVE Less(j, zones) \subseteq members
  BY DEF Less
<1>2. ASSUME NEW zones, \A n \in Added(j) : ZoneOf[n] \in zones => CanAdd(j, ZoneOf[n])
      PROVE  More(j, zones) \subseteq In(groups)
  <2>1. Added(j) \cap In(zones) \subseteq In(groups)
    BY <1>2 DEF CanAdd, In
  <2> QED
    BY <1>1, <2>1 DEF More, LinkedOK
<1>3. members' \subseteq In(groups)
  <2>1. CASE CanApply(j) /\ Apply(j)
    BY <2>1, <1>2 DEF CanApply, Apply
  <2>2. CASE ApplyFails(j)
    <3>1. PICK zones :
            \/ members' = Less(j, zones)
            \/ members' = More(j, zones) /\ \A z \in zones : CanAdd(j, z)
      BY <2>2 DEF ApplyFails
    <3> QED
      BY <3>1, <1>1, <1>2 DEF LinkedOK
  <2> QED
    BY <2>1, <2>2
<1> QED
  BY <1>3 DEF LinkedOK, In

\* Going on with a step needs things to do of the kind that the step is about.
LEMMA GoOn ==
  ASSUME PassOK, pc # "idle", NEW step \in Steps, NEW rest, rest \subseteq Ports \cup Ingresses,
         step \in {"backends", "gcbackends"} => rest \subseteq Ports,
         step \in {"lbs", "gclbs"} => rest \subseteq Ingresses,
         Go(step, rest) \/ Error(step, rest)
  PROVE  PassOK'
BY DEF PassOK, Go, Error

\* The end of a pass.
LEMMA Finished == ASSUME PassOK, pc # "idle", NEW b, Finish(b) PROVE PassOK'
<1>1. ingQueue' \subseteq Ingresses
  BY DEF PassOK, Finish
<1>2. job' \in JobType
  BY DEF Finish, NoJob, JobType
<1> QED
  BY <1>1, <1>2 DEF PassOK, Finish, Steps

\* What GC starts with.
LEMMA GCStart ==
  ASSUME PassOK, l7Pool \subseteq Ingresses, NEW pool \in SUBSET Ports
  PROVE  /\ FirstGC \in {"gclbs", "gcbackends"}
         /\ FirstOld(pool) \subseteq Ports \cup Ingresses
         /\ FirstGC = "gcbackends" => FirstOld(pool) \subseteq Ports
         /\ FirstGC = "gclbs" => FirstOld(pool) \subseteq Ingresses
BY DEF FirstGC, FirstOld, OldLbs, OldPorts

\* The steps of a pass keep the types.
LEMMA PassTypes ==
  ASSUME KubeOK, LinkedOK, RoutedOK, PoolsOK, PassOK, NodesOK, CountsOK, Pass
  PROVE  /\ KubeOK' /\ LinkedOK' /\ RoutedOK' /\ PoolsOK' /\ PassOK' /\ NodesOK' /\ CountsOK'
<1> USE DEF Outside
<1>1. CASE SyncBackends
  <2>0. PICK p \in todo :
          /\ \/ Add(p) /\ NoneFails /\ Go(IF todo = {p} THEN "list" ELSE pc, todo \ {p})
             \/ AddFails(p) /\ Error("urlmap", {})
          /\ backendPool' = Remember(p)
    BY <1>1 DEF SyncBackends
  <2>1. p \in Ports /\ p \in AllPorts /\ pc = "backends" /\ UNCHANGED members
    BY <1>1 DEF SyncBackends, PassOK, AllPorts
  <2>2. LinkedOK' /\ nodePool' \in BOOLEAN
    BY <2>0, <2>1, AddLinks, AddFailsLinks
  <2>3. CountsOK'
    BY <1>1, <2>0, FaultCount DEF SyncBackends, AddFails
  <2>4. PassOK'
    BY <2>0, <2>1, GoOn DEF PassOK, Steps
  <2> QED
    BY <1>1, <2>0, <2>1, <2>2, <2>3, <2>4
    DEF SyncBackends, Remember, PoolsOK, KubeOK, NodesOK, RoutedOK, kube, nodeWorker, routed
<1>2. CASE ListNodes
  <2>1. list \subseteq Nodes
    BY DEF list, In
  <2>2. job' \in JobType /\ job'.key = job.key
    BY <1>2, <2>1 DEF ListNodes, PassOK, JobType
  <2>3. pc' \in {"apply", "default", "urlmap"} /\ pc = "list"
    BY <1>2, Zenon DEF ListNodes
  <2>4. failed' \in BOOLEAN
    BY <1>2, Zenon DEF ListNodes, PassOK
  <2>5. PassOK'
    BY <1>2, <2>2, <2>3, <2>4 DEF ListNodes, PassOK, Steps
  <2>6. CountsOK'
    BY <1>2, FaultCount DEF ListNodes
  <2> QED
    BY <1>2, <2>5, <2>6
    DEF ListNodes, PoolsOK, KubeOK, NodesOK, RoutedOK, LinkedOK, In, kube, nodeWorker, routed, linked, pools
<1>3. CASE SyncNodes
  <2>1. job' \in JobType /\ job'.key = job.key
    BY <1>3 DEF SyncNodes, PassOK, JobType
  <2>2. pc' \in {"default", "urlmap"} /\ pc = "apply"
    BY <1>3, Zenon DEF SyncNodes
  <2>3. failed' \in BOOLEAN
    BY <1>3, Zenon DEF SyncNodes, PassOK
  <2>4. PassOK'
    BY <1>3, <2>1, <2>2, <2>3 DEF SyncNodes, PassOK, Steps
  <2>5. CountsOK'
    BY <1>3, FaultCount DEF SyncNodes, ApplyFails
  <2>6. LinkedOK'
    BY <1>3, ApplyLinks DEF SyncNodes
  <2> QED
    BY <1>3, <2>4, <2>5, <2>6
    DEF SyncNodes, PoolsOK, KubeOK, NodesOK, RoutedOK, kube, nodeWorker, routed, pools
<1>4. CASE SyncDefault
  <2>1. Default \in AllPorts /\ pc = "default" /\ job.names \subseteq Ingresses /\ UNCHANGED members
    BY <1>4 DEF SyncDefault, AllPorts, PassOK, JobType
  <2>2. LinkedOK' /\ nodePool' \in BOOLEAN
    BY <1>4, <2>1, AddLinks, AddFailsLinks DEF SyncDefault
  <2>3. CountsOK'
    BY <1>4, FaultCount DEF SyncDefault, AddFails
  <2>4. PassOK'
    BY <1>4, <2>1, GoOn DEF SyncDefault, Steps
  <2> QED
    BY <1>4, <2>2, <2>3, <2>4
    DEF SyncDefault, PoolsOK, KubeOK, NodesOK, RoutedOK, kube, nodeWorker, routed
<1>5. CASE SyncLbs
  <2> DEFINE New(i) == [urlMaps EXCEPT ![i] = IF @ = None THEN {} ELSE @]
  <2>0. PICK i \in todo :
          /\ l7Pool' = l7Pool \cup {i} /\ urlMaps' \in {urlMaps, New(i)}
          /\ \/ NoneFails /\ Go(IF todo = {i} THEN "firewall" ELSE pc, todo \ {i})
             \/ Failing /\ Error("urlmap", {})
    BY <1>5 DEF SyncLbs
  <2>1. i \in Ingresses /\ pc = "lbs"
    BY <1>5 DEF SyncLbs, PassOK
  <2>2. New(i) \in [Ingresses -> (SUBSET Ports) \cup {None}]
    BY DEF RoutedOK
  <2>3. CountsOK'
    BY <1>5, <2>0, FaultCount DEF SyncLbs
  <2>4. PassOK'
    BY <2>0, <2>1, GoOn DEF PassOK, Steps
  <2>5. RoutedOK'
    BY <1>5, <2>0, <2>2 DEF SyncLbs, RoutedOK
  <2> QED
    BY <1>5, <2>0, <2>1, <2>3, <2>4, <2>5
    DEF SyncLbs, PoolsOK, KubeOK, NodesOK, LinkedOK, In, kube, nodeWorker, linked
<1>6. CASE SyncNoLbs
  <2>1. Default \in AllPorts /\ pc = "lbs"
    BY <1>6 DEF SyncNoLbs, AllPorts
  <2>2. LinkedOK'
    BY <1>6, <2>1, DeleteLinks DEF SyncNoLbs
  <2>3. CountsOK'
    BY <1>6, FaultCount DEF SyncNoLbs, DeleteFails
  <2>4. PassOK'
    BY <1>6, <2>1, GoOn DEF SyncNoLbs, Steps
  <2> QED
    BY <1>6, <2>2, <2>3, <2>4
    DEF SyncNoLbs, PoolsOK, KubeOK, NodesOK, RoutedOK, kube, nodeWorker, routed, pools
<1>7. CASE SyncFirewall
  <2>1. fwNodePorts \subseteq AllPorts /\ pc = "firewall"
    BY <1>7 DEF SyncFirewall, fwNodePorts, AllPorts, PassOK, JobType
  <2>2. CountsOK'
    BY <1>7, FaultCount DEF SyncFirewall
  <2>3. PassOK'
    BY <1>7, <2>1, GoOn DEF SyncFirewall, Steps
  <2> QED
    BY <1>7, <2>1, <2>2, <2>3
    DEF SyncFirewall, PoolsOK, KubeOK, NodesOK, RoutedOK, LinkedOK, In, kube, nodeWorker, linked, pools
<1>8. CASE UpdateUrlMap
  <2>1. pc = "urlmap" /\ job.key \in Ingresses /\ PortsOf(job.key) \subseteq Ports
    BY <1>8, PortsType DEF UpdateUrlMap, PassOK
  <2>2. backendPool' \subseteq Ports
    BY <1>8, <2>1 DEF UpdateUrlMap, PoolsOK
  <2>3. RoutedOK'
    BY <1>8, <2>1 DEF UpdateUrlMap, RoutedOK
  <2>4. \E pool \in SUBSET Ports :
          Go(FirstGC, FirstOld(pool)) \/ Error(FirstGC, FirstOld(pool))
    BY <1>8, <2>2 DEF UpdateUrlMap, PoolsOK
  <2>5. PassOK'
    BY <2>1, <2>4, GCStart, GoOn DEF PoolsOK, Steps
  <2>6. CountsOK'
    BY <1>8, FaultCount DEF UpdateUrlMap
  <2> QED
    BY <1>8, <2>2, <2>3, <2>5, <2>6
    DEF UpdateUrlMap, PoolsOK, KubeOK, NodesOK, LinkedOK, In, kube, nodeWorker, linked
<1>9. CASE GCLbs
  <2> DEFINE New(i) == [urlMaps EXCEPT ![i] = None]
  <2>0. PICK i \in todo :
          /\ urlMaps' \in {urlMaps, New(i)} /\ l7Pool' \in {l7Pool, l7Pool \ {i}}
          /\ Failing \/ NoneFails
          /\ \/ Go("gcbackends", OldPorts(backendPool)) \/ Go("gclbs", todo \ {i})
             \/ Error("gcbackends", OldPorts(backendPool))
    BY <1>9 DEF GCLbs
  <2>1. i \in Ingresses /\ pc = "gclbs" /\ todo \subseteq Ingresses
    BY <1>9 DEF GCLbs, PassOK
  <2>2. New(i) \in [Ingresses -> (SUBSET Ports) \cup {None}]
    BY DEF RoutedOK
  <2>3. OldPorts(backendPool) \subseteq Ports
    BY DEF OldPorts, PoolsOK
  <2>4. PassOK'
    BY <2>0, <2>1, <2>3, GoOn DEF Steps
  <2>5. CountsOK'
    BY <1>9, <2>0, FaultCount DEF GCLbs
  <2> QED
    BY <1>9, <2>0, <2>2, <2>4, <2>5
    DEF GCLbs, PoolsOK, KubeOK, NodesOK, RoutedOK, LinkedOK, In, kube, nodeWorker, linked
<1>10. CASE GCBackends
  <2>0. PICK p \in todo :
          \/ /\ Delete(p) /\ NoneFails /\ Go(pc, todo \ {p})
             /\ backendPool' = backendPool \ {p}
          \/ DeleteFails(p) /\ Finish(TRUE) /\ UNCHANGED backendPool
    BY <1>10 DEF GCBackends
  <2>1. p \in AllPorts /\ pc = "gcbackends" /\ todo \subseteq Ports
    BY <1>10 DEF GCBackends, PassOK, AllPorts
  <2>2. LinkedOK'
    BY <1>10, <2>0, <2>1, DeleteLinks DEF GCBackends
  <2>3. PassOK'
    BY <2>0, <2>1, GoOn, Finished DEF Steps
  <2>4. CountsOK'
    BY <1>10, <2>0, FaultCount DEF GCBackends, DeleteFails
  <2> QED
    BY <1>10, <2>0, <2>2, <2>3, <2>4
    DEF GCBackends, PoolsOK, KubeOK, NodesOK, RoutedOK, kube, nodeWorker, routed
<1>11. CASE GCGroups
  <2> DEFINE free == ListZones \ UNION {backends[p] : p \in AllPorts}
  <2>0. PICK zones \in SUBSET free :
          /\ groups' = groups \ zones /\ members' = members \ In(zones)
          /\ \/ zones = free /\ NoneFails /\ Finish(free # ListZones \/ ~(free \subseteq groups))
             \/ Failing /\ Finish(TRUE)
    BY <1>11, Zenon DEF GCGroups
  <2>1. PassOK'
    BY <1>11, <2>0, Finished DEF GCGroups
  <2>2. CountsOK'
    BY <1>11, <2>0, FaultCount DEF GCGroups
  <2>3. \A p \in AllPorts : backends[p] \subseteq groups'
    BY <2>0 DEF LinkedOK
  <2>4. UNCHANGED <<backends, healthChecks, routed, backendPool, l7Pool>> /\ nodePool' = FALSE
    BY <1>11 DEF GCGroups
  <2>5. members' \subseteq In(groups)'
    BY <2>0 DEF LinkedOK, In
  <2>6. LinkedOK'
    BY <2>0, <2>3, <2>4, <2>5 DEF LinkedOK
  <2> QED
    BY <1>11, <2>1, <2>2, <2>4, <2>6
    DEF GCGroups, PoolsOK, KubeOK, NodesOK, RoutedOK, kube, nodeWorker, routed
<1>12. CASE KeepGroups
  <2>1. PassOK'
    BY <1>12, Finished DEF KeepGroups
  <2>2. CountsOK'
    BY <1>12, FaultCount DEF KeepGroups
  <2> QED
    BY <1>12, <2>1, <2>2
    DEF KeepGroups, PoolsOK, KubeOK, NodesOK, RoutedOK, LinkedOK, In, kube, nodeWorker, routed, linked, pools
<1> QED
  BY <1>1, <1>2, <1>3, <1>4, <1>5, <1>6, <1>7, <1>8, <1>9, <1>10, <1>11, <1>12
  DEF Pass, Checkpoint, GC

\* Every step keeps the types.
LEMMA TypeStep == TypeInv /\ [Next]_vars => TypeInv'
<1> DEFINE OK == /\ KubeOK' /\ LinkedOK' /\ RoutedOK' /\ PoolsOK' /\ PassOK' /\ NodesOK'
                 /\ CountsOK'
<1> SUFFICES ASSUME KubeOK, LinkedOK, RoutedOK, PoolsOK, PassOK, NodesOK, CountsOK, [Next]_vars
             PROVE  OK
  <2>1. OK => TypeInv'
    BY DEF TypeInv, TypeOK, InHand, KubeOK, LinkedOK, RoutedOK, PoolsOK, JobType, Steps, PassOK,
           NodesOK, CountsOK
  <2> QED
    BY <2>1, Parts
<1> USE IngressAssumption
<1>1. CASE Pass
  BY <1>1, PassTypes
<1>2. ASSUME NEW i \in Ingresses, Start(i) PROVE OK
  <2>1. job' \in JobType /\ job'.key = i
    BY <1>2, NodePortsType DEF Start, JobType, KubeOK, getReadyNodeNames
  <2>2. PassOK'
    BY <1>2, <2>1, NodePortsType DEF Start, PassOK, Steps
  <2>3. CountsOK'
    BY <1>2, FaultCount DEF Start, Outside
  <2> QED
    BY <1>2, <2>2, <2>3
    DEF Start, Outside, PoolsOK, KubeOK, NodesOK, RoutedOK, LinkedOK, In, kube, nodeWorker, routed,
        linked, pools
<1>3. CASE StartNodes
  <2>1. [nodes |-> getReadyNodeNames, listed |-> list]
          \in [nodes : SUBSET Nodes, listed : SUBSET Nodes]
    BY DEF KubeOK, list, In, getReadyNodeNames
  <2>2. NodesOK'
    BY <1>3, <2>1 DEF StartNodes, NodesOK
  <2> QED
    BY <1>3, <2>2
    DEF StartNodes, PoolsOK, KubeOK, RoutedOK, LinkedOK, PassOK, CountsOK, In, kube, routed,
        linked, pools, pass
<1>4. CASE ApplyNodes
  <2>1. LinkedOK'
    BY <1>4, ApplyLinks DEF ApplyNodes
  <2>2. NodesOK'
    BY <1>4 DEF ApplyNodes, NodesOK, NoNodes
  <2>3. CountsOK'
    BY <1>4, FaultCount DEF ApplyNodes, ApplyFails
  <2> QED
    BY <1>4, <2>1, <2>2, <2>3
    DEF ApplyNodes, PoolsOK, KubeOK, RoutedOK, PassOK, kube, routed, pools, pass
<1>5. CASE ReplenishPool
  <2>1. PoolsOK'
    BY <1>5 DEF ReplenishPool, PoolsOK
  <2> QED
    BY <1>5, <2>1
    DEF ReplenishPool, KubeOK, NodesOK, RoutedOK, LinkedOK, PassOK, CountsOK, In, kube,
        nodeWorker, routed, linked, pass
<1>6. CASE Resync
  BY <1>6
  DEF Resync, PoolsOK, KubeOK, NodesOK, RoutedOK, LinkedOK, PassOK, CountsOK, In, kube,
      nodeWorker, routed, linked, pools
<1>7. CASE Restart
  <2>1. PassOK'
    BY <1>7 DEF Restart, PassOK, KubeOK, NoJob, JobType, Steps
  <2>2. CountsOK'
    BY <1>7 DEF Restart, Failing, CountsOK
  <2>3. UNCHANGED members
    BY <1>7 DEF Restart
  <2>4. LinkedOK'
    <3>1. CASE UNCHANGED <<groups, backends, healthChecks>>
      BY <2>3, <3>1 DEF LinkedOK, In
    <3>2. CASE StopsHalfway
      <4>1. PICK p \in AllPorts : HealthCheckOnly(p) \/ (BackendOnly(p) /\ UNCHANGED groups)
        BY <3>2 DEF StopsHalfway, PassOK, AllPorts
      <4> QED
        BY <2>3, <4>1, HealthCheckLinks, DeleteLinks
    <3> QED
      BY <1>7, <3>1, <3>2 DEF Restart
  <2> QED
    BY <1>7, <2>1, <2>2, <2>4
    DEF Restart, PoolsOK, KubeOK, NodesOK, NoNodes, RoutedOK, kube, routed
<1>8. ASSUME NEW i \in Ingresses, ChangeIngress(i) PROVE OK
  BY <1>8
  DEF ChangeIngress, Change, PoolsOK, KubeOK, NodesOK, RoutedOK, LinkedOK, PassOK, CountsOK, In,
      nodeWorker, routed, linked, pools
<1>9. ASSUME NEW s \in Services, ChangeService(s) PROVE OK
  <2>1. KubeOK' /\ ingQueue' \subseteq Ingresses
    BY <1>9 DEF ChangeService, KubeOK, PassOK
  <2> QED
    BY <1>9, <2>1
    DEF ChangeService, Change, PoolsOK, NodesOK, RoutedOK, LinkedOK, PassOK, CountsOK, In,
        nodeWorker, routed, linked, pools
<1>10. ASSUME NEW n \in Nodes, ChangeNode(n) PROVE OK
  <2>1. KubeOK'
    BY <1>10 DEF ChangeNode, KubeOK
  <2>2. NodesOK'
    BY <1>10 DEF ChangeNode, NodesOK
  <2> QED
    BY <1>10, <2>1, <2>2
    DEF ChangeNode, Change, PoolsOK, RoutedOK, LinkedOK, PassOK, CountsOK, In, routed, linked,
        pools, pass
<1>12. ASSUME NEW n \in Nodes, Cordon(n) PROVE OK
  <2>1. KubeOK'
    BY <1>12 DEF Cordon, KubeOK
  <2> QED
    BY <1>12, <2>1
    DEF Cordon, Change, PoolsOK, NodesOK, RoutedOK, LinkedOK, PassOK, CountsOK, In, routed, linked,
        pools, pass, nodeWorker
<1>11. CASE UNCHANGED vars
  BY <1>11
  DEF vars, PoolsOK, KubeOK, NodesOK, RoutedOK, LinkedOK, PassOK, CountsOK, In, kube,
      nodeWorker, routed, linked, pools, pass
<1> QED
  BY <1>1, <1>2, <1>3, <1>4, <1>5, <1>6, <1>7, <1>8, <1>9, <1>10, <1>11, <1>12 DEF Next, syncNodes

\* The initial state has the types.
LEMMA TypeInit == Init => TypeInv
<1> SUFFICES ASSUME Init PROVE TypeInv
  OBVIOUS
<1>1. KubeOK
  BY IngressAssumption DEF Init, KubeOK
<1>2. LinkedOK /\ RoutedOK /\ PoolsOK
  BY DEF Init, LinkedOK, RoutedOK, PoolsOK, In
<1>3. NodesOK /\ CountsOK
  BY IngressAssumption DEF Init, NodesOK, CountsOK, NoNodes
<1>4. PassOK
  BY IngressAssumption DEF Init, PassOK, NoJob, JobType, Steps
<1> QED
  BY <1>1, <1>2, <1>3, <1>4, Parts

\* GCEIngress.TypeOK: every variable has its type; backends are linked to, and nodes
\* are in, instance groups that exist.
THEOREM TypeCorrect == Spec => []TypeOK
<1>1. TypeInv => TypeOK
  BY DEF TypeInv
<1> QED
  BY <1>1, TypeInit, TypeStep, PTL DEF Spec

-----------------------------------------------------------------------------

\* A step that creates nothing and forgets nothing keeps track.
LEMMA SameTrack ==
  ASSUME Tracked, restarts' = restarts,
         \A p \in Ports : /\ p \in healthChecks' => p \in healthChecks \/ p \in backendPool'
                          /\ backends'[p] # {} => backends[p] # {} \/ p \in backendPool',
         \A p \in Ports \cap backendPool :
           p \in backendPool' \/ (p \notin healthChecks' /\ backends'[p] = {}),
         \A i \in Ingresses : urlMaps'[i] # None => urlMaps[i] # None \/ i \in l7Pool',
         \A i \in Ingresses \cap l7Pool : i \in l7Pool' \/ urlMaps'[i] = None
  PROVE  Tracked'
BY DEF Tracked

\* A step that touches none of it does too.
LEMMA AsideTrack ==
  ASSUME Tracked, UNCHANGED <<healthChecks, backends, urlMaps, backendPool, l7Pool, restarts>>
  PROVE  Tracked'
BY DEF Tracked

\* Add touches the port that is asked for only.
LEMMA AddPort ==
  ASSUME TypeInv, NEW p \in AllPorts, Add(p) \/ AddFails(p)
  PROVE  \A q \in Ports \ {p} : /\ q \in healthChecks' => q \in healthChecks
                                /\ backends'[q] = backends[q]
BY DEF TypeInv, TypeOK, Add, AddFails, HealthCheckOnly, AllPorts

\* Delete creates nothing, and when it succeeds nothing is left of the port.
LEMMA DeletePort ==
  ASSUME TypeInv, NEW p \in AllPorts, Delete(p) \/ DeleteFails(p)
  PROVE  /\ \A q \in Ports : /\ q \in healthChecks' => q \in healthChecks
                             /\ backends'[q] # {} => backends[q] # {}
         /\ Delete(p) => p \notin healthChecks' /\ backends'[p] = {}
BY DEF TypeInv, TypeOK, Delete, DeleteFails, BackendOnly, AllPorts

\* Every step keeps track.
LEMMA TrackStep == TypeInv /\ Tracked /\ [Next]_vars => Tracked'
<1> SUFFICES ASSUME TypeInv, Tracked, [Next]_vars PROVE Tracked'
  OBVIOUS
<1> USE DEF Outside
<1>1. CASE SyncBackends
  <2>0. PICK p \in todo : (Add(p) \/ AddFails(p)) /\ backendPool' = Remember(p)
    BY <1>1 DEF SyncBackends
  <2>1. p \in AllPorts
    BY <1>1 DEF SyncBackends, TypeInv, InHand, AllPorts
  <2>2. UNCHANGED <<urlMaps, l7Pool, restarts>>
    BY <1>1 DEF SyncBackends, routed
  <2> QED
    BY <2>0, <2>1, <2>2, AddPort, SameTrack DEF Remember
<1>2. CASE SyncDefault
  <2>1. Default \in AllPorts /\ (Add(Default) \/ AddFails(Default)) /\ Default \notin Ports
    BY <1>2, IngressAssumption DEF SyncDefault, AllPorts
  <2>2. UNCHANGED <<urlMaps, l7Pool, restarts, backendPool>>
    BY <1>2 DEF SyncDefault, routed
  <2> QED
    BY <2>1, <2>2, AddPort, SameTrack
<1>3. CASE SyncLbs
  <2>0. PICK i \in todo :
          /\ l7Pool' = l7Pool \cup {i}
          /\ urlMaps' \in {urlMaps, [urlMaps EXCEPT ![i] = IF @ = None THEN {} ELSE @]}
    BY <1>3 DEF SyncLbs
  <2>1. UNCHANGED <<healthChecks, backends, backendPool, restarts>>
    BY <1>3 DEF SyncLbs, linked
  <2> QED
    BY <2>0, <2>1, SameTrack DEF TypeInv, TypeOK
<1>4. CASE SyncNoLbs
  <2>1. Default \in AllPorts /\ (Delete(Default) \/ DeleteFails(Default))
    BY <1>4 DEF SyncNoLbs, AllPorts
  <2>2. UNCHANGED <<urlMaps, l7Pool, restarts, backendPool>>
    BY <1>4 DEF SyncNoLbs, routed, pools
  <2> QED
    BY <2>1, <2>2, DeletePort, SameTrack
<1>5. CASE UpdateUrlMap
  <2>1. /\ UNCHANGED <<healthChecks, backends, l7Pool, restarts>>
        /\ backendPool \subseteq backendPool'
    BY <1>5 DEF UpdateUrlMap, linked
  <2>2. \A i \in Ingresses : urlMaps'[i] # None => urlMaps[i] # None \/ i \in l7Pool
    BY <1>5 DEF UpdateUrlMap, TypeInv, TypeOK
  <2> QED
    BY <2>1, <2>2, SameTrack
<1>6. CASE GCLbs
  <2> DEFINE New(i) == [urlMaps EXCEPT ![i] = None]
  <2>0. PICK i \in todo :
          \/ urlMaps' = New(i) /\ l7Pool' = l7Pool \ {i}
          \/ urlMaps' \in {urlMaps, New(i)} /\ UNCHANGED l7Pool
    BY <1>6 DEF GCLbs
  <2>1. UNCHANGED <<healthChecks, backends, backendPool, restarts>>
    BY <1>6 DEF GCLbs, linked
  <2>2. \A j \in Ingresses : /\ urlMaps'[j] # None => urlMaps[j] # None
                             /\ j \in l7Pool => j \in l7Pool' \/ urlMaps'[j] = None
    BY <2>0 DEF TypeInv, TypeOK
  <2> QED
    BY <2>1, <2>2, SameTrack
<1>7. CASE GCBackends
  <2>0. PICK p \in todo :
          \/ Delete(p) /\ backendPool' = backendPool \ {p}
          \/ DeleteFails(p) /\ UNCHANGED backendPool
    BY <1>7 DEF GCBackends
  <2>1. p \in AllPorts
    BY <1>7 DEF GCBackends, TypeInv, InHand, AllPorts
  <2>2. UNCHANGED <<urlMaps, l7Pool, restarts>>
    BY <1>7 DEF GCBackends, routed
  <2> QED
    BY <2>0, <2>1, <2>2, DeletePort, SameTrack
<1>8. CASE ListNodes \/ SyncNodes \/ SyncFirewall \/ GCGroups \/ KeepGroups
  <2>1. UNCHANGED <<healthChecks, backends, urlMaps, backendPool, l7Pool, restarts>>
    BY <1>8 DEF ListNodes, SyncNodes, SyncFirewall, GCGroups, KeepGroups, linked, routed, pools
  <2> QED
    BY <2>1, AsideTrack
<1>9. CASE syncNodes \/ Resync
  <2>1. UNCHANGED <<healthChecks, backends, urlMaps, backendPool, l7Pool, restarts>>
    BY <1>9 DEF syncNodes, StartNodes, ApplyNodes, Resync, linked, routed, pools
  <2> QED
    BY <2>1, AsideTrack
<1>10. CASE ReplenishPool
  BY <1>10 DEF ReplenishPool, Tracked, linked, routed
<1>11. CASE Restart
  BY <1>11 DEF Restart, Tracked, TypeInv, TypeOK
<1>12. ASSUME NEW i \in Ingresses, Start(i) \/ ChangeIngress(i) PROVE Tracked'
  BY <1>12, AsideTrack DEF Start, ChangeIngress, linked, routed, pools
<1>13. ASSUME NEW s \in Services, ChangeService(s) PROVE Tracked'
  BY <1>13, AsideTrack DEF ChangeService, linked, routed, pools
<1>14. ASSUME NEW n \in Nodes, ChangeNode(n) \/ Cordon(n) PROVE Tracked'
  BY <1>14, AsideTrack DEF ChangeNode, Cordon, linked, routed, pools
<1>15. CASE UNCHANGED vars
  BY <1>15, AsideTrack DEF vars, linked, routed, pools
<1> QED
  BY <1>1, <1>2, <1>3, <1>4, <1>5, <1>6, <1>7, <1>8, <1>9, <1>10, <1>11, <1>12, <1>13, <1>14,
     <1>15
  DEF Next, Pass, Checkpoint, GC

\* GCEIngress.Tracked: until a restart, a port is in the backend pool as long as there
\* is a backend or a health check for it, and an Ingress in the pool of load balancers
\* as long as there is one, whichever calls have failed and wherever.
THEOREM AlwaysTracked == Spec => []Tracked
<1>1. Init => Tracked
  BY DEF Init, Tracked, AllPorts
<1> QED
  BY <1>1, TypeInit, TypeStep, TrackStep, PTL DEF Spec
=============================================================================
