----------------------------- MODULE GCEIngress -----------------------------
(***************************************************************************)
(* The GCE ingress controller: the pass of sync over all Ingresses, with   *)
(* the pools of instance groups, backends, load balancers and the firewall *)
(* rule that it works through and the garbage collection at its end, and   *)
(* the goroutine that keeps the nodes of the instance groups.              *)
(*                                                                         *)
(* Each zone with ready nodes has an instance group, each node port a      *)
(* backend with its health check, and each Ingress a load balancer, of     *)
(* which only the url map is seen here (L7 has the rest).  An Ingress      *)
(* names services, and a service has a node port or none.  What a pool     *)
(* does for one port is one step; when a call of it fails, those before it *)
(* have had their effect.  Some node is always ready.                      *)
(***************************************************************************)
EXTENDS Naturals

CONSTANTS
  Ingresses, Services, Rules,     \* Rules[i]: the services of Ingress i
  Ports, Default,                 \* node ports; that of the default backend
  Nodes, Zones, ZoneOf,           \* ZoneOf[n]: the zone of node n
  None,
  InitIngresses, InitPort,        \* what there is at first
  MaxChanges,                     \* how often users and nodes change something
  MaxFaults                       \* failed calls and restarts

ASSUME IngressAssumption ==
  /\ Rules \in [Ingresses -> SUBSET Services] /\ ZoneOf \in [Nodes -> Zones]
  /\ InitIngresses \subseteq Ingresses /\ InitPort \in [Services -> Ports \cup {None}]
  /\ Default \notin Ports /\ Nodes # {}
  /\ None \notin Ports \cup {Default} \cup Ingresses
  /\ MaxChanges \in Nat /\ MaxFaults \in Nat

VARIABLES
  exists, port,            \* the Ingresses, the ports of services
  ready, cordoned,         \* the ready nodes, those that are unschedulable
  bare,                    \* history: zones that have been without ready nodes
  groups, members,         \* zones with an instance group, nodes that are in them
  backends, healthChecks,  \* zones that the backend of each port is linked to, {} if
                           \* there is no backend; ports with a health check
  urlMaps, firewall,       \* ports in the url map of each Ingress, besides the
                           \* default one, or None; ports that the firewall opens
  backendPool, l7Pool,     \* ports and load balancers that the controller remembers
  nodePool,                \* whether it remembers the instance groups
  ingQueue, nodeQueue,     \* keys of Ingresses; whether there is a key of a node
  pc, job, todo, failed,   \* the pass: its step, what it has read, what is left to
                           \* do in this step, whether an error has occurred
  npc, njob,               \* syncNodes: its step, what it has read
  changes, faults, restarts

kube == <<exists, port, ready, cordoned, bare>>
linked == <<groups, members, backends, healthChecks>>
routed == <<urlMaps, firewall>>
pools == <<backendPool, l7Pool, nodePool>>
pass == <<ingQueue, pc, job, todo, failed>>
nodeWorker == <<nodeQueue, npc, njob>>
vars == <<kube, linked, routed, pools, pass, nodeWorker, changes, faults, restarts>>

AllPorts == Ports \cup {Default}
ListZones == {ZoneOf[n] : n \in ready}
getReadyNodeNames == ready \ cordoned
In(zones) == {n \in Nodes : ZoneOf[n] \in zones}

\* Mutant: a service without a node port is not skipped.
PortsOfAll(i) == {port[s] : s \in Rules[i]}

\* The node ports that an Ingress needs, and all that are needed.
PortsOf(i) == {port[s] : s \in Rules[i]} \ {None}
toNodePorts == UNION {PortsOf(i) : i \in exists}

NoJob == [key |-> None, names |-> {}, ports |-> {}, nodes |-> {}, listed |-> {}]
NoNodes == [nodes |-> {}, listed |-> {}]

\* The controller starts in a cluster that has Ingresses, services and nodes.
Init ==
  /\ exists = InitIngresses /\ port = InitPort /\ ready = Nodes /\ cordoned = {}
  /\ bare = Zones \ ListZones
  /\ groups = {} /\ members = {}
  /\ backends = [p \in AllPorts |-> {}] /\ healthChecks = {}
  /\ urlMaps = [i \in Ingresses |-> None] /\ firewall = {}
  /\ backendPool = {} /\ l7Pool = {} /\ nodePool = FALSE
  /\ ingQueue = exists /\ pc = "idle" /\ job = NoJob /\ todo = {} /\ failed = FALSE
  /\ nodeQueue = TRUE /\ npc = "idle" /\ njob = NoNodes
  /\ changes = 0 /\ faults = 0 /\ restarts = 0

Failing == faults < MaxFaults /\ faults' = faults + 1
NoneFails == UNCHANGED faults

\* What no step of a pass changes.
Outside == UNCHANGED <<kube, nodeWorker, changes, restarts>>

(***************************************************************************)
(* The pools                                                               *)
(***************************************************************************)

\* Mutant: an existing backend is not linked to new groups.
edgeHopNone(p) == IF backends[p] = {} THEN ListZones ELSE backends[p]

\* The links of the backend of p to the instance groups.
edgeHop(p) == backends[p] \cup ListZones

\* Backends.Add of port p: an instance group in every zone, a health check with the
\* backend if there is none, links to all groups.
Add(p) ==
  /\ groups' = groups \cup ListZones
  /\ healthChecks' = IF backends[p] = {} THEN healthChecks \cup {p} ELSE healthChecks
  /\ backends' = [backends EXCEPT ![p] = edgeHop(p)]
  /\ nodePool' = TRUE

\* It gets no further than the health check.
HealthCheckOnly(p) ==
  /\ backends[p] = {}
  /\ groups' = groups \cup ListZones
  /\ healthChecks' = healthChecks \cup {p} /\ UNCHANGED backends

\* A call of it fails, or its answer is lost.
AddFails(p) ==
  /\ Failing
  /\ \/ \E zones \in SUBSET ListZones :
          /\ groups' = groups \cup zones /\ nodePool' = (nodePool \/ zones # {})
          /\ UNCHANGED <<backends, healthChecks>>
     \/ HealthCheckOnly(p) /\ nodePool' = TRUE
     \/ Add(p)

\* The cloud does not delete a backend that a url map refers to.
InUse(p) == \E i \in Ingresses : urlMaps[i] # None /\ p \in urlMaps[i] \cup {Default}

\* Backends.Delete of port p.
Delete(p) ==
  /\ ~InUse(p)
  /\ backends' = [backends EXCEPT ![p] = {}]
  /\ healthChecks' = healthChecks \ {p}

\* It gets no further than the backend.
BackendOnly(p) ==
  /\ ~InUse(p)
  /\ backends' = [backends EXCEPT ![p] = {}] /\ UNCHANGED healthChecks

\* It is refused or fails before or after the deletion of the backend, or its last
\* answer is lost.
DeleteFails(p) ==
  \/ InUse(p) /\ NoneFails /\ UNCHANGED <<backends, healthChecks>>
  \/ Failing /\ UNCHANGED <<backends, healthChecks>>
  \/ Failing /\ BackendOnly(p)
  \/ Failing /\ Delete(p)

\* Mutant: a port is remembered only when its backend exists.
RememberBackend(p) == IF backends'[p] # {} THEN backendPool \cup {p} ELSE backendPool

\* The backend pool remembers the port, whatever has become of Add.
Remember(p) == backendPool \cup {p}

\* Instances.Sync, first part: the nodes in the groups; nothing is done if the
\* controller knows of no group or a zone has none.
CanList == nodePool /\ ListZones \subseteq groups
list == members \cap In(ListZones)

\* Remove finds the zones of ready nodes only, and so does Add.
Removed(j) == (j.listed \ j.nodes) \cap ready
Added(j) == (j.nodes \ j.listed) \cap ready

\* There is one call per zone.  The cloud removes members only, and adds nodes only
\* to groups that exist and do not have them.
CanRemove(j, z) == Removed(j) \cap In({z}) \subseteq members
CanAdd(j, z) == z \in groups /\ Added(j) \cap In({z}) \cap members = {}

\* The nodes are removed, or added after that, in these zones.
Less(j, zones) == members \ (Removed(j) \cap In(zones))
More(j, zones) == Less(j, Zones) \cup (Added(j) \cap In(zones))

\* Add is called when all removals have succeeded.
AllRemoved(j) == \A n \in Removed(j) : CanRemove(j, ZoneOf[n])
CanApply(j) == AllRemoved(j) /\ \A n \in Added(j) : CanAdd(j, ZoneOf[n])

Apply(j) == members' = More(j, Zones)

\* Calls are refused or fail, or lose their answers; the other zones get theirs.
ApplyFails(j) ==
  LET removes == {z \in Zones : CanRemove(j, z)}
      adds == {z \in Zones : CanAdd(j, z)}
  IN  \/ ~AllRemoved(j) /\ NoneFails /\ members' = Less(j, removes)
      \/ AllRemoved(j) /\ ~CanApply(j) /\ NoneFails /\ members' = More(j, adds)
      \/ Removed(j) # {} /\ Failing /\ \E zones \in SUBSET removes : members' = Less(j, zones)
      \/ /\ AllRemoved(j) /\ Added(j) # {} /\ Failing
         /\ \E zones \in SUBSET adds : members' = More(j, zones)

(***************************************************************************)
(* sync                                                                    *)
(***************************************************************************)

\* Go on with a step and what there is to do in it, after an error or not.
Go(step, rest) == pc' = step /\ todo' = rest /\ UNCHANGED <<job, failed, ingQueue>>
Error(step, rest) == pc' = step /\ todo' = rest /\ failed' = TRUE /\ UNCHANGED <<job, ingQueue>>

\* Mutant: an error at the end is not noted.
FinishAnyway(error) ==
  /\ ingQueue' = IF failed THEN ingQueue \cup {job.key} ELSE ingQueue
  /\ pc' = "idle" /\ job' = NoJob /\ todo' = {} /\ failed' = FALSE

\* The pass is over; after an error its key is taken again.
Finish(error) ==
  /\ ingQueue' = IF error \/ failed THEN ingQueue \cup {job.key} ELSE ingQueue
  /\ pc' = "idle" /\ job' = NoJob /\ todo' = {} /\ failed' = FALSE

Start(i) ==
  /\ pc = "idle" /\ i \in ingQueue
  /\ ingQueue' = ingQueue \ {i}
  /\ job' = [key |-> i, names |-> exists, ports |-> toNodePorts, nodes |-> getReadyNodeNames, listed |-> {}]
  /\ pc' = (IF toNodePorts = {} THEN "list" ELSE "backends") /\ todo' = toNodePorts
  /\ NoneFails /\ UNCHANGED <<failed, linked, routed, pools>> /\ Outside

\* Checkpoint: the backends that are needed.  The port is remembered also after an
\* error, which ends Checkpoint.
SyncBackends ==
  /\ pc = "backends"
  /\ \E p \in todo :
       /\ \/ Add(p) /\ NoneFails /\ Go(IF todo = {p} THEN "list" ELSE pc, todo \ {p})
          \/ AddFails(p) /\ Error("urlmap", {})
       /\ backendPool' = Remember(p)
  /\ UNCHANGED <<members, routed, l7Pool>> /\ Outside

\* The nodes in the groups.  They are not needed any more afterwards.
ListNodes ==
  /\ pc = "list"
  /\ \/ CanList /\ pc' = "apply" /\ job' = [job EXCEPT !.listed = list] /\ NoneFails /\ UNCHANGED failed
     \/ ~CanList /\ pc' = "default" /\ job' = [job EXCEPT !.nodes = {}] /\ NoneFails /\ UNCHANGED failed
     \/ nodePool /\ pc' = "urlmap" /\ job' = [job EXCEPT !.nodes = {}] /\ Failing /\ failed' = TRUE
  /\ UNCHANGED <<linked, routed, pools, ingQueue, todo>> /\ Outside

SyncNodes ==
  /\ pc = "apply"
  /\ \/ CanApply(job) /\ Apply(job) /\ NoneFails /\ pc' = "default" /\ UNCHANGED failed
     \/ ApplyFails(job) /\ pc' = "urlmap" /\ failed' = TRUE
  /\ job' = [job EXCEPT !.nodes = {}, !.listed = {}]
  /\ UNCHANGED <<groups, backends, healthChecks, routed, pools, ingQueue, todo>> /\ Outside

\* L7s.Sync: the default backend...
SyncDefault ==
  /\ pc = "default"
  /\ \/ Add(Default) /\ NoneFails /\ Go("lbs", job.names)
     \/ AddFails(Default) /\ Error("urlmap", {})
  /\ UNCHANGED <<members, routed, backendPool, l7Pool>> /\ Outside

\* ... the load balancers, which stay in the pool also after an error...
SyncLbs ==
  /\ pc = "lbs"
  /\ \E i \in todo :
       LET new == [urlMaps EXCEPT ![i] = IF @ = None THEN {} ELSE @] IN
       /\ l7Pool' = l7Pool \cup {i}
       /\ \/ urlMaps' = new /\ NoneFails /\ Go(IF todo = {i} THEN "firewall" ELSE pc, todo \ {i})
          \/ urlMaps' \in {urlMaps, new} /\ Failing /\ Error("urlmap", {})
  /\ UNCHANGED <<linked, firewall, backendPool, nodePool>> /\ Outside

\* ... and, if there are none, the default backend goes.
SyncNoLbs ==
  /\ pc = "lbs" /\ todo = {}
  /\ \/ Delete(Default) /\ NoneFails /\ Go("firewall", {})
     \/ DeleteFails(Default) /\ Error("urlmap", {})
  /\ UNCHANGED <<groups, members, routed, pools>> /\ Outside

fwNodePorts == IF job.ports = {} THEN {} ELSE job.ports \cup {Default}

SyncFirewall ==
  /\ pc = "firewall"
  /\ \/ firewall' = fwNodePorts /\ NoneFails /\ Go("urlmap", {})
     \/ firewall' \in {firewall, fwNodePorts} /\ Failing /\ Error("urlmap", {})
  /\ UNCHANGED <<linked, urlMaps, pools>> /\ Outside

\* What GC deletes: load balancers, then backends.
OldLbs == l7Pool \ job.names
OldPorts(pool) == pool \ job.ports
FirstGC == IF OldLbs = {} THEN "gcbackends" ELSE "gclbs"
FirstOld(pool) == IF OldLbs = {} THEN OldPorts(pool) ELSE OldLbs

\* The url map of the key gets the ports that its services have now; if one of them
\* has no backend that is an error, and so may be a lost answer before.  Looking for
\* a backend puts it into the pool.
UpdateUrlMap ==
  /\ pc = "urlmap"
  /\ LET i == job.key
         ports == PortsOf(i)
         there == {p \in ports : backends[p] # {}}
         possible == i \in l7Pool /\ urlMaps[i] # None /\ there = ports
         new == [urlMaps EXCEPT ![i] = ports]
     IN  \/ /\ i \notin job.names /\ NoneFails /\ Go(FirstGC, FirstOld(backendPool))
            /\ UNCHANGED <<urlMaps, backendPool>>
         \/ /\ i \in job.names /\ possible /\ NoneFails /\ urlMaps' = new
            /\ backendPool' = backendPool \cup ports /\ Go(FirstGC, FirstOld(backendPool'))
         \/ /\ i \in job.names
            /\ \/ (~possible \/ failed) /\ NoneFails /\ UNCHANGED urlMaps
               \/ possible /\ Failing /\ urlMaps' \in {urlMaps, new}
            /\ backendPool' = backendPool \cup (IF i \in l7Pool THEN there ELSE {})
            /\ Error(FirstGC, FirstOld(backendPool'))
  /\ UNCHANGED <<linked, firewall, l7Pool, nodePool>> /\ Outside

\* GC: an error keeps the other load balancers, but not the backends.
GCLbs ==
  /\ pc = "gclbs"
  /\ \E i \in todo :
       LET new == [urlMaps EXCEPT ![i] = None] IN
       \/ /\ urlMaps' = new /\ l7Pool' = l7Pool \ {i} /\ NoneFails
          /\ IF todo = {i} THEN Go("gcbackends", OldPorts(backendPool)) ELSE Go(pc, todo \ {i})
       \/ /\ urlMaps' \in {urlMaps, new} /\ UNCHANGED l7Pool /\ Failing
          /\ Error("gcbackends", OldPorts(backendPool))
  /\ UNCHANGED <<linked, firewall, backendPool, nodePool>> /\ Outside

\* The port is forgotten when its backend and health check are gone.
GCBackends ==
  /\ pc = "gcbackends"
  /\ \E p \in todo :
       \/ /\ Delete(p) /\ NoneFails /\ Go(pc, todo \ {p})
          /\ backendPool' = backendPool \ {p}
       \/ DeleteFails(p) /\ Finish(TRUE) /\ UNCHANGED backendPool
  /\ UNCHANGED <<groups, members, routed, l7Pool, nodePool>> /\ Outside

\* Without node ports the instance groups go, in the zones that have ready nodes and
\* where no backend is linked to them.  In any case they are forgotten.
GCGroups ==
  /\ pc = "gcbackends" /\ todo = {} /\ job.ports = {}
  /\ LET free == ListZones \ UNION {backends[p] : p \in AllPorts} IN
     \E zones \in SUBSET free :
       /\ groups' = groups \ zones /\ members' = members \ In(zones)
       /\ \/ zones = free /\ NoneFails /\ Finish(free # ListZones \/ ~(free \subseteq groups))
          \/ Failing /\ Finish(TRUE)
  /\ nodePool' = FALSE
  /\ UNCHANGED <<backends, healthChecks, routed, backendPool, l7Pool>> /\ Outside

\* With node ports there is nothing more to do.
KeepGroups ==
  /\ pc = "gcbackends" /\ todo = {} /\ job.ports # {}
  /\ Finish(FALSE)
  /\ NoneFails /\ UNCHANGED <<linked, routed, pools>> /\ Outside

(***************************************************************************)
(* Other goroutines                                                        *)
(***************************************************************************)

\* syncNodes.
StartNodes ==
  /\ npc = "idle" /\ nodeQueue
  /\ IF CanList THEN npc' = "apply" /\ njob' = [nodes |-> getReadyNodeNames, listed |-> list]
                ELSE UNCHANGED <<npc, njob>>
  /\ nodeQueue' = FALSE
  /\ UNCHANGED <<kube, linked, routed, pools, pass, changes, faults, restarts>>

ApplyNodes ==
  /\ npc = "apply"
  /\ npc' = "idle" /\ njob' = NoNodes
  /\ \/ CanApply(njob) /\ Apply(njob) /\ NoneFails /\ UNCHANGED nodeQueue
     \/ ApplyFails(njob) /\ nodeQueue' = TRUE
  /\ UNCHANGED <<kube, groups, backends, healthChecks, routed, pools, pass, changes, restarts>>

\* The backend pool lists the backends in the cloud.  During a pass that makes no
\* difference: it holds the pool's lock, and a pass creates and deletes backends
\* before it adds them to the pool and takes them out.
ReplenishPool ==
  /\ pc = "idle"
  /\ backendPool' = backendPool \cup {p \in Ports : backends[p] # {}}
  /\ backendPool' # backendPool
  /\ UNCHANGED <<kube, linked, routed, l7Pool, nodePool, pass, nodeWorker, changes, faults, restarts>>

\* The informer hands in every Ingress again.  (Keys that come during a pass wait.)
Resync ==
  /\ pc = "idle"
  /\ ~(exists \subseteq ingQueue)
  /\ ingQueue' = ingQueue \cup exists
  /\ UNCHANGED <<kube, linked, routed, pools, pc, job, todo, failed, nodeWorker, changes, faults, restarts>>

(***************************************************************************)
(* Users, nodes, restarts                                                  *)
(***************************************************************************)

Change == changes < MaxChanges /\ changes' = changes + 1

ChangeIngress(i) ==
  /\ Change
  /\ exists' = IF i \in exists THEN exists \ {i} ELSE exists \cup {i}
  /\ ingQueue' = ingQueue \cup {i}
  /\ UNCHANGED <<port, ready, cordoned, bare, linked, routed, pools, pc, job, todo, failed, nodeWorker, faults, restarts>>

\* A service gets a port that no other has, which enqueues its Ingresses, or goes.
ChangeService(s) ==
  /\ Change
  /\ \E p \in Ports \cup {None} :
       /\ p \notin {port[t] : t \in Services} \ {None} /\ p # port[s]
       /\ port' = [port EXCEPT ![s] = p]
       /\ ingQueue' = IF p = None THEN ingQueue
                      ELSE ingQueue \cup {i \in exists : s \in Rules[i]}
  /\ UNCHANGED <<exists, ready, cordoned, bare, linked, routed, pools, pc, job, todo, failed, nodeWorker, faults, restarts>>

\* A node comes or goes, or its readiness changes, which enqueues nothing.
ChangeNode(n) ==
  /\ Change
  /\ ready' = IF n \in ready THEN ready \ {n} ELSE ready \cup {n}
  /\ ready' # {}
  /\ bare' = bare \cup (Zones \ ListZones')
  /\ nodeQueue' \in {nodeQueue, TRUE}
  /\ UNCHANGED <<exists, port, cordoned, linked, routed, pools, pass, npc, njob, faults, restarts>>

\* A node is made unschedulable, or schedulable again, which enqueues nothing.
Cordon(n) ==
  /\ Change
  /\ cordoned' = IF n \in cordoned THEN cordoned \ {n} ELSE cordoned \cup {n}
  /\ UNCHANGED <<exists, port, ready, bare, linked, routed, pools, pass, nodeWorker, faults, restarts>>

\* The controller stops in the middle of Add or Delete.
StopsHalfway ==
  \/ pc = "backends" /\ \E p \in todo : HealthCheckOnly(p)
  \/ pc = "default" /\ HealthCheckOnly(Default)
  \/ pc = "gcbackends" /\ (\E p \in todo : BackendOnly(p)) /\ UNCHANGED groups
  \/ pc = "lbs" /\ todo = {} /\ BackendOnly(Default) /\ UNCHANGED groups

\* It stops there or elsewhere, and starts anew with empty pools; the informers hand
\* in what exists.
Restart ==
  /\ Failing /\ restarts' = restarts + 1
  /\ backendPool' = {} /\ l7Pool' = {} /\ nodePool' = FALSE
  /\ ingQueue' = exists /\ nodeQueue' = TRUE
  /\ pc' = "idle" /\ job' = NoJob /\ todo' = {} /\ failed' = FALSE
  /\ npc' = "idle" /\ njob' = NoNodes
  /\ UNCHANGED <<groups, backends, healthChecks>> \/ StopsHalfway
  /\ UNCHANGED <<kube, members, routed, changes>>

Checkpoint ==
  \/ SyncBackends \/ ListNodes \/ SyncNodes \/ SyncDefault \/ SyncLbs \/ SyncNoLbs
  \/ SyncFirewall

GC == GCLbs \/ GCBackends \/ GCGroups \/ KeepGroups

Pass == Checkpoint \/ UpdateUrlMap \/ GC

syncNodes == StartNodes \/ ApplyNodes

Next ==
  \/ Pass \/ syncNodes \/ ReplenishPool \/ Resync \/ Restart
  \/ \E i \in Ingresses : Start(i) \/ ChangeIngress(i)
  \/ \E s \in Services : ChangeService(s)
  \/ \E n \in Nodes : ChangeNode(n) \/ Cordon(n)

\* Both workers go on, the queue hands out every key in its turn, and the informer
\* and the pool list from time to time.
Spec ==
  /\ Init /\ [][Next]_vars
  /\ WF_vars(Pass) /\ WF_vars(syncNodes) /\ SF_vars(ReplenishPool) /\ SF_vars(Resync)
  /\ \A i \in Ingresses : SF_vars(Start(i))

(***************************************************************************)
(* Properties                                                              *)
(***************************************************************************)

TypeOK ==
  /\ exists \subseteq Ingresses /\ port \in [Services -> Ports \cup {None}]
  /\ ready \in (SUBSET Nodes) \ {{}} /\ cordoned \subseteq Nodes /\ bare \subseteq Zones
  /\ groups \subseteq Zones /\ members \subseteq In(groups)
  /\ backends \in [AllPorts -> SUBSET groups] /\ healthChecks \subseteq AllPorts
  /\ urlMaps \in [Ingresses -> (SUBSET Ports) \cup {None}] /\ firewall \subseteq AllPorts
  /\ backendPool \subseteq Ports /\ l7Pool \subseteq Ingresses /\ nodePool \in BOOLEAN
  /\ ingQueue \subseteq Ingresses /\ nodeQueue \in BOOLEAN
  /\ pc \in {"idle", "backends", "list", "apply", "default", "lbs", "firewall", "urlmap",
             "gclbs", "gcbackends"}
  /\ job \in [key : Ingresses \cup {None}, names : SUBSET Ingresses, ports : SUBSET Ports,
              nodes : SUBSET Nodes, listed : SUBSET Nodes]
  /\ todo \subseteq Ports \cup Ingresses /\ failed \in BOOLEAN
  /\ npc \in {"idle", "apply"} /\ njob \in [nodes : SUBSET Nodes, listed : SUBSET Nodes]
  /\ changes \in 0 .. MaxChanges /\ faults \in 0 .. MaxFaults /\ restarts \in 0 .. MaxFaults

\* "We must track the port even if creating the backend failed, because we might've
\* created a health-check for it": unless the controller was restarted, it remembers
\* every port for which something exists, and every load balancer.
Tracked ==
  restarts = 0 =>
    /\ \A p \in Ports : p \in healthChecks \/ backends[p] # {} => p \in backendPool
    /\ \A i \in Ingresses : urlMaps[i] # None => i \in l7Pool

\* A load balancer that nobody will delete: its Ingress went while the controller
\* was down.
Leaked(i) == urlMaps[i] # None /\ i \notin exists \cup l7Pool

\* When changes and failures have stopped, every Ingress with ports has them in its
\* url map, with a backend and a health check for each, linked to the groups of all
\* zones, with all ready nodes in them but the cordoned ones, and the firewall open:
\* whatever the pass and the node worker have read before it changed, whatever calls
\* were refused in one zone and not in another, and whatever GC cannot delete.
Served ==
  <>[](\A i \in exists : PortsOf(i) # {} =>
         /\ urlMaps[i] = PortsOf(i)
         /\ \A p \in PortsOf(i) : ListZones \subseteq backends[p] /\ p \in healthChecks \cap firewall
         /\ members \cap ready = getReadyNodeNames)

\* A health check that nobody will delete: it has no backend, by which the pool could
\* find it, and the controller was restarted.
Orphaned(p) == restarts > 0 /\ p \in healthChecks /\ backends[p] = {} /\ p \notin backendPool

\* Passes can end: no load balancer leaked, and there is an Ingress to start one, or
\* the controller has been up since the last one went.
Collecting == (\A i \in Ingresses : ~Leaked(i)) /\ (exists = {} => restarts = 0)

\* And what no Ingress needs is gone.  "At the end of a successful GC we know that
\* there are no dangling cloud resources": but for Orphaned health checks, ports that
\* are not needed have no backend and no health check, and Ingresses that do not exist
\* no load balancer; without Ingresses the default backend and the firewall rule go,
\* and the instance groups, but for those in zones that have been bare at some time,
\* which DeleteInstanceGroup may not have seen.
Collected ==
  <>[](Collecting =>
         /\ \A i \in Ingresses \ exists : urlMaps[i] = None
         /\ \A p \in Ports \ toNodePorts :
              backends[p] = {} /\ (p \in healthChecks => Orphaned(p))
         /\ exists = {} => /\ backends[Default] = {} /\ Default \notin healthChecks
                           /\ firewall = {} /\ groups \subseteq bare)

\* instances.go: "A node deleted via kubernetes could still exist as a gce vm.  We don't
\* want to route requests to it."
NoDeadMembers == <>[](toNodePorts # {} => members \subseteq ready)
=============================================================================
