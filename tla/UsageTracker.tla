--------------------------- MODULE UsageTracker ---------------------------
(***************************************************************************)
(* The usage tracker of the cluster autoscaler's simulator                 *)
(* (simulator/tracker.go): which node would take over pods of which other  *)
(* node.  When a node goes, the space that its pods were promised is       *)
(* taken, and every node that counted on the same space has to prove anew, *)
(* for a whole ScaleDownUnneededTime, that it is not needed.  A record     *)
(* keeps at most maxUsageRecorded entries per direction and then gives up  *)
(* (usingTooMany, usedByTooMany).                                          *)
(*                                                                         *)
(* Time stamps are kept as ages, in ticks, which stop growing once they    *)
(* are past UnneededTime.  A map from node names to time stamps is a       *)
(* function on Nodes with Absent for the missing keys, and a node without  *)
(* record has EmptyRecord: the code never tells the two apart.             *)
(***************************************************************************)
EXTENDS Integers, FiniteSets

CONSTANTS
  Nodes,            \* the names of nodes
  UnneededTime,     \* scale-down-unneeded-time, in ticks
  maxUsageRecorded

ASSUME TrackerAssumption ==
  /\ IsFiniteSet(Nodes)
  /\ UnneededTime \in Nat
  /\ maxUsageRecorded \in Nat \ {0}

VARIABLES
  usage,      \* tracker.usage
  unneeded,   \* unneededNodes: the nodes not needed, and since when
  uses        \* history: uses[a][b] is the age of the last simulation that put
              \* a pod of a on b, while it is recent and neither has been removed

trackerVars == <<usage, unneeded, uses>>

Absent == -1
Ages == Absent..(UnneededTime + 1)
Fresh == 0..UnneededTime
Keys(m) == {n \in Nodes : m[n] # Absent}
EmptyMap == [n \in Nodes |-> Absent]

Older(age) == IF age \in Fresh THEN age + 1 ELSE age
AgedMap(m) == [n \in Nodes |-> Older(m[n])]

\* UsageRecord
Record == [usingTooMany : BOOLEAN, using : [Nodes -> Ages],
           usedByTooMany : BOOLEAN, usedBy : [Nodes -> Ages]]
EmptyRecord == [usingTooMany |-> FALSE, using |-> EmptyMap,
                usedByTooMany |-> FALSE, usedBy |-> EmptyMap]

(***************************************************************************)
(* Operations                                                              *)
(***************************************************************************)

Using(r, b) ==
  IF Cardinality(Keys(r.using)) >= maxUsageRecorded
    THEN [r EXCEPT !.usingTooMany = TRUE]
    ELSE [r EXCEPT !.using[b] = 0]

\* Mutant: a full record drops the entry and does not say so.
UsedByForgets(r, a) ==
  IF Cardinality(Keys(r.usedBy)) >= maxUsageRecorded
    THEN r
    ELSE [r EXCEPT !.usedBy[a] = 0]

UsedBy(r, a) ==
  IF Cardinality(Keys(r.usedBy)) >= maxUsageRecorded
    THEN [r EXCEPT !.usedByTooMany = TRUE]
    ELSE [r EXCEPT !.usedBy[a] = 0]

\* RegisterUsage, for two different nodes.
RegisterUsage(u, a, b) ==
  [u EXCEPT ![a] = Using(@, b), ![b] = UsedBy(@, a)]

\* Unregister removes n from the records that n's own record leads to.
Unregister(u, n) ==
  [m \in Nodes |->
     IF m = n THEN EmptyRecord
     ELSE [u[m] EXCEPT
             !.usedBy[n] = IF u[n].using[m] # Absent THEN Absent ELSE @,
             !.using[n] = IF u[n].usedBy[m] # Absent THEN Absent ELSE @]]

filterOutOld(m) == [n \in Nodes |-> IF m[n] \in Fresh THEN m[n] ELSE Absent]

\* CleanUp drops what is older than UnneededTime, unless the record is incomplete.
CleanUp(u) ==
  [n \in Nodes |->
     [u[n] EXCEPT
        !.using = IF u[n].usingTooMany THEN @ ELSE filterOutOld(@),
        !.usedBy = IF u[n].usedByTooMany THEN @ ELSE filterOutOld(@)]]

\* Mutant: only the timer of the node itself is stopped.
KeysToRemoveSelf(u, n) == {n}

\* The nodes whose timers RemoveNodeFromTracker stops.
KeysToRemove(u, n) ==
  IF \/ u[n].usingTooMany
     \/ \E x \in Keys(u[n].using) : u[x].usedByTooMany
    THEN Nodes
    ELSE {n} \cup UNION {Keys(u[x].usedBy) : x \in Keys(u[n].using)}

Stopped(timers, keys) ==
  [n \in Nodes |-> IF n \in keys THEN Absent ELSE timers[n]]

\* The exact relation, next to RegisterUsage and Unregister.
Used(h, a, b) == [h EXCEPT ![a][b] = 0]
Forget(h, n) ==
  [a \in Nodes |-> [b \in Nodes |-> IF n \in {a, b} THEN Absent ELSE h[a][b]]]

(***************************************************************************)
(* The tracker on its own, with a caller that calls in any order           *)
(***************************************************************************)

TrackerInit ==
  /\ usage = [n \in Nodes |-> EmptyRecord]
  /\ unneeded = EmptyMap
  /\ uses = [n \in Nodes |-> EmptyMap]

\* A simulation places a pod of a on b.
Register(a, b) ==
  /\ a # b
  /\ usage' = RegisterUsage(usage, a, b)
  /\ uses' = Used(uses, a, b)
  /\ UNCHANGED unneeded

\* A simulation finds that n is not needed.
StartTimer(n) ==
  /\ unneeded[n] = Absent
  /\ unneeded' = [unneeded EXCEPT ![n] = 0]
  /\ UNCHANGED <<usage, uses>>

RemoveNodeFromTracker(n) ==
  /\ unneeded' = Stopped(unneeded, {n} \cup KeysToRemove(usage, n))
  /\ usage' = Unregister(usage, n)
  /\ uses' = Forget(uses, n)

AgedRecord(r) == [r EXCEPT !.using = AgedMap(@), !.usedBy = AgedMap(@)]
AgedUsage(u) == [n \in Nodes |-> AgedRecord(u[n])]
AgedUses(h) == [n \in Nodes |-> filterOutOld(AgedMap(h[n]))]

\* Some time later, up to the next CleanUp: the main loop calls it just before
\* FindUnneededNodes reads the tracker, and a pass that does not get there reads
\* nothing of it.
NextPass ==
  /\ usage' = CleanUp(AgedUsage(usage))
  /\ unneeded' = AgedMap(unneeded)
  /\ uses' = AgedUses(uses)

TrackerNext ==
  \/ \E a, b \in Nodes : Register(a, b)
  \/ \E n \in Nodes : StartTimer(n)
  \/ \E n \in Nodes : RemoveNodeFromTracker(n)
  \/ NextPass

TrackerSpec == TrackerInit /\ [][TrackerNext]_trackerVars

(***************************************************************************)
(* Properties                                                              *)
(***************************************************************************)

\* Types of the tracker's records and of the map of unneeded nodes.
TrackerTypeOK ==
  /\ usage \in [Nodes -> Record]
  /\ unneeded \in [Nodes -> Ages]
  /\ uses \in [Nodes -> [Nodes -> Ages]]

\* The node a and the node c counted on space of the same node x.
Share(h, a, c) ==
  \E x \in Nodes : h[a][x] \in Fresh /\ h[c][x] \in Fresh

\* What the tracker is for: when a node is removed, RemoveNodeFromTracker stops
\* the timer of each node that counted on the same space within UnneededTime,
\* whatever the bounds of the records made the tracker forget.
SharersRestart ==
  [][\A n, c \in Nodes :
       RemoveNodeFromTracker(n) /\ Share(uses, n, c) => unneeded'[c] = Absent]_trackerVars

\* The tracker's records cover the relation: CleanUp, Unregister and the limit
\* on entries lose a recent use only where the record admits to be incomplete.
UsesAreCovered ==
  \A a, b \in Nodes :
    uses[a][b] \in Fresh =>
      /\ ~usage[a].usingTooMany => usage[a].using[b] = uses[a][b]
      /\ ~usage[b].usedByTooMany => usage[b].usedBy[a] = uses[a][b]
===========================================================================
