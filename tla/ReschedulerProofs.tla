-------------------------- MODULE ReschedulerProofs --------------------------
(***************************************************************************)
(* Whatever the nodes, pods and faults: pods are deleted only from a node  *)
(* that is reserved, and enough of them.  The invariant adds that the node *)
(* is reserved since addTaint has returned (Reserved); nobody but the loop *)
(* removes a taint, and no pod is scheduled to a node that has one.        *)
(***************************************************************************)
EXTENDS Rescheduler, FiniteSetTheorems, TLAPS

Reserved ==
  /\ pc \in {"group", "evict"} => job.pod \in taints[job.node]
  /\ pc \in {"taint", "group"} => job.kept = 0

IInv == TypeOK /\ Reserved /\ RoomIsMade

-----------------------------------------------------------------------------

\* The required pods of a node can be counted.
LEMMA RequiredType == ASSUME NEW n PROVE Required(n) \in Nat
<1>1. IsFiniteSet({p \in Critical : on[p] = n})
  BY FS_Subset, ReschedulerAssumption
<1> QED
  BY <1>1, FS_CardinalityType DEF Required

\* What an error leaves of the job has its type.
LEMMA AbortTypes ==
  ASSUME TypeOK, Abort
  PROVE  /\ pc' = "pods" /\ todo' \subseteq Critical
         /\ job' \in [pod : Critical \cup {None}, node : Nodes \cup {None}, copied : SUBSET Critical,
                      required : Nat, kept : Nat, left : Nat]
BY DEF TypeOK, Abort, NoJob

\* What a write of a node leaves has its type.
LEMMA StoredTypes ==
  ASSUME TypeOK, NEW n \in Nodes, NEW new \in SUBSET Critical, Stored(n, new)
  PROVE  /\ taints' \in [Nodes -> SUBSET Critical]
         /\ cache' \in [Nodes -> {"fresh", "stale", "none"}]
BY DEF TypeOK, Stored

\* A fault is counted.
LEMMA FaultType == ASSUME TypeOK, Fault PROVE faults' \in 0 .. MaxFaults
BY ReschedulerAssumption DEF TypeOK, Fault

\* Every variable keeps its type.
LEMMA TypeStep == TypeOK /\ [Next]_vars => TypeOK'
<1> SUFFICES ASSUME TypeOK, [Next]_vars PROVE TypeOK'
  OBVIOUS
<1> USE ReschedulerAssumption DEF TypeOK
<1>1. CASE Wake
  BY <1>1 DEF Wake, cluster, nodeCache
<1>2. ASSUME NEW p \in Critical, Find(p) PROVE TypeOK'
  <2>1. CASE /\ pc' = "taint" /\ UNCHANGED <<todo, faults>>
             /\ \E n \in Known :
                  /\ Fits(n) /\ held' = {n}
                  /\ job' = [NoJob EXCEPT !.pod = p, !.node = n, !.copied = cached[n]]
    <3>1. PICK n \in Nodes :
            /\ held' = {n}
            /\ job' = [NoJob EXCEPT !.pod = p, !.node = n, !.copied = cached[n]]
      BY <2>1 DEF Known
    <3>2. job' = [pod |-> p, node |-> n, copied |-> cached[n], required |-> 0,
                  kept |-> 0, left |-> 0]
      BY <3>1 DEF NoJob
    <3>4. /\ p \in todo
          /\ UNCHANGED <<cluster, nodeCache, unschedulable, podsBeingProcessed, listed>>
      BY <1>2, Zenon DEF Find
    <3>5. /\ job' \in [pod : Critical \cup {None}, node : Nodes \cup {None},
                      copied : SUBSET Critical, required : Nat, kept : Nat, left : Nat]
          /\ job'.node \in Nodes /\ job'.pod = p
      BY <3>2
    <3>6. held' \subseteq Nodes /\ pc' = "taint" /\ UNCHANGED <<todo, faults>>
      BY <2>1, <3>1
    <3> QED
      BY <3>4, <3>5, <3>6 DEF cluster, nodeCache
  <2>2. CASE todo' = todo \ {p} /\ UNCHANGED <<pc, job, held>> /\ (Fault \/ UNCHANGED faults)
    BY <1>2, <2>2, FaultType DEF Find, cluster, nodeCache
  <2> QED
    BY <1>2, <2>1, <2>2 DEF Find
<1>3. CASE addTaint
  <2>1. job.node \in Nodes /\ job.pod \in Critical
    BY <1>3 DEF addTaint
  <2>2. cached' \in [Nodes -> SUBSET Critical]
    BY <1>3, <2>1 DEF addTaint
  <2>3. /\ taints' \in [Nodes -> SUBSET Critical]
        /\ cache' \in [Nodes -> {"fresh", "stale", "none"}]
    BY <1>3, <2>1, StoredTypes DEF addTaint
  <2>4. faults' \in 0 .. MaxFaults
    BY <1>3, FaultType DEF addTaint
  <2>5. CASE Abort
    BY <1>3, <2>2, <2>3, <2>4, <2>5, AbortTypes DEF addTaint
  <2>6. CASE pc' = "group" /\ UNCHANGED <<job, todo>>
    BY <1>3, <2>2, <2>3, <2>4, <2>6 DEF addTaint
  <2> QED
    BY <1>3, <2>5, <2>6 DEF addTaint
<1>4. CASE groupPods
  <2>1. CASE Abort
    BY <1>4, <2>1, AbortTypes, FaultType DEF groupPods, cluster, nodeCache
  <2>2. CASE /\ pc' = "evict" /\ UNCHANGED <<todo, faults>>
             /\ job' = [job EXCEPT !.required = Required(job.node) + 1,
                                   !.left = others[job.node]]
    <3>1. Required(job.node) + 1 \in Nat /\ others[job.node] \in Nat
      BY <1>4, RequiredType DEF groupPods
    <3>2. job' \in [pod : Critical \cup {None}, node : Nodes \cup {None}, copied : SUBSET Critical,
                    required : Nat, kept : Nat, left : Nat]
      BY <2>2, <3>1
    <3>3. job'.node = job.node /\ job'.pod = job.pod
      BY <2>2
    <3> QED
      BY <1>4, <2>2, <3>2, <3>3 DEF groupPods, cluster, nodeCache
  <2> QED
    BY <1>4, <2>1, <2>2 DEF groupPods
<1>5. CASE Evict
  <2>1. others' \in [Nodes -> Nat]
    BY <1>5 DEF Evict
  <2>2. faults' \in 0 .. MaxFaults
    BY <1>5, FaultType DEF Evict
  <2>3. CASE Abort
    BY <1>5, <2>1, <2>2, <2>3, AbortTypes DEF Evict, nodeCache
  <2>4. CASE /\ UNCHANGED <<pc, todo>>
             /\ \/ job' = [job EXCEPT !.kept = @ + 1, !.left = @ - 1]
                \/ job' = [job EXCEPT !.left = @ - 1]
    <3>1. job.left - 1 \in Nat /\ job.kept + 1 \in Nat
      BY <1>5 DEF Evict
    <3>2. job' \in [pod : Critical \cup {None}, node : Nodes \cup {None}, copied : SUBSET Critical,
                    required : Nat, kept : Nat, left : Nat]
      <4>1. CASE job' = [job EXCEPT !.kept = @ + 1, !.left = @ - 1]
        BY <3>1, <4>1
      <4>2. CASE job' = [job EXCEPT !.left = @ - 1]
        BY <3>1, <4>2
      <4> QED
        BY <2>4, <4>1, <4>2
    <3>3. job'.node = job.node /\ job'.pod = job.pod
      <4>1. CASE job' = [job EXCEPT !.kept = @ + 1, !.left = @ - 1]
        BY <4>1
      <4>2. CASE job' = [job EXCEPT !.left = @ - 1]
        BY <4>2
      <4> QED
        BY <2>4, <4>1, <4>2
    <3>4. UNCHANGED <<on, taints, nodeCache, unschedulable, podsBeingProcessed, listed, held>>
      BY <1>5, Zenon DEF Evict
    <3>5. pc = "evict"
      BY <1>5, Zenon DEF Evict
    <3>6. pc' = pc /\ todo' = todo
      BY <2>4, Zenon
    <3>7. job'.node \in Nodes /\ job'.pod \in todo'
      BY <3>3, <3>5, <3>6
    <3> QED
      BY <2>1, <2>2, <3>2, <3>4, <3>5, <3>6, <3>7 DEF nodeCache
  <2> QED
    BY <1>5, <2>3, <2>4 DEF Evict
<1>6. CASE Prepared
  <2>1. job.pod \in Critical
    BY <1>6 DEF Prepared
  <2> QED
    BY <1>6, <2>1, AbortTypes DEF Prepared, cluster, nodeCache
<1>7. CASE ReleaseAll
  BY <1>7 DEF ReleaseAll, Known, cluster, nodeCache
<1>8. ASSUME NEW n \in Nodes, Release(n) PROVE TypeOK'
  <2>1. newTaints(n) \in SUBSET Critical
    BY DEF newTaints
  <2>2. cached' \in [Nodes -> SUBSET Critical]
    BY <1>8, <2>1 DEF Release, nodeCache
  <2>3. /\ taints' \in [Nodes -> SUBSET Critical]
        /\ cache' \in [Nodes -> {"fresh", "stale", "none"}]
    BY <1>8, <2>1, StoredTypes DEF Release, nodeCache
  <2>4. faults' \in 0 .. MaxFaults
    BY <1>8, FaultType DEF Release
  <2> QED
    BY <1>8, <2>2, <2>3, <2>4 DEF Release
<1>9. CASE Sleep
  BY <1>9 DEF Sleep, cluster, nodeCache
<1>10. ASSUME NEW p \in Critical, Remove(p) \/ ReflectPod(p) PROVE TypeOK'
  BY <1>10 DEF Remove, ReflectPod, cluster, nodeCache, loop
<1>11. ASSUME NEW p \in Critical, Schedule(p) PROVE TypeOK'
  BY <1>11 DEF Schedule, nodeCache, loop
<1>12. ASSUME NEW n \in Nodes, ScheduleOther(n) PROVE TypeOK'
  BY <1>12 DEF ScheduleOther, nodeCache, loop
<1>13. ASSUME NEW n \in Nodes, ReflectNode(n) \/ Heartbeat(n) PROVE TypeOK'
  BY <1>13 DEF ReflectNode, Heartbeat, cluster, loop
<1>14. CASE Interfere
  <2>1. /\ on' \in [Critical -> Nodes \cup {None}] /\ others' \in [Nodes -> Nat]
        /\ cache' \in [Nodes -> {"fresh", "stale", "none"}]
    BY <1>14 DEF Interfere
  <2> QED
    BY <1>14, <2>1, FaultType DEF Interfere, loop
<1>15. CASE Restart
  BY <1>15, FaultType DEF Restart, NoJob, cluster
<1>16. CASE UNCHANGED vars
  BY <1>16 DEF vars, cluster, nodeCache, loop
<1> QED
  BY <1>1, <1>2, <1>3, <1>4, <1>5, <1>6, <1>7, <1>8, <1>9, <1>10, <1>11, <1>12, <1>13,
     <1>14, <1>15, <1>16
  DEF Next, Loop

\* Rescheduler.TypeOK: every variable has its type, and prepareNodeForPod has a node
\* and a pod.
THEOREM TypeCorrect == Spec => []TypeOK
<1>1. Init => TypeOK
  BY ReschedulerAssumption DEF Init, TypeOK, NoJob
<1> QED
  BY <1>1, TypeStep, PTL DEF Spec

-----------------------------------------------------------------------------

\* A step that leaves the job's node as it is, or removes pods from it, is safe.
LEMMA AsideStep ==
  ASSUME TypeOK, TypeOK', Reserved, RoomIsMade, UNCHANGED <<pc, job, taints>>,
         \A n \in Nodes : others'[n] <= others[n] \/ taints[n] = {}
  PROVE  Reserved' /\ RoomIsMade'
BY DEF TypeOK, Reserved, RoomIsMade

\* Every step keeps the job's node reserved.
LEMMA RoomStep == IInv /\ [Next]_vars => Reserved' /\ RoomIsMade'
<1> SUFFICES ASSUME TypeOK, Reserved, RoomIsMade, [Next]_vars PROVE Reserved' /\ RoomIsMade'
  BY DEF IInv
<1>0. TypeOK'
  BY TypeStep
<1>1. ASSUME pc' \notin {"taint", "group", "evict"} PROVE Reserved' /\ RoomIsMade'
  BY <1>1 DEF Reserved, RoomIsMade
<1>2. CASE Wake \/ Prepared \/ ReleaseAll \/ Sleep \/ Restart
  BY <1>1, <1>2 DEF Wake, Prepared, Abort, ReleaseAll, Sleep, Restart
<1>3. ASSUME NEW p \in Critical, Find(p) PROVE Reserved' /\ RoomIsMade'
  BY <1>1, <1>3 DEF Find, NoJob, Reserved, RoomIsMade
<1>4. CASE addTaint
  <2>1. CASE Abort
    BY <1>1, <2>1 DEF Abort
  <2>2. CASE ~Abort
    <3>1. pc' = "group" /\ job' = job /\ Stored(job.node, cached[job.node] \cup {job.pod})
      BY <1>4, <2>2 DEF addTaint
    <3>2. job.pod \in taints'[job.node] /\ job.kept = 0
      BY <1>4, <3>1 DEF Stored, TypeOK, addTaint, Reserved
    <3> QED
      BY <3>1, <3>2 DEF Reserved, RoomIsMade
  <2> QED
    BY <2>1, <2>2
<1>5. CASE groupPods
  <2>1. CASE Abort
    BY <1>1, <2>1 DEF Abort
  <2>2. CASE ~Abort
    <3>1. /\ pc = "group" /\ Fits(job.node) /\ job.node \in Nodes /\ UNCHANGED <<others, taints>>
          /\ job' = [job EXCEPT !.required = Required(job.node) + 1,
                                !.left = others[job.node]]
      BY <1>5, <2>2 DEF groupPods, TypeOK, cluster
    <3>2. job.kept = 0
      BY <3>1 DEF Reserved
    <3> QED
      BY <3>1, <3>2, RequiredType, ReschedulerAssumption DEF Reserved, RoomIsMade, Fits, TypeOK
  <2> QED
    BY <2>1, <2>2
<1>6. CASE Evict
  <2>1. CASE Abort
    BY <1>1, <2>1 DEF Abort
  <2>2. CASE ~Abort
    <3>1. /\ pc = "evict" /\ pc' = pc /\ job.node \in Nodes /\ UNCHANGED taints
          /\ job.required \in Nat /\ job.kept \in Nat /\ job.left \in Nat
          /\ others \in [Nodes -> Nat] /\ Slots[job.node] \in Nat
      BY <1>6, <2>2, ReschedulerAssumption DEF Evict, TypeOK
    <3>2. CASE /\ Stays /\ UNCHANGED others
               /\ job' = [job EXCEPT !.kept = @ + 1, !.left = @ - 1]
      BY <3>1, <3>2 DEF Reserved, RoomIsMade, Stays, TypeOK
    <3>3. CASE /\ others' = [others EXCEPT ![job.node] = @ - 1]
               /\ job' = [job EXCEPT !.left = @ - 1]
      BY <3>1, <3>3 DEF Reserved, RoomIsMade, TypeOK
    <3> QED
      BY <1>6, <2>2, <3>2, <3>3 DEF Evict
  <2> QED
    BY <2>1, <2>2
<1>7. ASSUME NEW n \in Nodes, Release(n) PROVE Reserved' /\ RoomIsMade'
  BY <1>1, <1>7 DEF Release
<1>8. ASSUME NEW p \in Critical, Remove(p) \/ ReflectPod(p) \/ Schedule(p)
      PROVE  Reserved' /\ RoomIsMade'
  <2>1. UNCHANGED <<pc, job, taints, others>>
    BY <1>8 DEF Remove, ReflectPod, Schedule, cluster, loop
  <2> QED
    BY <1>0, <2>1, AsideStep DEF TypeOK
<1>9. ASSUME NEW n \in Nodes, ScheduleOther(n) \/ ReflectNode(n) \/ Heartbeat(n)
      PROVE  Reserved' /\ RoomIsMade'
  <2>1. UNCHANGED <<pc, job, taints>>
    BY <1>9 DEF ScheduleOther, ReflectNode, Heartbeat, cluster, loop
  <2>2. \A m \in Nodes : others'[m] <= others[m] \/ taints[m] = {}
    BY <1>9 DEF ScheduleOther, ReflectNode, Heartbeat, cluster, TypeOK
  <2> QED
    BY <1>0, <2>1, <2>2, AsideStep
<1>10. CASE Interfere
  <2>1. UNCHANGED <<pc, job, taints>> /\ \A m \in Nodes : others'[m] <= others[m]
    BY <1>10 DEF Interfere, loop, TypeOK
  <2> QED
    BY <1>0, <2>1, AsideStep
<1>11. CASE UNCHANGED vars
  BY <1>0, <1>11, AsideStep DEF vars, cluster, loop, TypeOK
<1> QED
  BY <1>2, <1>3, <1>4, <1>5, <1>6, <1>7, <1>8, <1>9, <1>10, <1>11 DEF Next, Loop

\* Rescheduler.RoomIsMade: pods are deleted from a node only while the node is
\* reserved, and what stays leaves room for the critical pod.
THEOREM RoomAlways == Spec => []RoomIsMade
<1>1. Init => Reserved /\ RoomIsMade
  BY DEF Init, Reserved, RoomIsMade
<1> QED
  BY <1>1, RoomStep, TypeCorrect, PTL DEF Spec, IInv
=============================================================================
