------------------------ MODULE UsageTrackerProofs ------------------------
(***************************************************************************)
(* The usage tracker never forgets a recent use without saying so, and a   *)
(* removal therefore stops the timer of every node that shared the space:  *)
(* for every set of nodes, every UnneededTime and every limit on records.  *)
(* The lemmas are about the operations, for any records and any history,   *)
(* because the autoscaler does several of them in a step.                  *)
(* It does so with folds; the last section is about those.                 *)
(***************************************************************************)
EXTENDS UsageTracker, SequencesExt, FiniteSetTheorems, WellFoundedInduction, TLAPS

Records == [Nodes -> Record]
Histories == [Nodes -> [Nodes -> Ages]]

\* UsesAreCovered of any records and any history.
Covers(u, h) ==
  \A a, b \in Nodes :
    h[a][b] \in Fresh =>
      /\ ~u[a].usingTooMany => u[a].using[b] = h[a][b]
      /\ ~u[b].usedByTooMany => u[b].usedBy[a] = h[a][b]

(***************************************************************************)
(* Types                                                                   *)
(***************************************************************************)

LEMMA EmptyTypes ==
  /\ Absent \in Ages /\ 0 \in Ages /\ Absent \notin Fresh
  /\ EmptyMap \in [Nodes -> Ages]
  /\ EmptyRecord \in Record
BY TrackerAssumption DEF Absent, Ages, Fresh, EmptyMap, EmptyRecord, Record

LEMMA MapTypes ==
  ASSUME NEW m \in [Nodes -> Ages]
  PROVE  /\ AgedMap(m) \in [Nodes -> Ages]
         /\ filterOutOld(m) \in [Nodes -> Ages]
BY TrackerAssumption DEF AgedMap, filterOutOld, Older, Fresh, Ages, Absent

LEMMA RecordTypes ==
  ASSUME NEW r \in Record, NEW n \in Nodes
  PROVE  /\ Using(r, n) \in Record
         /\ UsedBy(r, n) \in Record
         /\ AgedRecord(r) \in Record
<1>1. Using(r, n) \in Record
  BY EmptyTypes DEF Using, Record
<1>2. UsedBy(r, n) \in Record
  BY EmptyTypes DEF UsedBy, Record
<1>3. AgedRecord(r) \in Record
  BY MapTypes DEF AgedRecord, Record
<1> QED
  BY <1>1, <1>2, <1>3

LEMMA RegisterType ==
  ASSUME NEW u \in Records, NEW a \in Nodes, NEW b \in Nodes
  PROVE  RegisterUsage(u, a, b) \in Records
BY RecordTypes DEF RegisterUsage, Records

LEMMA UsedType ==
  ASSUME NEW h \in Histories, NEW a \in Nodes, NEW b \in Nodes
  PROVE  Used(h, a, b) \in Histories
BY EmptyTypes DEF Used, Histories

LEMMA UnregisterType ==
  ASSUME NEW u \in Records, NEW n \in Nodes PROVE Unregister(u, n) \in Records
<1>1. ASSUME NEW m \in Nodes PROVE Unregister(u, n)[m] \in Record
  BY EmptyTypes, ZenonT(60) DEF Unregister, Record, Records
<1> QED
  BY <1>1 DEF Unregister, Records

LEMMA ForgetType ==
  ASSUME NEW h \in Histories, NEW n \in Nodes PROVE Forget(h, n) \in Histories
BY EmptyTypes DEF Forget, Histories

LEMMA StoppedType ==
  ASSUME NEW m \in [Nodes -> Ages], NEW keys PROVE Stopped(m, keys) \in [Nodes -> Ages]
BY EmptyTypes DEF Stopped

LEMMA AgedTypes ==
  ASSUME NEW u \in Records, NEW h \in Histories
  PROVE  AgedUsage(u) \in Records /\ AgedUses(h) \in Histories
<1>1. ASSUME NEW n \in Nodes PROVE AgedRecord(u[n]) \in Record
  BY RecordTypes DEF Records
<1>2. AgedUsage(u) \in Records
  BY <1>1 DEF AgedUsage, Records
<1>3. ASSUME NEW n \in Nodes PROVE filterOutOld(AgedMap(h[n])) \in [Nodes -> Ages]
  BY MapTypes DEF Histories
<1>4. AgedUses(h) \in Histories
  BY <1>3 DEF AgedUses, Histories
<1> QED
  BY <1>2, <1>4

LEMMA CleanUpType == ASSUME NEW u \in Records PROVE CleanUp(u) \in Records
<1>1. ASSUME NEW n \in Nodes PROVE CleanUp(u)[n] \in Record
  BY MapTypes DEF CleanUp, Record, Records
<1> QED
  BY <1>1 DEF CleanUp, Records

(***************************************************************************)
(* What the operations keep                                                *)
(***************************************************************************)

LEMMA UsingRecords ==
  ASSUME NEW r \in Record, NEW n \in Nodes
  PROVE  /\ ~Using(r, n).usingTooMany => Using(r, n).using[n] = 0
         /\ r.usingTooMany => Using(r, n).usingTooMany
         /\ \A m \in Nodes \ {n} : Using(r, n).using[m] = r.using[m]
         /\ Using(r, n).usedBy = r.usedBy
         /\ Using(r, n).usedByTooMany = r.usedByTooMany
<1>1. CASE Cardinality(Keys(r.using)) >= maxUsageRecorded
  BY <1>1 DEF Using, Record
<1>2. CASE ~(Cardinality(Keys(r.using)) >= maxUsageRecorded)
  BY <1>2 DEF Using, Record
<1> QED
  BY <1>1, <1>2

LEMMA UsedByRecords ==
  ASSUME NEW r \in Record, NEW n \in Nodes
  PROVE  /\ ~UsedBy(r, n).usedByTooMany => UsedBy(r, n).usedBy[n] = 0
         /\ r.usedByTooMany => UsedBy(r, n).usedByTooMany
         /\ \A m \in Nodes \ {n} : UsedBy(r, n).usedBy[m] = r.usedBy[m]
         /\ UsedBy(r, n).using = r.using
         /\ UsedBy(r, n).usingTooMany = r.usingTooMany
<1>1. CASE Cardinality(Keys(r.usedBy)) >= maxUsageRecorded
  BY <1>1 DEF UsedBy, Record
<1>2. CASE ~(Cardinality(Keys(r.usedBy)) >= maxUsageRecorded)
  BY <1>2 DEF UsedBy, Record
<1> QED
  BY <1>1, <1>2

\* A full record that drops the new entry says so.
LEMMA RegisterCovers ==
  ASSUME NEW u \in Records, NEW h \in Histories, Covers(u, h),
         NEW a \in Nodes, NEW b \in Nodes, a # b
  PROVE  Covers(RegisterUsage(u, a, b), Used(h, a, b))
<1> DEFINE v == RegisterUsage(u, a, b)
           i == Used(h, a, b)
<1>1. /\ v[a] = Using(u[a], b)
      /\ v[b] = UsedBy(u[b], a)
      /\ \A m \in Nodes \ {a, b} : v[m] = u[m]
  BY DEF RegisterUsage, Records
<1>2. /\ i[a][b] = 0
      /\ \A p, q \in Nodes : ~(p = a /\ q = b) => i[p][q] = h[p][q]
  BY DEF Used, Histories
<1>3. u[a] \in Record /\ u[b] \in Record
  BY DEF Records
<1> HIDE DEF v, i
<1>4. ASSUME NEW p \in Nodes, NEW q \in Nodes, i[p][q] \in Fresh
      PROVE  /\ ~v[p].usingTooMany => v[p].using[q] = i[p][q]
             /\ ~v[q].usedByTooMany => v[q].usedBy[p] = i[p][q]
  <2>1. CASE p = a /\ q = b
    BY <1>1, <1>2, <1>3, <2>1, UsingRecords, UsedByRecords
  <2>2. CASE ~(p = a /\ q = b)
    <3>1. i[p][q] = h[p][q]
      BY <1>2, <2>2
    <3>2. /\ ~v[p].usingTooMany => ~u[p].usingTooMany
          /\ v[p].using[q] = u[p].using[q]
      BY <1>1, <1>3, <2>2, UsingRecords, UsedByRecords
    <3>3. /\ ~v[q].usedByTooMany => ~u[q].usedByTooMany
          /\ v[q].usedBy[p] = u[q].usedBy[p]
      BY <1>1, <1>3, <2>2, UsingRecords, UsedByRecords
    <3> QED
      BY <1>4, <3>1, <3>2, <3>3 DEF Covers
  <2> QED
    BY <2>1, <2>2
<1> QED
  BY <1>4 DEF Covers, v, i

\* What Unregister takes out of the records of others is about the removed node only.
LEMMA UnregisterCovers ==
  ASSUME NEW u \in Records, NEW h \in Histories, Covers(u, h), NEW n \in Nodes
  PROVE  Covers(Unregister(u, n), Forget(h, n))
<1> DEFINE v == Unregister(u, n)
           i == Forget(h, n)
<1>1. ASSUME NEW m \in Nodes, m # n
      PROVE  /\ v[m].usingTooMany = u[m].usingTooMany
             /\ v[m].usedByTooMany = u[m].usedByTooMany
             /\ \A k \in Nodes \ {n} : /\ v[m].using[k] = u[m].using[k]
                                       /\ v[m].usedBy[k] = u[m].usedBy[k]
  <2>1. u[m] \in Record
    BY DEF Records
  <2> QED
    BY <1>1, <2>1 DEF Unregister, Record
<1>2. \A p, q \in Nodes : i[p][q] \in Fresh => n \notin {p, q} /\ i[p][q] = h[p][q]
  BY EmptyTypes DEF Forget
<1> HIDE DEF v, i
<1>3. ASSUME NEW p \in Nodes, NEW q \in Nodes, i[p][q] \in Fresh
      PROVE  /\ ~v[p].usingTooMany => v[p].using[q] = i[p][q]
             /\ ~v[q].usedByTooMany => v[q].usedBy[p] = i[p][q]
  <2>1. p # n /\ q # n /\ i[p][q] = h[p][q] /\ h[p][q] \in Fresh
    BY <1>2, <1>3
  <2>2. /\ v[p].usingTooMany = u[p].usingTooMany /\ v[p].using[q] = u[p].using[q]
        /\ v[q].usedByTooMany = u[q].usedByTooMany /\ v[q].usedBy[p] = u[q].usedBy[p]
    BY <1>1, <2>1
  <2> QED
    BY <2>1, <2>2 DEF Covers
<1> QED
  BY <1>3 DEF Covers, v, i

\* CleanUp keeps what is recent.
LEMMA CleanUpCovers ==
  ASSUME NEW u \in Records, NEW h \in Histories, Covers(u, h)
  PROVE  Covers(CleanUp(u), h)
<1> DEFINE v == CleanUp(u)
<1>1. ASSUME NEW m \in Nodes
      PROVE  /\ v[m].usingTooMany = u[m].usingTooMany
             /\ v[m].usedByTooMany = u[m].usedByTooMany
             /\ \A k \in Nodes : u[m].using[k] \in Fresh => v[m].using[k] = u[m].using[k]
             /\ \A k \in Nodes : u[m].usedBy[k] \in Fresh => v[m].usedBy[k] = u[m].usedBy[k]
  <2>1. u[m] \in Record
    BY DEF Records
  <2>2. v[m] = [u[m] EXCEPT
                  !.using = IF u[m].usingTooMany THEN @ ELSE filterOutOld(@),
                  !.usedBy = IF u[m].usedByTooMany THEN @ ELSE filterOutOld(@)]
    BY DEF CleanUp
  <2>3. \A f : \A k \in Nodes : f[k] \in Fresh => filterOutOld(f)[k] = f[k]
    BY DEF filterOutOld
  <2>4. /\ v[m].usingTooMany = u[m].usingTooMany
        /\ v[m].usedByTooMany = u[m].usedByTooMany
        /\ v[m].using = u[m].using \/ v[m].using = filterOutOld(u[m].using)
        /\ v[m].usedBy = u[m].usedBy \/ v[m].usedBy = filterOutOld(u[m].usedBy)
    BY <2>1, <2>2 DEF Record
  <2> QED
    BY <2>3, <2>4
<1> HIDE DEF v
<1> QED
  BY <1>1 DEF Covers, v

\* The records and the history grow older together.
LEMMA AgedCovers ==
  ASSUME NEW u \in Records, NEW h \in Histories, Covers(u, h)
  PROVE  Covers(AgedUsage(u), AgedUses(h))
<1> DEFINE v == AgedUsage(u)
           i == AgedUses(h)
<1>1. ASSUME NEW m \in Nodes
      PROVE  /\ v[m].usingTooMany = u[m].usingTooMany
             /\ v[m].usedByTooMany = u[m].usedByTooMany
             /\ \A k \in Nodes : /\ v[m].using[k] = Older(u[m].using[k])
                                 /\ v[m].usedBy[k] = Older(u[m].usedBy[k])
  <2>1. u[m] \in Record /\ v[m] = AgedRecord(u[m])
    BY DEF Records, AgedUsage
  <2>2. /\ v[m].usingTooMany = u[m].usingTooMany /\ v[m].using = AgedMap(u[m].using)
        /\ v[m].usedByTooMany = u[m].usedByTooMany /\ v[m].usedBy = AgedMap(u[m].usedBy)
    BY <2>1 DEF AgedRecord, Record
  <2> QED
    BY <2>2 DEF AgedMap
<1>2. ASSUME NEW p \in Nodes, NEW q \in Nodes, i[p][q] \in Fresh
      PROVE  h[p][q] \in Fresh /\ i[p][q] = Older(h[p][q])
  <2>1. i[p][q] = IF Older(h[p][q]) \in Fresh THEN Older(h[p][q]) ELSE Absent
    BY DEF AgedUses, AgedMap, filterOutOld
  <2>2. Older(h[p][q]) \in Fresh /\ i[p][q] = Older(h[p][q])
    BY <1>2, <2>1, EmptyTypes
  <2> QED
    BY <2>2 DEF Older
<1> HIDE DEF v, i
<1> QED
  BY <1>1, <1>2 DEF Covers, v, i

\* The nodes that counted on the same space are among those whose timers are stopped.
LEMMA SharersAreFound ==
  ASSUME NEW u \in Records, NEW h \in Histories, Covers(u, h),
         NEW n \in Nodes, NEW c \in Nodes, Share(h, n, c)
  PROVE  c \in KeysToRemove(u, n)
<1>1. PICK x \in Nodes : h[n][x] \in Fresh /\ h[c][x] \in Fresh
  BY DEF Share
<1>2. CASE u[n].usingTooMany
  BY <1>2 DEF KeysToRemove
<1>3. CASE ~u[n].usingTooMany /\ u[x].usedByTooMany
  <2>1. x \in Keys(u[n].using)
    BY <1>1, <1>3, EmptyTypes DEF Covers, Keys
  <2> QED
    BY <1>3, <2>1 DEF KeysToRemove
<1>4. CASE ~u[n].usingTooMany /\ ~u[x].usedByTooMany
  <2>1. x \in Keys(u[n].using) /\ c \in Keys(u[x].usedBy)
    BY <1>1, <1>4, EmptyTypes DEF Covers, Keys
  <2> QED
    BY <2>1 DEF KeysToRemove
<1> QED
  BY <1>2, <1>3, <1>4

\* Histories that agree on all pairs are equal.
LEMMA SameHistory ==
  ASSUME NEW h \in Histories, NEW i \in Histories, \A a, b \in Nodes : h[a][b] = i[a][b]
  PROVE  h = i
<1>1. \A a \in Nodes : h[a] = i[a]
  BY DEF Histories
<1> QED
  BY <1>1 DEF Histories

(***************************************************************************)
(* The tracker on its own                                                  *)
(***************************************************************************)

TrackerInv ==
  /\ usage \in Records /\ unneeded \in [Nodes -> Ages] /\ uses \in Histories
  /\ Covers(usage, uses)

LEMMA TrackerStart == ASSUME TrackerInit PROVE TrackerInv
<1>1. usage \in Records /\ unneeded \in [Nodes -> Ages] /\ uses \in Histories
  BY EmptyTypes DEF TrackerInit, Records, Histories
<1>2. Covers(usage, uses)
  BY EmptyTypes DEF TrackerInit, Covers, EmptyMap
<1> QED
  BY <1>1, <1>2 DEF TrackerInv

LEMMA TrackerKept == ASSUME TrackerInv, [TrackerNext]_trackerVars PROVE TrackerInv'
<1> USE DEF TrackerInv
<1>1. ASSUME NEW a \in Nodes, NEW b \in Nodes, Register(a, b) PROVE TrackerInv'
  BY <1>1, RegisterType, UsedType, RegisterCovers DEF Register
<1>2. ASSUME NEW n \in Nodes, StartTimer(n) PROVE TrackerInv'
  BY <1>2, EmptyTypes DEF StartTimer
<1>3. ASSUME NEW n \in Nodes, RemoveNodeFromTracker(n) PROVE TrackerInv'
  BY <1>3, UnregisterType, ForgetType, UnregisterCovers, StoppedType
     DEF RemoveNodeFromTracker
<1>4. CASE NextPass
  BY <1>4, AgedTypes, AgedCovers, CleanUpType, CleanUpCovers, MapTypes DEF NextPass
<1>5. CASE UNCHANGED trackerVars
  BY <1>5 DEF trackerVars
<1> QED
  BY <1>1, <1>2, <1>3, <1>4, <1>5 DEF TrackerNext

LEMMA TrackerInvariant == TrackerSpec => []TrackerInv
<1>1. TrackerInit => TrackerInv
  BY TrackerStart
<1>2. TrackerInv /\ [TrackerNext]_trackerVars => TrackerInv'
  BY TrackerKept
<1> QED
  BY <1>1, <1>2, PTL DEF TrackerSpec

\* A recent use is in the records of RegisterUsage, or the record is marked as
\* incomplete: CleanUp and Unregister never lose one silently.
THEOREM Covered == TrackerSpec => []UsesAreCovered
<1>1. TrackerInv => UsesAreCovered
  BY DEF TrackerInv, Covers, UsesAreCovered
<1> QED
  BY <1>1, TrackerInvariant, PTL

\* RemoveNodeFromTracker stops the timers of all nodes that counted on the space
\* which the removed node's pods take.
THEOREM SharersStop == TrackerSpec => SharersRestart
<1>1. ASSUME TrackerInv, NEW n \in Nodes, NEW c \in Nodes,
             RemoveNodeFromTracker(n), Share(uses, n, c)
      PROVE  unneeded'[c] = Absent
  <2>1. c \in KeysToRemove(usage, n)
    BY <1>1, SharersAreFound DEF TrackerInv
  <2> QED
    BY <1>1, <2>1 DEF Stopped, RemoveNodeFromTracker
<1>2. TrackerInv => [\A n, c \in Nodes : RemoveNodeFromTracker(n) /\ Share(uses, n, c)
                                           => unneeded'[c] = Absent]_trackerVars
  BY <1>1
<1> QED
  BY <1>2, TrackerInvariant, PTL DEF SharersRestart

(***************************************************************************)
(* Induction and folds, for any operation                                  *)
(*                                                                         *)
(* Induction is over sets of numbers and not over predicates, because a    *)
(* predicate would be an operator parameter.  Likewise the operation of a  *)
(* fold is a function here.                                                *)
(***************************************************************************)

\* A set of numbers that has 0 and with each number the next one has all of them.
LEMMA Induction ==
  ASSUME NEW S \in SUBSET Nat, 0 \in S, \A n \in S : n + 1 \in S PROVE S = Nat
<1> SUFFICES ASSUME Nat \ S # {} PROVE FALSE
  OBVIOUS
<1> DEFINE T == Nat \ S
           L == OpToRel(<, Nat)
<1>1. IsWellFoundedOn(L, Nat)
  BY NatLessThanWellFounded, Zenon
<1>2. \A x, y \in Nat : x < y => <<x, y>> \in L
  BY DEF OpToRel
<1> HIDE DEF L
<1>3. PICK x \in T : \A y \in T : ~(<<y, x>> \in L)
  BY <1>1, WFMin
<1>4. x \in Nat /\ x # 0
  OBVIOUS
<1>5. x - 1 \in Nat /\ x - 1 < x /\ (x - 1) + 1 = x
  BY <1>4
<1>6. x - 1 \in S
  BY <1>2, <1>3, <1>4, <1>5
<1> QED
  BY <1>5, <1>6

\* The same for the numbers up to n.
LEMMA StepByStep ==
  ASSUME NEW n \in Nat, NEW S, 0 \in S, \A k \in 1..n : k - 1 \in S => k \in S
  PROVE  n \in S
<1> DEFINE T == {k \in Nat : k <= n => k \in S}
<1>1. 0 \in T
  OBVIOUS
<1>2. ASSUME NEW k \in T PROVE k + 1 \in T
  <2>1. k \in Nat /\ k + 1 \in Nat /\ (k <= n => k \in S)
    OBVIOUS
  <2>2. k + 1 <= n => k + 1 \in 1..n /\ (k + 1) - 1 = k /\ k <= n
    BY <2>1
  <2>3. k + 1 <= n => k + 1 \in S
    BY <2>1, <2>2
  <2> QED
    BY <2>1, <2>3
<1>3. T \in SUBSET Nat
  OBVIOUS
<1> HIDE DEF T
<1>4. n \in T
  BY <1>1, <1>2, <1>3, Induction
<1> QED
  BY <1>4 DEF T

\* A choice of an element from every set, and the function by which a fold with the
\* operation F, the start b and that choice is defined.
IsChoice(c, S) == \A s \in SUBSET S : s # {} => c[s] \in s
IsFold(g, S, D, b, F, c) ==
  /\ g \in [SUBSET S -> D]
  /\ \A s \in SUBSET S : g[s] = IF s = {} THEN b ELSE F[c[s]][g[s \ {c[s]}]]

\* The recursive function by which a fold over a finite set is defined exists: a choice
\* from each set, a start, and an operation.
LEMMA FoldExists ==
  ASSUME NEW S, IsFiniteSet(S), NEW D, NEW b \in D, NEW F \in [S -> [D -> D]],
         NEW c, IsChoice(c, S)
  PROVE  \E g : IsFold(g, S, D, b, F, c)
<1> DEFINE Small(k) == {s \in SUBSET S : Cardinality(s) <= k}
           Fold(g, k) == \A s \in Small(k) : g[s] = IF s = {} THEN b ELSE F[c[s]][g[s \ {c[s]}]]
           K == {k \in Nat : \E g \in [Small(k) -> D] : Fold(g, k)}
<1>1. \A s \in SUBSET S : IsFiniteSet(s) /\ Cardinality(s) \in Nat
  BY FS_Subset, FS_CardinalityType
<1>2. 0 \in K
  <2>1. \A s \in Small(0) : s = {}
    BY <1>1, FS_EmptySet
  <2> DEFINE g == [s \in Small(0) |-> b]
  <2>2. g \in [Small(0) -> D] /\ Fold(g, 0)
    BY <2>1
  <2> QED
    BY <2>2
<1>3. ASSUME NEW k \in K PROVE k + 1 \in K
  <2>1. PICK g \in [Small(k) -> D] : Fold(g, k)
    OBVIOUS
  <2>2. k \in Nat /\ k + 1 \in Nat
    OBVIOUS
  <2> DEFINE f == [s \in Small(k + 1) |-> IF s = {} THEN b ELSE F[c[s]][g[s \ {c[s]}]]]
  <2>3. ASSUME NEW s \in Small(k + 1), s # {}
        PROVE  s \ {c[s]} \in Small(k) /\ c[s] \in S
    <3>1. c[s] \in s /\ s \in SUBSET S /\ s \ {c[s]} \in SUBSET S
      BY <2>3 DEF IsChoice
    <3>2. Cardinality(s \ {c[s]}) = Cardinality(s) - 1
      BY <1>1, <3>1, FS_RemoveElement
    <3>3. Cardinality(s) \in Nat /\ Cardinality(s) <= k + 1
      BY <1>1
    <3> QED
      BY <2>2, <3>1, <3>2, <3>3
  <2>4. ASSUME NEW s \in Small(k) PROVE s \in Small(k + 1) /\ f[s] = g[s]
    <3>1. s \in Small(k + 1)
      BY <1>1, <2>2
    <3> HIDE DEF Small
    <3> QED
      BY <2>1, <3>1
  <2> HIDE DEF Small
  <2>5. f \in [Small(k + 1) -> D]
    BY <2>1, <2>3
  <2>6. Fold(f, k + 1)
    BY <2>3, <2>4
  <2> QED
    BY <2>2, <2>5, <2>6
<1>4. K \in SUBSET Nat
  OBVIOUS
<1> DEFINE n == Cardinality(S)
<1>5. n \in Nat
  BY FS_CardinalityType
<1>6. Small(n) = SUBSET S
  BY FS_Subset
<1>7. n \in K
  <2> HIDE DEF K
  <2> QED
    BY <1>2, <1>3, <1>4, <1>5, Induction
<1>8. PICK g \in [Small(n) -> D] : Fold(g, n)
  BY <1>7
<1> HIDE DEF Small
<1> QED
  BY <1>6, <1>8 DEF IsFold

\* A set of numbers from 1 to n has a greatest.
LEMMA MaxChosen ==
  ASSUME NEW n \in Nat, NEW s \in SUBSET (1..n), s # {}
  PROVE  Max(s) \in s /\ \A i \in s : i <= Max(s)
<1> DEFINE T == {k \in Nat : \A r \in SUBSET (1..k) : r # {} => \E i \in r : \A j \in r : i >= j}
<1>1. 0 \in T
  <2>1. \A r \in SUBSET (1..0) : r = {}
    OBVIOUS
  <2> QED
    BY <2>1
<1>2. ASSUME NEW k \in T PROVE k + 1 \in T
  <2>1. k \in Nat /\ k + 1 \in Nat
    OBVIOUS
  <2>2. ASSUME NEW r \in SUBSET (1..(k + 1)), r # {} PROVE \E i \in r : \A j \in r : i >= j
    <3>1. CASE k + 1 \in r
      BY <2>1, <3>1
    <3>2. CASE k + 1 \notin r
      <4>1. r \in SUBSET (1..k)
        BY <2>1, <3>2
      <4> QED
        BY <2>2, <4>1
    <3> QED
      BY <3>1, <3>2
  <2> QED
    BY <2>1, <2>2
<1>3. T \in SUBSET Nat
  OBVIOUS
<1> HIDE DEF T
<1>4. n \in T
  BY <1>1, <1>2, <1>3, Induction
<1>5. \E i \in s : \A j \in s : i >= j
  BY <1>4 DEF T
<1>6. Max(s) \in s /\ \A j \in s : Max(s) >= j
  BY <1>5, Zenon DEF Max
<1> QED
  BY <1>6

LEMMA MaxOfInterval ==
  ASSUME NEW n \in Nat, NEW k \in 1..n
  PROVE  /\ Max(1..k) = k
         /\ (1..k) \ {k} = 1..(k - 1) /\ 1..k # {} /\ 1..k \in SUBSET (1..n)
         /\ k \in 0..n /\ k - 1 \in 0..n
<1>1. 1..k \in SUBSET (1..n) /\ k \in 1..k
  OBVIOUS
<1>2. Max(1..k) \in 1..k /\ k <= Max(1..k)
  BY <1>1, MaxChosen
<1>3. Max(1..k) = k
  BY <1>2
<1>4. (1..k) \ {k} = 1..(k - 1)
  OBVIOUS
<1> QED
  BY <1>1, <1>3, <1>4

\* What holds of the empty set, and of each set if it holds without the chosen element.
LEMMA SetByChoice ==
  ASSUME NEW S, IsFiniteSet(S), NEW c, IsChoice(c, S), NEW T, {} \in T,
         \A s \in SUBSET S : s # {} /\ s \ {c[s]} \in T => s \in T
  PROVE  S \in T
<1> DEFINE K == {k \in Nat : \A s \in SUBSET S : Cardinality(s) <= k => s \in T}
<1>1. \A s \in SUBSET S : IsFiniteSet(s) /\ Cardinality(s) \in Nat
  BY FS_Subset, FS_CardinalityType
<1>2. 0 \in K
  BY <1>1, FS_EmptySet
<1>3. ASSUME NEW k \in K PROVE k + 1 \in K
  <2>1. k \in Nat /\ k + 1 \in Nat /\ \A s \in SUBSET S : Cardinality(s) <= k => s \in T
    OBVIOUS
  <2>2. ASSUME NEW s \in SUBSET S, Cardinality(s) <= k + 1 PROVE s \in T
    <3>1. CASE s = {}
      BY <3>1
    <3>2. CASE s # {}
      <4>1. c[s] \in s /\ s \ {c[s]} \in SUBSET S
        BY <3>2 DEF IsChoice
      <4>2. Cardinality(s \ {c[s]}) = Cardinality(s) - 1
        BY <1>1, <4>1, FS_RemoveElement
      <4>3. Cardinality(s \ {c[s]}) <= k
        BY <1>1, <2>1, <2>2, <4>2
      <4> QED
        BY <2>1, <3>2, <4>1, <4>3
    <3> QED
      BY <3>1, <3>2
  <2> QED
    BY <2>1, <2>2
<1>4. K \in SUBSET Nat
  OBVIOUS
<1> HIDE DEF K
<1>5. Cardinality(S) \in K
  BY <1>1, <1>2, <1>3, <1>4, Induction
<1>6. Cardinality(S) <= Cardinality(S)
  BY <1>1
<1> QED
  BY <1>5, <1>6 DEF K

LEMMA DisjointUnion ==
  ASSUME NEW S, NEW T, IsFiniteSet(S), IsFiniteSet(T), S \cap T = {}
  PROVE  Cardinality(S \cup T) = Cardinality(S) + Cardinality(T)
<1>1. Cardinality(S) \in Nat /\ Cardinality(T) \in Nat /\ Cardinality(S \cap T) = 0
  BY FS_CardinalityType, FS_EmptySet
<1>2. Cardinality(S \cup T) = Cardinality(S) + Cardinality(T) - Cardinality(S \cap T)
  BY FS_Union
<1> QED
  BY <1>1, <1>2

\* A list of the elements of a finite set, in some order, has each of them once.
LEMMA Permutation ==
  ASSUME NEW S, IsFiniteSet(S), NEW order \in SetToSeqs(S)
  PROVE  /\ Cardinality(S) \in Nat
         /\ order \in [1..Cardinality(S) -> S]
         /\ \A i, j \in 1..Cardinality(S) : i # j => order[i] # order[j]
         /\ \A x \in S : \E i \in 1..Cardinality(S) : order[i] = x
<1> DEFINE n == Cardinality(S)
<1>1. n \in Nat
  BY FS_CardinalityType
<1>2. order \in [1..n -> S] /\ \A i, j \in 1..n : i # j => order[i] # order[j]
  BY DEF SetToSeqs
<1>3. IsFiniteSet(1..n) /\ Cardinality(1..n) = n
  BY <1>1, FS_Interval
<1>4. order \in Injection(1..n, S)
  BY <1>2 DEF Injection, IsInjective
<1>5. order \in Surjection(1..n, S)
  BY <1>3, <1>4, FS_Injection
<1> QED
  BY <1>1, <1>2, <1>5 DEF Surjection
===========================================================================
