------------------------------ MODULE L7Proofs ------------------------------
(***************************************************************************)
(* Types, the book-keeping of the load balancer object and the order of    *)
(* Cleanup, for any certificates and addresses and any number of changes,  *)
(* failed calls, lost answers and restarts.                                *)
(***************************************************************************)
EXTENDS L7, TLAPS

\* A pass works on runtime info, and Cleanup on one of its resources.
InHand ==
  /\ pc \in Checks => ri # None
  /\ pc = "cleanup" => del > 0

TypeInv == TypeOK /\ InHand

\* What Cleanup has come past is deleted, or the object has never known of it; and
\* the object knows of no certificate in use any more.
Done ==
  pc = "cleanup" =>
    /\ del > 1 /\ cloud.fw # None => lb.fw = None
    /\ del > 2 /\ cloud.fws # None => lb.fws = None
    /\ del > 3 /\ cloud.ip # None => lb.ip = None
    /\ del > 4 /\ cloud.tps # None => lb.tps = None
    /\ del > 5 => lb.sslCert = None
    /\ del > 6 /\ cloud.tp # None => lb.tp = None
    /\ del > 7 /\ cloud.um # None => lb.um = None

\* As long as nothing was lost, the object knows all resources.
Known == lost = 0 /\ restarts = 0 => Knows(cloud, lb)

IInv == TypeInv /\ Done /\ Known

(***************************************************************************)
(* Lemmas                                                                  *)
(***************************************************************************)

\* The order of Cleanup.
LEMMA TheDeletes ==
  /\ Len(Deletes) = 7
  /\ Deletes[1] = "fw" /\ Deletes[2] = "fws" /\ Deletes[3] = "ip" /\ Deletes[4] = "tps"
  /\ Deletes[5] = "sslCert" /\ Deletes[6] = "tp" /\ Deletes[7] = "um"
BY DEF Deletes

\* There are two names.
LEMMA TheOther == /\ Other("primary") = "secondary" /\ Other("secondary") = "primary"
BY DEF Other, Names

\* Each resource is at one place of the order.
LEMMA Places ==
  ASSUME TypeInv, pc = "cleanup", del <= Len(Deletes)
  PROVE  \/ (del = 1 /\ Deletes[del] = "fw")
         \/ (del = 2 /\ Deletes[del] = "fws")
         \/ (del = 3 /\ Deletes[del] = "ip")
         \/ (del = 4 /\ Deletes[del] = "tps")
         \/ (del = 5 /\ Deletes[del] = "sslCert")
         \/ (del = 6 /\ Deletes[del] = "tp")
         \/ (del = 7 /\ Deletes[del] = "um")
<1>1. del \in {1, 2, 3, 4, 5, 6, 7}
  BY TheDeletes DEF TypeInv, TypeOK, InHand
<1> QED
  BY <1>1, TheDeletes

\* Lost answers and failed calls are counted up to their bounds.
LEMMA Counts ==
  ASSUME TypeOK
  PROVE  /\ \A c, l, step : Go(l, step) \/ Call(c, l, step) => lost' \in 0 .. MaxForgets
         /\ NoneFails \/ Failing => fails' \in 0 .. MaxFails
BY L7Assumption DEF TypeOK, Go, Call, NoneFails, Failing

\* A check that goes on with another one, or ends the pass, keeps the types.
LEMMA CheckTypes ==
  ASSUME TypeInv, pc \in Checks, NEW c \in Cloud, NEW l \in Object,
         NEW step \in Checks \cup {"idle"},
         Go(l, step) \/ Call(c, l, step), NoneFails \/ Failing, Unmoved
  PROVE  TypeInv'
<1>1. /\ cloud' \in Cloud /\ lb' \in Object /\ pc' \in Checks \cup {"idle"}
  BY DEF TypeInv, TypeOK, Go, Call, Error
<1>2. lost' \in 0 .. MaxForgets /\ fails' \in 0 .. MaxFails
  BY Counts DEF TypeInv
<1>3. TypeOK'
  BY <1>1, <1>2 DEF TypeInv, TypeOK, Unmoved
<1>4. pc' # "cleanup" /\ ri' # None
  BY <1>1 DEF TypeInv, InHand, Unmoved, Checks
<1> QED
  BY <1>3, <1>4 DEF TypeInv, InHand

\* The same for a call that is refused or fails, and the pass ends.
LEMMA ErrorTypes ==
  ASSUME TypeInv, Error, cloud' \in Cloud, lost' \in 0 .. MaxForgets, fails' \in 0 .. MaxFails,
         UNCHANGED <<ingress, ri, pooled, changes, restarts>>, del' \in 0 .. Len(Deletes) + 1
  PROVE  TypeInv'
BY DEF TypeInv, TypeOK, InHand, Error, Checks

\* The address for a rule.
LEMMA AddressType ==
  ASSUME TypeInv, NEW found \in BOOLEAN PROVE getEffectiveIP(found) \in Maybe(Addresses)
BY DEF TypeInv, TypeOK, Object, getEffectiveIP, Maybe, Addresses

\* A rule is created, moved or left where it is.
LEMMA RuleTypes ==
  ASSUME TypeInv, pc \in Checks, NEW rule \in {"fw", "fws"}, NEW address \in Maybe(Addresses),
         NEW step \in Checks \cup {"idle"},
         checkForwardingRule(rule, address, step), NoneFails \/ Failing, Unmoved
  PROVE  TypeInv'
<1>1. [lb EXCEPT ![rule] = "some"] \in Object
  BY DEF TypeInv, TypeOK, Object, Some, Maybe
<1>2. ASSUME NEW a \in Maybe(Addresses) PROVE [cloud EXCEPT ![rule] = a] \in Cloud
  BY DEF TypeInv, TypeOK, Cloud
<1>3. CASE /\ cloud' = [cloud EXCEPT ![rule] = None] /\ Error /\ UNCHANGED lost
  <2>1. cloud' \in Cloud
    BY <1>2, <1>3 DEF Maybe
  <2>2. lost' \in 0 .. MaxForgets /\ fails' \in 0 .. MaxFails
    BY <1>3, Counts DEF TypeInv, TypeOK
  <2> QED
    BY <1>3, <2>1, <2>2, ErrorTypes DEF Unmoved, TypeInv, TypeOK
<1>4. CASE \E c \in Cloud : \/ Go([lb EXCEPT ![rule] = "some"], step)
                         \/ Call(c, [lb EXCEPT ![rule] = "some"], step)
  BY <1>1, <1>4, CheckTypes
<1>5. cloud \in Cloud
  BY DEF TypeInv, TypeOK
<1> QED
  BY <1>2, <1>3, <1>4, <1>5 DEF checkForwardingRule, Addresses, Maybe

(***************************************************************************)
(* Types                                                                   *)
(***************************************************************************)

\* The checks of edgeHop.
LEMMA EdgeTypes == TypeInv /\ (edgeHop \/ StepFails) => TypeInv'
<1> SUFFICES ASSUME TypeInv, edgeHop \/ StepFails PROVE TypeInv'
  OBVIOUS
<1> USE L7Assumption
<1>1. CASE checkUrlMap
  <2>1. [lb EXCEPT !.um = "some"] \in Object /\ [cloud EXCEPT !.um = "some"] \in Cloud
    BY DEF TypeInv, TypeOK, Object, Cloud, Some, Maybe
  <2>2. AfterUrlMap \in Checks \cup {"idle"}
    BY DEF AfterUrlMap, Checks
  <2> QED
    BY <1>1, <2>1, <2>2, CheckTypes DEF checkUrlMap, Checks
<1>2. CASE checkProxy
  <2>1. [lb EXCEPT !.tp = "some"] \in Object /\ [cloud EXCEPT !.tp = "some"] \in Cloud
    BY DEF TypeInv, TypeOK, Object, Cloud, Some, Maybe
  <2> QED
    BY <1>2, <2>1, CheckTypes DEF checkProxy, Checks
<1>3. CASE checkHttpForwardingRule \/ checkHttpsForwardingRule
  <2>1. AfterHttp \in Checks \cup {"idle"}
    BY DEF AfterHttp, Checks
  <2>2. PICK found \in BOOLEAN :
          /\ Found(found)
          /\ \/ pc = "fw" /\ checkForwardingRule("fw", getEffectiveIP(found), AfterHttp)
             \/ pc = "fws" /\ checkForwardingRule("fws", getEffectiveIP(found), "old")
    BY <1>3 DEF checkHttpForwardingRule, checkHttpsForwardingRule
  <2>3. (NoneFails \/ Failing) /\ Unmoved /\ pc \in Checks
    BY <1>3, <2>2 DEF checkHttpForwardingRule, checkHttpsForwardingRule, Found, Checks
  <2>4. getEffectiveIP(found) \in Maybe(Addresses)
    BY <2>2, AddressType
  <2> QED
    BY <2>1, <2>2, <2>3, <2>4, RuleTypes DEF Checks
<1>4. CASE RecreateFails
  <2>1. cloud' \in Cloud
    BY <1>4 DEF RecreateFails, TypeInv, TypeOK, Cloud, Maybe
  <2>2. lost' \in 0 .. MaxForgets /\ fails' \in 0 .. MaxFails
    BY <1>4, Counts DEF RecreateFails, TypeInv, TypeOK
  <2> QED
    BY <1>4, <2>1, <2>2, ErrorTypes DEF RecreateFails, Unmoved, TypeInv, TypeOK
<1>5. CASE checkStaticIP
  <2>1. /\ [lb EXCEPT !.ip = cloud.ip] \in Object /\ [lb EXCEPT !.ip = cloud.fw] \in Object
        /\ [cloud EXCEPT !.ip = cloud.fw] \in Cloud
    BY DEF TypeInv, TypeOK, Object, Cloud
  <2>2. PICK found \in BOOLEAN :
          /\ Found(found)
          /\ \/ Go(lb, "cert") \/ Go([lb EXCEPT !.ip = cloud.ip], "cert")
             \/ Call([cloud EXCEPT !.ip = cloud.fw], [lb EXCEPT !.ip = cloud.fw], "cert")
    BY <1>5 DEF checkStaticIP
  <2>3. (NoneFails \/ Failing) /\ Unmoved /\ pc \in Checks /\ lb \in Object /\ cloud \in Cloud
    BY <1>5, <2>2 DEF checkStaticIP, Found, Checks, TypeInv, TypeOK
  <2>4. "cert" \in Checks \cup {"idle"}
    BY DEF Checks
  <2> QED
    BY <2>1, <2>2, <2>3, <2>4, CheckTypes
<1>6. CASE checkStaticIPRefused
  BY <1>6, CheckTypes DEF checkStaticIPRefused, Checks, TypeInv, TypeOK
<1>7. CASE checkSSLCert
  <2> DEFINE n == IF lb.sslCert = None THEN "primary" ELSE lb.sslCert
             new == IF cloud.cert[n] = None THEN n ELSE NextName(n)
             l == [lb EXCEPT !.sslCert = new, !.oldSSLCert = lb.sslCert]
             c == [cloud EXCEPT !.cert[new] = ri.tls]
  <2>1. n \in Names
    BY DEF TypeInv, TypeOK, Object, Maybe, Names
  <2>2. new \in Names
    BY <2>1, TheOther DEF Names, NextName
  <2>3. ri.tls \in Maybe(Certs)
    BY <1>7 DEF checkSSLCert, TypeInv, TypeOK, InHand, Checks, RuntimeInfo, Maybe
  <2>4. [lb EXCEPT !.sslCert = n] \in Object
    BY <2>1 DEF TypeInv, TypeOK, Object, Maybe
  <2>5. l \in Object
    BY <2>2 DEF TypeInv, TypeOK, Object, Maybe
  <2>6. c \in Cloud
    BY <2>2, <2>3 DEF TypeInv, TypeOK, Cloud
  <2>7. "tps" \in Checks \cup {"idle"} /\ pc \in Checks /\ Unmoved /\ NoneFails
    BY <1>7 DEF checkSSLCert, Checks
  <2>8. Go([lb EXCEPT !.sslCert = n], "tps") \/ Call(c, l, "tps") \/ Refused
    BY <1>7 DEF checkSSLCert
  <2> HIDE DEF l, c, n
  <2>9. CASE Refused
    BY <2>7, <2>9, ErrorTypes DEF Refused, Unmoved, NoneFails, TypeInv, TypeOK
  <2> QED
    BY <2>4, <2>5, <2>6, <2>7, <2>8, <2>9, CheckTypes DEF TypeInv, TypeOK
<1>8. CASE checkHttpsProxy
  <2>1. [lb EXCEPT !.tps = "some"] \in Object /\ [cloud EXCEPT !.tps = lb.sslCert] \in Cloud
    BY DEF TypeInv, TypeOK, Object, Cloud, Some, Maybe
  <2> QED
    BY <1>8, <2>1, CheckTypes DEF checkHttpsProxy, Checks
<1>9. CASE deleteOldSSLCert
  <2>1. CASE Refused
    BY <1>9, <2>1, ErrorTypes DEF deleteOldSSLCert, Refused, Unmoved, NoneFails, TypeInv, TypeOK
  <2>2. [lb EXCEPT !.oldSSLCert = None] \in Object /\ lb \in Object /\ cloud \in Cloud
    BY DEF TypeInv, TypeOK, Object, Maybe
  <2>3. [cloud EXCEPT !.cert[lb.oldSSLCert] = None] \in Cloud
    BY DEF TypeInv, TypeOK, Cloud, Maybe
  <2> QED
    BY <1>9, <2>1, <2>2, <2>3, CheckTypes DEF deleteOldSSLCert, Checks
<1>10. CASE StepFails
  BY <1>10, Counts, ErrorTypes DEF StepFails, Refused, Unmoved, TypeInv, TypeOK
<1> QED
  BY <1>1, <1>2, <1>3, <1>4, <1>5, <1>6, <1>7, <1>8, <1>9, <1>10 DEF edgeHop

\* Cleanup goes on, or ends with an error.
LEMMA CleanupTypes == TypeInv /\ CleanupStep => TypeInv'
<1> SUFFICES ASSUME TypeInv, CleanupStep PROVE TypeInv'
  OBVIOUS
<1> DEFINE r == Deletes[del]
           cleared == [lb EXCEPT ![r] = None]
<1>1. r \in {"fw", "fws", "ip", "tps", "sslCert", "tp", "um"}
  BY Places DEF CleanupStep
<1>2. cleared \in Object /\ lb \in Object /\ cloud \in Cloud
  BY <1>1 DEF TypeInv, TypeOK, Object, Some, Maybe
<1>3. lb[r] # None => Without(r) \in Cloud
  BY <1>1 DEF TypeInv, TypeOK, Object, Cloud, Some, Maybe, Without
<1>4. del' \in 1 .. Len(Deletes) + 1
  BY TheDeletes DEF CleanupStep, TypeInv, TypeOK, InHand
<1>5. UNCHANGED <<ingress, ri, pooled, changes, restarts, fails>>
  BY DEF CleanupStep, NoneFails
<1>6. CASE Refused
  BY <1>4, <1>5, <1>6, ErrorTypes DEF Refused, TypeInv, TypeOK
<1>7. CASE ~Refused
  <2>1. \/ Go(lb, "cleanup")
        \/ lb[r] # None /\ (\E l \in {lb, cleared} : Call(Without(r), l, "cleanup"))
    BY <1>7 DEF CleanupStep
  <2>2. lb' \in Object /\ cloud' \in Cloud /\ pc' \in {"cleanup", "idle"}
    BY <1>2, <1>3, <2>1 DEF Go, Call, Error
  <2>3. lost' \in 0 .. MaxForgets
    BY <2>1, Counts DEF TypeInv
  <2>4. TypeOK'
    BY <1>4, <1>5, <2>2, <2>3 DEF TypeInv, TypeOK
  <2> QED
    BY <1>4, <2>2, <2>4 DEF TypeInv, InHand, Checks
<1> QED
  BY <1>6, <1>7

LEMMA TypeStep == TypeInv /\ [Next]_vars => TypeInv'
<1> SUFFICES ASSUME TypeInv, [Next]_vars PROVE TypeInv'
  OBVIOUS
<1> USE L7Assumption
<1>1. CASE edgeHop \/ StepFails
  BY <1>1, EdgeTypes
<1>2. CASE CleanupStep
  BY <1>2, CleanupTypes
<1>3. CASE Forget
  <2>1. NoObject \in Object
    BY DEF NoObject, Object, Some, Maybe
  <2> QED
    BY <1>3, <2>1 DEF Forget, TypeInv, TypeOK, InHand, Checks
<1>4. CASE Add
  <2>1. ri' \in RuntimeInfo
    BY <1>4 DEF Add, TypeInv, TypeOK, RuntimeInfo, Maybe
  <2>2. ri' # None
    BY <2>1 DEF RuntimeInfo, Maybe
  <2>3. fails' \in 0 .. MaxFails
    BY <1>4 DEF Add, Failing, TypeInv, TypeOK
  <2>4. TypeOK'
    BY <1>4, <2>1, <2>3 DEF Add, TypeInv, TypeOK, Maybe, Checks
  <2> QED
    BY <1>4, <2>2, <2>4 DEF Add, TypeInv, InHand
<1>5. CASE GC
  BY <1>5, TheDeletes DEF GC, TypeInv, TypeOK, InHand, Checks
<1>6. CASE Restart
  <2>1. NoObject \in Object
    BY DEF NoObject, Object, Some, Maybe
  <2>2. restarts' \in 0 .. MaxForgets
    BY <1>6 DEF Restart, TypeInv, TypeOK
  <2> QED
    BY <1>6, <2>1, <2>2 DEF Restart, TypeInv, TypeOK, InHand, Checks, Maybe
<1>7. CASE Change
  BY <1>7 DEF Change, controller, TypeInv, TypeOK, InHand, Maybe
<1>8. CASE UNCHANGED vars
  BY <1>8 DEF vars, controller, TypeInv, TypeOK, InHand
<1> QED
  BY <1>1, <1>2, <1>3, <1>4, <1>5, <1>6, <1>7, <1>8 DEF Next, Sync, Cleanup

LEMMA TypeInit == Init => TypeInv
<1> SUFFICES ASSUME Init PROVE TypeInv
  OBVIOUS
<1>1. lb \in Object /\ cloud \in Cloud
  BY DEF Init, NoObject, Object, Cloud, Some, Maybe
<1>2. del \in 0 .. Len(Deletes) + 1
  BY TheDeletes DEF Init
<1>3. /\ changes \in 0 .. MaxChanges /\ fails \in 0 .. MaxFails
      /\ lost \in 0 .. MaxForgets /\ restarts \in 0 .. MaxForgets
  BY L7Assumption DEF Init
<1>4. /\ ingress \in Maybe(RuntimeInfo) /\ ri \in Maybe(RuntimeInfo)
      /\ pooled \in BOOLEAN /\ pc \in Checks \cup {"idle", "cleanup"}
  BY DEF Init, Maybe
<1>5. InHand
  BY DEF Init, InHand, Checks
<1> QED
  BY <1>1, <1>2, <1>3, <1>4, <1>5 DEF TypeInv, TypeOK

\* The object's pointers and the resources have their types, and Cleanup stays within
\* its list, whatever fails: no check reads the runtime info before a pass has it.
THEOREM TypeCorrect == Spec => []TypeOK
<1>1. Spec => []TypeInv
  BY TypeInit, TypeStep, PTL DEF Spec
<1> QED
  BY <1>1, PTL DEF TypeInv

(***************************************************************************)
(* What the object knows                                                   *)
(***************************************************************************)

\* The step that KeepsTrack allows.
Kept ==
  lost' = lost /\ restarts' = restarts =>
    /\ Knows(cloud, lb) => Knows(cloud', lb')
    /\ KnowsCerts(cloud, lb) /\ (lb.oldSSLCert = None \/ (pooled' /\ HasCert(cloud, lb)))
         => KnowsCerts(cloud', lb')

\* Nothing changes, or a resource goes and the object does not.
LEMMA SameKept ==
  ASSUME UNCHANGED lb, \A r \in {"um", "tp", "tps", "fw", "fws", "ip"} : cloud'[r] \in {cloud[r], None},
         cloud'.cert = cloud.cert
  PROVE  Kept
BY DEF Kept, Knows, KnowsCerts

\* A check creates a resource or finds it, and the object gets to know it.
LEMMA CheckKept ==
  ASSUME TypeInv, NEW r \in {"um", "tp", "tps", "fw", "fws", "ip"}, NEW l \in Object,
         NEW c \in Cloud, NEW step,
         Go(l, step) \/ Call(c, l, step),
         \A q \in {"um", "tp", "tps", "fw", "fws", "ip"} \ {r} : c[q] = cloud[q] /\ l[q] = lb[q],
         c.cert = cloud.cert, l.sslCert = lb.sslCert, l.oldSSLCert = lb.oldSSLCert,
         l[r] # None \/ (c[r] = None /\ cloud[r] = None)
  PROVE  Kept
<1> SUFFICES ASSUME lost' = lost PROVE Kept
  BY DEF Kept
<1>1. lb' = l /\ cloud' \in {cloud, c}
  BY DEF Go, Call, TypeInv, TypeOK
<1> QED
  BY <1>1 DEF Kept, Knows, KnowsCerts

\* A step that leaves both alone.
LEMMA StillKept == ASSUME UNCHANGED <<cloud, lb>> PROVE Kept
BY DEF Kept, Knows, KnowsCerts

LEMMA RuleKept ==
  ASSUME TypeInv, NEW rule \in {"fw", "fws"}, NEW address \in Maybe(Addresses), NEW step,
         checkForwardingRule(rule, address, step)
  PROVE  Kept
<1> DEFINE l == [lb EXCEPT ![rule] = "some"]
<1>1. l \in Object /\ cloud \in Cloud
  BY DEF TypeInv, TypeOK, Object, Some, Maybe
<1>2. ASSUME NEW a \in Addresses PROVE [cloud EXCEPT ![rule] = a] \in Cloud
  BY DEF TypeInv, TypeOK, Cloud, Maybe
<1>8. CASE /\ cloud' = [cloud EXCEPT ![rule] = None] /\ Error
  <2>1. /\ \A q \in {"um", "tp", "tps", "fw", "fws", "ip"} : cloud'[q] \in {cloud[q], None}
        /\ cloud'.cert = cloud.cert
    BY <1>8 DEF TypeInv, TypeOK, Cloud
  <2> QED
    BY <1>8, <2>1, SameKept DEF Error
<1> SUFFICES ASSUME ~(cloud' = [cloud EXCEPT ![rule] = None] /\ Error) PROVE Kept
  BY <1>8
<1>3. PICK a \in Addresses : Go(l, step) \/ Call([cloud EXCEPT ![rule] = a], l, step)
  <2>1. CASE Go(l, step)
    BY <2>1 DEF Addresses
  <2> QED
    BY <2>1 DEF checkForwardingRule, Addresses, Maybe
<1> DEFINE c == [cloud EXCEPT ![rule] = a]
<1>4. \A q \in {"um", "tp", "tps", "fw", "fws", "ip"} \ {rule} : c[q] = cloud[q] /\ l[q] = lb[q]
  BY DEF TypeInv, TypeOK, Cloud, Object
<1>5. /\ c.cert = cloud.cert /\ l.sslCert = lb.sslCert /\ l.oldSSLCert = lb.oldSSLCert
      /\ l[rule] # None
  BY L7Assumption DEF TypeInv, TypeOK, Cloud, Object
<1>6. c \in Cloud
  BY <1>2, <1>3
<1>7. Go(l, step) \/ Call(c, l, step)
  BY <1>3
<1> HIDE DEF c, l
<1> QED
  BY <1>1, <1>4, <1>5, <1>6, <1>7, CheckKept

\* The checks of edgeHop.
LEMMA EdgeKept == TypeInv /\ (edgeHop \/ StepFails) => Kept
<1> SUFFICES ASSUME TypeInv, edgeHop \/ StepFails PROVE Kept
  OBVIOUS
<1> USE L7Assumption
<1>1. CASE checkUrlMap
  <2> DEFINE l == [lb EXCEPT !.um = "some"]
             c == [cloud EXCEPT !.um = "some"]
  <2>1. l \in Object /\ c \in Cloud
    BY DEF TypeInv, TypeOK, Object, Cloud, Some, Maybe
  <2>2. \A q \in {"um", "tp", "tps", "fw", "fws", "ip"} \ {"um"} : c[q] = cloud[q] /\ l[q] = lb[q]
    BY DEF TypeInv, TypeOK, Cloud, Object
  <2>3. /\ c.cert = cloud.cert /\ l.sslCert = lb.sslCert /\ l.oldSSLCert = lb.oldSSLCert
        /\ l["um"] # None
    BY DEF TypeInv, TypeOK, Cloud, Object
  <2>4. Go(l, AfterUrlMap) \/ Call(c, l, AfterUrlMap)
    BY <1>1 DEF checkUrlMap
  <2> HIDE DEF l, c
  <2> QED
    BY <2>1, <2>2, <2>3, <2>4, CheckKept
<1>2. CASE checkProxy
  <2> DEFINE l == [lb EXCEPT !.tp = "some"]
             c == [cloud EXCEPT !.tp = "some"]
  <2>1. l \in Object /\ c \in Cloud
    BY DEF TypeInv, TypeOK, Object, Cloud, Some, Maybe
  <2>2. \A q \in {"um", "tp", "tps", "fw", "fws", "ip"} \ {"tp"} : c[q] = cloud[q] /\ l[q] = lb[q]
    BY DEF TypeInv, TypeOK, Cloud, Object
  <2>3. /\ c.cert = cloud.cert /\ l.sslCert = lb.sslCert /\ l.oldSSLCert = lb.oldSSLCert
        /\ l["tp"] # None
    BY DEF TypeInv, TypeOK, Cloud, Object
  <2>4. Go(l, "fw") \/ Call(c, l, "fw")
    BY <1>2 DEF checkProxy
  <2> HIDE DEF l, c
  <2> QED
    BY <2>1, <2>2, <2>3, <2>4, CheckKept
<1>3. CASE checkHttpForwardingRule \/ checkHttpsForwardingRule
  <2>1. PICK found \in BOOLEAN :
          \/ checkForwardingRule("fw", getEffectiveIP(found), AfterHttp)
          \/ checkForwardingRule("fws", getEffectiveIP(found), "old")
    BY <1>3 DEF checkHttpForwardingRule, checkHttpsForwardingRule
  <2>2. getEffectiveIP(found) \in Maybe(Addresses)
    BY <2>1, AddressType
  <2> QED
    BY <2>1, <2>2, RuleKept
<1>4. CASE RecreateFails
  <2>1. /\ \A q \in {"um", "tp", "tps", "fw", "fws", "ip"} : cloud'[q] \in {cloud[q], None}
        /\ cloud'.cert = cloud.cert
    BY <1>4 DEF RecreateFails, TypeInv, TypeOK, Cloud
  <2> QED
    BY <1>4, <2>1, SameKept DEF RecreateFails, Error
<1>5. CASE checkStaticIP
  <2>1. CASE Go(lb, "cert")
    BY <2>1, StillKept DEF Go
  <2> DEFINE l(a) == [lb EXCEPT !.ip = a]
             c == [cloud EXCEPT !.ip = cloud.fw]
  <2>2. \/ Go(lb, "cert")
        \/ cloud.ip # None /\ Go(l(cloud.ip), "cert")
        \/ cloud.ip = None /\ Call(c, l(cloud.fw), "cert")
    BY <1>5 DEF checkStaticIP
  <2>3. CASE cloud.ip # None /\ Go(l(cloud.ip), "cert")
    <3>1. cloud' = cloud /\ lb' = l(cloud.ip)
      BY <2>3 DEF Go
    <3>2. /\ \A q \in {"um", "tp", "tps", "fw", "fws"} : lb'[q] = lb[q]
          /\ lb'.ip = cloud.ip /\ lb'.sslCert = lb.sslCert /\ lb'.oldSSLCert = lb.oldSSLCert
      BY <3>1 DEF TypeInv, TypeOK, Object
    <3> QED
      BY <3>1, <3>2 DEF Kept, Knows, KnowsCerts
  <2>4. CASE cloud.ip = None /\ Call(c, l(cloud.fw), "cert")
    <3>1. l(cloud.fw) \in Object /\ c \in Cloud
      BY DEF TypeInv, TypeOK, Object, Cloud
    <3>2. \A q \in {"um", "tp", "tps", "fw", "fws", "ip"} \ {"ip"} :
            c[q] = cloud[q] /\ l(cloud.fw)[q] = lb[q]
      BY DEF TypeInv, TypeOK, Cloud, Object
    <3>3. /\ c.cert = cloud.cert /\ l(cloud.fw).sslCert = lb.sslCert
          /\ l(cloud.fw).oldSSLCert = lb.oldSSLCert
          /\ l(cloud.fw)["ip"] # None \/ (c["ip"] = None /\ cloud["ip"] = None)
      BY <2>4 DEF TypeInv, TypeOK, Cloud, Object
    <3> HIDE DEF l, c
    <3> QED
      BY <2>4, <3>1, <3>2, <3>3, CheckKept
  <2> QED
    BY <2>1, <2>2, <2>3, <2>4
<1>6. CASE checkStaticIPRefused
  BY <1>6, StillKept DEF checkStaticIPRefused, Go
<1>7. CASE checkSSLCert
  <2>1. CASE Refused
    BY <2>1, StillKept DEF Refused, Error
  <2> DEFINE n == IF lb.sslCert = None THEN "primary" ELSE lb.sslCert
             new == IF cloud.cert[n] = None THEN n ELSE NextName(n)
             l == [lb EXCEPT !.sslCert = new, !.oldSSLCert = lb.sslCert]
             c == [cloud EXCEPT !.cert[new] = ri.tls]
  <2>2. lb.sslCert \in Names \cup {None} /\ lb.oldSSLCert \in Names \cup {None}
    BY DEF TypeInv, TypeOK, Object, Maybe
  <2>3. n \in Names /\ new \in Names
    BY <2>2, TheOther DEF Names, NextName
  <2>4. CASE Go([lb EXCEPT !.sslCert = n], "tps")
    <3>1. cloud' = cloud /\ lb' = [lb EXCEPT !.sslCert = n]
      BY <2>4 DEF Go
    <3>2. /\ \A q \in {"um", "tp", "tps", "fw", "fws", "ip"} : lb'[q] = lb[q]
          /\ lb'.sslCert = n /\ lb'.oldSSLCert = lb.oldSSLCert
      BY <3>1 DEF TypeInv, TypeOK, Object
    <3> QED
      BY <2>2, <3>1, <3>2 DEF Kept, Knows, KnowsCerts, Names
  <2>5. CASE cloud.cert[new] = None /\ Call(c, l, "tps") /\ lost' = lost
    <3>1. cloud' = c /\ lb' = l
      BY <2>5 DEF Call, TypeInv, TypeOK
    <3>2. /\ \A q \in {"um", "tp", "tps", "fw", "fws", "ip"} : lb'[q] = lb[q] /\ cloud'[q] = cloud[q]
          /\ lb'.sslCert = new /\ lb'.oldSSLCert = lb.sslCert
      BY <3>1 DEF TypeInv, TypeOK, Object, Cloud
    <3>3. \A m \in Names \ {new} : cloud'.cert[m] = cloud.cert[m]
      BY <2>3, <3>1 DEF TypeInv, TypeOK, Cloud
    <3>4. Knows(cloud, lb) => Knows(cloud', lb')
      BY <3>2 DEF Knows
    <3>5. ASSUME KnowsCerts(cloud, lb), lb.oldSSLCert = None \/ HasCert(cloud, lb),
                 NEW m \in Names \ {new}, cloud.cert[m] # None
          PROVE  m = lb.sslCert
      <4>1. CASE lb.oldSSLCert = None
        BY <2>2, <3>5, <4>1, L7Assumption DEF KnowsCerts, Names
      <4>2. CASE HasCert(cloud, lb)
        <5>1. n = lb.sslCert /\ new = Other(n)
          BY <4>2 DEF HasCert, NextName
        <5> QED
          BY <2>3, <3>5, <5>1, TheOther DEF Names
      <4> QED
        BY <3>5, <4>1, <4>2
    <3> HIDE DEF new
    <3>6. KnowsCerts(cloud, lb) /\ (lb.oldSSLCert = None \/ HasCert(cloud, lb)) => KnowsCerts(cloud', lb')
      BY <3>2, <3>3, <3>5 DEF KnowsCerts
    <3> QED
      BY <3>4, <3>6 DEF Kept
  <2>6. lost' # lost => Kept
    BY DEF Kept
  <2> QED
    BY <1>7, <2>1, <2>4, <2>5, <2>6 DEF checkSSLCert
<1>8. CASE checkHttpsProxy
  <2> DEFINE l == [lb EXCEPT !.tps = "some"]
             c == [cloud EXCEPT !.tps = lb.sslCert]
  <2>1. l \in Object /\ c \in Cloud
    BY DEF TypeInv, TypeOK, Object, Cloud, Some, Maybe
  <2>2. \A q \in {"um", "tp", "tps", "fw", "fws", "ip"} \ {"tps"} : c[q] = cloud[q] /\ l[q] = lb[q]
    BY DEF TypeInv, TypeOK, Cloud, Object
  <2>3. /\ c.cert = cloud.cert /\ l.sslCert = lb.sslCert /\ l.oldSSLCert = lb.oldSSLCert
        /\ l["tps"] # None
    BY DEF TypeInv, TypeOK, Cloud, Object
  <2>4. Go(l, "fws") \/ Call(c, l, "fws")
    BY <1>8 DEF checkHttpsProxy
  <2> HIDE DEF l, c
  <2> QED
    BY <2>1, <2>2, <2>3, <2>4, CheckKept
<1>9. CASE deleteOldSSLCert
  <2> DEFINE old == lb.oldSSLCert
  <2>1. CASE Refused \/ Go(lb, "idle")
    BY <2>1, StillKept DEF Refused, Error, Go
  <2>2. CASE /\ old \notin {None, lb.sslCert} /\ lost' = lost
             /\ Call([cloud EXCEPT !.cert[old] = None], [lb EXCEPT !.oldSSLCert = None], "idle")
    <3>1. old \in Names
      BY <2>2 DEF TypeInv, TypeOK, Object, Maybe
    <3>2. cloud' = [cloud EXCEPT !.cert[old] = None] /\ lb' = [lb EXCEPT !.oldSSLCert = None]
      BY <2>2 DEF Call, TypeInv, TypeOK
    <3>3. /\ \A q \in {"um", "tp", "tps", "fw", "fws", "ip"} : lb'[q] = lb[q] /\ cloud'[q] = cloud[q]
          /\ lb'.sslCert = lb.sslCert /\ lb'.oldSSLCert = None
      BY <3>2 DEF TypeInv, TypeOK, Object, Cloud
    <3>4. /\ cloud'.cert[old] = None
          /\ \A m \in Names \ {old} : cloud'.cert[m] = cloud.cert[m]
      BY <3>1, <3>2 DEF TypeInv, TypeOK, Cloud
    <3> QED
      BY <3>1, <3>3, <3>4 DEF Kept, Knows, KnowsCerts
  <2>3. lost' # lost => Kept
    BY DEF Kept
  <2> QED
    BY <1>9, <2>1, <2>2, <2>3 DEF deleteOldSSLCert
<1>10. CASE StepFails
  BY <1>10, StillKept DEF StepFails, Refused, Error
<1> QED
  BY <1>1, <1>2, <1>3, <1>4, <1>5, <1>6, <1>7, <1>8, <1>9, <1>10 DEF edgeHop

\* One step of Cleanup: the resource goes, and the pointer with it or not.
LEMMA CleanupKept == TypeInv /\ Done /\ CleanupStep => Done' /\ Kept
<1> SUFFICES ASSUME TypeInv, Done, CleanupStep PROVE Done' /\ Kept
  OBVIOUS
<1> USE L7Assumption
<1>1. CASE Refused
  BY <1>1, StillKept DEF Refused, Error, Done
<1>2. CASE lost' # lost
  <2>1. pc' = "idle"
    BY <1>2 DEF CleanupStep, Refused, Go, Call, Error
  <2> QED
    BY <1>2, <2>1 DEF Done, Kept
<1>3. CASE ~Refused /\ lost' = lost
  <2> DEFINE r == Deletes[del]
  <2>1. /\ del' = del + 1 /\ del \in Nat
        /\ \/ cloud' = cloud /\ lb' = lb /\ lb[r] = None
           \/ /\ cloud' = Without(r) /\ lb[r] # None
              /\ \/ lb' = [lb EXCEPT ![r] = None]
                 \/ lb' = lb /\ r \in {"fws", "ip"}
    BY <1>3 DEF CleanupStep, Go, Call, KeptPointers, TypeInv, TypeOK
  <2>2. pc = "cleanup" /\ del <= Len(Deletes)
    BY DEF CleanupStep
  <2>3. CASE r = "sslCert"
    <3>1. del = 5
      BY <2>2, <2>3, Places
    <3>2. /\ \A q \in {"um", "tp", "tps", "fw", "fws", "ip"} : cloud'[q] = cloud[q] /\ lb'[q] = lb[q]
          /\ lb'.sslCert = None /\ lb'.oldSSLCert = lb.oldSSLCert
      BY <2>1, <2>3 DEF Without, TypeInv, TypeOK, Cloud, Object
    <3>3. Done'
      BY <2>1, <2>2, <3>1, <3>2 DEF Done
    <3>4. \A m \in Names : cloud'.cert[m] # None => m # lb.sslCert /\ cloud.cert[m] # None
      BY <2>1, <2>3 DEF Without, TypeInv, TypeOK, Cloud, Object, Maybe, Names
    <3> QED
      BY <3>2, <3>3, <3>4 DEF Kept, Knows, KnowsCerts
  <2>4. CASE r # "sslCert"
    <3>1. r \in {"um", "tp", "tps", "fw", "fws", "ip"}
      BY <2>2, <2>4, Places
    <3>2. /\ \A q \in {"um", "tp", "tps", "fw", "fws", "ip"} \ {r} : cloud'[q] = cloud[q] /\ lb'[q] = lb[q]
          /\ cloud'.cert = cloud.cert
          /\ lb'.sslCert = lb.sslCert /\ lb'.oldSSLCert = lb.oldSSLCert
      BY <2>1, <2>4, <3>1 DEF Without, TypeInv, TypeOK, Cloud, Object
    <3>3. cloud'[r] = None \/ (cloud'[r] = cloud[r] /\ lb[r] = None /\ lb'[r] = None)
      BY <2>1, <2>4, <3>1 DEF Without, TypeInv, TypeOK, Cloud, Object
    <3>4. Done'
      <4>1. \A q \in {"um", "tp", "tps", "fw", "fws", "ip"} :
              (cloud[q] # None => lb[q] = None) \/ q = r => (cloud'[q] # None => lb'[q] = None)
        BY <3>2, <3>3
      <4>2. /\ del + 1 > 1 /\ cloud'.fw # None => lb'.fw = None
            /\ del + 1 > 2 /\ cloud'.fws # None => lb'.fws = None
            /\ del + 1 > 3 /\ cloud'.ip # None => lb'.ip = None
        BY <2>1, <2>2, <4>1, Places DEF Done
      <4>3. /\ del + 1 > 4 /\ cloud'.tps # None => lb'.tps = None
            /\ del + 1 > 6 /\ cloud'.tp # None => lb'.tp = None
            /\ del + 1 > 7 /\ cloud'.um # None => lb'.um = None
        BY <2>1, <2>2, <4>1, Places DEF Done
      <4>4. del + 1 > 5 => lb'.sslCert = None
        BY <2>1, <2>2, <2>4, <3>2, Places DEF Done
      <4> QED
        BY <2>1, <4>2, <4>3, <4>4 DEF Done
    <3>5. Kept
      BY <3>2, <3>3 DEF Kept, Knows, KnowsCerts
    <3> QED
      BY <3>4, <3>5
  <2> QED
    BY <2>3, <2>4
<1> QED
  BY <1>1, <1>2, <1>3

\* At the end of Cleanup nothing is left that the object has known.
LEMMA ForgetKept == TypeInv /\ Done /\ Forget => Kept
<1> SUFFICES ASSUME TypeInv, Done, Forget PROVE Kept
  OBVIOUS
<1>1. pc = "cleanup" /\ del > 7 /\ del \in Nat
  BY TheDeletes DEF Forget, TypeInv, TypeOK
<1>2. Knows(cloud, lb) => \A q \in {"um", "tp", "tps", "fw", "fws", "ip"} : cloud[q] = None
  BY <1>1 DEF Done, Knows
<1>3. lb.oldSSLCert = None /\ KnowsCerts(cloud, lb) => \A m \in Names : cloud.cert[m] = None
  <2>1. lb.sslCert = None /\ None \notin Names
    BY <1>1, L7Assumption DEF Done, Names
  <2> QED
    BY <2>1 DEF KnowsCerts
<1> QED
  BY <1>2, <1>3 DEF Forget, Kept, Knows, KnowsCerts

\* Every step keeps the strengthening, and is one that KeepsTrack allows.
LEMMA KnowStep == IInv /\ [Next]_vars => IInv' /\ Kept
<1> SUFFICES ASSUME IInv, [Next]_vars PROVE IInv' /\ Kept
  OBVIOUS
<1>1. TypeInv'
  BY TypeStep DEF IInv
<1>2. Done' /\ Kept
  <2>1. CASE edgeHop \/ StepFails
    <3>1. Kept
      BY <2>1, EdgeKept DEF IInv
    <3>2. pc' # "cleanup"
      BY <2>1 DEF edgeHop, StepFails, checkUrlMap, checkProxy, checkHttpForwardingRule,
        checkHttpsForwardingRule, checkForwardingRule, RecreateFails, checkStaticIP,
        checkStaticIPRefused, checkSSLCert, checkHttpsProxy, deleteOldSSLCert, Go, Call,
        Refused, Error, AfterUrlMap, AfterHttp
    <3> QED
      BY <3>1, <3>2 DEF Done
  <2>2. CASE CleanupStep
    BY <2>2, CleanupKept DEF IInv
  <2>3. CASE Forget
    BY <2>3, ForgetKept DEF IInv, Forget, Done
  <2>4. CASE Add
    BY <2>4, StillKept DEF Add, Done
  <2>5. CASE GC
    BY <2>5, StillKept DEF GC, Done
  <2>6. CASE Restart
    BY <2>6 DEF Restart, Done, Kept, IInv, TypeInv, TypeOK
  <2>7. CASE Change \/ UNCHANGED vars
    BY <2>7, StillKept DEF Change, vars, controller, Done, IInv
  <2> QED
    BY <2>1, <2>2, <2>3, <2>4, <2>5, <2>6, <2>7 DEF Next, Sync, Cleanup
<1>3. Known'
  <2>1. lost' = 0 /\ restarts' = 0 => lost' = lost /\ restarts' = restarts
    <3>1. lost \in Nat /\ restarts \in Nat
      BY DEF IInv, TypeInv, TypeOK
    <3>2. CASE edgeHop
      <4>1. restarts' = restarts
        BY <3>2 DEF edgeHop, checkUrlMap, checkProxy, checkHttpForwardingRule,
          checkHttpsForwardingRule, RecreateFails, checkStaticIP, checkStaticIPRefused,
          checkSSLCert, checkHttpsProxy, deleteOldSSLCert, Unmoved
      <4>2. lost' \in {lost, lost + 1}
        <5>1. CASE checkUrlMap \/ checkProxy \/ checkHttpsProxy
          BY <5>1 DEF checkUrlMap, checkProxy, checkHttpsProxy, Go, Call
        <5>2. CASE checkHttpForwardingRule \/ checkHttpsForwardingRule
          BY <5>2 DEF checkHttpForwardingRule, checkHttpsForwardingRule, checkForwardingRule,
            Go, Call
        <5>3. CASE RecreateFails \/ checkStaticIP \/ checkStaticIPRefused
          BY <5>3 DEF RecreateFails, checkStaticIP, checkStaticIPRefused, Go, Call
        <5>4. CASE checkSSLCert \/ deleteOldSSLCert
          BY <5>4 DEF checkSSLCert, deleteOldSSLCert, Go, Call, Refused
        <5> QED
          BY <3>2, <5>1, <5>2, <5>3, <5>4 DEF edgeHop
      <4> QED
        BY <3>1, <4>1, <4>2
    <3>3. CASE StepFails \/ CleanupStep \/ Forget \/ Add \/ GC
      BY <3>1, <3>3 DEF StepFails, CleanupStep, Forget, Add, GC, Go, Call, Refused, Unmoved
    <3>4. CASE Restart \/ Change \/ UNCHANGED vars
      BY <3>1, <3>4 DEF Restart, Change, vars, controller
    <3> QED
      BY <3>2, <3>3, <3>4 DEF Next, Sync, Cleanup
  <2> QED
    BY <1>2, <2>1 DEF IInv, Known, Kept
<1> QED
  BY <1>1, <1>2, <1>3 DEF IInv

LEMMA KnowInit == Init => IInv
<1> SUFFICES ASSUME Init PROVE Done /\ Known
  BY TypeInit DEF IInv
<1>1. Done
  BY DEF Init, Done
<1>2. Known
  BY DEF Init, Known, Knows
<1> QED
  BY <1>1, <1>2

LEMMA AlwaysKnown == Spec => []IInv
BY KnowInit, KnowStep, PTL DEF Spec

\* The object keeps track of what exists in the cloud, from call to call, through
\* failed passes and to the end of Cleanup.
THEOREM TrackIsKept == Spec => KeepsTrack
<1>1. IInv /\ [Next]_vars => [Kept]_vars
  BY KnowStep
<1> QED
  BY <1>1, AlwaysKnown, PTL DEF Spec, KeepsTrack, Kept

\* Cleanup never asks for the deletion of a resource that is referred to: what refers
\* to it comes before it in Deletes, and the object knows it.
THEOREM OrderIsRight == Spec => []RightOrder
<1>1. IInv => RightOrder
  <2> SUFFICES ASSUME IInv, pc = "cleanup", del <= Len(Deletes), lost = 0, restarts = 0,
                      lb[Deletes[del]] # None
               PROVE  ~InUse(Deletes[del])
    BY DEF RightOrder
  <2>1. Done /\ Knows(cloud, lb) /\ TypeInv
    BY DEF IInv, Known
  <2> QED
    BY <2>1, Places DEF Done, Knows, InUse
<1> QED
  BY <1>1, AlwaysKnown, PTL
=============================================================================
