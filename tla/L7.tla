--------------------------------- MODULE L7 ---------------------------------
(***************************************************************************)
(* One load balancer of the GCE ingress controller (loadbalancers.go): the *)
(* resources it is made of in the cloud, and the L7 object that remembers  *)
(* them in the controller's memory.  A pass of the controller either walks *)
(* the edges (edgeHop) and creates what is missing, or, when the Ingress   *)
(* is gone, deletes what the object remembers (Cleanup).                   *)
(*                                                                         *)
(* Each call to the cloud may fail with no effect, or take effect and lose *)
(* its answer; the controller may restart between any two calls.  A GET    *)
(* whose error is ignored leads to a create that conflicts: that is a      *)
(* failed call here, except for the static address, where the conflict is  *)
(* taken for success.  A rule can ask for a reserved address only.         *)
(* Resources refer to each other by names that never change, so only the   *)
(* certificate of a proxy can be a wrong link.                             *)
(***************************************************************************)
EXTENDS Naturals, Sequences

CONSTANTS
  Certs,        \* contents of certificates
  Ephemeral,    \* addresses that the cloud hands out
  UserIP,       \* the address that StaticIPName stands for
  None,
  MaxChanges,   \* how often users change the Ingress
  MaxFails,     \* how many calls fail
  MaxForgets    \* how many answers are lost and restarts happen

ASSUME L7Assumption ==
  /\ UserIP \notin Ephemeral
  /\ None \notin Certs \cup Ephemeral \cup {UserIP, "some", "primary", "secondary"}
  /\ None \notin [tls : Certs \cup {None}, http : BOOLEAN, static : BOOLEAN]
  /\ {MaxChanges, MaxFails, MaxForgets} \subseteq Nat

VARIABLES
  ingress,      \* what users want: runtime info, or None when there is no Ingress
  ri,           \* the runtime info that the pass under way has read
  cloud,        \* the resources of this load balancer in the cloud
  lb,           \* the L7 object: what it remembers of them
  pooled,       \* the pool of load balancers has the object
  pc,           \* the check under way, "cleanup" or "idle"
  del,          \* where Cleanup is in Deletes
  changes, fails, lost, restarts    \* how often each has happened

controller == <<ri, lb, pooled, pc, del>>
vars == <<ingress, cloud, controller, changes, fails, lost, restarts>>

Names == {"primary", "secondary"}
Other(name) == CHOOSE n \in Names : n # name
Addresses == Ephemeral \cup {UserIP}
Maybe(S) == S \cup {None}
Some == Maybe({"some"})

\* L7RuntimeInfo: TLS, AllowHTTP, and whether StaticIPName is given.
RuntimeInfo == [tls : Maybe(Certs), http : BOOLEAN, static : BOOLEAN]

\* tps is the name of the proxy's certificate; fw, fws and ip are addresses.
Cloud == [um : Some, tp : Some, tps : Maybe(Names), fw : Maybe(Addresses),
          fws : Maybe(Addresses), ip : Maybe(Addresses), cert : [Names -> Maybe(Certs)]]

\* The object's pointers; None is nil.
Object == [um : Some, tp : Some, tps : Some, fw : Some, fws : Some,
           ip : Maybe(Addresses), sslCert : Maybe(Names), oldSSLCert : Maybe(Names)]

NoObject == [um |-> None, tp |-> None, tps |-> None, fw |-> None, fws |-> None,
             ip |-> None, sslCert |-> None, oldSSLCert |-> None]

Checks == {"um", "tp", "fw", "ip", "cert", "tps", "fws", "old"}

\* Mutant: the url map before the proxies.
DeletesUrlMapFirst == <<"fw", "fws", "ip", "um", "tps", "sslCert", "tp">>

\* The order in which Cleanup deletes.
Deletes == <<"fw", "fws", "ip", "tps", "sslCert", "tp", "um">>

Init ==
  /\ ingress = None /\ ri = None
  /\ cloud = [um |-> None, tp |-> None, tps |-> None, fw |-> None, fws |-> None,
              ip |-> None, cert |-> [n \in Names |-> None]]
  /\ lb = NoObject /\ pooled = FALSE
  /\ pc = "idle" /\ del = 0
  /\ changes = 0 /\ fails = 0 /\ lost = 0 /\ restarts = 0

(***************************************************************************)
(* Outcomes of a call to the cloud                                         *)
(***************************************************************************)

\* Mutant: a load balancer whose pass fails does not stay in the pool.
ErrorForgets == pc' = "idle" /\ lb' = NoObject

\* The function returns an error, which ends the pass.  L7s.Add puts the object
\* into the pool all the same.
Error == pc' = "idle" /\ UNCHANGED lb

\* No call is needed, or none that changes anything: remember l and go on.
Go(l, step) == lb' = l /\ pc' = step /\ UNCHANGED <<cloud, lost>>

\* The call turns the cloud into c; then as Go, or the answer is lost.
Call(c, l, step) ==
  /\ cloud' = c
  /\ \/ lb' = l /\ pc' = step /\ UNCHANGED lost
     \/ lost + restarts < MaxForgets /\ lost' = lost + 1 /\ Error

\* The cloud refuses the call.
Refused == Error /\ UNCHANGED <<cloud, lost>>

\* One call of this step fails.
Failing == fails < MaxFails /\ fails' = fails + 1
NoneFails == UNCHANGED fails

Unmoved == UNCHANGED <<ingress, ri, pooled, del, changes, restarts>>

(***************************************************************************)
(* edgeHop                                                                 *)
(***************************************************************************)

AfterHttp == IF ri.tls = None THEN "idle" ELSE "ip"
AfterUrlMap == IF ri.http THEN "tp" ELSE IF ri.tls = None THEN "idle" ELSE "cert"

checkUrlMap ==
  /\ pc = "um"
  /\ LET l == [lb EXCEPT !.um = "some"] IN
     IF cloud.um # None THEN Go(l, AfterUrlMap)
                        ELSE Call([cloud EXCEPT !.um = "some"], l, AfterUrlMap)
  /\ NoneFails /\ Unmoved

checkProxy ==
  /\ pc = "tp"
  /\ LET l == [lb EXCEPT !.tp = "some"] IN
     IF cloud.tp # None THEN Go(l, "fw")
                        ELSE Call([cloud EXCEPT !.tp = "some"], l, "fw")
  /\ NoneFails /\ Unmoved

\* Mutant: the reserved address comes before the user's.
getEffectiveIPSwapped(found) == IF ri.static /\ found /\ lb.ip = None THEN UserIP ELSE lb.ip

\* The address for the forwarding rules, None for any: the user's, unless the
\* GET of it fails, or the one that was reserved.
getEffectiveIP(found) == IF ri.static /\ found THEN UserIP ELSE lb.ip

\* Whether the user's address is found.
Found(found) == IF found THEN NoneFails ELSE ri.static /\ Failing

\* The rule has an address that it should not have.
Misplaced(rule, address) == cloud[rule] # None /\ address \notin {None, cloud[rule]}

\* The addresses that are reserved.  The cloud gives a rule no other one that it
\* asks for by name.
Reserved == {UserIP, cloud.ip}

\* A misplaced rule is deleted and created anew.  A new rule without an address
\* gets one that nobody has; one with an address that has been released meanwhile
\* is refused, when the misplaced one is gone already.
checkForwardingRule(rule, address, step) ==
  LET l == [lb EXCEPT ![rule] = "some"]
      free == Ephemeral \ {cloud.fw, cloud.fws, cloud.ip}
      new == IF address = None THEN free ELSE {address} \cap Reserved
      stays == cloud[rule] # None /\ ~Misplaced(rule, address)
  IN  \/ stays /\ Go(l, step)
      \/ ~stays /\ \E a \in new : Call([cloud EXCEPT ![rule] = a], l, step)
      \/ /\ ~stays /\ new = {}
         /\ cloud' = [cloud EXCEPT ![rule] = None] /\ Error /\ UNCHANGED lost

checkHttpForwardingRule ==
  /\ pc = "fw"
  /\ \E found \in BOOLEAN :
       Found(found) /\ checkForwardingRule("fw", getEffectiveIP(found), AfterHttp)
  /\ Unmoved

checkHttpsForwardingRule ==
  /\ pc = "fws"
  /\ \E found \in BOOLEAN :
       Found(found) /\ checkForwardingRule("fws", getEffectiveIP(found), "old")
  /\ Unmoved

\* The misplaced rule is deleted, and then the create fails.
RecreateFails ==
  /\ pc \in {"fw", "fws"}
  /\ Misplaced(pc, getEffectiveIP(TRUE))
  /\ Failing
  /\ cloud' = [cloud EXCEPT ![pc] = None]
  /\ Error
  /\ UNCHANGED lost /\ Unmoved

\* Promote the address of the http rule to a static one of its own, unless it is
\* the user's.  A conflict (the address is reserved already) is taken for success,
\* and nothing is remembered.
checkStaticIP ==
  /\ pc = "ip"
  /\ \E found \in BOOLEAN :
       /\ Found(found)
       /\ IF (ri.static /\ found) \/ (cloud.ip = None /\ cloud.fw = UserIP)
            THEN Go(lb, "cert")
          ELSE IF cloud.ip # None
            THEN Go([lb EXCEPT !.ip = cloud.ip], "cert")
            ELSE Call([cloud EXCEPT !.ip = cloud.fw], [lb EXCEPT !.ip = cloud.fw], "cert")
  /\ Unmoved

\* The GET of the object's own static address fails and the reservation conflicts,
\* or the cloud refuses it as a bad request: both are taken for success.
checkStaticIPRefused ==
  /\ pc = "ip"
  /\ ~ri.static
  /\ Failing
  /\ Go(lb, "cert")
  /\ Unmoved

\* Mutant: an update keeps the name.
SameName(name) == name

\* The other of the two names between which the certificate flip-flops.
NextName(name) == Other(name)

\* The certificate that the object remembers, or else the primary one, is the one
\* in use.  A new one takes its name if there is none, and otherwise the other
\* name; the cloud refuses a name that is taken.
checkSSLCert ==
  /\ pc = "cert"
  /\ LET name == IF lb.sslCert = None THEN "primary" ELSE lb.sslCert
         new == IF cloud.cert[name] = None THEN name ELSE NextName(name)
     IN  \/ /\ cloud.cert[name] = ri.tls
            /\ Go([lb EXCEPT !.sslCert = name], "tps")
         \/ /\ cloud.cert[name] # ri.tls /\ cloud.cert[new] = None
            /\ Call([cloud EXCEPT !.cert[new] = ri.tls],
                    [lb EXCEPT !.sslCert = new, !.oldSSLCert = lb.sslCert], "tps")
         \/ /\ cloud.cert[name] # ri.tls /\ cloud.cert[new] # None
            /\ Refused
  /\ NoneFails /\ Unmoved

\* The https proxy exists and has the right certificate.
ProxyIsRight == cloud.tps = lb.sslCert

checkHttpsProxy ==
  /\ pc = "tps"
  /\ LET l == [lb EXCEPT !.tps = "some"] IN
     IF ProxyIsRight THEN Go(l, "fws")
                     ELSE Call([cloud EXCEPT !.tps = lb.sslCert], l, "fws")
  /\ NoneFails /\ Unmoved

deleteOldSSLCert ==
  /\ pc = "old"
  /\ LET old == lb.oldSSLCert IN
     IF old \in {None, lb.sslCert}
       THEN Go(lb, "idle")
       ELSE IF cloud.tps = old THEN Refused
       ELSE Call([cloud EXCEPT !.cert[old] = None], [lb EXCEPT !.oldSSLCert = None], "idle")
  /\ NoneFails /\ Unmoved

\* Any other call fails: the pass ends there.
StepFails ==
  /\ pc # "idle"
  /\ Failing
  /\ Refused
  /\ Unmoved

(***************************************************************************)
(* Cleanup                                                                 *)
(***************************************************************************)

\* Mutant: the https rule is deleted by the name of the http rule.
WithoutHttpTwice(r) ==
  IF r = "sslCert" THEN [cloud EXCEPT !.cert[lb.sslCert] = None]
                   ELSE [cloud EXCEPT ![IF r = "fws" THEN "fw" ELSE r] = None]

\* The cloud without the resource that the object knows as r.
Without(r) ==
  IF r = "sslCert" THEN [cloud EXCEPT !.cert[lb.sslCert] = None]
                   ELSE [cloud EXCEPT ![r] = None]

\* The cloud does not delete what another resource refers to.
InUse(r) ==
  \/ r = "um" /\ (cloud.tp # None \/ cloud.tps # None)
  \/ r = "tp" /\ cloud.fw # None
  \/ r = "tps" /\ cloud.fws # None
  \/ r = "sslCert" /\ cloud.tps = lb.sslCert
  \/ r = "ip" /\ cloud.ip # None /\ cloud.ip \in {cloud.fw, cloud.fws}

\* Those of which a deletion that succeeds leaves the pointer.
KeptPointers == {"fws", "ip"}

\* Delete the next resource, if the object knows it.  The pointer is cleared,
\* but those of KeptPointers only if the cloud did not find the resource.
CleanupStep ==
  /\ pc = "cleanup" /\ del <= Len(Deletes)
  /\ LET r == Deletes[del]
         cleared == [lb EXCEPT ![r] = None]
         kept == r \in KeptPointers /\ Without(r) # cloud
     IN  \/ lb[r] = None /\ Go(lb, "cleanup") /\ del' = del + 1
         \/ lb[r] # None /\ InUse(r) /\ Refused /\ UNCHANGED del
         \/ /\ lb[r] # None /\ ~InUse(r)
            /\ Call(Without(r), IF kept THEN lb ELSE cleared, "cleanup")
            /\ del' = del + 1
  /\ NoneFails
  /\ UNCHANGED <<ingress, ri, pooled, changes, restarts>>

\* L7s.Delete: after Cleanup the object leaves the pool.
Forget ==
  /\ pc = "cleanup" /\ del > Len(Deletes)
  /\ lb' = NoObject /\ pooled' = FALSE /\ pc' = "idle"
  /\ UNCHANGED <<ingress, ri, cloud, del, changes, fails, lost, restarts>>

(***************************************************************************)
(* The controller                                                          *)
(***************************************************************************)

\* L7s.Add for an Ingress that exists; the object stays in the pool whatever
\* becomes of the pass.  Loading the secret may fail: then there is no TLS.
Add ==
  /\ pc = "idle" /\ ingress # None
  /\ \/ ri' = ingress /\ UNCHANGED fails
     \/ ingress.tls # None /\ Failing /\ ri' = [ingress EXCEPT !.tls = None]
  /\ pooled' = TRUE /\ pc' = "um"
  /\ UNCHANGED <<ingress, cloud, lb, del, changes, lost, restarts>>

\* L7s.GC for one that does not.
GC ==
  /\ pc = "idle" /\ ingress = None /\ pooled
  /\ pc' = "cleanup" /\ del' = 1
  /\ UNCHANGED <<ingress, ri, cloud, lb, pooled, changes, fails, lost, restarts>>

\* Mutant: there is no object after a restart.
RestartNil ==
  /\ lost + restarts < MaxForgets /\ restarts' = restarts + 1
  /\ ri' = None /\ lb' = None /\ pooled' = FALSE /\ pc' = "idle"
  /\ UNCHANGED <<ingress, cloud, del, changes, fails, lost>>

\* The controller stops and starts again with empty pools.
Restart ==
  /\ lost + restarts < MaxForgets /\ restarts' = restarts + 1
  /\ ri' = None /\ lb' = NoObject /\ pooled' = FALSE /\ pc' = "idle"
  /\ UNCHANGED <<ingress, cloud, del, changes, fails, lost>>

\* Users create, change and delete the Ingress.
Change ==
  /\ changes < MaxChanges /\ changes' = changes + 1
  /\ \E i \in Maybe(RuntimeInfo) : i # ingress /\ ingress' = i
  /\ UNCHANGED <<cloud, controller, fails, lost, restarts>>

edgeHop ==
  \/ checkUrlMap \/ checkProxy \/ checkHttpForwardingRule \/ RecreateFails
  \/ checkStaticIP \/ checkStaticIPRefused
  \/ checkSSLCert \/ checkHttpsProxy \/ checkHttpsForwardingRule \/ deleteOldSSLCert

Cleanup == CleanupStep \/ Forget

Sync == Add \/ GC \/ edgeHop \/ Cleanup \/ StepFails

Next == Sync \/ Restart \/ Change

\* The queue of the controller takes a failed key again, and the informer hands
\* in every Ingress once per resync period.
Spec == Init /\ [][Next]_vars /\ WF_vars(Sync)

(***************************************************************************)
(* Properties                                                              *)
(***************************************************************************)

TypeOK ==
  /\ ingress \in Maybe(RuntimeInfo) /\ ri \in Maybe(RuntimeInfo)
  /\ cloud \in Cloud /\ lb \in Object /\ pooled \in BOOLEAN
  /\ pc \in Checks \cup {"idle", "cleanup"} /\ del \in 0 .. Len(Deletes) + 1
  /\ changes \in 0 .. MaxChanges /\ fails \in 0 .. MaxFails
  /\ lost \in 0 .. MaxForgets /\ restarts \in 0 .. MaxForgets

\* The object knows every resource in the cloud but certificates.
Knows(c, l) == \A r \in {"um", "tp", "tps", "fw", "fws", "ip"} : c[r] # None => l[r] # None

\* The object knows every certificate.
KnowsCerts(c, l) ==
  \A n \in Names : c.cert[n] # None => n \in {l.sslCert, l.oldSSLCert}

\* The certificate that the object takes for the one in use exists.
HasCert(c, l) == l.sslCert # None /\ c.cert[l.sslCert] # None

\* L7s.Add keeps the object in the pool so that Cleanup can find what a pass has
\* created before it failed: no step but a lost answer or a restart makes the
\* object lose track of a resource, the end of Cleanup included.  It loses an old
\* certificate only through Cleanup, which does not look at oldSSLCert: at its end,
\* or, if it fails after it has deleted the certificate in use, when the next one
\* is made.
KeepsTrack ==
  [][lost' = lost /\ restarts' = restarts =>
       /\ Knows(cloud, lb) => Knows(cloud', lb')
       /\ KnowsCerts(cloud, lb) /\ (lb.oldSSLCert = None \/ (pooled' /\ HasCert(cloud, lb)))
            => KnowsCerts(cloud', lb')]_vars

\* "Cleanup deletes resources specific to this l7 in the right order": unless an
\* answer was lost or the controller restarted, it never asks for the deletion of
\* a resource that another one still refers to, whatever part of an earlier
\* Cleanup or edgeHop has failed.
RightOrder ==
  pc = "cleanup" /\ del <= Len(Deletes) /\ lost = 0 /\ restarts = 0 =>
    (lb[Deletes[del]] # None => ~InUse(Deletes[del]))

\* The object remembers an address that is not reserved any more: a Cleanup has
\* released it and failed later, and an Ingress took the object over.
Released == lb.ip # None /\ lb.ip # cloud.ip

\* When users and failures have stopped, an Ingress that allows http has its url
\* map, proxy and forwarding rule, with the user's address if there is one: after
\* failed and lost calls, restarts and half finished Cleanups, and also when its
\* certificate cannot be updated.  The exception is the rule of an Ingress without
\* an address of its own whose object asks for one that is Released, in every pass.
HttpServed ==
  <>[](ingress # None /\ ingress.http =>
         /\ cloud.um # None /\ cloud.tp # None
         /\ ingress.static => cloud.fw = UserIP
         /\ ~ingress.static => cloud.fw # None \/ Released)

\* If no call has failed and the controller was not restarted, the https proxy
\* ends up with the certificate of the Ingress, however often it has changed
\* during the passes, and http and https end up on one address, unless the http
\* rule still has the user's.
HttpsServed ==
  <>[](ingress # None /\ ingress.tls # None /\ fails = 0 /\ lost = 0 /\ restarts = 0 =>
         /\ cloud.tps # None /\ cloud.cert[cloud.tps] = ingress.tls
         /\ ingress.http /\ cloud.fw # UserIP => cloud.fws = cloud.fw)

\* When the Ingress is deleted for good, Cleanup comes to its end, unless the
\* object has lost track of a resource.
CleanedUp ==
  <>[](ingress = None => ~pooled \/ lost > 0 \/ restarts > 0)
=============================================================================
