------------------------ MODULE LeaderElectionProofs ------------------------
(***************************************************************************)
(* Two candidates never lead at once, for any number of candidates, any    *)
(* durations that ElectionAssumption allows and any number of faults.      *)
(*                                                                         *)
(* The argument: the record names the leader (LeaderHolds), and whoever    *)
(* else has observed that record did so at most MaxDelay ticks before the  *)
(* leader's Poll began (Observers).  The Poll is over RenewDeadline and    *)
(* two attempts later (PollEnds), before the lease has expired for any of  *)
(* them, and who is about to write over another's record has found it      *)
(* expired (Expired, Overwrites).                                          *)
(***************************************************************************)
EXTENDS LeaderElection, TLAPS

\* The record names the leader.
LeaderHolds == \A c \in Candidates : Leads(c) => holder = c

\* A leader's Poll makes its last attempt after RenewDeadline and the attempt
\* that was under way then.
PollEnds ==
  \A c \in Candidates : Leads(c) =>
    /\ stage[c] = "idle" => loopAge[c] <= RenewDeadline + MaxDelay
    /\ stage[c] # "idle" /\ ~final[c] => loopAge[c] <= RenewDeadline + tryAge[c]
    /\ stage[c] # "idle" /\ final[c] => loopAge[c] <= RenewDeadline + MaxDelay + tryAge[c]

\* Nobody has observed a leader's record long before the leader's Poll began.
Observers ==
  \A c, x \in Candidates : Leads(c) /\ same[x] => obsAge[x] <= loopAge[c] + MaxDelay

\* Nor the record that an answer under way reports.
Answers ==
  \A c \in Candidates : stage[c] = "answer" =>
    /\ holder = c
    /\ \A x \in Candidates : same[x] => obsAge[x] <= tryAge[c]

\* Who has found the record expired, and the server still has it, observed it a
\* lease ago.
Expired ==
  \A x \in Candidates :
    stage[x] = "get" /\ expired[x] /\ same[x] => obsAge[x] >= LeaseDuration

\* And so has who may write over another's record.
Overwrites ==
  \A x \in Candidates :
    fresh[x] /\ holder \notin {x, None} => same[x] /\ obsAge[x] >= LeaseDuration

LeaseInv == LeaderHolds /\ PollEnds /\ Observers /\ Answers /\ Expired /\ Overwrites

IInv == TypeOK /\ LeaseInv

-----------------------------------------------------------------------------

\* Durations are natural numbers.
LEMMA Durations ==
  /\ LeaseDuration \in Nat /\ RenewDeadline \in Nat /\ RetryPeriod \in Nat
  /\ MaxDelay \in Nat /\ MaxFaults \in Nat
  /\ RenewDeadline + 3 * MaxDelay < LeaseDuration
  /\ RenewDeadline < LeaseDuration /\ RetryPeriod <= LeaseDuration
BY ElectionAssumption

\* The type of every variable: TypeOK without InHand.
Types ==
  /\ exists \in BOOLEAN /\ holder \in Candidates \cup {None}
  /\ phase \in [Candidates -> {"new", "create", "acquire", "lead", "stop", "down"}]
  /\ stage \in [Candidates -> {"idle", "get", "update", "answer"}]
  /\ final \in [Candidates -> BOOLEAN] /\ expired \in [Candidates -> BOOLEAN]
  /\ fresh \in [Candidates -> BOOLEAN] /\ same \in [Candidates -> BOOLEAN]
  /\ obsAge \in [Candidates -> 0 .. LeaseDuration]
  /\ loopAge \in [Candidates -> 0 .. LeaseDuration]
  /\ tryAge \in [Candidates -> 0 .. MaxDelay]
  /\ starting \in [Candidates -> BOOLEAN]
  /\ name \in [Candidates -> Candidates \cup {None}]
  /\ faults \in 0 .. MaxFaults

LEMMA TypeParts == TypeOK <=> Types /\ InHand
BY DEF TypeOK, Types

\* What an attempt leaves behind has its type, and so have the phase and the
\* loop of a candidate whose attempt has failed.
LEMMA EndTypes ==
  ASSUME Types, NEW c \in Candidates, End(c)
  PROVE  /\ stage' \in [Candidates -> {"idle", "get", "update", "answer"}]
         /\ final' \in [Candidates -> BOOLEAN] /\ expired' \in [Candidates -> BOOLEAN]
         /\ fresh' \in [Candidates -> BOOLEAN]
         /\ tryAge' \in [Candidates -> 0 .. MaxDelay]
BY Durations DEF Types, End

LEMMA FailTypes ==
  ASSUME Types, NEW c \in Candidates, Fail(c)
  PROVE  /\ phase' \in [Candidates -> {"new", "create", "acquire", "lead", "stop", "down"}]
         /\ loopAge' \in [Candidates -> 0 .. LeaseDuration]
         /\ starting' \in [Candidates -> BOOLEAN]
BY Durations DEF Types, Fail

\* Every variable keeps its type.
LEMMA TypesStep == Types /\ [Next]_vars => Types'
<1> SUFFICES ASSUME Types, [Next]_vars PROVE Types'
  OBVIOUS
<1> USE Durations
<1>1. ASSUME NEW c \in Candidates, Join(c) PROVE Types'
  BY <1>1 DEF Types, Join, server, attempt, locals, observed
<1>11. ASSUME NEW c \in Candidates, NotFound(c) PROVE Types'
  BY <1>11 DEF Types, NotFound, server, attempt, locals, observed, sidecar
<1>12. ASSUME NEW c \in Candidates, Create(c) PROVE Types'
  BY <1>12 DEF Types, Create, attempt, locals, observed, sidecar
<1>2. ASSUME NEW c \in Candidates, BeginAcquire(c) \/ BeginRenew(c) \/ BeginLast(c)
      PROVE Types'
  BY <1>2 DEF Types, BeginAcquire, BeginRenew, BeginLast, Begin, server, observed, sidecar
<1>3. ASSUME NEW c \in Candidates, Get(c) PROVE Types'
  <2>1. same' \in [Candidates -> BOOLEAN] /\ obsAge' \in [Candidates -> 0 .. LeaseDuration]
    <3>1. CASE UNCHANGED observed
      BY <3>1 DEF Types, observed
    <3>2. CASE /\ same' = [same EXCEPT ![c] = TRUE]
               /\ obsAge' = [obsAge EXCEPT ![c] = 0]
      BY <3>2 DEF Types
    <3> QED
      BY <1>3, <3>1, <3>2 DEF Get
  <2>2. CASE Held(c)
    <3>1. Fail(c) /\ End(c)
      BY <1>3, <2>2 DEF Get, Fail
    <3> QED
      BY <1>3, <2>1, <3>1, EndTypes, FailTypes DEF Types, Get, server
  <2>3. CASE ~Held(c)
    BY <1>3, <2>1, <2>3 DEF Types, Get, server
  <2> QED
    BY <2>2, <2>3
<1>4. ASSUME NEW c \in Candidates, Update(c) PROVE Types'
  BY <1>4 DEF Types, Update, sidecar
<1>5. ASSUME NEW c \in Candidates, Conflict(c) \/ CallFails(c) PROVE Types'
  <2>1. Fail(c) /\ End(c)
    BY <1>5 DEF Conflict, CallFails, Fail
  <2> QED
    BY <1>5, <2>1, EndTypes, FailTypes DEF Types, Conflict, CallFails, Fault, server, observed
<1>6. ASSUME NEW c \in Candidates, Answer(c) PROVE Types'
  <2>1. End(c)
    BY <1>6 DEF Answer, Succeed
  <2> QED
    BY <1>6, <2>1, EndTypes DEF Types, Answer, Succeed, server
<1>7. ASSUME NEW c \in Candidates, OnStartedLeading(c) PROVE Types'
  BY <1>7 DEF Types, OnStartedLeading, server, attempt, locals, observed
<1>13. ASSUME NEW c \in Candidates, OnStoppedLeading(c) PROVE Types'
  <2>1. name' \in [Candidates -> Candidates \cup {None}]
    BY <1>13 DEF Types, OnStoppedLeading
  <2>2. faults' \in 0 .. MaxFaults
    BY <1>13 DEF Types, OnStoppedLeading, Fault
  <2>3. UNCHANGED <<exists, holder, stage, final, expired, fresh, tryAge, same, obsAge, starting>>
    BY <1>13 DEF OnStoppedLeading, server, attempt, locals, observed
  <2>4. /\ phase' \in [Candidates -> {"new", "create", "acquire", "lead", "stop", "down"}]
        /\ loopAge' \in [Candidates -> 0 .. LeaseDuration]
    BY <1>13 DEF Types, OnStoppedLeading
  <2> QED
    BY <2>1, <2>2, <2>3, <2>4 DEF Types
<1>8. ASSUME NEW c \in Candidates, Crash(c) PROVE Types'
  <2>1. End(c)
    BY <1>8 DEF Crash
  <2> QED
    BY <1>8, <2>1, EndTypes DEF Types, Crash, Fault, server
<1>9. CASE Tick
  <2>1. obsAge' \in [Candidates -> 0 .. LeaseDuration]
    BY <1>9 DEF Types, Tick, Aged
  <2>2. loopAge' \in [Candidates -> 0 .. LeaseDuration]
    BY <1>9 DEF Types, Tick, Aged, LoopLimit
  <2>3. tryAge' \in [Candidates -> 0 .. MaxDelay]
    BY <1>9 DEF Types, Tick, Aged
  <2> QED
    BY <1>9, <2>1, <2>2, <2>3 DEF Types, Tick, sidecar
<1>10. CASE UNCHANGED vars
  BY <1>10 DEF Types, vars, server, attempt, locals, observed, sidecar
<1> QED
  BY <1>1, <1>2, <1>3, <1>4, <1>5, <1>6, <1>7, <1>8, <1>9, <1>10, <1>11, <1>12, <1>13
  DEF Next, Elector

\* The attempt of c is over, and the others go on.
LEMMA EndInHand ==
  ASSUME Types, InHand, NEW c \in Candidates, End(c), Types',
         \A d \in Candidates \ {c} : phase'[d] = phase[d]
  PROVE  InHand'
<1>1. \A d \in Candidates \ {c} :
        stage'[d] = stage[d] /\ final'[d] = final[d] /\ fresh'[d] = fresh[d]
  BY DEF End, Types
<1>2. stage'[c] = "idle" /\ ~final'[c] /\ ~fresh'[c]
  BY DEF End, Types
<1> QED
  BY <1>1, <1>2 DEF InHand

\* A candidate whose attempt is over moves to another phase.
LEMMA IdleInHand ==
  ASSUME Types, InHand, NEW c \in Candidates, stage[c] = "idle", UNCHANGED <<stage, final, fresh>>,
         \A d \in Candidates \ {c} : phase'[d] = phase[d]
  PROVE  InHand'
<1>1. ~final[c] /\ ~fresh[c]
  BY DEF InHand
<1> QED
  BY <1>1 DEF InHand

\* Every step keeps attempts in their loops.
LEMMA InHandStep == Types /\ InHand /\ [Next]_vars => InHand'
<1> SUFFICES ASSUME Types, InHand, [Next]_vars PROVE InHand'
  OBVIOUS
<1>0. Types'
  BY TypesStep
<1>1. ASSUME NEW c \in Candidates,
             Join(c) \/ NotFound(c) \/ Create(c) \/ OnStoppedLeading(c)
      PROVE InHand'
  <2>1. stage[c] = "idle"
    BY <1>1 DEF Join, NotFound, Create, OnStoppedLeading, InHand
  <2>2. UNCHANGED <<stage, final, fresh>> /\ \A d \in Candidates \ {c} : phase'[d] = phase[d]
    BY <1>1 DEF Join, NotFound, Create, OnStoppedLeading, attempt, locals, Types
  <2> QED
    BY <2>1, <2>2, IdleInHand
<1>2. ASSUME NEW c \in Candidates, BeginAcquire(c) \/ BeginRenew(c) \/ BeginLast(c)
      PROVE InHand'
  <2>1. PICK last \in BOOLEAN : Begin(c, last) /\ phase[c] \in {"acquire", "lead"}
                               /\ (last => phase[c] = "lead")
    BY <1>2 DEF BeginAcquire, BeginRenew, BeginLast
  <2>2. ~fresh[c] /\ UNCHANGED <<fresh, phase>>
    BY <2>1 DEF Begin, InHand
  <2>3. /\ stage'[c] = "get" /\ final'[c] = last
        /\ \A d \in Candidates \ {c} : stage'[d] = stage[d] /\ final'[d] = final[d]
    BY <2>1 DEF Begin, Types
  <2> QED
    BY <2>1, <2>2, <2>3 DEF InHand
<1>3. ASSUME NEW c \in Candidates, Get(c) PROVE InHand'
  <2>1. CASE Held(c)
    <3>1. End(c) /\ \A d \in Candidates \ {c} : phase'[d] = phase[d]
      BY <1>3, <2>1 DEF Get, Fail, Types
    <3> QED
      BY <1>0, <3>1, EndInHand
  <2>2. CASE ~Held(c)
    <3>1. stage' = [stage EXCEPT ![c] = "update"] /\ UNCHANGED <<final, phase>>
      BY <1>3, <2>2 DEF Get
    <3>2. \A d \in Candidates \ {c} : fresh'[d] = fresh[d]
      BY <1>3, <2>2 DEF Get, Types
    <3> QED
      BY <1>3, <3>1, <3>2 DEF Get, InHand, Types
  <2> QED
    BY <2>1, <2>2
<1>4. ASSUME NEW c \in Candidates, Update(c) PROVE InHand'
  BY <1>4 DEF Update, InHand, Types
<1>5. ASSUME NEW c \in Candidates, Conflict(c) \/ CallFails(c) \/ Answer(c) \/ Crash(c)
      PROVE InHand'
  <2>1. End(c)
    BY <1>5 DEF Conflict, CallFails, Answer, Crash, Fail, Succeed
  <2>2. \A d \in Candidates \ {c} : phase'[d] = phase[d]
    BY <1>5 DEF Conflict, CallFails, Answer, Crash, Fail, Succeed, Types
  <2> QED
    BY <1>0, <2>1, <2>2, EndInHand
<1>6. CASE Tick \/ UNCHANGED vars \/ \E c \in Candidates : OnStartedLeading(c)
  <2>1. UNCHANGED <<phase, stage, final, fresh>>
    BY <1>6 DEF Tick, vars, attempt, locals, OnStartedLeading
  <2> QED
    BY <2>1 DEF InHand
<1> QED
  BY <1>1, <1>2, <1>3, <1>4, <1>5, <1>6 DEF Next, Elector

LEMMA TypeStep == TypeOK /\ [Next]_vars => TypeOK'
<1> SUFFICES ASSUME TypeOK, [Next]_vars PROVE TypeOK'
  OBVIOUS
<1>1. Types' /\ InHand'
  BY TypeParts, TypesStep, InHandStep
<1> QED
  BY <1>1 DEF TypeOK, Types

\* LeaderElection.TypeOK: every variable has its type in every state, and a candidate
\* makes one attempt at a time, in the loop that it is in.
THEOREM TypeCorrect == Spec => []TypeOK
<1>1. Init => TypeOK
  <2> SUFFICES ASSUME Init PROVE TypeOK
    OBVIOUS
  <2>1. /\ exists \in BOOLEAN /\ holder \in Candidates \cup {None}
        /\ final \in [Candidates -> BOOLEAN] /\ expired \in [Candidates -> BOOLEAN]
        /\ fresh \in [Candidates -> BOOLEAN] /\ same \in [Candidates -> BOOLEAN]
        /\ starting \in [Candidates -> BOOLEAN]
    BY Zenon DEF Init
  <2>2. /\ phase \in [Candidates -> {"new", "create", "acquire", "lead", "stop", "down"}]
        /\ stage \in [Candidates -> {"idle", "get", "update", "answer"}]
        /\ name \in [Candidates -> Candidates \cup {None}]
    BY DEF Init
  <2>3. /\ obsAge \in [Candidates -> 0 .. LeaseDuration]
        /\ loopAge \in [Candidates -> 0 .. LeaseDuration]
        /\ tryAge \in [Candidates -> 0 .. MaxDelay] /\ faults \in 0 .. MaxFaults
    BY Durations DEF Init
  <2>4. InHand
    BY Zenon DEF Init, InHand
  <2> QED
    BY <2>1, <2>2, <2>3, <2>4 DEF TypeOK
<1> QED
  BY <1>1, TypeStep, PTL DEF Spec

-----------------------------------------------------------------------------

\* A leader's Poll is over before its lease is.
LEMMA PollBound ==
  ASSUME TypeOK, LeaseInv, NEW c \in Candidates, Leads(c)
  PROVE  loopAge[c] <= RenewDeadline + 2 * MaxDelay
BY Durations DEF TypeOK, LeaseInv, PollEnds

\* A step that touches neither record nor attempts, and makes no leader, is safe.
LEMMA QuietStep ==
  ASSUME TypeOK, LeaseInv, UNCHANGED <<holder, attempt, observed>>,
         \A x \in Candidates : Leads(x)' => Leads(x) /\ loopAge'[x] = loopAge[x]
  PROVE  LeaseInv'
<1> USE DEF LeaseInv, attempt, locals, observed
<1>1. LeaderHolds'
  BY DEF LeaderHolds
<1>2. PollEnds'
  BY DEF PollEnds
<1>3. Observers'
  BY DEF Observers
<1>4. Answers' /\ Expired' /\ Overwrites'
  BY DEF Answers, Expired, Overwrites
<1> QED
  BY <1>1, <1>2, <1>3, <1>4

\* So is the end of an attempt that has written nothing, or of its process.
LEMMA EndStep ==
  ASSUME TypeOK, LeaseInv, NEW c \in Candidates, End(c), UNCHANGED holder,
         same' \in [Candidates -> BOOLEAN], obsAge' \in [Candidates -> 0 .. LeaseDuration],
         \A x \in Candidates \ {c} : same'[x] = same[x] /\ obsAge'[x] = obsAge[x],
         same'[c] => obsAge'[c] = 0 \/ (same[c] /\ obsAge'[c] = obsAge[c]),
         \A x \in Candidates : Leads(x)' => Leads(x) /\ loopAge'[x] = loopAge[x],
         Leads(c)' => stage[c] # "idle" /\ ~final[c]
  PROVE  LeaseInv'
<1> USE Durations DEF LeaseInv, TypeOK
<1>1. LeaderHolds'
  BY DEF LeaderHolds
<1>2. PollEnds'
  BY DEF PollEnds, End
<1>3. Observers'
  BY DEF Observers
<1>4. Answers'
  BY DEF Answers, End
<1>5. Expired'
  BY DEF Expired, End
<1>6. Overwrites'
  BY DEF Overwrites, End
<1> QED
  BY <1>1, <1>2, <1>3, <1>4, <1>5, <1>6

\* Every step keeps the lease exclusive.
LEMMA LeaseStep == TypeOK /\ LeaseInv /\ [Next]_vars => LeaseInv'
<1> SUFFICES ASSUME TypeOK, LeaseInv, [Next]_vars PROVE LeaseInv'
  OBVIOUS
<1> USE Durations
<1>0. TypeOK'
  BY TypeStep
<1>1. ASSUME NEW c \in Candidates, Join(c) \/ NotFound(c) \/ Create(c) \/ OnStartedLeading(c)
      PROVE  LeaseInv'
  <2>1. UNCHANGED <<holder, attempt, observed>>
    BY <1>1 DEF Join, NotFound, Create, OnStartedLeading, server
  <2>2. \A x \in Candidates : Leads(x)' => Leads(x) /\ loopAge'[x] = loopAge[x]
    BY <1>1 DEF Join, NotFound, Create, OnStartedLeading, Leads, TypeOK
  <2> QED
    BY <2>1, <2>2, QuietStep
<1>2. ASSUME NEW c \in Candidates, OnStoppedLeading(c) PROVE LeaseInv'
  <2>1. UNCHANGED <<holder, attempt, observed>>
    BY <1>2 DEF OnStoppedLeading, server
  <2>2. \A x \in Candidates : Leads(x)' => Leads(x) /\ loopAge'[x] = loopAge[x]
    BY <1>2 DEF OnStoppedLeading, Leads, TypeOK
  <2> QED
    BY <2>1, <2>2, QuietStep
<1>3. ASSUME NEW c \in Candidates, BeginAcquire(c) \/ BeginRenew(c) \/ BeginLast(c)
      PROVE  LeaseInv'
  <2>1. \E last \in BOOLEAN :
          /\ Begin(c, last)
          /\ Leads(c) => loopAge[c] <= RenewDeadline \/ last
    BY <1>3 DEF BeginAcquire, BeginRenew, BeginLast, Leads
  <2>2. PICK last \in BOOLEAN :
          Begin(c, last) /\ (Leads(c) => loopAge[c] <= RenewDeadline \/ last)
    BY <2>1
  <2>3. UNCHANGED <<holder, phase, fresh, tryAge, same, obsAge, loopAge>>
    BY <2>2 DEF Begin, server, observed
  <2>4. LeaderHolds' /\ Observers' /\ Overwrites'
    BY <2>3 DEF LeaseInv, LeaderHolds, Observers, Overwrites, Leads
  <2>5. PollEnds'
    BY <2>2, <2>3 DEF LeaseInv, PollEnds, Leads, Begin, TypeOK
  <2>6. Answers'
    BY <2>2, <2>3 DEF LeaseInv, Answers, Begin, TypeOK
  <2>7. Expired'
    BY <2>2, <2>3 DEF LeaseInv, Expired, Begin, TypeOK
  <2> QED
    BY <2>4, <2>5, <2>6, <2>7 DEF LeaseInv
<1>4. ASSUME NEW c \in Candidates, Get(c) PROVE LeaseInv'
  <2>1. /\ \A x \in Candidates \ {c} : same'[x] = same[x] /\ obsAge'[x] = obsAge[x]
        /\ same'[c] => obsAge'[c] = 0 \/ (same[c] /\ obsAge'[c] = obsAge[c])
        /\ UNCHANGED holder
    BY <1>4 DEF Get, TypeOK, observed, server
  <2>2. CASE Held(c)
    <3>1. Fail(c) /\ End(c)
      BY <1>4, <2>2 DEF Get, Fail
    <3>2. /\ \A x \in Candidates : Leads(x)' => Leads(x) /\ loopAge'[x] = loopAge[x]
          /\ Leads(c)' => stage[c] # "idle" /\ ~final[c]
      BY <1>4, <3>1 DEF Get, Fail, Leads, TypeOK
    <3> QED
      BY <1>0, <2>1, <3>1, <3>2, EndStep DEF TypeOK
  <2>3. CASE ~Held(c)
    <3>1. /\ stage[c] = "get" /\ stage' = [stage EXCEPT ![c] = "update"]
          /\ fresh' = [fresh EXCEPT ![c] = TRUE]
          /\ UNCHANGED <<final, expired, tryAge, phase, loopAge>>
      BY <1>4, <2>3 DEF Get
    <3>2. holder \notin {c, None} => same[c] /\ expired[c] /\ UNCHANGED <<same, obsAge>>
      BY <1>4, <2>3 DEF Get, Held, observed
    <3>3. LeaderHolds' /\ PollEnds'
      BY <2>1, <3>1 DEF LeaseInv, LeaderHolds, PollEnds, Leads, TypeOK
    <3>4. Observers'
      BY <1>0, <2>1, <3>1 DEF LeaseInv, Observers, Leads, TypeOK
    <3>5. Answers'
      BY <1>0, <2>1, <3>1 DEF LeaseInv, Answers, TypeOK
    <3>6. Expired'
      BY <2>1, <3>1 DEF LeaseInv, Expired, TypeOK
    <3>7. Overwrites'
      BY <2>1, <3>1, <3>2 DEF LeaseInv, Expired, Overwrites, TypeOK
    <3> QED
      BY <3>3, <3>4, <3>5, <3>6, <3>7 DEF LeaseInv
  <2> QED
    BY <2>2, <2>3
<1>5. ASSUME NEW c \in Candidates, Update(c) PROVE LeaseInv'
  <2>1. fresh[c] /\ holder' = c /\ UNCHANGED <<phase, loopAge, final, tryAge>>
    BY <1>5 DEF Update, Writes
  <2>2. \A x \in Candidates : ~same'[x] /\ ~fresh'[x]
    BY <1>5 DEF Update
  <2>3. ASSUME NEW d \in Candidates, Leads(d) PROVE d = c
    <3>1. holder = d /\ loopAge[d] <= RenewDeadline + 2 * MaxDelay
      BY <2>3, PollBound DEF LeaseInv, LeaderHolds
    <3>2. SUFFICES ASSUME d # c PROVE FALSE
      OBVIOUS
    <3>3. same[c] /\ obsAge[c] >= LeaseDuration
      BY <2>1, <3>1, <3>2, ElectionAssumption DEF LeaseInv, Overwrites
    <3>4. obsAge[c] <= loopAge[d] + MaxDelay
      BY <2>3, <3>3 DEF LeaseInv, Observers
    <3> QED
      BY <3>1, <3>3, <3>4 DEF TypeOK
  <2>4. ASSUME NEW d \in Candidates, stage[d] = "answer" PROVE d = c
    <3>1. holder = d /\ (same[c] => obsAge[c] <= tryAge[d])
      BY <2>4 DEF LeaseInv, Answers
    <3>2. SUFFICES ASSUME d # c PROVE FALSE
      OBVIOUS
    <3>3. same[c] /\ obsAge[c] >= LeaseDuration
      BY <2>1, <3>1, <3>2, ElectionAssumption DEF LeaseInv, Overwrites
    <3> QED
      BY <3>1, <3>3 DEF TypeOK
  <2>5. LeaderHolds'
    BY <2>1, <2>3 DEF LeaderHolds, Leads
  <2>6. PollEnds'
    BY <1>5, <2>1 DEF LeaseInv, PollEnds, Leads, Update, TypeOK
  <2>7. Answers'
    BY <1>5, <2>1, <2>2, <2>4 DEF Answers, Update, TypeOK
  <2> QED
    BY <2>2, <2>5, <2>6, <2>7 DEF LeaseInv, Observers, Expired, Overwrites
<1>6. ASSUME NEW c \in Candidates, Conflict(c) \/ CallFails(c) PROVE LeaseInv'
  <2>1. Fail(c) /\ End(c) /\ stage[c] # "idle" /\ UNCHANGED <<holder, same, obsAge>>
    BY <1>6 DEF Conflict, CallFails, Fail, server, observed
  <2>2. /\ \A x \in Candidates : Leads(x)' => Leads(x)
        /\ Leads(c)' => ~final[c]
    BY <2>1 DEF Fail, Leads, TypeOK
  <2>3. \A x \in Candidates : Leads(x) => loopAge'[x] = loopAge[x]
    BY <2>1 DEF Fail, Leads, TypeOK
  <2> QED
    BY <1>0, <2>1, <2>2, <2>3, EndStep DEF TypeOK
<1>7. ASSUME NEW c \in Candidates, Answer(c) PROVE LeaseInv'
  <2>1. /\ holder = c /\ holder' = c
        /\ \A x \in Candidates : same[x] => obsAge[x] <= tryAge[c]
    BY <1>7 DEF LeaseInv, Answers, Answer, server
  <2>2. \A x \in Candidates \ {c} :
          /\ ~Leads(x) /\ ~Leads(x)' /\ stage'[x] # "answer"
          /\ same'[x] = same[x] /\ obsAge'[x] = obsAge[x]
          /\ fresh'[x] = fresh[x] /\ stage'[x] = stage[x] /\ expired'[x] = expired[x]
    BY <1>7, <2>1
    DEF LeaseInv, LeaderHolds, Answers, Answer, Succeed, End, Leads, TypeOK
  <2>3. stage'[c] = "idle" /\ ~fresh'[c] /\ loopAge'[c] = 0 /\ obsAge'[c] = 0
    BY <1>7 DEF Answer, Succeed, End, TypeOK
  <2>4. LeaderHolds' /\ PollEnds' /\ Answers'
    BY <2>1, <2>2, <2>3 DEF LeaderHolds, PollEnds, Answers
  <2>5. Observers'
    BY <2>1, <2>2, <2>3 DEF Observers, TypeOK
  <2>6. Expired' /\ Overwrites'
    BY <2>1, <2>2, <2>3 DEF LeaseInv, Expired, Overwrites
  <2> QED
    BY <2>4, <2>5, <2>6 DEF LeaseInv
<1>8. ASSUME NEW c \in Candidates, Crash(c) PROVE LeaseInv'
  <2>1. /\ End(c) /\ UNCHANGED holder /\ ~same'[c]
        /\ \A x \in Candidates \ {c} : same'[x] = same[x] /\ obsAge'[x] = obsAge[x]
    BY <1>8 DEF Crash, server, TypeOK
  <2>2. /\ \A x \in Candidates : Leads(x)' => Leads(x) /\ loopAge'[x] = loopAge[x]
        /\ ~Leads(c)'
    BY <1>8 DEF Crash, Leads, TypeOK
  <2> QED
    BY <1>0, <2>1, <2>2, EndStep DEF TypeOK
<1>9. CASE Tick
  <2>1. /\ UNCHANGED <<holder, phase, stage, final, expired, fresh, same>>
        /\ \A x \in Candidates : stage[x] # "idle" => tryAge[x] < MaxDelay
        /\ \A x \in Candidates : Leads(x) /\ stage[x] = "idle" => loopAge[x] < RenewDeadline
    BY <1>9 DEF Tick, Leads
  <2>2. \A x \in Candidates : stage[x] # "idle" => tryAge'[x] = tryAge[x] + 1
    BY <1>9, <2>1 DEF Tick, Aged, TypeOK
  <2>3. \A x \in Candidates : Leads(x) => loopAge'[x] = loopAge[x] + 1
    <3>1. \A x \in Candidates : Leads(x) => loopAge[x] < LeaseDuration
      BY PollBound DEF TypeOK
    <3> QED
      BY <1>9, <3>1 DEF Tick, Aged, LoopLimit, Leads, TypeOK
  <2>4. \A x \in Candidates : obsAge[x] <= obsAge'[x] /\ obsAge'[x] <= obsAge[x] + 1
    BY <1>9 DEF Tick, Aged, TypeOK
  <2>5. LeaderHolds'
    BY <2>1 DEF LeaseInv, LeaderHolds, Leads
  <2>6. PollEnds'
    BY <1>0, <2>1, <2>2, <2>3 DEF LeaseInv, PollEnds, Leads, TypeOK
  <2>7. Observers'
    BY <1>0, <2>1, <2>3, <2>4 DEF LeaseInv, Observers, Leads, TypeOK
  <2>8. Answers'
    BY <1>0, <2>1, <2>2, <2>4 DEF LeaseInv, Answers, TypeOK
  <2>9. Expired' /\ Overwrites'
    BY <1>0, <2>1, <2>4 DEF LeaseInv, Expired, Overwrites, TypeOK
  <2> QED
    BY <2>5, <2>6, <2>7, <2>8, <2>9 DEF LeaseInv
<1>10. CASE UNCHANGED vars
  <2>1. UNCHANGED <<holder, attempt, observed>> /\ UNCHANGED <<phase, loopAge>>
    BY <1>10 DEF vars, server
  <2> QED
    BY <2>1, QuietStep DEF Leads
<1> QED
  BY <1>1, <1>2, <1>3, <1>4, <1>5, <1>6, <1>7, <1>8, <1>9, <1>10 DEF Next, Elector

\* LeaderElection.OneLeader: at no time do two candidates believe they lead, as
\* long as no attempt takes longer than MaxDelay.
THEOREM LeaseExclusive == Spec => []OneLeader
<1>1. Init => LeaseInv
  BY DEF Init, LeaseInv, LeaderHolds, PollEnds, Observers, Answers, Expired, Overwrites, Leads
<1>2. TypeOK /\ LeaseInv /\ [Next]_vars => LeaseInv'
  BY LeaseStep
<1>3. LeaseInv => OneLeader
  BY DEF LeaseInv, LeaderHolds, OneLeader
<1> QED
  BY <1>1, <1>2, <1>3, TypeCorrect, PTL DEF Spec

-----------------------------------------------------------------------------

\* A step that changes the record leaves the leaders as they are.
LEMMA RecordStep ==
  ASSUME [Next]_vars, holder' # holder
  PROVE  holder' \in Candidates /\ UNCHANGED phase
<1>1. PICK c \in Candidates : Update(c)
  BY DEF Next, Elector, vars, server, Join, NotFound, Create, BeginAcquire, BeginRenew,
         BeginLast, Begin, Get, Conflict, Answer, OnStoppedLeading, OnStartedLeading,
         CallFails, Crash, Tick
<1> QED
  BY <1>1 DEF Update

\* LeaderElection.ImplementsMastership: every step takes, wins or gives up mastership
\* as Mastership allows, or changes nothing of it.
THEOREM Implementation == Spec => ImplementsMastership
<1>1. Init => Master!Init
  BY DEF Init, Master!Init, Leaders, Leads
<1>2. ASSUME TypeOK, LeaseInv, [Next]_vars
      PROVE  [Master!Next]_<<holder, Leaders>>
  <2>1. Leaders \subseteq {holder} /\ Leaders' \subseteq {holder'} /\ Leaders' \subseteq Candidates
    BY <1>2, LeaseStep DEF LeaseInv, LeaderHolds, Leaders
  <2>2. CASE holder' = holder
    <3>1. Leaders' = Leaders \/ Leaders' = {} \/ (Leaders = {} /\ Leaders' = {holder})
      BY <2>1, <2>2
    <3>2. Leaders' = {holder} => holder \in Candidates
      BY <2>1
    <3> QED
      BY <2>2, <3>1, <3>2 DEF Master!Next, Master!Resign, Master!Elect
  <2>3. CASE holder' # holder
    <3>1. holder' \in Candidates /\ Leaders' = Leaders
      BY <1>2, <2>3, RecordStep DEF Leaders, Leads
    <3>2. Leaders = {}
      BY <2>1, <2>3, <3>1
    <3> QED
      BY <3>1, <3>2 DEF Master!Next, Master!Take
  <2> QED
    BY <2>2, <2>3
<1>3. Init => LeaseInv
  BY DEF Init, LeaseInv, LeaderHolds, PollEnds, Observers, Answers, Expired, Overwrites, Leads
<1> QED
  BY <1>1, <1>2, <1>3, LeaseStep, TypeCorrect, PTL
  DEF Spec, ImplementsMastership, Master!Spec
=============================================================================
