--------------------------- MODULE LeaderElection ---------------------------
(***************************************************************************)
(* Leader election with a lease in an annotation of an Endpoints object:   *)
(* the library of this repository (lib/election.go), the sidecar that      *)
(* serves the leader's name (example/main.go) and the LeaderElector that   *)
(* they run (leaderelection.go, vendored).                                 *)
(*                                                                         *)
(* A candidate decides by its own clock, which is the same for all here,   *)
(* in ticks.  An attempt (tryAcquireOrRenew) reads the object and writes   *)
(* it back under its resource version; it takes at most MaxDelay ticks.    *)
(* Records are told apart by a flag: whether what a candidate has observed *)
(* or fetched is still what the server has.  Nobody deletes the object.    *)
(***************************************************************************)
EXTENDS Integers

CONSTANTS
  Candidates,       \* their identities
  None,             \* no holder; as a name, the empty string
  LeaseDuration, RenewDeadline, RetryPeriod,
  MaxDelay,         \* how long an attempt takes at most
  MaxFaults         \* how many calls fail and candidates crash

\* The last two are what NewLeaderElector demands; the one before is what keeps
\* the lease exclusive: the last attempt of a leader starts when the one before,
\* begun at the deadline, is over, and its lease dates from before the answer.
ASSUME ElectionAssumption ==
  /\ None \notin Candidates
  /\ {LeaseDuration, RenewDeadline, RetryPeriod, MaxDelay, MaxFaults} \subseteq Nat
  /\ RenewDeadline + 3 * MaxDelay < LeaseDuration
  /\ RenewDeadline < LeaseDuration
  /\ 12 * RetryPeriod < 10 * RenewDeadline

VARIABLES
  exists, holder,   \* the object on the server, and HolderIdentity of its record
  phase,            \* of each candidate: "new", "create", "acquire", "lead", "stop";
                    \* "down" when its pod is gone
  stage,            \* of its attempt: "idle", "get", "update", "answer"
  final,            \* the attempt is the one that Poll makes after its timeout
  expired,          \* the lease had expired when the attempt began
  fresh,            \* the object fetched by the attempt is the server's
  same, obsAge,     \* observedRecord is the server's record; if so, ticks since
                    \* observedTime
  loopAge,          \* ticks since Poll has begun, or the sleep of acquire
  tryAge,           \* ticks since the attempt has begun
  starting,         \* a goroutine is to call OnStartedLeading
  name,             \* LeaderData.Name, what the sidecar answers
  faults            \* faults so far

server == <<exists, holder>>
locals == <<final, expired, fresh, tryAge>>
attempt == <<stage, locals>>
observed == <<same, obsAge>>
sidecar == <<starting, name>>
vars == <<server, attempt, observed, sidecar, phase, loopAge, faults>>

Init ==
  /\ exists = FALSE /\ holder = None
  /\ phase = [c \in Candidates |-> "new"]
  /\ stage = [c \in Candidates |-> "idle"]
  /\ final = [c \in Candidates |-> FALSE]
  /\ expired = [c \in Candidates |-> FALSE]
  /\ fresh = [c \in Candidates |-> FALSE]
  /\ same = [c \in Candidates |-> FALSE]
  /\ obsAge = [c \in Candidates |-> 0]
  /\ loopAge = [c \in Candidates |-> 0]
  /\ tryAge = [c \in Candidates |-> 0]
  /\ starting = [c \in Candidates |-> FALSE]
  /\ name = [c \in Candidates |-> None]
  /\ faults = 0

Fault == faults < MaxFaults /\ faults' = faults + 1

(***************************************************************************)
(* NewElection                                                             *)
(***************************************************************************)

\* The object is there: report its holder and run.
Join(c) ==
  /\ phase[c] = "new" /\ exists
  /\ name' = [name EXCEPT ![c] = holder]
  /\ phase' = [phase EXCEPT ![c] = "acquire"]
  /\ loopAge' = [loopAge EXCEPT ![c] = RetryPeriod]
  /\ UNCHANGED <<server, attempt, observed, starting, faults>>

\* It is not there.
NotFound(c) ==
  /\ phase[c] = "new" /\ ~exists
  /\ phase' = [phase EXCEPT ![c] = "create"]
  /\ UNCHANGED <<server, attempt, observed, sidecar, loopAge, faults>>

\* Create it.  If another candidate has created it meanwhile, the error is no
\* conflict, and the process ends and is started again.
Create(c) ==
  /\ phase[c] = "create"
  /\ exists' = TRUE
  /\ phase' = [phase EXCEPT ![c] = "new"]
  /\ UNCHANGED <<holder, attempt, observed, sidecar, loopAge, faults>>

(***************************************************************************)
(* tryAcquireOrRenew                                                       *)
(***************************************************************************)

\* The attempt of c is over; its locals are gone.
End(c) ==
  /\ stage' = [stage EXCEPT ![c] = "idle"]
  /\ final' = [final EXCEPT ![c] = FALSE]
  /\ expired' = [expired EXCEPT ![c] = FALSE]
  /\ fresh' = [fresh EXCEPT ![c] = FALSE]
  /\ tryAge' = [tryAge EXCEPT ![c] = 0]

\* Mutant: an attempt begins while the one before is still under way.
BeginMeanwhile(c, last) ==
  /\ stage' = [stage EXCEPT ![c] = "get"]
  /\ final' = [final EXCEPT ![c] = last]
  /\ expired' = [expired EXCEPT ![c] = same[c] /\ obsAge[c] >= LeaseDuration]
  /\ UNCHANGED <<server, fresh, tryAge, observed, sidecar, phase, loopAge, faults>>

\* An attempt of candidate c begins.  There is one at a time: Poll and acquire wait
\* for its result.
Begin(c, last) ==
  /\ stage[c] = "idle"
  /\ stage' = [stage EXCEPT ![c] = "get"]
  /\ final' = [final EXCEPT ![c] = last]
  /\ expired' = [expired EXCEPT ![c] = same[c] /\ obsAge[c] >= LeaseDuration]
  /\ UNCHANGED <<server, fresh, tryAge, observed, sidecar, phase, loopAge, faults>>

\* acquire tries at once, and again after each sleep.
BeginAcquire(c) ==
  /\ phase[c] = "acquire" /\ loopAge[c] >= RetryPeriod
  /\ Begin(c, FALSE)

\* Poll tries at each tick of its interval until its timeout...
BeginRenew(c) ==
  /\ phase[c] = "lead"
  /\ \E k \in 1 .. RenewDeadline : loopAge[c] = k * RetryPeriod
  /\ loopAge[c] <= RenewDeadline
  /\ Begin(c, FALSE)

\* ... and once more after it.
BeginLast(c) ==
  /\ phase[c] = "lead" /\ loopAge[c] >= RenewDeadline
  /\ Begin(c, TRUE)

\* The attempt returns true: the candidate leads, or polls anew.
Succeed(c) ==
  /\ End(c)
  /\ phase' = [phase EXCEPT ![c] = "lead"]
  /\ loopAge' = [loopAge EXCEPT ![c] = 0]
  /\ starting' = [starting EXCEPT ![c] = @ \/ phase[c] = "acquire"]

\* Mutant: a leader goes on after the last attempt.
FailOn(c) ==
  /\ End(c)
  /\ loopAge' = [loopAge EXCEPT ![c] = IF phase[c] = "acquire" \/ final[c] THEN 0 ELSE @]
  /\ UNCHANGED <<phase, starting>>

\* The attempt returns false: acquire sleeps, Poll waits, or gives up if the
\* attempt was the last.
Fail(c) ==
  /\ End(c)
  /\ phase' = [phase EXCEPT ![c] = IF final[c] THEN "stop" ELSE @]
  /\ loopAge' = [loopAge EXCEPT ![c] = IF phase[c] = "acquire" THEN 0 ELSE @]
  /\ UNCHANGED starting

\* Mutant: a candidate that sees another's record for the first time does not
\* wait for it to expire.
HeldIfSeen(c) == holder \notin {c, None} /\ same[c] /\ ~expired[c]

\* Mutant: a lease never expires.
HeldForever(c) == holder \notin {c, None}

\* Somebody else holds a lease that has not expired for c, who observes a record
\* from when it first sees it.
Held(c) == holder \notin {c, None} /\ (~same[c] \/ ~expired[c])

\* The server answers the GET; the candidate observes a new record, and gives up
\* if the lease is held.
Get(c) ==
  /\ stage[c] = "get"
  /\ IF holder # None /\ ~same[c]
       THEN same' = [same EXCEPT ![c] = TRUE] /\ obsAge' = [obsAge EXCEPT ![c] = 0]
       ELSE UNCHANGED observed
  /\ IF Held(c)
       THEN Fail(c)
       ELSE /\ stage' = [stage EXCEPT ![c] = "update"]
            /\ fresh' = [fresh EXCEPT ![c] = TRUE]
            /\ UNCHANGED <<final, expired, tryAge, phase, loopAge, starting>>
  /\ UNCHANGED <<server, name, faults>>

\* The server accepts the update: nobody has written since.
Writes(c) == fresh[c]

\* The server performs the update.
Update(c) ==
  /\ stage[c] = "update" /\ Writes(c)
  /\ holder' = c
  /\ fresh' = [x \in Candidates |-> FALSE]
  /\ same' = [x \in Candidates |-> FALSE]
  /\ obsAge' = [x \in Candidates |-> 0]
  /\ stage' = [stage EXCEPT ![c] = "answer"]
  /\ UNCHANGED <<exists, final, expired, tryAge, sidecar, phase, loopAge, faults>>

Conflict(c) ==
  /\ stage[c] = "update" /\ ~Writes(c)
  /\ Fail(c)
  /\ UNCHANGED <<server, observed, name, faults>>

\* The candidate hears of it and observes its own record.
Answer(c) ==
  /\ stage[c] = "answer"
  /\ Succeed(c)
  /\ same' = [same EXCEPT ![c] = holder = c]
  /\ obsAge' = [obsAge EXCEPT ![c] = 0]
  /\ UNCHANGED <<server, name, faults>>

\* The call under way fails, or its answer is lost.
CallFails(c) ==
  /\ stage[c] # "idle"
  /\ Fault /\ Fail(c)
  /\ UNCHANGED <<server, observed, name>>

(***************************************************************************)
(* Callbacks                                                               *)
(***************************************************************************)

\* Mutant: nobody calls OnStartedLeading.
StartedUncalled(c) ==
  /\ starting[c] /\ starting' = [starting EXCEPT ![c] = FALSE]
  /\ UNCHANGED <<server, attempt, observed, name, phase, loopAge, faults>>

OnStartedLeading(c) ==
  /\ starting[c] /\ starting' = [starting EXCEPT ![c] = FALSE]
  /\ name' = [name EXCEPT ![c] = c]
  /\ UNCHANGED <<server, attempt, observed, phase, loopAge, faults>>

\* getCurrentLeader, or "" if that fails; then Run is called again.
OnStoppedLeading(c) ==
  /\ phase[c] = "stop"
  /\ \/ name' = [name EXCEPT ![c] = holder] /\ UNCHANGED faults
     \/ name' = [name EXCEPT ![c] = None] /\ Fault
  /\ phase' = [phase EXCEPT ![c] = "acquire"]
  /\ loopAge' = [loopAge EXCEPT ![c] = RetryPeriod]
  /\ UNCHANGED <<server, attempt, observed, starting>>

(***************************************************************************)
(* Time and crashes                                                        *)
(***************************************************************************)

\* A tick later, as far as the code can tell.
Aged(f, limit) == [c \in Candidates |-> IF f[c] < limit[c] THEN f[c] + 1 ELSE f[c]]

LoopLimit ==
  [c \in Candidates |-> IF phase[c] = "lead" THEN LeaseDuration ELSE
                        IF phase[c] = "acquire" THEN RetryPeriod ELSE 0]

\* Time passes, but no attempt takes longer than MaxDelay, and a leader that is
\* not trying makes its last attempt when Poll times out.
Tick ==
  /\ \A c \in Candidates : stage[c] # "idle" => tryAge[c] < MaxDelay
  /\ \A c \in Candidates : phase[c] = "lead" /\ stage[c] = "idle" => loopAge[c] < RenewDeadline
  /\ obsAge' = Aged(obsAge, [c \in Candidates |-> IF same[c] THEN LeaseDuration ELSE 0])
  /\ loopAge' = Aged(loopAge, LoopLimit)
  /\ tryAge' = Aged(tryAge, [c \in Candidates |-> IF stage[c] = "idle" THEN 0 ELSE MaxDelay])
  /\ UNCHANGED <<exists, holder, stage, final, expired, fresh, same, sidecar, phase, faults>>

\* The process ends and is started again, or its pod is gone for good and
\* another candidate is left.
Crash(c) ==
  /\ Fault /\ phase[c] # "down"
  /\ \/ phase' = [phase EXCEPT ![c] = "new"]
     \/ /\ \E d \in Candidates : d # c /\ phase[d] # "down"
        /\ phase' = [phase EXCEPT ![c] = "down"]
  /\ End(c)
  /\ loopAge' = [loopAge EXCEPT ![c] = 0]
  /\ same' = [same EXCEPT ![c] = FALSE]
  /\ obsAge' = [obsAge EXCEPT ![c] = 0]
  /\ starting' = [starting EXCEPT ![c] = FALSE]
  /\ name' = [name EXCEPT ![c] = None]
  /\ UNCHANGED server

Elector(c) ==
  \/ Join(c) \/ NotFound(c) \/ Create(c)
  \/ BeginAcquire(c) \/ BeginRenew(c) \/ BeginLast(c)
  \/ Get(c) \/ Update(c) \/ Conflict(c) \/ Answer(c)
  \/ OnStoppedLeading(c)

Next ==
  \/ \E c \in Candidates :
       Elector(c) \/ OnStartedLeading(c) \/ CallFails(c) \/ Crash(c)
  \/ Tick

Spec == Init /\ [][Next]_vars

\* Every process goes on, and so do its goroutines and the time.
FairSpec ==
  /\ Spec /\ WF_vars(Tick)
  /\ \A c \in Candidates : WF_vars(Elector(c)) /\ WF_vars(OnStartedLeading(c))

(***************************************************************************)
(* Properties                                                              *)
(***************************************************************************)

\* Attempts belong to the loops of acquire and renew, the last one to renew, and an
\* attempt has an object in hand only between its GET and its update.
InHand ==
  \A c \in Candidates :
    /\ stage[c] # "idle" => phase[c] \in {"acquire", "lead"}
    /\ final[c] => phase[c] = "lead" /\ stage[c] # "idle"
    /\ fresh[c] => stage[c] = "update"

TypeOK ==
  /\ exists \in BOOLEAN /\ holder \in Candidates \cup {None}
  /\ phase \in [Candidates -> {"new", "create", "acquire", "lead", "stop", "down"}]
  /\ stage \in [Candidates -> {"idle", "get", "update", "answer"}]
  /\ final \in [Candidates -> BOOLEAN] /\ expired \in [Candidates -> BOOLEAN]
  /\ fresh \in [Candidates -> BOOLEAN] /\ same \in [Candidates -> BOOLEAN]
  /\ obsAge \in [Candidates -> 0 .. LeaseDuration]
  /\ loopAge \in [Candidates -> 0 .. LeaseDuration]
  /\ tryAge \in [Candidates -> 0 .. MaxDelay]
  /\ starting \in [Candidates -> BOOLEAN]
  /\ name \in [Candidates -> Candidates \cup {None}]
  /\ faults \in 0 .. MaxFaults
  /\ InHand

Leads(c) == phase[c] = "lead"

\* At no time do two candidates lead, between acquire and the end of renew,
\* although each goes by what it has last heard: a leader gives up before
\* anybody else takes its lease to have expired.
OneLeader == \A c, d \in Candidates : Leads(c) /\ Leads(d) => c = d

Leaders == {c \in Candidates : Leads(c)}

Master == INSTANCE Mastership WITH owner <- holder, leaders <- Leaders

\* The lease keeps the promise of Mastership: HolderIdentity names the leader, from
\* when it hears of its election to when it has given up, and passes to another
\* only while nobody leads, whatever calls fail and whoever crashes.
ImplementsMastership == Master!Spec

\* When faults have stopped, some candidate leads and goes on leading: the lease
\* of a crashed leader is taken over, and that of a leader that is only slow never.
StableLeader == \E c \in Candidates : <>[]Leads(c)

\* The sidecar of a candidate that goes on leading ends up saying so: the callback
\* of an earlier term does not overwrite that of this one.
LeaderKnows == \A c \in Candidates : <>[]Leads(c) => <>[](name[c] = c)
=============================================================================
