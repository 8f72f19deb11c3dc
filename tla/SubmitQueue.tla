---------------------------- MODULE SubmitQueue ----------------------------
(***************************************************************************)
(* The submit queue of mungegithub: the goroutines that decide which pull  *)
(* requests of a GitHub repository are merged, and the GitHub repository,  *)
(* CI and people they race with.                                           *)
(*                                                                         *)
(*   munger   doMungers: EachLoop re-validates what is queued, then Munge  *)
(*            queues every open pull request that is valid                 *)
(*   e2e      handleGithubE2EAndMerge: takes the head of the queue,        *)
(*            re-runs its tests and merges it                              *)
(*   batch    handleGithubE2EBatchMerge: merges the pull requests of a     *)
(*            batch that Prow tested together                              *)
(*   admin    the emergency stop switch                                    *)
(*                                                                         *)
(* A commit of the target branch is identified by its position, a head     *)
(* commit of a pull request by the number of pushes before it.             *)
(***************************************************************************)
EXTENDS Integers, Sequences, FiniteSets

CONSTANTS
  PRs,              \* pull request numbers
  None,             \* "nil"
  Order,            \* queue position of each pull request (priority label,
                    \* milestone, LGTM time) when it needs a retest
  InitLabels,       \* labels of each pull request at start
  ToggledLabels,    \* labels people add and remove
  Disruptions,      \* kinds of disturbance the environment may cause
  MaxHead,          \* bound: pushes to one pull request
  MaxDisruptions,   \* bound: disturbances of all kinds together
  MaxBatches,       \* bound: batches Prow reports (0: no --batch-url)
  MaxBatchSize,     \* bound: pull requests in a batch
  GateApproved,     \* --gate-approved
  RetestRequired    \* there are required retest contexts

Labels == {"lgtm", "approved", "cla", "do-not-merge", "retest-not-required",
           "blocked-milestone"}

ApprovalLabels == {"lgtm", "approved"}

DisruptionKinds == {"push", "label", "conflict", "ci", "api", "slow", "jobs",
                    "stop", "hand"}

Heads == 0 .. MaxHead

ASSUME ConstantsAssumption ==
  /\ None \notin PRs
  /\ Order \in [PRs -> Nat \ {0}]
  /\ InitLabels \in [PRs -> SUBSET Labels]
  /\ ToggledLabels \subseteq Labels
  /\ Disruptions \subseteq DisruptionKinds
  /\ MaxHead \in Nat
  /\ MaxDisruptions \in Nat
  /\ MaxBatches \in Nat
  /\ MaxBatchSize \in Nat
  /\ GateApproved \in BOOLEAN
  /\ RetestRequired \in BOOLEAN

VARIABLES
  \* GitHub, Prow and Jenkins
  head,             \* head[p]: current head commit
  labels,           \* labels[p]: labels now on the pull request
  labelAt,          \* labelAt[p][l]: head when l was last added, -1 if never
  mergeable,        \* mergeable[p]: GitHub finds no conflict with the branch
  ci,               \* ci[p][h]: combined status of the required contexts
  ciBase,           \* ciBase[p][h]: branch length the last test run started on
  retestWanted,     \* pull requests with an unanswered "test this" comment
  branch,           \* merge commits of the target branch
  batches,          \* batches that Prow reports as successful
  jobsStable,       \* GCSBasedStable() and GCSWeakStable()
  disruptions,      \* disturbances so far
  \* fields of SubmitQueue
  githubE2EQueue,   \* queued pull requests
  githubE2ERunning, \* pull request shown as being retested
  interruptedObj,   \* tested, but not merged because the e2e jobs broke
  emergencyMergeStopFlag,
  mergeLock,        \* holder of mergeLock
  queueBalance,     \* prsAdded - prsRemoved
  \* control state and locals of the goroutines
  munger, e2e, batch

prVars == <<head, labels, labelAt, mergeable>>
ciVars == <<ci, ciBase, retestWanted>>
queueVars == <<githubE2EQueue, githubE2ERunning, queueBalance>>
vars == <<prVars, ciVars, branch, batches, jobsStable, disruptions, queueVars,
          interruptedObj, emergencyMergeStopFlag, mergeLock, munger, e2e, batch>>

----------------------------------------------------------------------------
(* Types *)

\* What a MungeObject remembers of GitHub. Refresh renews the issue and the
\* pull request, but never the list of commits, read once per object: commits
\* is the head at the time it was read.
MungeObject == [pr : PRs, labels : SUBSET Labels, head : Heads, merged : BOOLEAN,
                mergeable : BOOLEAN, commits : Heads]

Interrupted == [obj : MungeObject, head : Heads, base : Nat]

Pull == [pr : PRs, head : Heads]
Batch == [base : Nat, pulls : Seq(Pull)]

\* How a commit reached the branch, and the tests that vouch for it: the
\* branch length they started from and, for a batch, its pull requests.
MergeCommit == [pr : PRs, head : Heads, how : {"hand", "instant", "retest", "batch"},
                base : Nat, pulls : Seq(Pull)]

CIStates == {"none", "pending", "success", "failure"}

Verdicts == {"ok", "ciFailure", "refused"}

E2ESteps == {"poll", "select", "start", "instant", "retest", "waitPending",
             "waitNotPending", "refresh", "lock", "check", "merge", "finish"}

TypeOK ==
  /\ head \in [PRs -> Heads]
  /\ labels \in [PRs -> SUBSET Labels]
  /\ labelAt \in [PRs -> [ApprovalLabels -> Heads \cup {-1}]]
  /\ mergeable \in [PRs -> BOOLEAN]
  /\ ci \in [PRs -> [Heads -> CIStates]]
  /\ ciBase \in [PRs -> [Heads -> Nat]]
  /\ retestWanted \in SUBSET PRs
  /\ branch \in Seq(MergeCommit)
  /\ batches \in SUBSET Batch
  /\ jobsStable \in BOOLEAN
  /\ disruptions \in 0 .. MaxDisruptions
  /\ DOMAIN githubE2EQueue \in SUBSET PRs
  /\ githubE2EQueue \in [DOMAIN githubE2EQueue -> MungeObject]
  /\ githubE2ERunning \in PRs \cup {None}
  /\ interruptedObj \in Interrupted \cup {None}
  /\ emergencyMergeStopFlag \in BOOLEAN
  /\ mergeLock \in {"free", "e2e", "batch"}
  /\ queueBalance \in Int
  /\ munger \in [phase : {"recheck", "munge"}, todo : SUBSET PRs,
                 obj : MungeObject \cup {None}, verdict : Verdicts]
  /\ e2e \in [pc : E2ESteps, obj : MungeObject \cup {None}, sha : Heads]
  /\ batch \in [pc : {"poll", "lock", "recheck", "verify", "merge"},
                b : Batch \cup {None}, match : Nat, next : Nat]

IdleE2E == [pc |-> "poll", obj |-> None, sha |-> 0]
IdleBatch == [pc |-> "poll", b |-> None, match |-> 0, next |-> 0]

Init ==
  /\ head = [p \in PRs |-> 0]
  /\ labels = InitLabels
  /\ labelAt = [p \in PRs |-> [l \in ApprovalLabels |->
                                 IF l \in InitLabels[p] THEN 0 ELSE -1]]
  /\ mergeable = [p \in PRs |-> TRUE]
  /\ ci = [p \in PRs |-> [h \in Heads |-> IF h = 0 THEN "success" ELSE "none"]]
  /\ ciBase = [p \in PRs |-> [h \in Heads |-> 0]]
  /\ retestWanted = {}
  /\ branch = <<>>
  /\ batches = {}
  /\ jobsStable = TRUE
  /\ disruptions = 0
  /\ githubE2EQueue = <<>>
  /\ githubE2ERunning = None
  /\ interruptedObj = None
  /\ emergencyMergeStopFlag = FALSE
  /\ mergeLock = "free"
  /\ queueBalance = 0
  /\ munger = [phase |-> "munge", todo |-> {}, obj |-> None, verdict |-> "ok"]
  /\ e2e = IdleE2E
  /\ batch = IdleBatch

----------------------------------------------------------------------------
(* GitHub, as the queue reads and changes it *)

Merged(p) == \E i \in DOMAIN branch : branch[i].pr = p

\* GetObject, or the object ForEachIssueDo builds for an open pull request.
GetObject(p) == [pr |-> p, labels |-> labels[p], head |-> head[p], merged |-> Merged(p),
                 mergeable |-> mergeable[p], commits |-> head[p]]

\* Mutant: the commits are read anew too, under the goroutine that validated
\* the old ones.
RefreshCommits(o) == GetObject(o.pr)

\* obj.Refresh: the issue and the pull request anew, the same old commits.
Refresh(o) == [GetObject(o.pr) EXCEPT !.commits = o.commits]

\* Mutant: commits and approvals are not compared.
ChangedSinceApprovalIgnored(o) == FALSE

\* The last commit the object knows of is younger than an LGTM or approval.
ChangedSinceApproval(o) ==
  \E l \in ApprovalLabels : labelAt[o.pr][l] >= 0 /\ labelAt[o.pr][l] < o.commits

\* validForMergeExt: "ok", or the reason for the refusal, as far as
\* SetMergeStatus treats reasons differently. Labels, head and mergeability come
\* from the object, CI results and label events from GitHub as it is now.
Verdict(o, checkStatus) ==
  IF o.merged \/ "blocked-milestone" \in o.labels \/ "cla" \notin o.labels \/ ~o.mergeable
    THEN "refused"
  ELSE IF checkStatus /\ ci[o.pr][o.head] # "success"
    THEN "ciFailure"
  ELSE IF \/ "lgtm" \notin o.labels
          \/ GateApproved /\ "approved" \notin o.labels
          \/ ChangedSinceApproval(o)
          \/ "do-not-merge" \in o.labels
    THEN "refused"
  ELSE "ok"

RetestNotRequired(o) == "retest-not-required" \in o.labels

\* queueSorter: those that need no retest first.
Rank(o) == IF RetestNotRequired(o) THEN 0 ELSE Order[o.pr]

\* MergePR names no commit: GitHub merges whatever the head is now.  Its one retry
\* while GitHub works out whether it can is part of the same step.
CanMerge(p) == ~Merged(p) /\ mergeable[p]

MergePR(p, how, base, pulls) ==
  branch' = Append(branch, [pr |-> p, head |-> head[p], how |-> how,
                            base |-> base, pulls |-> pulls])

E2EStable == jobsStable /\ ~emergencyMergeStopFlag

Disturb(kind) ==
  /\ kind \in Disruptions
  /\ disruptions < MaxDisruptions
  /\ disruptions' = disruptions + 1

----------------------------------------------------------------------------
(* The queue; every operator is one critical section of SubmitQueue's mutex *)

\* Mutant: the entry is set to nil, not deleted.
deleteQueueItemToNil(p) ==
  /\ githubE2EQueue' = [q \in DOMAIN githubE2EQueue |->
                          IF q = p THEN None ELSE githubE2EQueue[q]]
  /\ queueBalance' = IF p \in DOMAIN githubE2EQueue THEN queueBalance - 1 ELSE queueBalance

deleteQueueItem(p) ==
  /\ githubE2EQueue' = [q \in DOMAIN githubE2EQueue \ {p} |-> githubE2EQueue[q]]
  /\ queueBalance' = IF p \in DOMAIN githubE2EQueue THEN queueBalance - 1 ELSE queueBalance

\* Mutant: a pull request that is queued already is counted again.
addQueueItemTwice(o) ==
  /\ githubE2EQueue' = [q \in DOMAIN githubE2EQueue \cup {o.pr} |->
                          IF q = o.pr THEN o ELSE githubE2EQueue[q]]
  /\ queueBalance' = queueBalance + 1
  /\ UNCHANGED githubE2ERunning

addQueueItem(o) ==
  /\ githubE2EQueue' = [q \in DOMAIN githubE2EQueue \cup {o.pr} |->
                          IF q = o.pr THEN o ELSE githubE2EQueue[q]]
  /\ queueBalance' = IF o.pr \in DOMAIN githubE2EQueue THEN queueBalance ELSE queueBalance + 1
  /\ UNCHANGED githubE2ERunning

\* Mutant: a refused pull request keeps its place.
KeepRefused == {"e2eFailure", "ghE2EQueued", "ghE2EWaitingStart", "ghE2ERunning", "refused"}

KeepReasons == {"e2eFailure", "ghE2EQueued", "ghE2EWaitingStart", "ghE2ERunning"}

\* Mutant: cleanupOldE2E forgets githubE2ERunning.
SetMergeStatusStillRunning(p, reason) ==
  IF reason \in KeepReasons \/ (reason = "ciFailure" /\ githubE2ERunning = p)
    THEN UNCHANGED queueVars
    ELSE UNCHANGED githubE2ERunning /\ deleteQueueItem(p)

\* SetMergeStatus with cleanupOldE2E.
SetMergeStatus(p, reason) ==
  IF reason \in KeepReasons \/ (reason = "ciFailure" /\ githubE2ERunning = p)
    THEN UNCHANGED queueVars
    ELSE /\ githubE2ERunning' = IF githubE2ERunning = p THEN None ELSE githubE2ERunning
         /\ deleteQueueItem(p)

----------------------------------------------------------------------------
(* munger: doMungers *)

\* EachLoop collects what is queued ...
EachLoop ==
  /\ munger.phase = "munge" /\ munger.todo = {} /\ munger.obj = None
  /\ munger' = [munger EXCEPT !.phase = "recheck", !.todo = DOMAIN githubE2EQueue]
  /\ UNCHANGED <<prVars, ciVars, branch, batches, jobsStable, disruptions, queueVars,
                 interruptedObj, emergencyMergeStopFlag, mergeLock, e2e, batch>>

\* The queue holds pointers: the object that EachLoop refreshes may be the one
\* that the e2e goroutine works with.
RefreshShared(p) ==
  \/ UNCHANGED e2e
  \/ /\ e2e.pc \notin {"poll", "select"} /\ e2e.obj.pr = p
     /\ e2e' = [e2e EXCEPT !.obj = Refresh(e2e.obj)]

\* ... and refreshes and re-validates each of them. One that left the queue
\* meanwhile is validated too, but there is nothing left to clean up.
Recheck(p) ==
  /\ munger.phase = "recheck" /\ munger.obj = None /\ p \in munger.todo
  /\ RefreshShared(p)
  /\ IF p \in DOMAIN githubE2EQueue
       THEN LET o == Refresh(githubE2EQueue[p]) IN
            /\ munger' = [munger EXCEPT !.todo = @ \ {p}, !.obj = o,
                                        !.verdict = Verdict(o, TRUE)]
            /\ githubE2EQueue' = [githubE2EQueue EXCEPT ![p] = o]
       ELSE /\ munger' = [munger EXCEPT !.todo = @ \ {p}]
            /\ UNCHANGED githubE2EQueue
  /\ UNCHANGED <<prVars, ciVars, branch, batches, jobsStable, disruptions,
                 githubE2ERunning, queueBalance, interruptedObj,
                 emergencyMergeStopFlag, mergeLock, batch>>

\* The error of Refresh is ignored: the object is validated as it was, unless its
\* commits or events cannot be read either: SetMergeStatus(unknown).
RecheckFails(p) ==
  /\ Disturb("api")
  /\ munger.phase = "recheck" /\ munger.obj = None
  /\ p \in munger.todo \cap DOMAIN githubE2EQueue
  /\ \E verdict \in {Verdict(githubE2EQueue[p], TRUE), "refused"} :
       munger' = [munger EXCEPT !.todo = @ \ {p}, !.obj = githubE2EQueue[p], !.verdict = verdict]
  /\ UNCHANGED <<prVars, ciVars, branch, batches, jobsStable, queueVars,
                 interruptedObj, emergencyMergeStopFlag, mergeLock, e2e, batch>>

\* ForEachIssueDo goes through the open pull requests.
ForEachIssueDo ==
  /\ munger.phase = "recheck" /\ munger.todo = {} /\ munger.obj = None
  /\ munger' = [munger EXCEPT !.phase = "munge", !.todo = {p \in PRs : ~Merged(p)}]
  /\ UNCHANGED <<prVars, ciVars, branch, batches, jobsStable, disruptions, queueVars,
                 interruptedObj, emergencyMergeStopFlag, mergeLock, e2e, batch>>

\* Munge validates a pull request ...
Munge(p) ==
  /\ munger.phase = "munge" /\ munger.obj = None /\ p \in munger.todo
  /\ LET o == GetObject(p) IN
     munger' = [munger EXCEPT !.todo = @ \ {p}, !.obj = o, !.verdict = Verdict(o, TRUE)]
  /\ UNCHANGED <<prVars, ciVars, branch, batches, jobsStable, disruptions, queueVars,
                 interruptedObj, emergencyMergeStopFlag, mergeLock, e2e, batch>>

\* ... or cannot: SetMergeStatus(unknown).
MungeFails(p) ==
  /\ Disturb("api")
  /\ munger.phase = "munge" /\ munger.obj = None /\ p \in munger.todo
  /\ munger' = [munger EXCEPT !.todo = @ \ {p}, !.obj = GetObject(p), !.verdict = "refused"]
  /\ UNCHANGED <<prVars, ciVars, branch, batches, jobsStable, queueVars,
                 interruptedObj, emergencyMergeStopFlag, mergeLock, e2e, batch>>

\* What became of the validation reaches the queue some time later: meanwhile
\* the other goroutines may have tested, merged or dropped the pull request.
MungerApply ==
  /\ munger.obj # None
  /\ \/ munger.verdict # "ok" /\ SetMergeStatus(munger.obj.pr, munger.verdict)
     \/ munger.verdict = "ok" /\ munger.phase = "recheck" /\ UNCHANGED queueVars
     \/ munger.verdict = "ok" /\ munger.phase = "munge" /\ addQueueItem(munger.obj)
  /\ munger' = [munger EXCEPT !.obj = None, !.verdict = "ok"]
  /\ UNCHANGED <<prVars, ciVars, branch, batches, jobsStable, disruptions,
                 interruptedObj, emergencyMergeStopFlag, mergeLock, e2e, batch>>

----------------------------------------------------------------------------
(* e2e: handleGithubE2EAndMerge *)

PollQueue ==
  /\ e2e.pc = "poll"
  /\ DOMAIN githubE2EQueue # {} /\ E2EStable
  /\ e2e' = [e2e EXCEPT !.pc = "select"]
  /\ UNCHANGED <<prVars, ciVars, branch, batches, jobsStable, disruptions, queueVars,
                 interruptedObj, emergencyMergeStopFlag, mergeLock, munger, batch>>

\* An interrupted pull request goes first, without being marked as running.
selectPullRequest ==
  /\ e2e.pc = "select"
  /\ \/ /\ interruptedObj # None
        /\ e2e' = [e2e EXCEPT !.pc = "start", !.obj = interruptedObj.obj]
        /\ UNCHANGED githubE2ERunning
     \/ /\ interruptedObj = None /\ DOMAIN githubE2EQueue = {}
        /\ e2e' = IdleE2E
        /\ UNCHANGED githubE2ERunning
     \/ /\ interruptedObj = None
        /\ \E p \in DOMAIN githubE2EQueue :
             /\ \A q \in DOMAIN githubE2EQueue :
                  Rank(githubE2EQueue[p]) <= Rank(githubE2EQueue[q])
             /\ githubE2ERunning' = p
             /\ e2e' = [e2e EXCEPT !.pc = "start", !.obj = githubE2EQueue[p]]
  /\ UNCHANGED <<prVars, ciVars, branch, batches, jobsStable, disruptions,
                 githubE2EQueue, queueBalance, interruptedObj,
                 emergencyMergeStopFlag, mergeLock, munger, batch>>

hasSHAChanged(io, o) == io.head # o.head \/ io.base # Len(branch)

\* doGithubE2EAndMerge, up to the retest: refresh, validate, and either give
\* up, merge at once, go on with what an earlier test showed, or retest.
StartE2E ==
  /\ e2e.pc = "start"
  /\ interruptedObj' = None
  /\ LET o == Refresh(e2e.obj)
         verdict == Verdict(o, TRUE)
     IN \/ /\ verdict # "ok"
           /\ SetMergeStatus(o.pr, verdict)
           /\ e2e' = [e2e EXCEPT !.pc = "finish", !.obj = o]
        \/ /\ verdict = "ok" /\ RetestNotRequired(o)
           /\ e2e' = [e2e EXCEPT !.pc = "instant", !.obj = o]
           /\ UNCHANGED queueVars
        \/ /\ verdict = "ok" /\ ~RetestNotRequired(o) /\ interruptedObj = None
           /\ e2e' = [pc |-> "retest", obj |-> o, sha |-> o.head]
           /\ UNCHANGED queueVars
        \/ /\ verdict = "ok" /\ ~RetestNotRequired(o) /\ interruptedObj # None
           /\ e2e' = IF hasSHAChanged(interruptedObj, o)
                       THEN IdleE2E
                       ELSE [pc |-> "lock", obj |-> o, sha |-> o.head]
           /\ UNCHANGED queueVars
  /\ UNCHANGED <<prVars, ciVars, branch, batches, jobsStable, disruptions,
                 emergencyMergeStopFlag, mergeLock, munger, batch>>

\* Any call to GitHub on the way to the merge fails: SetMergeStatus(unknown), or
\* e2eFailure if it is the call that would record the base of an interrupted
\* pull request. A call that fails while mergeLock is held releases it.
E2EFails ==
  /\ Disturb("api")
  /\ e2e.pc \in {"start", "retest", "waitNotPending", "refresh", "check"}
  /\ interruptedObj' = IF e2e.pc = "start" THEN None ELSE interruptedObj
  /\ \/ SetMergeStatus(e2e.obj.pr, "unknown")
     \/ /\ e2e.pc = "check" /\ Verdict(e2e.obj, TRUE) = "ok" /\ ~E2EStable
        /\ e2e.obj.head = e2e.sha
        /\ SetMergeStatus(e2e.obj.pr, "e2eFailure")
  /\ e2e' = [e2e EXCEPT !.pc = "finish"]
  /\ mergeLock' = IF e2e.pc = "check" THEN "free" ELSE mergeLock
  /\ UNCHANGED <<prVars, ciVars, branch, batches, jobsStable,
                 emergencyMergeStopFlag, munger, batch>>

\* The base of an interrupted pull request cannot be read: hasSHAChanged says yes.
ResumeFails ==
  /\ Disturb("api")
  /\ e2e.pc = "start" /\ interruptedObj # None
  /\ LET o == Refresh(e2e.obj) IN Verdict(o, TRUE) = "ok" /\ ~RetestNotRequired(o)
  /\ interruptedObj' = None
  /\ e2e' = IdleE2E
  /\ UNCHANGED <<prVars, ciVars, branch, batches, jobsStable, queueVars,
                 emergencyMergeStopFlag, mergeLock, munger, batch>>

\* retestPR asks for the tests with a comment, if there are any to run.
RequestRetest ==
  /\ e2e.pc = "retest"
  /\ IF RetestRequired
       THEN /\ retestWanted' = retestWanted \cup {e2e.obj.pr}
            /\ SetMergeStatus(e2e.obj.pr, "ghE2EWaitingStart")
            /\ e2e' = [e2e EXCEPT !.pc = "waitPending"]
       ELSE /\ e2e' = [e2e EXCEPT !.pc = "refresh"]
            /\ UNCHANGED <<retestWanted, queueVars>>
  /\ UNCHANGED <<prVars, ci, ciBase, branch, batches, jobsStable, disruptions,
                 interruptedObj, emergencyMergeStopFlag, mergeLock, munger, batch>>

\* One poll of doWaitStatus: the object is refreshed; a closed pull request
\* ends the wait.
WaitPoll ==
  /\ e2e.pc \in {"waitPending", "waitNotPending"}
  /\ LET o == Refresh(e2e.obj) IN
     /\ o # e2e.obj
     /\ IF o.merged
          THEN /\ SetMergeStatus(o.pr, "waitFailed")
               /\ e2e' = [e2e EXCEPT !.pc = "finish", !.obj = o]
          ELSE /\ e2e' = [e2e EXCEPT !.obj = o]
               /\ UNCHANGED queueVars
  /\ UNCHANGED <<prVars, ciVars, branch, batches, jobsStable, disruptions,
                 interruptedObj, emergencyMergeStopFlag, mergeLock, munger, batch>>

StatusOf(o) == ci[o.pr][o.head]

\* Mutant: the retest is taken to have started once it is asked for.
WaitForNothing ==
  /\ e2e.pc = "waitPending"
  /\ SetMergeStatus(e2e.obj.pr, "ghE2ERunning")
  /\ e2e' = [e2e EXCEPT !.pc = "waitNotPending"]
  /\ UNCHANGED <<prVars, ciVars, branch, batches, jobsStable, disruptions,
                 interruptedObj, emergencyMergeStopFlag, mergeLock, munger, batch>>

WaitForPending ==
  /\ e2e.pc = "waitPending" /\ StatusOf(e2e.obj) = "pending"
  /\ SetMergeStatus(e2e.obj.pr, "ghE2ERunning")
  /\ e2e' = [e2e EXCEPT !.pc = "waitNotPending"]
  /\ UNCHANGED <<prVars, ciVars, branch, batches, jobsStable, disruptions,
                 interruptedObj, emergencyMergeStopFlag, mergeLock, munger, batch>>

WaitForNotPending ==
  /\ e2e.pc = "waitNotPending" /\ StatusOf(e2e.obj) # "pending"
  /\ IF StatusOf(e2e.obj) = "success"
       THEN /\ e2e' = [e2e EXCEPT !.pc = "refresh"]
            /\ UNCHANGED queueVars
       ELSE /\ e2e' = [e2e EXCEPT !.pc = "finish"]
            /\ SetMergeStatus(e2e.obj.pr, "ghE2EFailed")
  /\ UNCHANGED <<prVars, ciVars, branch, batches, jobsStable, disruptions,
                 interruptedObj, emergencyMergeStopFlag, mergeLock, munger, batch>>

\* Mutant: a wait that misses the test run never ends.
WaitForEver == FALSE

\* prMaxWaitTime passes. That is a disturbance while CI still owes an answer,
\* and bound to happen when a test run came and went between two polls.
WaitTimeout ==
  /\ e2e.pc \in {"waitPending", "waitNotPending"}
  /\ IF e2e.obj.pr \in retestWanted \/ ci[e2e.obj.pr][head[e2e.obj.pr]] = "pending"
       THEN Disturb("slow")
       ELSE e2e.pc = "waitPending" /\ UNCHANGED disruptions
  /\ SetMergeStatus(e2e.obj.pr, "waitFailed")
  /\ e2e' = [e2e EXCEPT !.pc = "finish"]
  /\ UNCHANGED <<prVars, ciVars, branch, batches, jobsStable,
                 interruptedObj, emergencyMergeStopFlag, mergeLock, munger, batch>>

RefreshTested ==
  /\ e2e.pc = "refresh"
  /\ e2e' = [e2e EXCEPT !.pc = "lock", !.obj = Refresh(e2e.obj)]
  /\ UNCHANGED <<prVars, ciVars, branch, batches, jobsStable, disruptions, queueVars,
                 interruptedObj, emergencyMergeStopFlag, mergeLock, munger, batch>>

LockE2E ==
  /\ e2e.pc = "lock" /\ mergeLock = "free"
  /\ mergeLock' = "e2e"
  /\ e2e' = [e2e EXCEPT !.pc = "check"]
  /\ UNCHANGED <<prVars, ciVars, branch, batches, jobsStable, disruptions, queueVars,
                 interruptedObj, emergencyMergeStopFlag, munger, batch>>

\* The last checks under mergeLock: still valid, not changed since the retest
\* was requested, and the e2e jobs still pass.
CheckTested ==
  /\ e2e.pc = "check"
  /\ LET o == e2e.obj
         verdict == Verdict(o, TRUE)
     IN \/ /\ verdict # "ok"
           /\ SetMergeStatus(o.pr, verdict)
           /\ e2e' = [e2e EXCEPT !.pc = "finish"]
           /\ mergeLock' = "free"
           /\ UNCHANGED interruptedObj
        \/ /\ verdict = "ok" /\ o.head # e2e.sha
           /\ SetMergeStatus(o.pr, "headCommitChanged")
           /\ e2e' = IdleE2E
           /\ mergeLock' = "free"
           /\ UNCHANGED interruptedObj
        \/ /\ verdict = "ok" /\ o.head = e2e.sha /\ ~E2EStable
           /\ SetMergeStatus(o.pr, "e2eFailure")
           /\ interruptedObj' = [obj |-> o, head |-> o.head, base |-> Len(branch)]
           /\ e2e' = [e2e EXCEPT !.pc = "finish"]
           /\ mergeLock' = "free"
        \/ /\ verdict = "ok" /\ o.head = e2e.sha /\ E2EStable
           /\ e2e' = [e2e EXCEPT !.pc = "merge"]
           /\ UNCHANGED <<interruptedObj, mergeLock, queueVars>>
  /\ UNCHANGED <<prVars, ciVars, branch, batches, jobsStable, disruptions,
                 emergencyMergeStopFlag, munger, batch>>

\* mergePullRequest, and the release of mergeLock where it is held: a pull
\* request that needs no retest is merged without it.
MergeE2E ==
  /\ e2e.pc \in {"instant", "merge"}
  /\ LET p == e2e.obj.pr IN
     IF CanMerge(p)
       THEN /\ IF e2e.pc = "instant"
                 THEN MergePR(p, "instant", 0, <<>>)
                 ELSE MergePR(p, "retest", ciBase[p][head[p]], <<>>)
            /\ SetMergeStatus(p, "merged")
       ELSE UNCHANGED <<branch, queueVars>>
  /\ e2e' = [e2e EXCEPT !.pc = "finish"]
  /\ mergeLock' = IF e2e.pc = "merge" THEN "free" ELSE mergeLock
  /\ UNCHANGED <<prVars, ciVars, batches, jobsStable, disruptions,
                 interruptedObj, emergencyMergeStopFlag, munger, batch>>

\* The call fails, or only its answer is lost.
MergeE2EFails ==
  /\ Disturb("api")
  /\ e2e.pc \in {"instant", "merge"}
  /\ LET p == e2e.obj.pr IN
     \/ UNCHANGED branch
     \/ /\ CanMerge(p)
        /\ IF e2e.pc = "instant"
             THEN MergePR(p, "instant", 0, <<>>)
             ELSE MergePR(p, "retest", ciBase[p][head[p]], <<>>)
  /\ e2e' = [e2e EXCEPT !.pc = "finish"]
  /\ mergeLock' = IF e2e.pc = "merge" THEN "free" ELSE mergeLock
  /\ UNCHANGED <<prVars, ciVars, batches, jobsStable, queueVars,
                 interruptedObj, emergencyMergeStopFlag, munger, batch>>

\* doGithubE2EAndMerge returned true.
FinishE2E ==
  /\ e2e.pc = "finish"
  /\ githubE2ERunning' = None
  /\ deleteQueueItem(e2e.obj.pr)
  /\ e2e' = IdleE2E
  /\ UNCHANGED <<prVars, ciVars, branch, batches, jobsStable, disruptions,
                 interruptedObj, emergencyMergeStopFlag, mergeLock, munger, batch>>

----------------------------------------------------------------------------
(* batch: handleGithubE2EBatchMerge *)

batchIntersectsQueue(b) ==
  \E i \in DOMAIN b.pulls : b.pulls[i].pr \in DOMAIN githubE2EQueue

SamePull(c, pull) == c.pr = pull.pr /\ c.head = pull.head

\* Mutant: the commits since the base are counted, not compared.
matchesCount(b) == Len(branch) - b.base \in 0 .. Len(b.pulls)

\* matchesCommits: since the base of the batch the branch got nothing but a
\* prefix of the batch.
matchesCommits(b) ==
  LET matched == Len(branch) - b.base IN
  /\ matched \in 0 .. Len(b.pulls)
  /\ \A i \in 1 .. matched : SamePull(branch[b.base + i], b.pulls[i])

batchIsApplicable(b) == batchIntersectsQueue(b) /\ matchesCommits(b)

PollBatches(b) ==
  /\ batch.pc = "poll"
  /\ batchIsApplicable(b)
  /\ batch' = [batch EXCEPT !.pc = "lock", !.b = b]
  /\ UNCHANGED <<prVars, ciVars, branch, batches, jobsStable, disruptions, queueVars,
                 interruptedObj, emergencyMergeStopFlag, mergeLock, munger, e2e>>

\* Mutant: mergeLock is taken whoever holds it.
LockBatchAnyway ==
  /\ batch.pc = "lock"
  /\ mergeLock' = "batch"
  /\ batch' = [batch EXCEPT !.pc = "recheck"]
  /\ UNCHANGED <<prVars, ciVars, branch, batches, jobsStable, disruptions, queueVars,
                 interruptedObj, emergencyMergeStopFlag, munger, e2e>>

LockBatch ==
  /\ batch.pc = "lock" /\ mergeLock = "free"
  /\ mergeLock' = "batch"
  /\ batch' = [batch EXCEPT !.pc = "recheck"]
  /\ UNCHANGED <<prVars, ciVars, branch, batches, jobsStable, disruptions, queueVars,
                 interruptedObj, emergencyMergeStopFlag, munger, e2e>>

\* doBatchMerge, under mergeLock: still applicable, and the e2e jobs pass.
RecheckBatch ==
  /\ batch.pc = "recheck"
  /\ LET match == Len(branch) - batch.b.base IN
     IF batchIsApplicable(batch.b) /\ E2EStable
       THEN /\ batch' = [batch EXCEPT !.pc = "verify", !.match = match, !.next = match + 1]
            /\ UNCHANGED mergeLock
       ELSE /\ batch' = IdleBatch
            /\ mergeLock' = "free"
  /\ UNCHANGED <<prVars, ciVars, branch, batches, jobsStable, disruptions, queueVars,
                 interruptedObj, emergencyMergeStopFlag, munger, e2e>>

\* The preconditions of every unmerged pull request of the batch, one by one;
\* one that fails ends the attempt, and loses its place in the queue.
VerifyBatch ==
  /\ batch.pc = "verify"
  /\ IF batch.next > Len(batch.b.pulls)
       THEN /\ batch' = [batch EXCEPT !.pc = "merge", !.next = batch.match + 1]
            /\ UNCHANGED <<mergeLock, queueVars>>
       ELSE LET pull == batch.b.pulls[batch.next]
                o == GetObject(pull.pr)
                verdict == Verdict(o, FALSE)
            IN \/ /\ o.head # pull.head
                  /\ batch' = IdleBatch /\ mergeLock' = "free"
                  /\ UNCHANGED queueVars
               \/ /\ o.head = pull.head /\ verdict # "ok"
                  /\ batch' = IdleBatch /\ mergeLock' = "free"
                  /\ SetMergeStatus(pull.pr, verdict)
               \/ /\ o.head = pull.head /\ verdict = "ok"
                  /\ batch' = [batch EXCEPT !.next = @ + 1]
                  /\ UNCHANGED <<mergeLock, queueVars>>
  /\ UNCHANGED <<prVars, ciVars, branch, batches, jobsStable, disruptions,
                 interruptedObj, emergencyMergeStopFlag, munger, e2e>>

MergeBatch ==
  /\ batch.pc = "merge"
  /\ IF batch.next > Len(batch.b.pulls) \/ ~CanMerge(batch.b.pulls[batch.next].pr)
       THEN /\ batch' = IdleBatch /\ mergeLock' = "free"
            /\ UNCHANGED <<branch, queueVars>>
       ELSE LET p == batch.b.pulls[batch.next].pr IN
            /\ MergePR(p, "batch", batch.b.base, batch.b.pulls)
            /\ SetMergeStatus(p, "mergedBatch")
            /\ batch' = [batch EXCEPT !.next = @ + 1]
            /\ UNCHANGED mergeLock
  /\ UNCHANGED <<prVars, ciVars, batches, jobsStable, disruptions,
                 interruptedObj, emergencyMergeStopFlag, munger, e2e>>

\* A call to GitHub fails, or only the answer to a merge is lost.
BatchFails ==
  /\ Disturb("api")
  /\ batch.pc \in {"recheck", "verify", "merge"}
  /\ \/ UNCHANGED branch
     \/ /\ batch.pc = "merge" /\ batch.next <= Len(batch.b.pulls)
        /\ CanMerge(batch.b.pulls[batch.next].pr)
        /\ MergePR(batch.b.pulls[batch.next].pr, "batch", batch.b.base, batch.b.pulls)
  /\ batch' = IdleBatch /\ mergeLock' = "free"
  /\ UNCHANGED <<prVars, ciVars, batches, jobsStable, queueVars,
                 interruptedObj, emergencyMergeStopFlag, munger, e2e>>

----------------------------------------------------------------------------
(* People, GitHub, Jenkins and Prow *)

serverVars == <<queueVars, interruptedObj, mergeLock, munger, e2e, batch>>

\* A push brings new commits, which CI starts to test, and resolves conflicts.
Push(p) ==
  /\ Disturb("push")
  /\ ~Merged(p) /\ head[p] < MaxHead
  /\ head' = [head EXCEPT ![p] = @ + 1]
  /\ ci' = [ci EXCEPT ![p][head[p] + 1] = "pending"]
  /\ ciBase' = [ciBase EXCEPT ![p][head[p] + 1] = Len(branch)]
  /\ mergeable' = [mergeable EXCEPT ![p] = TRUE]
  /\ UNCHANGED <<labels, labelAt, retestWanted, branch, batches, jobsStable,
                 emergencyMergeStopFlag, serverVars>>

ToggleLabel(p, l) ==
  /\ Disturb("label")
  /\ ~Merged(p)
  /\ labels' = [labels EXCEPT ![p] = IF l \in @ THEN @ \ {l} ELSE @ \cup {l}]
  /\ labelAt' = IF l \in ApprovalLabels /\ l \notin labels[p]
                  THEN [labelAt EXCEPT ![p][l] = head[p]]
                  ELSE labelAt
  /\ UNCHANGED <<head, mergeable, ciVars, branch, batches, jobsStable,
                 emergencyMergeStopFlag, serverVars>>

Conflict(p) ==
  /\ Disturb("conflict")
  /\ ~Merged(p) /\ mergeable[p]
  /\ mergeable' = [mergeable EXCEPT ![p] = FALSE]
  /\ UNCHANGED <<head, labels, labelAt, ciVars, branch, batches, jobsStable,
                 emergencyMergeStopFlag, serverVars>>

\* Jenkins answers the comment: it tests the current head merged into the
\* current branch.
StartTests(p) ==
  /\ p \in retestWanted
  /\ retestWanted' = retestWanted \ {p}
  /\ ci' = [ci EXCEPT ![p][head[p]] = "pending"]
  /\ ciBase' = [ciBase EXCEPT ![p][head[p]] = Len(branch)]
  /\ UNCHANGED <<prVars, branch, batches, jobsStable, disruptions,
                 emergencyMergeStopFlag, serverVars>>

FinishTests(p, h) ==
  /\ ci[p][h] = "pending"
  /\ \/ /\ ci' = [ci EXCEPT ![p][h] = "success"]
        /\ UNCHANGED disruptions
     \/ /\ ci' = [ci EXCEPT ![p][h] = "failure"]
        /\ Disturb("ci")
  /\ UNCHANGED <<prVars, ciBase, retestWanted, branch, batches, jobsStable,
                 emergencyMergeStopFlag, serverVars>>

\* The blocking e2e jobs break or recover.
BreakJobs ==
  /\ Disturb("jobs")
  /\ jobsStable
  /\ jobsStable' = FALSE
  /\ UNCHANGED <<prVars, ciVars, branch, batches, emergencyMergeStopFlag, serverVars>>

RepairJobs ==
  /\ ~jobsStable
  /\ jobsStable' = TRUE
  /\ UNCHANGED <<prVars, ciVars, branch, batches, disruptions, emergencyMergeStopFlag,
                 serverVars>>

\* EmergencyStopHTTP
EmergencyStop ==
  /\ Disturb("stop")
  /\ ~emergencyMergeStopFlag
  /\ emergencyMergeStopFlag' = TRUE
  /\ UNCHANGED <<prVars, ciVars, branch, batches, jobsStable, serverVars>>

EmergencyResume ==
  /\ emergencyMergeStopFlag
  /\ emergencyMergeStopFlag' = FALSE
  /\ UNCHANGED <<prVars, ciVars, branch, batches, jobsStable, disruptions, serverVars>>

HandMerge(p) ==
  /\ Disturb("hand")
  /\ CanMerge(p)
  /\ MergePR(p, "hand", 0, <<>>)
  /\ UNCHANGED <<prVars, ciVars, batches, jobsStable, emergencyMergeStopFlag, serverVars>>

\* Prow tested unmerged pull requests together, on top of the branch as it was.
ReportBatch(prs) ==
  /\ Cardinality(batches) < MaxBatches
  /\ \A i, j \in DOMAIN prs : i # j => prs[i] # prs[j]
  /\ \A i \in DOMAIN prs : ~Merged(prs[i])
  /\ batches' = batches \cup
       {[base |-> Len(branch), pulls |-> [i \in DOMAIN prs |->
                                            [pr |-> prs[i], head |-> head[prs[i]]]]]}
  /\ UNCHANGED <<prVars, ciVars, branch, jobsStable, disruptions,
                 emergencyMergeStopFlag, serverVars>>

----------------------------------------------------------------------------

Munger ==
  \/ EachLoop \/ ForEachIssueDo \/ MungerApply
  \/ \E p \in PRs : Recheck(p) \/ RecheckFails(p) \/ Munge(p) \/ MungeFails(p)

E2E ==
  \/ PollQueue \/ selectPullRequest \/ StartE2E \/ E2EFails \/ ResumeFails
  \/ RequestRetest \/ WaitPoll \/ WaitForPending \/ WaitForNotPending \/ WaitTimeout
  \/ RefreshTested \/ LockE2E \/ CheckTested \/ MergeE2E \/ MergeE2EFails \/ FinishE2E

BatchMerge ==
  \/ \E b \in batches : PollBatches(b)
  \/ LockBatch \/ RecheckBatch \/ VerifyBatch \/ MergeBatch \/ BatchFails

Environment ==
  \/ \E p \in PRs : \/ Push(p) \/ Conflict(p) \/ StartTests(p) \/ HandMerge(p)
                    \/ \E l \in ToggledLabels : ToggleLabel(p, l)
                    \/ \E h \in Heads : FinishTests(p, h)
  \/ BreakJobs \/ RepairJobs \/ EmergencyStop \/ EmergencyResume
  \/ \E n \in 2 .. MaxBatchSize : \E prs \in [1 .. n -> PRs] : ReportBatch(prs)

Next == Munger \/ E2E \/ BatchMerge \/ Environment

Spec == Init /\ [][Next]_vars

----------------------------------------------------------------------------
(* Safety *)

\* The counters behind the "Added" and "Removed" statistics agree with the
\* queue: however the three goroutines add, drop and finish the same pull
\* request, what was added and not removed is what is queued.
QueueAccounting == queueBalance = Cardinality(DOMAIN githubE2EQueue)

\* githubE2ERunning protects a pull request from losing its place while its
\* tests are red: it is set only while the e2e goroutine really works on that
\* pull request, and only while that pull request is queued.
RunningIsUnderTest ==
  githubE2ERunning # None =>
    /\ e2e.pc \notin {"poll", "select"}
    /\ e2e.obj.pr = githubE2ERunning
    /\ githubE2ERunning \in DOMAIN githubE2EQueue

\* mergeLock is held exactly by a goroutine that is in its critical section.
LockIsHeldByOwner ==
  /\ mergeLock = "e2e" <=> e2e.pc \in {"check", "merge"}
  /\ mergeLock = "batch" <=> batch.pc \in {"recheck", "verify", "merge"}

\* A retested pull request is merged into exactly the branch it was retested
\* with: nothing reached the branch since its last test run started, whether
\* it was merged at once or after an interruption. (Nobody merges by hand, and
\* there are no batches.)
RetestOnTestedBase ==
  \A i \in DOMAIN branch : branch[i].how = "retest" => branch[i].base = i - 1

\* A batch commit completes a prefix of the batch on the base the batch was
\* tested on: the same pull requests with the same commits in the same order,
\* and nothing in between.
BatchOnTestedBase ==
  \A i \in DOMAIN branch :
    branch[i].how = "batch" =>
      LET k == i - branch[i].base IN
      /\ k \in 1 .. Len(branch[i].pulls)
      /\ \A j \in 1 .. k : SamePull(branch[branch[i].base + j], branch[i].pulls[j])

\* What the batch goroutine has verified and not merged yet was given its LGTM
\* for the commits that the batch tested, or later.
BatchIsReviewed ==
  batch.pc \in {"verify", "merge"} =>
    \A j \in DOMAIN batch.b.pulls :
      (IF batch.pc = "verify" THEN batch.match < j /\ j < batch.next ELSE batch.next <= j) =>
        labelAt[batch.b.pulls[j].pr]["lgtm"] >= batch.b.pulls[j].head

\* What the e2e goroutine is about to merge was given its LGTM for the commits
\* that its object knows of, or later: the object may have been read, queued,
\* refreshed and interrupted long ago, and people push and label meanwhile.
CommitsReadAreReviewed ==
  e2e.pc \in {"instant", "merge"} => labelAt[e2e.obj.pr]["lgtm"] >= e2e.obj.commits

----------------------------------------------------------------------------
(* What a comment of the code says, and the code does not do *)

\* "PR must have LGTM after the last commit": the e2e goroutine only merges
\* when the head it has seen itself is covered by the LGTM.
ReviewedAtMerge ==
  e2e.pc \in {"instant", "merge"} => labelAt[e2e.obj.pr]["lgtm"] >= e2e.obj.head

----------------------------------------------------------------------------
(* Liveness *)

\* Every goroutine keeps running, GitHub answers, and Jenkins runs the tests it
\* is asked for. A blocked Lock() is not overtaken for ever, and a test run
\* lasts longer than the 30 seconds between two polls: it cannot always slip
\* through between them.
Fairness ==
  /\ WF_vars(EachLoop \/ ForEachIssueDo \/ MungerApply
             \/ \E p \in PRs : Recheck(p) \/ Munge(p))
  /\ WF_vars(PollQueue \/ selectPullRequest \/ StartE2E \/ RequestRetest \/ WaitPoll
             \/ WaitForNotPending \/ RefreshTested \/ CheckTested \/ MergeE2E \/ FinishE2E)
  /\ WF_vars(WaitTimeout)
  /\ WF_vars(RecheckBatch \/ VerifyBatch \/ MergeBatch)
  /\ SF_vars(LockE2E) /\ SF_vars(LockBatch) /\ SF_vars(WaitForPending)
  /\ \A p \in PRs : WF_vars(StartTests(p)) /\ \A h \in Heads : WF_vars(FinishTests(p, h))

FairSpec == Spec /\ Fairness

\* Nothing but its tests stands between a pull request and the branch.
Eligible(p) ==
  /\ {"lgtm", "cla"} \cup (IF GateApproved THEN {"approved"} ELSE {}) \subseteq labels[p]
  /\ labels[p] \cap {"do-not-merge", "blocked-milestone"} = {}
  /\ \A l \in ApprovalLabels : labelAt[p][l] = -1 \/ labelAt[p][l] >= head[p]
  /\ mergeable[p]
  /\ ci[p][head[p]] \in {"pending", "success"}

\* A pull request that stays eligible while the e2e jobs stay healthy is merged.
EventuallyMerged ==
  \A p \in PRs : <>[](Eligible(p) /\ E2EStable) => <>Merged(p)

\* A merged pull request leaves the queue for good, even when nothing else is
\* tested or merged any more: a stale validation may bring it back only for a
\* while.
MergedLeavesQueue ==
  \A p \in PRs : Merged(p) ~> [](p \notin DOMAIN githubE2EQueue)

============================================================================
