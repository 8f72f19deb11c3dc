------------------------- MODULE SubmitQueueProofs -------------------------
(***************************************************************************)
(* Theorems about the submit queue, for any set of pull requests, labels   *)
(* and disturbances.                                                       *)
(***************************************************************************)
EXTENDS SubmitQueue, FiniteSetTheorems, SequenceTheorems, TLAPS

USE ConstantsAssumption DEF Heads

(***************************************************************************)
(* Types                                                                   *)
(***************************************************************************)

\* The queue is keyed by pull request number, and where the goroutines use
\* their locals, they hold objects.
LocalsOK ==
  /\ \A p \in DOMAIN githubE2EQueue : githubE2EQueue[p].pr = p
  /\ e2e.pc \notin {"poll", "select"} => e2e.obj \in MungeObject
  /\ batch.pc # "poll" => batch.b \in Batch
  /\ batch.pc \in {"verify", "merge"} => batch.next \in Nat \ {0}

TypeInv == TypeOK /\ LocalsOK

\* GitHub's answers are well formed.
LEMMA GetObjectType ==
  ASSUME TypeOK, NEW p \in PRs
  PROVE  GetObject(p) \in MungeObject
BY DEF TypeOK, GetObject, MungeObject, Merged

LEMMA RefreshType ==
  ASSUME TypeOK, NEW o \in MungeObject
  PROVE  /\ Refresh(o) \in MungeObject
         /\ Refresh(o).pr = o.pr
         /\ Refresh(o) = [GetObject(o.pr) EXCEPT !.commits = o.commits]
<1>1. o.pr \in PRs /\ o.commits \in Heads
  BY DEF MungeObject
<1>2. GetObject(o.pr) \in MungeObject /\ GetObject(o.pr).pr = o.pr
  BY <1>1, GetObjectType DEF GetObject
<1>3. QED
  BY <1>1, <1>2 DEF Refresh, MungeObject

LEMMA VerdictType ==
  ASSUME NEW o, NEW c
  PROVE  Verdict(o, c) \in Verdicts
BY DEF Verdict, Verdicts

\* The queue and its bookkeeping keep their types.
QueueOK ==
  /\ DOMAIN githubE2EQueue \in SUBSET PRs
  /\ githubE2EQueue \in [DOMAIN githubE2EQueue -> MungeObject]
  /\ githubE2ERunning \in PRs \cup {None}
  /\ queueBalance \in Int
  /\ \A p \in DOMAIN githubE2EQueue : githubE2EQueue[p].pr = p

LEMMA DeleteType ==
  ASSUME QueueOK, NEW p, deleteQueueItem(p), githubE2ERunning' \in PRs \cup {None}
  PROVE  QueueOK'
BY DEF QueueOK, deleteQueueItem

LEMMA SetMergeStatusType ==
  ASSUME QueueOK, NEW p, NEW reason, SetMergeStatus(p, reason)
  PROVE  QueueOK'
<1>1. CASE UNCHANGED queueVars
  BY <1>1 DEF QueueOK, queueVars
<1>2. CASE ~ UNCHANGED queueVars
  <2>1. deleteQueueItem(p) /\ githubE2ERunning' \in PRs \cup {None}
    BY <1>2 DEF SetMergeStatus, QueueOK
  <2>2. QED
    BY <2>1, DeleteType
<1>3. QED
  BY <1>1, <1>2

LEMMA AddType ==
  ASSUME QueueOK, NEW o \in MungeObject, addQueueItem(o)
  PROVE  QueueOK'
BY DEF QueueOK, addQueueItem, MungeObject

LEMMA MergePRType ==
  ASSUME TypeOK, NEW p \in PRs, NEW how \in {"hand", "instant", "retest", "batch"},
         NEW base \in Nat, NEW pulls \in Seq(Pull), MergePR(p, how, base, pulls)
  PROVE  branch' \in Seq(MergeCommit)
<1>1. [pr |-> p, head |-> head[p], how |-> how, base |-> base, pulls |-> pulls] \in MergeCommit
  BY DEF TypeOK, MergeCommit
<1>2. QED
  BY <1>1 DEF TypeOK, MergePR

\* The parts of the type invariant that an action leaves alone are named once.
GitHubOK ==
  /\ head \in [PRs -> Heads]
  /\ labels \in [PRs -> SUBSET Labels]
  /\ labelAt \in [PRs -> [ApprovalLabels -> Heads \cup {-1}]]
  /\ mergeable \in [PRs -> BOOLEAN]
  /\ ci \in [PRs -> [Heads -> CIStates]]
  /\ ciBase \in [PRs -> [Heads -> Nat]]
  /\ retestWanted \in SUBSET PRs
  /\ batches \in SUBSET Batch
  /\ jobsStable \in BOOLEAN
  /\ disruptions \in 0 .. MaxDisruptions

LockOK == mergeLock \in {"free", "e2e", "batch"} /\ emergencyMergeStopFlag \in BOOLEAN

BranchOK == branch \in Seq(MergeCommit)

InterruptedOK == interruptedObj \in Interrupted \cup {None}

MungerOK ==
  munger \in [phase : {"recheck", "munge"}, todo : SUBSET PRs,
              obj : MungeObject \cup {None}, verdict : Verdicts]

E2EOK ==
  /\ e2e \in [pc : E2ESteps, obj : MungeObject \cup {None}, sha : Heads]
  /\ e2e.pc \notin {"poll", "select"} => e2e.obj \in MungeObject

BatchOK ==
  /\ batch \in [pc : {"poll", "lock", "recheck", "verify", "merge"},
                b : Batch \cup {None}, match : Nat, next : Nat]
  /\ batch.pc # "poll" => batch.b \in Batch
  /\ batch.pc \in {"verify", "merge"} => batch.next \in Nat \ {0}

LEMMA TypeInvParts ==
  TypeInv <=> /\ GitHubOK /\ LockOK /\ BranchOK /\ InterruptedOK /\ QueueOK
              /\ MungerOK /\ E2EOK /\ BatchOK
BY DEF TypeInv, TypeOK, LocalsOK, GitHubOK, LockOK, BranchOK, InterruptedOK, QueueOK,
       MungerOK, E2EOK, BatchOK

LEMMA TypeInvPartsNext ==
  TypeInv' <=> /\ GitHubOK' /\ LockOK' /\ BranchOK' /\ InterruptedOK' /\ QueueOK'
               /\ MungerOK' /\ E2EOK' /\ BatchOK'
BY DEF TypeInv, TypeOK, LocalsOK, GitHubOK, LockOK, BranchOK, InterruptedOK, QueueOK,
       MungerOK, E2EOK, BatchOK

LEMMA GitHubFrame ==
  GitHubOK /\ UNCHANGED <<prVars, ciVars, batches, jobsStable>>
           /\ disruptions' \in 0 .. MaxDisruptions => GitHubOK'
BY DEF GitHubOK, prVars, ciVars

LEMMA LockFrame == LockOK /\ UNCHANGED <<mergeLock, emergencyMergeStopFlag>> => LockOK'
BY DEF LockOK

LEMMA BranchFrame == BranchOK /\ UNCHANGED branch => BranchOK'
BY DEF BranchOK

LEMMA InterruptedFrame == InterruptedOK /\ UNCHANGED interruptedObj => InterruptedOK'
BY DEF InterruptedOK

LEMMA QueueFrame == QueueOK /\ UNCHANGED queueVars => QueueOK'
BY DEF QueueOK, queueVars

LEMMA MungerFrame == MungerOK /\ UNCHANGED munger => MungerOK'
BY DEF MungerOK

LEMMA E2EFrame == E2EOK /\ UNCHANGED e2e => E2EOK'
BY DEF E2EOK

LEMMA BatchFrame == BatchOK /\ UNCHANGED batch => BatchOK'
BY DEF BatchOK

LEMMA DisruptionsType ==
  ASSUME GitHubOK, UNCHANGED disruptions \/ \E kind : Disturb(kind)
  PROVE  disruptions' \in 0 .. MaxDisruptions
BY DEF GitHubOK, Disturb

LEMMA IdleType ==
  /\ IdleE2E \in [pc : E2ESteps, obj : MungeObject \cup {None}, sha : Heads]
  /\ IdleE2E.pc = "poll"
  /\ IdleBatch \in [pc : {"poll", "lock", "recheck", "verify", "merge"},
                    b : Batch \cup {None}, match : Nat, next : Nat]
  /\ IdleBatch.pc = "poll"
<1>1. 0 \in Heads
  OBVIOUS
<1>2. QED
  BY <1>1 DEF IdleE2E, IdleBatch, E2ESteps

LEMMA TypeInvInit == Init => TypeInv
<1> SUFFICES ASSUME Init PROVE TypeInv
  OBVIOUS
<1>1. GitHubOK
  BY DEF Init, GitHubOK, ApprovalLabels, CIStates
<1>2. LockOK /\ BranchOK /\ InterruptedOK
  <2>1. mergeLock = "free" /\ emergencyMergeStopFlag = FALSE /\ branch = <<>> /\ interruptedObj = None
    BY DEF Init
  <2>2. LockOK
    BY <2>1 DEF LockOK
  <2>3. BranchOK
    BY <2>1 DEF BranchOK
  <2>4. InterruptedOK
    BY <2>1 DEF InterruptedOK
  <2>5. QED
    BY <2>2, <2>3, <2>4
<1>3. QueueOK
  BY DEF Init, QueueOK
<1>4. MungerOK
  <2>1. munger = [phase |-> "munge", todo |-> {}, obj |-> None, verdict |-> "ok"]
    BY DEF Init
  <2>2. "ok" \in Verdicts /\ {} \in SUBSET PRs
    BY DEF Verdicts
  <2>3. QED
    BY <2>1, <2>2 DEF MungerOK
<1>5. E2EOK /\ BatchOK
  BY IdleType DEF Init, E2EOK, BatchOK
<1>6. QED
  BY <1>1, <1>2, <1>3, <1>4, <1>5, TypeInvParts

LEMMA TypeInvMunger ==
  ASSUME TypeInv, Munger
  PROVE  TypeInv'
<1>0. /\ TypeOK /\ GitHubOK /\ LockOK /\ BranchOK /\ InterruptedOK /\ QueueOK
      /\ MungerOK /\ E2EOK /\ BatchOK
  BY TypeInvParts DEF TypeInv
<1>1. GitHubOK' /\ LockOK' /\ BranchOK' /\ InterruptedOK' /\ BatchOK'
  <2>1. /\ UNCHANGED <<prVars, ciVars, batches, jobsStable, mergeLock, branch,
                       emergencyMergeStopFlag, interruptedObj, batch>>
        /\ UNCHANGED disruptions \/ \E kind : Disturb(kind)
    BY DEF Munger, EachLoop, ForEachIssueDo, MungerApply, Recheck, RecheckFails, Munge, MungeFails
  <2>2. disruptions' \in 0 .. MaxDisruptions
    BY <1>0, <2>1, DisruptionsType
  <2>3. QED
    BY <1>0, <2>1, <2>2, GitHubFrame, LockFrame, BranchFrame, InterruptedFrame, BatchFrame
<1>2. QueueOK' /\ MungerOK' /\ E2EOK'
  <2>1. CASE EachLoop
    BY <1>0, <2>1, QueueFrame, E2EFrame DEF EachLoop, MungerOK, QueueOK
  <2>2. CASE ForEachIssueDo
    BY <1>0, <2>2, QueueFrame, E2EFrame DEF ForEachIssueDo, MungerOK
  <2>3. CASE MungerApply
    <3>1. QueueOK'
      <4>1. CASE SetMergeStatus(munger.obj.pr, munger.verdict)
        BY <1>0, <4>1, SetMergeStatusType
      <4>2. CASE UNCHANGED queueVars
        BY <1>0, <4>2, QueueFrame
      <4>3. CASE addQueueItem(munger.obj)
        <5>1. munger.obj \in MungeObject
          BY <1>0, <2>3 DEF MungerOK, MungerApply
        <5>2. QED
          BY <1>0, <4>3, <5>1, AddType
      <4>4. QED
        BY <2>3, <4>1, <4>2, <4>3 DEF MungerApply
    <3>2. MungerOK'
      BY <1>0, <2>3 DEF MungerApply, MungerOK, Verdicts
    <3>3. QED
      BY <1>0, <2>3, <3>1, <3>2, E2EFrame DEF MungerApply
  <2>4. ASSUME NEW p \in PRs, Recheck(p) PROVE QueueOK' /\ MungerOK' /\ E2EOK'
    <3>1. E2EOK'
      <4>1. CASE UNCHANGED e2e
        BY <1>0, <4>1, E2EFrame
      <4>2. CASE /\ e2e.pc \notin {"poll", "select"}
                 /\ e2e' = [e2e EXCEPT !.obj = Refresh(e2e.obj)]
        BY <1>0, <4>2, RefreshType DEF E2EOK
      <4>3. QED
        BY <2>4, <4>1, <4>2 DEF Recheck, RefreshShared
    <3>2. CASE p \in DOMAIN githubE2EQueue
      <4> DEFINE o == Refresh(githubE2EQueue[p])
      <4>1. o \in MungeObject /\ o.pr = p /\ Verdict(o, TRUE) \in Verdicts
        BY <1>0, <3>2, RefreshType, VerdictType DEF QueueOK
      <4>2. /\ munger' = [munger EXCEPT !.todo = @ \ {p}, !.obj = o, !.verdict = Verdict(o, TRUE)]
            /\ githubE2EQueue' = [githubE2EQueue EXCEPT ![p] = o]
            /\ UNCHANGED <<githubE2ERunning, queueBalance>>
        BY <2>4, <3>2 DEF Recheck
      <4> HIDE DEF o
      <4>3. MungerOK'
        BY <1>0, <4>1, <4>2 DEF MungerOK
      <4>4. QueueOK'
        BY <1>0, <3>2, <4>1, <4>2 DEF QueueOK
      <4>5. QED
        BY <3>1, <4>3, <4>4
    <3>3. CASE p \notin DOMAIN githubE2EQueue
      BY <1>0, <2>4, <3>1, <3>3 DEF Recheck, MungerOK, QueueOK
    <3>4. QED
      BY <3>2, <3>3
  <2>5. ASSUME NEW p \in PRs, RecheckFails(p) \/ Munge(p) \/ MungeFails(p)
        PROVE  QueueOK' /\ MungerOK' /\ E2EOK'
    <3>1. QueueOK' /\ E2EOK'
      BY <1>0, <2>5, QueueFrame, E2EFrame DEF RecheckFails, Munge, MungeFails
    <3>2. PICK o \in MungeObject, v \in Verdicts :
            munger' = [munger EXCEPT !.todo = @ \ {p}, !.obj = o, !.verdict = v]
      <4>1. CASE RecheckFails(p)
        <5>1. PICK v \in {Verdict(githubE2EQueue[p], TRUE), "refused"} :
                munger' = [munger EXCEPT !.todo = @ \ {p}, !.obj = githubE2EQueue[p], !.verdict = v]
          BY <4>1 DEF RecheckFails
        <5>2. githubE2EQueue[p] \in MungeObject
          BY <1>0, <4>1 DEF RecheckFails, QueueOK
        <5>3. v \in Verdicts
          BY VerdictType DEF Verdicts
        <5>4. QED
          BY <5>1, <5>2, <5>3
      <4>2. CASE Munge(p)
        BY <1>0, <4>2, GetObjectType, VerdictType DEF Munge
      <4>3. CASE MungeFails(p)
        BY <1>0, <4>3, GetObjectType DEF MungeFails, Verdicts
      <4>4. QED
        BY <2>5, <4>1, <4>2, <4>3
    <3>3. MungerOK'
      BY <1>0, <3>2 DEF MungerOK
    <3>4. QED
      BY <3>1, <3>3
  <2>6. QED
    BY <2>1, <2>2, <2>3, <2>4, <2>5 DEF Munger
<1>3. QED
  BY <1>1, <1>2, TypeInvPartsNext

LEMMA TypeInvE2E ==
  ASSUME TypeInv, E2E
  PROVE  TypeInv'
<1>0. /\ TypeOK /\ GitHubOK /\ LockOK /\ BranchOK /\ InterruptedOK /\ QueueOK
      /\ MungerOK /\ E2EOK /\ BatchOK
  BY TypeInvParts DEF TypeInv
<1>1. MungerOK' /\ BatchOK'
  <2>1. UNCHANGED <<munger, batch>>
    BY DEF E2E, PollQueue, selectPullRequest, StartE2E, E2EFails, ResumeFails, RequestRetest,
         WaitPoll, WaitForPending, WaitForNotPending, WaitTimeout, RefreshTested, LockE2E,
         CheckTested, MergeE2E, MergeE2EFails, FinishE2E
  <2>2. QED
    BY <1>0, <2>1, MungerFrame, BatchFrame
<1>2. LockOK'
  BY <1>0 DEF E2E, PollQueue, selectPullRequest, StartE2E, E2EFails, ResumeFails, RequestRetest,
       WaitPoll, WaitForPending, WaitForNotPending, WaitTimeout, RefreshTested, LockE2E,
       CheckTested, MergeE2E, MergeE2EFails, FinishE2E, LockOK
<1>3. GitHubOK'
  <2>1. /\ UNCHANGED <<prVars, ci, ciBase, batches, jobsStable>>
        /\ UNCHANGED disruptions \/ \E kind : Disturb(kind)
    BY DEF E2E, PollQueue, selectPullRequest, StartE2E, E2EFails, ResumeFails, RequestRetest,
         WaitPoll, WaitForPending, WaitForNotPending, WaitTimeout, RefreshTested, LockE2E,
         CheckTested, MergeE2E, MergeE2EFails, FinishE2E, ciVars
  <2>2. retestWanted' \in SUBSET PRs
    <3>1. CASE RequestRetest
      BY <1>0, <3>1 DEF RequestRetest, E2EOK, GitHubOK, MungeObject
    <3>2. CASE ~RequestRetest
      BY <1>0, <3>2 DEF E2E, PollQueue, selectPullRequest, StartE2E, E2EFails, ResumeFails,
           WaitPoll, WaitForPending, WaitForNotPending, WaitTimeout, RefreshTested, LockE2E,
           CheckTested, MergeE2E, MergeE2EFails, FinishE2E, ciVars, GitHubOK
    <3>3. QED
      BY <3>1, <3>2
  <2>3. disruptions' \in 0 .. MaxDisruptions
    BY <1>0, <2>1, DisruptionsType
  <2>4. QED
    BY <1>0, <2>1, <2>2, <2>3 DEF GitHubOK, prVars
<1>4. BranchOK'
  <2>1. CASE UNCHANGED branch
    BY <1>0, <2>1, BranchFrame
  <2>2. CASE ~ UNCHANGED branch
    <3>1. MergeE2E \/ MergeE2EFails
      BY <2>2 DEF E2E, PollQueue, selectPullRequest, StartE2E, E2EFails, ResumeFails,
           RequestRetest, WaitPoll, WaitForPending, WaitForNotPending, WaitTimeout,
           RefreshTested, LockE2E, CheckTested, FinishE2E
    <3>2. e2e.obj.pr \in PRs
      BY <1>0, <3>1 DEF MergeE2E, MergeE2EFails, E2EOK, MungeObject
    <3>3. \/ MergePR(e2e.obj.pr, "instant", 0, <<>>)
          \/ MergePR(e2e.obj.pr, "retest", ciBase[e2e.obj.pr][head[e2e.obj.pr]], <<>>)
      BY <2>2, <3>1 DEF MergeE2E, MergeE2EFails
    <3>4. ciBase[e2e.obj.pr][head[e2e.obj.pr]] \in Nat
      BY <1>0, <3>2 DEF GitHubOK
    <3>5. <<>> \in Seq(Pull)
      OBVIOUS
    <3>6. QED
      BY <1>0, <3>2, <3>3, <3>4, <3>5, MergePRType DEF BranchOK
  <2>3. QED
    BY <2>1, <2>2
<1>5. QueueOK'
  <2>1. CASE UNCHANGED queueVars
    BY <1>0, <2>1, QueueFrame
  <2>2. CASE \E p, reason : SetMergeStatus(p, reason)
    BY <1>0, <2>2, SetMergeStatusType
  <2>3. CASE selectPullRequest
    BY <1>0, <2>3 DEF selectPullRequest, QueueOK
  <2>4. CASE FinishE2E
    BY <1>0, <2>4, DeleteType DEF FinishE2E
  <2>5. QED
    BY <2>1, <2>2, <2>3, <2>4
       DEF E2E, PollQueue, StartE2E, E2EFails, ResumeFails, RequestRetest, WaitPoll,
         WaitForPending, WaitForNotPending, WaitTimeout, RefreshTested, LockE2E,
         CheckTested, MergeE2E, MergeE2EFails
<1>6. InterruptedOK'
  <2>1. CASE interruptedObj' \in {None, interruptedObj}
    BY <1>0, <2>1 DEF InterruptedOK
  <2>2. CASE /\ e2e.pc = "check"
             /\ interruptedObj' = [obj |-> e2e.obj, head |-> e2e.obj.head, base |-> Len(branch)]
    <3>1. e2e.obj \in MungeObject /\ e2e.obj.head \in Heads /\ Len(branch) \in Nat
      BY <1>0, <2>2 DEF E2EOK, MungeObject, BranchOK
    <3>2. QED
      BY <2>2, <3>1 DEF InterruptedOK, Interrupted
  <2>3. QED
    BY <2>1, <2>2
       DEF E2E, PollQueue, selectPullRequest, StartE2E, E2EFails, ResumeFails, RequestRetest,
         WaitPoll, WaitForPending, WaitForNotPending, WaitTimeout, RefreshTested, LockE2E,
         CheckTested, MergeE2E, MergeE2EFails, FinishE2E
<1>7. E2EOK'
  <2>1. CASE PollQueue
    BY <1>0, <2>1 DEF PollQueue, E2EOK, E2ESteps
  <2>2. CASE selectPullRequest
    <3>1. CASE e2e' = IdleE2E
      BY <3>1, IdleType DEF E2EOK
    <3>2. CASE e2e' # IdleE2E
      <4>1. PICK o \in MungeObject : e2e' = [e2e EXCEPT !.pc = "start", !.obj = o]
        BY <1>0, <2>2, <3>2 DEF selectPullRequest, InterruptedOK, Interrupted, QueueOK
      <4>2. QED
        BY <1>0, <4>1 DEF E2EOK, E2ESteps
    <3>3. QED
      BY <3>1, <3>2
  <2>3. CASE e2e.pc \notin {"poll", "select"}
    <3>1. e2e.obj \in MungeObject /\ Refresh(e2e.obj) \in MungeObject
      BY <1>0, <2>3, RefreshType DEF E2EOK
    <3>2. \/ e2e' = IdleE2E
          \/ \E pc \in E2ESteps \ {"poll", "select"}, o \in {e2e.obj, Refresh(e2e.obj)} :
               \/ e2e' = [e2e EXCEPT !.pc = pc]
               \/ e2e' = [e2e EXCEPT !.obj = o]
               \/ e2e' = [e2e EXCEPT !.pc = pc, !.obj = o]
               \/ e2e' = [pc |-> pc, obj |-> o, sha |-> o.head]
      BY <2>3 DEF E2E, PollQueue, selectPullRequest, StartE2E, E2EFails, ResumeFails,
           RequestRetest, WaitPoll, WaitForPending, WaitForNotPending, WaitTimeout,
           RefreshTested, LockE2E, CheckTested, MergeE2E, MergeE2EFails, FinishE2E, E2ESteps
    <3>3. CASE e2e' = IdleE2E
      BY <3>3, IdleType DEF E2EOK
    <3>4. ASSUME NEW pc \in E2ESteps \ {"poll", "select"}, NEW o \in MungeObject,
                 \/ e2e' = [e2e EXCEPT !.pc = pc]
                 \/ e2e' = [e2e EXCEPT !.obj = o]
                 \/ e2e' = [e2e EXCEPT !.pc = pc, !.obj = o]
                 \/ e2e' = [pc |-> pc, obj |-> o, sha |-> o.head]
          PROVE  E2EOK'
      <4>1. o.head \in Heads
        BY DEF MungeObject
      <4>2. CASE e2e' = [e2e EXCEPT !.pc = pc]
        BY <1>0, <3>1, <4>2 DEF E2EOK
      <4>3. CASE e2e' = [e2e EXCEPT !.obj = o]
        BY <1>0, <4>3 DEF E2EOK
      <4>4. CASE e2e' = [e2e EXCEPT !.pc = pc, !.obj = o]
        BY <1>0, <4>4 DEF E2EOK
      <4>5. CASE e2e' = [pc |-> pc, obj |-> o, sha |-> o.head]
        BY <4>1, <4>5 DEF E2EOK
      <4>6. QED
        BY <3>4, <4>2, <4>3, <4>4, <4>5
    <3>5. QED
      BY <3>1, <3>2, <3>3, <3>4
  <2>4. QED
    BY <2>1, <2>2, <2>3
       DEF E2E, StartE2E, E2EFails, ResumeFails, RequestRetest, WaitPoll, WaitForPending,
         WaitForNotPending, WaitTimeout, RefreshTested, LockE2E, CheckTested, MergeE2E,
         MergeE2EFails, FinishE2E
<1>8. QED
  BY <1>1, <1>2, <1>3, <1>4, <1>5, <1>6, <1>7, TypeInvPartsNext

LEMMA TypeInvBatch ==
  ASSUME TypeInv, BatchMerge
  PROVE  TypeInv'
<1>0. /\ TypeOK /\ GitHubOK /\ LockOK /\ BranchOK /\ InterruptedOK /\ QueueOK
      /\ MungerOK /\ E2EOK /\ BatchOK
  BY TypeInvParts DEF TypeInv
<1>1. MungerOK' /\ E2EOK' /\ InterruptedOK' /\ GitHubOK' /\ LockOK'
  <2>1. /\ UNCHANGED <<munger, e2e, interruptedObj, prVars, ciVars, batches, jobsStable,
                       emergencyMergeStopFlag>>
        /\ UNCHANGED disruptions \/ \E kind : Disturb(kind)
        /\ mergeLock' \in {mergeLock, "free", "batch"}
    BY DEF BatchMerge, PollBatches, LockBatch, RecheckBatch, VerifyBatch, MergeBatch, BatchFails
  <2>2. disruptions' \in 0 .. MaxDisruptions
    BY <1>0, <2>1, DisruptionsType
  <2>3. LockOK'
    BY <1>0, <2>1 DEF LockOK
  <2>4. QED
    BY <1>0, <2>1, <2>2, <2>3, MungerFrame, E2EFrame, InterruptedFrame, GitHubFrame
<1>2. QueueOK'
  <2>1. CASE UNCHANGED queueVars
    BY <1>0, <2>1, QueueFrame
  <2>2. CASE \E p, reason : SetMergeStatus(p, reason)
    BY <1>0, <2>2, SetMergeStatusType
  <2>3. QED
    BY <2>1, <2>2
       DEF BatchMerge, PollBatches, LockBatch, RecheckBatch, VerifyBatch, MergeBatch, BatchFails
<1>3. BranchOK'
  <2>1. CASE UNCHANGED branch
    BY <1>0, <2>1, BranchFrame
  <2>2. CASE ~ UNCHANGED branch
    <3>1. /\ batch.pc = "merge" /\ ~(batch.next > Len(batch.b.pulls))
          /\ MergePR(batch.b.pulls[batch.next].pr, "batch", batch.b.base, batch.b.pulls)
      <4>1. MergeBatch \/ BatchFails
        BY <2>2 DEF BatchMerge, PollBatches, LockBatch, RecheckBatch, VerifyBatch
      <4>2. CASE MergeBatch
        BY <2>2, <4>2 DEF MergeBatch
      <4>3. CASE BatchFails
        <5>1. batch.pc = "merge" /\ batch.next <= Len(batch.b.pulls)
          BY <2>2, <4>3 DEF BatchFails
        <5>2. Len(batch.b.pulls) \in Nat /\ batch.next \in Nat
          BY <1>0, <5>1 DEF BatchOK, Batch
        <5>3. QED
          BY <2>2, <4>3, <5>1, <5>2 DEF BatchFails
      <4>4. QED
        BY <4>1, <4>2, <4>3
    <3>2. /\ batch.b.base \in Nat /\ batch.b.pulls \in Seq(Pull)
          /\ batch.next \in 1 .. Len(batch.b.pulls)
      BY <1>0, <3>1 DEF BatchOK, Batch
    <3>3. batch.b.pulls[batch.next].pr \in PRs
      <4>1. batch.b.pulls[batch.next] \in Pull
        BY <3>2, ElementOfSeq
      <4>2. QED
        BY <4>1 DEF Pull
    <3>4. QED
      BY <1>0, <3>1, <3>2, <3>3, MergePRType DEF BranchOK
  <2>3. QED
    BY <2>1, <2>2
<1>4. BatchOK'
  <2>1. ASSUME NEW b \in batches, PollBatches(b) PROVE BatchOK'
    <3>1. b \in Batch
      BY <1>0 DEF GitHubOK
    <3>2. QED
      BY <1>0, <2>1, <3>1 DEF PollBatches, BatchOK
  <2>2. CASE LockBatch
    BY <1>0, <2>2 DEF LockBatch, BatchOK
  <2>3. CASE RecheckBatch
    <3>1. CASE batch' = IdleBatch
      BY <3>1, IdleType DEF BatchOK
    <3>2. CASE batch' # IdleBatch
      <4>1. Len(branch) - batch.b.base \in Nat
        BY <1>0, <2>3, <3>2
           DEF RecheckBatch, batchIsApplicable, matchesCommits, BatchOK, Batch, BranchOK
      <4> DEFINE match == Len(branch) - batch.b.base
      <4>2. /\ batch' = [batch EXCEPT !.pc = "verify", !.match = match, !.next = match + 1]
            /\ batch.pc = "recheck"
        BY <2>3, <3>2 DEF RecheckBatch
      <4>3. match + 1 \in Nat \ {0} /\ batch.b \in Batch
        BY <1>0, <4>1, <4>2 DEF BatchOK
      <4> HIDE DEF match
      <4>4. match \in Nat
        BY <4>1 DEF match
      <4>5. QED
        BY <1>0, <4>2, <4>3, <4>4 DEF BatchOK
    <3>3. QED
      BY <3>1, <3>2
  <2>4. CASE VerifyBatch
    <3>1. \/ batch' = IdleBatch
          \/ batch' = [batch EXCEPT !.pc = "merge", !.next = batch.match + 1]
          \/ batch' = [batch EXCEPT !.next = @ + 1]
      BY <2>4 DEF VerifyBatch
    <3>2. batch.pc = "verify"
      BY <2>4 DEF VerifyBatch
    <3>3. CASE batch' = IdleBatch
      BY <3>3, IdleType DEF BatchOK
    <3>4. CASE batch' = [batch EXCEPT !.pc = "merge", !.next = batch.match + 1]
      <4>1. batch.match + 1 \in Nat \ {0} /\ batch.b \in Batch
        BY <1>0, <3>2 DEF BatchOK
      <4>2. QED
        BY <1>0, <3>4, <4>1 DEF BatchOK
    <3>5. CASE batch' = [batch EXCEPT !.next = @ + 1]
      BY <1>0, <3>2, <3>5 DEF BatchOK
    <3>6. QED
      BY <3>1, <3>3, <3>4, <3>5
  <2>5. CASE MergeBatch
    <3>1. CASE batch' = IdleBatch
      BY <3>1, IdleType DEF BatchOK
    <3>2. CASE batch' = [batch EXCEPT !.next = @ + 1]
      <4>1. batch.pc = "merge"
        BY <2>5 DEF MergeBatch
      <4>2. batch.next + 1 \in Nat \ {0} /\ batch.b \in Batch
        BY <1>0, <4>1 DEF BatchOK
      <4>3. QED
        BY <1>0, <3>2, <4>1, <4>2 DEF BatchOK
    <3>3. QED
      BY <2>5, <3>1, <3>2 DEF MergeBatch
  <2>6. CASE BatchFails
    BY <2>6, IdleType DEF BatchFails, BatchOK
  <2>7. QED
    BY <2>1, <2>2, <2>3, <2>4, <2>5, <2>6 DEF BatchMerge
<1>5. QED
  BY <1>1, <1>2, <1>3, <1>4, TypeInvPartsNext

LEMMA TypeInvEnvironment ==
  ASSUME TypeInv, Environment
  PROVE  TypeInv'
<1>0. /\ TypeOK /\ GitHubOK /\ LockOK /\ BranchOK /\ InterruptedOK /\ QueueOK
      /\ MungerOK /\ E2EOK /\ BatchOK
  BY TypeInvParts DEF TypeInv
<1>1. /\ UNCHANGED <<queueVars, interruptedObj, mergeLock, munger, e2e, batch>>
      /\ UNCHANGED disruptions \/ \E kind : Disturb(kind)
      /\ emergencyMergeStopFlag' \in {emergencyMergeStopFlag, TRUE, FALSE}
      /\ jobsStable' \in {jobsStable, TRUE, FALSE}
  BY DEF Environment, Push, ToggleLabel, Conflict, StartTests, FinishTests, BreakJobs,
       RepairJobs, EmergencyStop, EmergencyResume, HandMerge, ReportBatch, serverVars
<1>2. InterruptedOK' /\ QueueOK' /\ MungerOK' /\ E2EOK' /\ BatchOK' /\ LockOK'
  BY <1>0, <1>1, QueueFrame, InterruptedFrame, MungerFrame, E2EFrame, BatchFrame DEF LockOK
<1>3. disruptions' \in 0 .. MaxDisruptions
  BY <1>0, <1>1, DisruptionsType
<1>4. jobsStable' \in BOOLEAN
  BY <1>0, <1>1 DEF GitHubOK
<1>5. GitHubOK' /\ BranchOK'
  <2>1. ASSUME NEW p \in PRs, Push(p) PROVE GitHubOK' /\ BranchOK'
    <3>1. head[p] + 1 \in Heads /\ Len(branch) \in Nat
      BY <1>0, <2>1 DEF Push, GitHubOK, BranchOK
    <3>2. head' \in [PRs -> Heads] /\ mergeable' \in [PRs -> BOOLEAN]
      BY <1>0, <2>1, <3>1 DEF Push, GitHubOK
    <3>3. ci' \in [PRs -> [Heads -> CIStates]]
      BY <1>0, <2>1, <3>1 DEF Push, GitHubOK, CIStates
    <3>4. ciBase' \in [PRs -> [Heads -> Nat]]
      BY <1>0, <2>1, <3>1 DEF Push, GitHubOK
    <3>5. QED
      BY <1>0, <1>3, <2>1, <3>2, <3>3, <3>4, BranchFrame DEF Push, GitHubOK
  <2>2. ASSUME NEW p \in PRs, NEW l \in ToggledLabels, ToggleLabel(p, l)
        PROVE  GitHubOK' /\ BranchOK'
    <3>1. l \in Labels
      OBVIOUS
    <3>2. labels' \in [PRs -> SUBSET Labels]
      BY <1>0, <2>2, <3>1 DEF ToggleLabel, GitHubOK
    <3>3. labelAt' \in [PRs -> [ApprovalLabels -> Heads \cup {-1}]]
      BY <1>0, <2>2 DEF ToggleLabel, GitHubOK
    <3>4. QED
      BY <1>0, <1>3, <2>2, <3>2, <3>3, BranchFrame DEF ToggleLabel, GitHubOK, ciVars
  <2>3. ASSUME NEW p \in PRs, Conflict(p) PROVE GitHubOK' /\ BranchOK'
    <3>1. mergeable' \in [PRs -> BOOLEAN]
      BY <1>0, <2>3 DEF Conflict, GitHubOK
    <3>2. QED
      BY <1>0, <1>3, <2>3, <3>1, BranchFrame DEF Conflict, GitHubOK, ciVars
  <2>4. ASSUME NEW p \in PRs, StartTests(p) PROVE GitHubOK' /\ BranchOK'
    <3>1. head[p] \in Heads /\ Len(branch) \in Nat
      BY <1>0 DEF GitHubOK, BranchOK
    <3>2. ci' \in [PRs -> [Heads -> CIStates]]
      BY <1>0, <2>4, <3>1 DEF StartTests, GitHubOK, CIStates
    <3>3. ciBase' \in [PRs -> [Heads -> Nat]]
      BY <1>0, <2>4, <3>1 DEF StartTests, GitHubOK
    <3>4. QED
      BY <1>0, <1>3, <2>4, <3>2, <3>3, BranchFrame DEF StartTests, GitHubOK, prVars
  <2>5. ASSUME NEW p \in PRs, NEW h \in Heads, FinishTests(p, h) PROVE GitHubOK' /\ BranchOK'
    <3>1. ci' \in [PRs -> [Heads -> CIStates]]
      <4>1. PICK status \in CIStates : ci' = [ci EXCEPT ![p][h] = status]
        BY <2>5 DEF FinishTests, CIStates
      <4>2. QED
        BY <1>0, <4>1 DEF GitHubOK
    <3>2. QED
      BY <1>0, <1>3, <2>5, <3>1, BranchFrame DEF FinishTests, GitHubOK, prVars
  <2>6. CASE BreakJobs \/ RepairJobs \/ EmergencyStop \/ EmergencyResume
    BY <1>0, <1>3, <1>4, <2>6, BranchFrame
       DEF BreakJobs, RepairJobs, EmergencyStop, EmergencyResume, GitHubOK, prVars, ciVars
  <2>7. ASSUME NEW p \in PRs, HandMerge(p) PROVE GitHubOK' /\ BranchOK'
    <3>1. <<>> \in Seq(Pull)
      OBVIOUS
    <3>2. BranchOK'
      BY <1>0, <2>7, <3>1, MergePRType DEF HandMerge, BranchOK
    <3>3. QED
      BY <1>0, <1>3, <2>7, <3>2, GitHubFrame DEF HandMerge
  <2>8. ASSUME NEW n \in 2 .. MaxBatchSize, NEW prs \in [1 .. n -> PRs], ReportBatch(prs)
        PROVE  GitHubOK' /\ BranchOK'
    <3> DEFINE pulls == [i \in DOMAIN prs |-> [pr |-> prs[i], head |-> head[prs[i]]]]
    <3>1. pulls \in [1 .. n -> Pull]
      BY <1>0 DEF GitHubOK, Pull
    <3>2. pulls \in Seq(Pull)
      BY <3>1
    <3>3. [base |-> Len(branch), pulls |-> pulls] \in Batch
      BY <1>0, <3>2 DEF Batch, BranchOK
    <3>4. batches' \in SUBSET Batch
      BY <1>0, <2>8, <3>3 DEF ReportBatch, GitHubOK
    <3>5. QED
      BY <1>0, <1>3, <2>8, <3>4, BranchFrame DEF ReportBatch, GitHubOK, prVars, ciVars
  <2>9. QED
    BY <2>1, <2>2, <2>3, <2>4, <2>5, <2>6, <2>7, <2>8 DEF Environment
<1>6. QED
  BY <1>2, <1>5, TypeInvPartsNext

LEMMA TypeInvStutter ==
  ASSUME TypeInv, UNCHANGED vars
  PROVE  TypeInv'
<1>1. /\ UNCHANGED <<prVars, ciVars, batches, jobsStable>> /\ disruptions' = disruptions
      /\ UNCHANGED <<mergeLock, emergencyMergeStopFlag>>
      /\ UNCHANGED branch /\ UNCHANGED interruptedObj /\ UNCHANGED queueVars
      /\ UNCHANGED munger /\ UNCHANGED e2e /\ UNCHANGED batch
  BY DEF vars
<1>2. GitHubOK'
  BY <1>1, TypeInvParts, GitHubFrame DEF GitHubOK
<1>3. LockOK' /\ BranchOK' /\ InterruptedOK' /\ QueueOK'
  BY <1>1, TypeInvParts, LockFrame, BranchFrame, InterruptedFrame, QueueFrame
<1>4. MungerOK' /\ E2EOK' /\ BatchOK'
  BY <1>1, TypeInvParts, MungerFrame, E2EFrame, BatchFrame
<1>5. QED
  BY <1>2, <1>3, <1>4, TypeInvPartsNext

LEMMA TypeInvNext == TypeInv /\ [Next]_vars => TypeInv'
BY TypeInvMunger, TypeInvE2E, TypeInvBatch, TypeInvEnvironment, TypeInvStutter DEF Next

LEMMA TypeInvAlways == Spec => []TypeInv
BY TypeInvInit, TypeInvNext, PTL DEF Spec

\* Types are respected by every goroutine and by everything around them.
THEOREM Typing == Spec => []TypeOK
<1>1. TypeInv => TypeOK
  BY DEF TypeInv
<1>2. QED
  BY <1>1, TypeInvAlways, PTL

(***************************************************************************)
(* The counters prsAdded and prsRemoved                                    *)
(***************************************************************************)

\* Every step leaves the set of queued pull requests alone, or takes one away,
\* or adds one.
LEMMA QueueSteps ==
  ASSUME TypeInv, [Next]_vars
  PROVE  \/ DOMAIN githubE2EQueue' = DOMAIN githubE2EQueue /\ queueBalance' = queueBalance
         \/ \E p : deleteQueueItem(p)
         \/ \E o : addQueueItem(o)
<1> DEFINE Same == DOMAIN githubE2EQueue' = DOMAIN githubE2EQueue /\ queueBalance' = queueBalance
           Goal == Same \/ (\E p : deleteQueueItem(p)) \/ (\E o : addQueueItem(o))
<1>1. UNCHANGED queueVars => Goal
  BY DEF queueVars
<1>2. ASSUME NEW p, NEW reason, SetMergeStatus(p, reason) PROVE Goal
  BY <1>1, <1>2 DEF SetMergeStatus
<1>3. CASE Munger
  <2>1. ASSUME NEW p \in PRs, Recheck(p) PROVE Goal
    BY <2>1 DEF Recheck
  <2>2. CASE ~ \E p \in PRs : Recheck(p)
    BY <1>1, <1>2, <1>3, <2>2
       DEF Munger, EachLoop, ForEachIssueDo, MungerApply, RecheckFails, Munge, MungeFails
  <2>3. QED
    BY <2>1, <2>2
<1>4. CASE E2E
  <2>1. CASE selectPullRequest
    BY <2>1 DEF selectPullRequest
  <2>2. CASE FinishE2E
    BY <2>2 DEF FinishE2E
  <2>3. QED
    BY <1>1, <1>2, <1>4, <2>1, <2>2
       DEF E2E, PollQueue, StartE2E, E2EFails, ResumeFails, RequestRetest, WaitPoll,
         WaitForPending, WaitForNotPending, WaitTimeout, RefreshTested, LockE2E,
         CheckTested, MergeE2E, MergeE2EFails
<1>5. CASE BatchMerge
  BY <1>1, <1>2, <1>5
     DEF BatchMerge, PollBatches, LockBatch, RecheckBatch, VerifyBatch, MergeBatch, BatchFails
<1>6. CASE Environment
  BY <1>1, <1>6
     DEF Environment, Push, ToggleLabel, Conflict, StartTests, FinishTests, BreakJobs,
       RepairJobs, EmergencyStop, EmergencyResume, HandMerge, ReportBatch, serverVars
<1>7. CASE UNCHANGED vars
  BY <1>1, <1>7 DEF vars
<1>8. QED
  BY <1>3, <1>4, <1>5, <1>6, <1>7 DEF Next

AccountingInv == IsFiniteSet(DOMAIN githubE2EQueue) /\ QueueAccounting

\* However the goroutines add, drop and finish pull requests, "Added" minus
\* "Removed" is the length of the queue.
THEOREM Accounting == Spec => []QueueAccounting
<1>1. Init => AccountingInv
  <2> SUFFICES ASSUME Init PROVE AccountingInv
    OBVIOUS
  <2>1. DOMAIN githubE2EQueue = {} /\ queueBalance = 0
    BY DEF Init
  <2>2. QED
    BY <2>1, FS_EmptySet DEF AccountingInv, QueueAccounting
<1>2. ASSUME TypeInv, AccountingInv, [Next]_vars PROVE AccountingInv'
  <2>1. IsFiniteSet(DOMAIN githubE2EQueue) /\ queueBalance = Cardinality(DOMAIN githubE2EQueue)
    BY <1>2 DEF AccountingInv, QueueAccounting
  <2>2. CASE DOMAIN githubE2EQueue' = DOMAIN githubE2EQueue /\ queueBalance' = queueBalance
    BY <2>1, <2>2 DEF AccountingInv, QueueAccounting
  <2>3. ASSUME NEW p, deleteQueueItem(p) PROVE AccountingInv'
    <3>1. DOMAIN githubE2EQueue' = DOMAIN githubE2EQueue \ {p}
      BY <2>3 DEF deleteQueueItem
    <3>2. /\ IsFiniteSet(DOMAIN githubE2EQueue \ {p})
          /\ Cardinality(DOMAIN githubE2EQueue \ {p}) =
               IF p \in DOMAIN githubE2EQueue THEN Cardinality(DOMAIN githubE2EQueue) - 1
                                              ELSE Cardinality(DOMAIN githubE2EQueue)
      BY <2>1, FS_RemoveElement
    <3>3. QED
      BY <2>1, <2>3, <3>1, <3>2 DEF deleteQueueItem, AccountingInv, QueueAccounting
  <2>4. ASSUME NEW o, addQueueItem(o) PROVE AccountingInv'
    <3>1. DOMAIN githubE2EQueue' = DOMAIN githubE2EQueue \cup {o.pr}
      BY <2>4 DEF addQueueItem
    <3>2. /\ IsFiniteSet(DOMAIN githubE2EQueue \cup {o.pr})
          /\ Cardinality(DOMAIN githubE2EQueue \cup {o.pr}) =
               IF o.pr \in DOMAIN githubE2EQueue THEN Cardinality(DOMAIN githubE2EQueue)
                                                 ELSE Cardinality(DOMAIN githubE2EQueue) + 1
      BY <2>1, FS_AddElement
    <3>3. QED
      BY <2>1, <2>4, <3>1, <3>2 DEF addQueueItem, AccountingInv, QueueAccounting
  <2>5. QED
    BY <1>2, <2>2, <2>3, <2>4, QueueSteps
<1>3. AccountingInv => QueueAccounting
  BY DEF AccountingInv
<1>4. QED
  BY <1>1, <1>2, <1>3, TypeInvAlways, PTL DEF Spec

(***************************************************************************)
(* githubE2ERunning                                                        *)
(***************************************************************************)

\* Only between CheckTested and FinishE2E is there an interrupted pull request
\* while one is shown as running.
InterruptedIsNotRunning ==
  interruptedObj # None /\ e2e.pc # "finish" => githubE2ERunning = None

RunningInv == RunningIsUnderTest /\ InterruptedIsNotRunning

\* What SetMergeStatus does to a pull request that is running: it clears the
\* mark or leaves the pull request queued.
LEMMA SetMergeStatusRunning ==
  ASSUME NEW p, NEW reason, SetMergeStatus(p, reason), githubE2ERunning' # None,
         githubE2ERunning # None => githubE2ERunning \in DOMAIN githubE2EQueue
  PROVE  /\ githubE2ERunning' = githubE2ERunning
         /\ githubE2ERunning \in DOMAIN githubE2EQueue'
         /\ reason \notin KeepReasons \cup {"ciFailure"} => githubE2ERunning # p
BY DEF SetMergeStatus, deleteQueueItem, queueVars

\* A step that keeps the e2e goroutine on the same pull request.
LEMMA RunningKept ==
  ASSUME RunningInv,
         githubE2ERunning' # None => /\ githubE2ERunning' = githubE2ERunning
                                     /\ githubE2ERunning \in DOMAIN githubE2EQueue',
         e2e.pc \notin {"poll", "select"} => /\ e2e'.pc \notin {"poll", "select"}
                                             /\ e2e'.obj.pr = e2e.obj.pr,
         e2e'.pc # "finish" => (interruptedObj' \in {None, interruptedObj} /\ e2e.pc # "finish")
  PROVE  RunningInv'
BY DEF RunningInv, RunningIsUnderTest, InterruptedIsNotRunning

LEMMA RunningNext ==
  ASSUME TypeInv, RunningInv, [Next]_vars
  PROVE  RunningInv'
<1>0. E2EOK /\ QueueOK /\ TypeOK
  BY TypeInvParts DEF TypeInv
<1>1. githubE2ERunning # None => githubE2ERunning \in DOMAIN githubE2EQueue
  BY DEF RunningInv, RunningIsUnderTest
<1> DEFINE Kept == githubE2ERunning' # None => /\ githubE2ERunning' = githubE2ERunning
                                               /\ githubE2ERunning \in DOMAIN githubE2EQueue'
           SameE2E == UNCHANGED <<e2e, interruptedObj>>
<1>2. UNCHANGED queueVars => Kept
  BY <1>1 DEF queueVars
<1>3. ASSUME NEW p, NEW reason, SetMergeStatus(p, reason) PROVE Kept
  BY <1>1, <1>3, SetMergeStatusRunning
<1>4. Kept /\ SameE2E => RunningInv'
  BY DEF RunningInv, RunningIsUnderTest, InterruptedIsNotRunning
<1>5. CASE Munger
  <2>1. ASSUME NEW p \in PRs, Recheck(p) PROVE RunningInv'
    <3>1. Kept
      BY <1>1, <2>1 DEF Recheck
    <3>2. e2e'.pc = e2e.pc /\ (e2e.pc \notin {"poll", "select"} => e2e'.obj.pr = e2e.obj.pr)
      <4>1. CASE UNCHANGED e2e
        BY <4>1
      <4>2. CASE /\ e2e.pc \notin {"poll", "select"}
                 /\ e2e' = [e2e EXCEPT !.obj = Refresh(e2e.obj)]
        BY <1>0, <4>2, RefreshType DEF E2EOK
      <4>3. QED
        BY <2>1, <4>1, <4>2 DEF Recheck, RefreshShared
    <3>3. QED
      BY <2>1, <3>1, <3>2 DEF Recheck, RunningInv, RunningIsUnderTest, InterruptedIsNotRunning
  <2>2. CASE ~ \E p \in PRs : Recheck(p)
    <3>1. SameE2E
      BY <1>5, <2>2
         DEF Munger, EachLoop, ForEachIssueDo, MungerApply, RecheckFails, Munge, MungeFails
    <3>2. ASSUME NEW o, addQueueItem(o) PROVE Kept
      BY <1>1, <3>2 DEF addQueueItem
    <3>3. Kept
      BY <1>2, <1>3, <1>5, <2>2, <3>2
         DEF Munger, EachLoop, ForEachIssueDo, MungerApply, RecheckFails, Munge, MungeFails
    <3>4. QED
      BY <1>4, <3>1, <3>3
  <2>3. QED
    BY <2>1, <2>2
<1>6. CASE E2E
  <2>1. CASE PollQueue
    <3>1. githubE2ERunning' = None
      BY <2>1 DEF PollQueue, queueVars, RunningInv, RunningIsUnderTest
    <3>2. QED
      BY <3>1 DEF RunningInv, RunningIsUnderTest, InterruptedIsNotRunning
  <2>2. CASE selectPullRequest
    <3>1. githubE2ERunning = None
      BY <2>2 DEF selectPullRequest, RunningInv, RunningIsUnderTest
    <3>2. CASE UNCHANGED githubE2ERunning
      BY <3>1, <3>2 DEF RunningInv, RunningIsUnderTest, InterruptedIsNotRunning
    <3>3. CASE githubE2ERunning' # githubE2ERunning
      <4>1. PICK p \in DOMAIN githubE2EQueue :
              /\ interruptedObj = None /\ githubE2ERunning' = p
              /\ e2e' = [e2e EXCEPT !.pc = "start", !.obj = githubE2EQueue[p]]
        BY <2>2, <3>3 DEF selectPullRequest
      <4>2. githubE2EQueue[p].pr = p
        BY <1>0 DEF QueueOK
      <4>3. QED
        BY <1>0, <2>2, <4>1, <4>2
           DEF selectPullRequest, RunningInv, RunningIsUnderTest, InterruptedIsNotRunning, E2EOK
    <3>4. QED
      BY <3>2, <3>3
  <2>3. CASE e2e.pc \notin {"poll", "select", "finish"} /\ e2e' # IdleE2E
    <3>1. Kept
      BY <1>2, <1>3, <1>6, <2>3
         DEF E2E, PollQueue, selectPullRequest, StartE2E, E2EFails, ResumeFails, RequestRetest,
           WaitPoll, WaitForPending, WaitForNotPending, WaitTimeout, RefreshTested, LockE2E,
           CheckTested, MergeE2E, MergeE2EFails, FinishE2E
    <3>2. e2e.obj \in MungeObject /\ Refresh(e2e.obj).pr = e2e.obj.pr
      BY <1>0, <2>3, RefreshType DEF E2EOK
    <3>3. \E pc \in E2ESteps \ {"poll", "select"}, o \in {e2e.obj, Refresh(e2e.obj)} :
               \/ e2e' = [e2e EXCEPT !.pc = pc]
               \/ e2e' = [e2e EXCEPT !.obj = o]
               \/ e2e' = [e2e EXCEPT !.pc = pc, !.obj = o]
               \/ e2e' = [pc |-> pc, obj |-> o, sha |-> o.head]
      BY <1>6, <2>3 DEF E2E, PollQueue, selectPullRequest, StartE2E, E2EFails, ResumeFails,
           RequestRetest, WaitPoll, WaitForPending, WaitForNotPending, WaitTimeout,
           RefreshTested, LockE2E, CheckTested, MergeE2E, MergeE2EFails, FinishE2E, E2ESteps
    <3>4. e2e'.pc \notin {"poll", "select"} /\ e2e'.obj.pr = e2e.obj.pr
      <4>1. PICK pc \in E2ESteps \ {"poll", "select"}, o \in {e2e.obj, Refresh(e2e.obj)} :
               \/ e2e' = [e2e EXCEPT !.pc = pc]
               \/ e2e' = [e2e EXCEPT !.obj = o]
               \/ e2e' = [e2e EXCEPT !.pc = pc, !.obj = o]
               \/ e2e' = [pc |-> pc, obj |-> o, sha |-> o.head]
        BY <3>3
      <4>2. o.pr = e2e.obj.pr
        BY <3>2
      <4>3. e2e'.pc \in {pc, e2e.pc} /\ e2e'.obj \in {o, e2e.obj}
        <5>1. CASE e2e' = [e2e EXCEPT !.pc = pc]
          BY <1>0, <5>1 DEF E2EOK
        <5>2. CASE e2e' = [e2e EXCEPT !.obj = o]
          BY <1>0, <5>2 DEF E2EOK
        <5>3. CASE e2e' = [e2e EXCEPT !.pc = pc, !.obj = o]
          BY <1>0, <5>3 DEF E2EOK
        <5>4. CASE e2e' = [pc |-> pc, obj |-> o, sha |-> o.head]
          BY <5>4
        <5>5. QED
          BY <4>1, <5>1, <5>2, <5>3, <5>4
      <4>4. QED
        BY <2>3, <4>2, <4>3
    <3>5. e2e'.pc # "finish" => interruptedObj' \in {None, interruptedObj}
      <4>1. CASE CheckTested
        BY <1>0, <4>1 DEF CheckTested, E2EOK
      <4>2. CASE ~CheckTested
        BY <1>6, <2>3, <4>2 DEF E2E, PollQueue, selectPullRequest, StartE2E, E2EFails,
             ResumeFails, RequestRetest, WaitPoll, WaitForPending, WaitForNotPending,
             WaitTimeout, RefreshTested, LockE2E, MergeE2E, MergeE2EFails, FinishE2E
      <4>3. QED
        BY <4>1, <4>2
    <3>6. QED
      BY <2>3, <3>1, <3>4, <3>5, RunningKept
  <2>4. CASE e2e.pc \notin {"poll", "select", "finish"} /\ e2e' = IdleE2E
    <3>1. \/ e2e.pc = "start" /\ interruptedObj # None /\ UNCHANGED queueVars /\ interruptedObj' = None
          \/ e2e.pc = "check" /\ SetMergeStatus(e2e.obj.pr, "headCommitChanged") /\ UNCHANGED interruptedObj
      <4>1. CASE StartE2E
        <5> DEFINE o == Refresh(e2e.obj)
        <5>1. \/ e2e' = [e2e EXCEPT !.pc = "finish", !.obj = o]
              \/ e2e' = [e2e EXCEPT !.pc = "instant", !.obj = o]
              \/ e2e' = [pc |-> "retest", obj |-> o, sha |-> o.head]
              \/ interruptedObj # None /\ UNCHANGED queueVars
          BY <4>1 DEF StartE2E
        <5> HIDE DEF o
        <5>2. e2e'.pc = "poll"
          BY <2>4, IdleType
        <5>3. interruptedObj # None /\ UNCHANGED queueVars
          <6>1. e2e' # [e2e EXCEPT !.pc = "finish", !.obj = o]
            BY <1>0, <5>2 DEF E2EOK
          <6>2. e2e' # [e2e EXCEPT !.pc = "instant", !.obj = o]
            BY <1>0, <5>2 DEF E2EOK
          <6>3. e2e' # [pc |-> "retest", obj |-> o, sha |-> o.head]
            BY <5>2
          <6>4. QED
            BY <5>1, <6>1, <6>2, <6>3
        <5>4. QED
          BY <4>1, <5>3 DEF StartE2E
      <4>2. CASE ResumeFails
        BY <4>2 DEF ResumeFails
      <4>3. CASE CheckTested
        BY <1>0, <2>4, <4>3, IdleType DEF CheckTested, E2EOK
      <4>4. CASE ~(StartE2E \/ ResumeFails \/ CheckTested)
        BY <1>0, <1>6, <2>4, <4>4, IdleType, ZenonT(60)
           DEF E2E, PollQueue, selectPullRequest, E2EFails, RequestRetest, WaitPoll,
             WaitForPending, WaitForNotPending, WaitTimeout, RefreshTested, LockE2E,
             MergeE2E, MergeE2EFails, FinishE2E, E2EOK
      <4>5. QED
        BY <4>1, <4>2, <4>3, <4>4
    <3>2. githubE2ERunning' = None
      <4>1. CASE e2e.pc = "start" /\ interruptedObj # None /\ UNCHANGED queueVars
        BY <4>1 DEF RunningInv, InterruptedIsNotRunning, queueVars
      <4>2. CASE e2e.pc = "check" /\ SetMergeStatus(e2e.obj.pr, "headCommitChanged")
        BY <1>1, <4>2, SetMergeStatusRunning
           DEF RunningInv, RunningIsUnderTest, KeepReasons
      <4>3. QED
        BY <3>1, <4>1, <4>2
    <3>3. QED
      BY <3>2 DEF RunningInv, RunningIsUnderTest, InterruptedIsNotRunning
  <2>5. CASE e2e.pc = "finish"
    <3>1. FinishE2E
      BY <1>6, <2>5 DEF E2E, PollQueue, selectPullRequest, StartE2E, E2EFails, ResumeFails,
           RequestRetest, WaitPoll, WaitForPending, WaitForNotPending, WaitTimeout,
           RefreshTested, LockE2E, CheckTested, MergeE2E, MergeE2EFails
    <3>2. githubE2ERunning' = None
      BY <3>1 DEF FinishE2E
    <3>3. QED
      BY <3>2 DEF RunningInv, RunningIsUnderTest, InterruptedIsNotRunning
  <2>6. QED
    BY <1>6, <2>1, <2>2, <2>3, <2>4, <2>5
       DEF E2E, StartE2E, E2EFails, ResumeFails, RequestRetest, WaitPoll, WaitForPending,
         WaitForNotPending, WaitTimeout, RefreshTested, LockE2E, CheckTested, MergeE2E,
         MergeE2EFails, FinishE2E
<1>7. CASE BatchMerge
  <2>1. SameE2E
    BY <1>7
       DEF BatchMerge, PollBatches, LockBatch, RecheckBatch, VerifyBatch, MergeBatch, BatchFails
  <2>2. Kept
    BY <1>2, <1>3, <1>7
       DEF BatchMerge, PollBatches, LockBatch, RecheckBatch, VerifyBatch, MergeBatch, BatchFails
  <2>3. QED
    BY <1>4, <2>1, <2>2
<1>8. CASE Environment \/ UNCHANGED vars
  <2>1. SameE2E /\ UNCHANGED queueVars
    BY <1>8
       DEF Environment, Push, ToggleLabel, Conflict, StartTests, FinishTests, BreakJobs,
         RepairJobs, EmergencyStop, EmergencyResume, HandMerge, ReportBatch, serverVars, vars
  <2>2. QED
    BY <1>2, <1>4, <2>1
<1>9. QED
  BY <1>5, <1>6, <1>7, <1>8 DEF Next

\* A pull request that is shown as running, and so keeps its place although its
\* tests are red, is one the e2e goroutine is working on.
THEOREM Running == Spec => []RunningIsUnderTest
<1>1. Init => RunningInv
  BY DEF Init, RunningInv, RunningIsUnderTest, InterruptedIsNotRunning
<1>2. RunningInv => RunningIsUnderTest
  BY DEF RunningInv
<1>3. QED
  BY <1>1, <1>2, RunningNext, TypeInvAlways, PTL DEF Spec

============================================================================
