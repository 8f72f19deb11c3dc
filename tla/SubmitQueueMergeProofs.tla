----------------------- MODULE SubmitQueueMergeProofs -----------------------
(***************************************************************************)
(* Theorems about what the submit queue merges: the lock that keeps its    *)
(* two goroutines apart, what the batch goroutine merges, and what the e2e *)
(* goroutine merges after a retest.                                        *)
(***************************************************************************)
EXTENDS SubmitQueueProofs

USE ConstantsAssumption DEF Heads

(***************************************************************************)
(* mergeLock                                                               *)
(***************************************************************************)

E2ECritical == {"check", "merge"}
BatchCritical == {"recheck", "verify", "merge"}

\* What every step does to the lock and to the two program counters.
LEMMA LockSteps ==
  ASSUME TypeInv, [Next]_vars
  PROVE  \/ /\ UNCHANGED mergeLock
            /\ e2e'.pc \in E2ECritical <=> e2e.pc \in E2ECritical
            /\ batch'.pc \in BatchCritical <=> batch.pc \in BatchCritical
         \/ /\ mergeLock = "free" /\ mergeLock' = "e2e" /\ UNCHANGED batch
            /\ e2e'.pc \in E2ECritical
         \/ /\ mergeLock = "free" /\ mergeLock' = "batch" /\ UNCHANGED e2e
            /\ batch'.pc \in BatchCritical
         \/ /\ e2e.pc \in E2ECritical /\ mergeLock' = "free" /\ UNCHANGED batch
            /\ e2e'.pc \notin E2ECritical
         \/ /\ batch.pc \in BatchCritical /\ mergeLock' = "free" /\ UNCHANGED e2e
            /\ batch'.pc \notin BatchCritical
<1> USE DEF E2ECritical, BatchCritical
<1>0. E2EOK /\ BatchOK
  BY TypeInvParts
<1>1. CASE Munger
  <2>1. UNCHANGED <<mergeLock, batch>> /\ e2e'.pc = e2e.pc
    <3>1. ASSUME NEW p \in PRs, Recheck(p) PROVE e2e'.pc = e2e.pc
      BY <1>0, <3>1 DEF Recheck, RefreshShared, E2EOK
    <3>2. QED
      BY <1>1, <3>1
         DEF Munger, EachLoop, ForEachIssueDo, MungerApply, Recheck, RecheckFails, Munge, MungeFails
  <2>2. QED
    BY <2>1
<1>2. CASE E2E
  <2>0. UNCHANGED batch
    BY <1>2 DEF E2E, PollQueue, selectPullRequest, StartE2E, E2EFails, ResumeFails, RequestRetest,
         WaitPoll, WaitForPending, WaitForNotPending, WaitTimeout, RefreshTested, LockE2E,
         CheckTested, MergeE2E, MergeE2EFails, FinishE2E
  <2>1. CASE LockE2E
    BY <1>0, <2>0, <2>1 DEF LockE2E, E2EOK
  <2>2. CASE CheckTested
    <3>1. \/ e2e' = [e2e EXCEPT !.pc = "finish"] /\ mergeLock' = "free"
          \/ e2e' = IdleE2E /\ mergeLock' = "free"
          \/ e2e' = [e2e EXCEPT !.pc = "merge"] /\ UNCHANGED mergeLock
      BY <2>2 DEF CheckTested
    <3>2. \/ e2e'.pc \in {"finish", "poll"} /\ mergeLock' = "free"
          \/ e2e'.pc = "merge" /\ UNCHANGED mergeLock
      BY <1>0, <3>1, IdleType DEF E2EOK
    <3>3. QED
      BY <2>0, <2>2, <3>2 DEF CheckTested
  <2>3. CASE E2EFails \/ MergeE2E \/ MergeE2EFails
    <3>1. e2e'.pc = "finish"
      BY <1>0, <2>3 DEF E2EFails, MergeE2E, MergeE2EFails, E2EOK
    <3>2. /\ e2e.pc \in {"check", "merge"} => mergeLock' = "free"
          /\ e2e.pc \notin {"check", "merge"} => UNCHANGED mergeLock
      BY <2>3 DEF E2EFails, MergeE2E, MergeE2EFails
    <3>3. QED
      BY <2>0, <3>1, <3>2
  <2>4. CASE StartE2E
    <3> DEFINE o == Refresh(e2e.obj)
    <3>1. \/ e2e' = [e2e EXCEPT !.pc = "finish", !.obj = o]
          \/ e2e' = [e2e EXCEPT !.pc = "instant", !.obj = o]
          \/ e2e' = [pc |-> "retest", obj |-> o, sha |-> o.head]
          \/ e2e' = [pc |-> "lock", obj |-> o, sha |-> o.head]
          \/ e2e' = IdleE2E
      BY <2>4 DEF StartE2E
    <3> HIDE DEF o
    <3>2. e2e'.pc \in {"finish", "instant", "retest", "lock", "poll"}
      <4>1. CASE e2e' = [e2e EXCEPT !.pc = "finish", !.obj = o]
        BY <1>0, <4>1 DEF E2EOK
      <4>2. CASE e2e' = [e2e EXCEPT !.pc = "instant", !.obj = o]
        BY <1>0, <4>2 DEF E2EOK
      <4>3. CASE e2e' = [pc |-> "retest", obj |-> o, sha |-> o.head]
        BY <4>3
      <4>4. CASE e2e' = [pc |-> "lock", obj |-> o, sha |-> o.head]
        BY <4>4
      <4>5. QED
        BY <3>1, <4>1, <4>2, <4>3, <4>4, IdleType
    <3>3. QED
      BY <2>0, <2>4, <3>2 DEF StartE2E
  <2>5. CASE selectPullRequest
    <3>1. e2e'.pc \in {"start", "poll"}
      BY <1>0, <2>5, IdleType DEF selectPullRequest, E2EOK
    <3>2. QED
      BY <2>0, <2>5, <3>1 DEF selectPullRequest
  <2>6. CASE WaitPoll
    <3>1. e2e'.pc \in {e2e.pc, "finish"}
      BY <1>0, <2>6 DEF WaitPoll, E2EOK
    <3>2. QED
      BY <2>0, <2>6, <3>1 DEF WaitPoll
  <2>7. CASE \/ PollQueue \/ ResumeFails \/ RequestRetest \/ WaitForPending
             \/ WaitForNotPending \/ WaitTimeout \/ RefreshTested \/ FinishE2E
    <3>1. /\ e2e.pc \notin E2ECritical /\ UNCHANGED mergeLock
          /\ \/ e2e' = IdleE2E
             \/ \E pc \in {"select", "waitPending", "refresh", "waitNotPending", "finish"} :
                  e2e' = [e2e EXCEPT !.pc = pc]
             \/ \E o : e2e' = [e2e EXCEPT !.pc = "lock", !.obj = o]
      BY <2>7 DEF PollQueue, ResumeFails, RequestRetest, WaitForPending, WaitForNotPending,
           WaitTimeout, RefreshTested, FinishE2E
    <3>2. e2e'.pc \notin E2ECritical
      BY <1>0, <3>1, IdleType DEF E2EOK
    <3>3. QED
      BY <2>0, <3>1, <3>2
  <2>8. QED
    BY <1>2, <2>1, <2>2, <2>3, <2>4, <2>5, <2>6, <2>7 DEF E2E
<1>3. CASE BatchMerge
  <2>0. UNCHANGED e2e
    BY <1>3
       DEF BatchMerge, PollBatches, LockBatch, RecheckBatch, VerifyBatch, MergeBatch, BatchFails
  <2>1. ASSUME NEW b \in batches, PollBatches(b)
        PROVE  batch.pc = "poll" /\ batch'.pc = "lock" /\ UNCHANGED mergeLock
    BY <1>0, <2>1 DEF PollBatches, BatchOK
  <2>2. CASE LockBatch
    BY <1>0, <2>0, <2>2 DEF LockBatch, BatchOK
  <2>3. CASE RecheckBatch \/ VerifyBatch \/ MergeBatch \/ BatchFails
    <3>1. /\ batch.pc \in BatchCritical
          /\ \/ batch' = IdleBatch /\ mergeLock' = "free"
             \/ /\ UNCHANGED mergeLock
                /\ \/ \E match, next : batch' = [batch EXCEPT !.pc = "verify", !.match = match,
                                                              !.next = next]
                   \/ \E next : batch' = [batch EXCEPT !.pc = "merge", !.next = next]
                   \/ batch' = [batch EXCEPT !.next = @ + 1]
      BY <2>3 DEF RecheckBatch, VerifyBatch, MergeBatch, BatchFails
    <3>2. \/ batch'.pc = "poll" /\ mergeLock' = "free"
          \/ batch'.pc \in BatchCritical /\ UNCHANGED mergeLock
      BY <1>0, <3>1, IdleType DEF BatchOK
    <3>3. QED
      BY <2>0, <3>1, <3>2
  <2>4. QED
    BY <1>3, <2>0, <2>1, <2>2, <2>3 DEF BatchMerge
<1>4. CASE Environment \/ UNCHANGED vars
  BY <1>4
     DEF Environment, Push, ToggleLabel, Conflict, StartTests, FinishTests, BreakJobs,
       RepairJobs, EmergencyStop, EmergencyResume, HandMerge, ReportBatch, serverVars, vars
<1>5. QED
  BY <1>1, <1>2, <1>3, <1>4 DEF Next

LEMMA LockNext ==
  ASSUME TypeInv, LockIsHeldByOwner, [Next]_vars
  PROVE  LockIsHeldByOwner'
BY LockSteps DEF LockIsHeldByOwner, E2ECritical, BatchCritical

LEMMA LockInit == Init => LockIsHeldByOwner
BY DEF Init, LockIsHeldByOwner, IdleE2E, IdleBatch

\* mergeLock is held exactly by a goroutine in its critical section: it is
\* released on every way out, and the two never merge at the same time.
THEOREM MergeLock == Spec => []LockIsHeldByOwner
BY LockInit, LockNext, TypeInvAlways, PTL DEF Spec

(***************************************************************************)
(* What a batch merges has been reviewed                                   *)
(***************************************************************************)

\* GitHub's label events: a label that is there was added at some time, and no
\* label was added to commits of the future.
LabelsAreDated ==
  \A p \in PRs : \A l \in ApprovalLabels :
    /\ l \in labels[p] => labelAt[p][l] >= 0
    /\ labelAt[p][l] <= head[p]

LEMMA LabelsNext ==
  ASSUME TypeInv, LabelsAreDated, [Next]_vars
  PROVE  /\ LabelsAreDated'
         /\ \A p \in PRs : \A l \in ApprovalLabels : labelAt'[p][l] >= labelAt[p][l]
<1> DEFINE Goal == /\ LabelsAreDated'
                   /\ \A p \in PRs : \A l \in ApprovalLabels : labelAt'[p][l] >= labelAt[p][l]
<1>0. GitHubOK
  BY TypeInvParts
<1>1. \A p \in PRs : /\ head[p] \in Nat
                     /\ \A l \in ApprovalLabels : labelAt[p][l] \in Int
  BY <1>0 DEF GitHubOK
<1>2. CASE UNCHANGED <<head, labels, labelAt>>
  BY <1>1, <1>2 DEF LabelsAreDated
<1>3. ASSUME NEW p \in PRs, Push(p) PROVE Goal
  <2>1. \A q \in PRs : head'[q] >= head[q] /\ head'[q] \in Nat
    <3>1. head' = [head EXCEPT ![p] = @ + 1] /\ DOMAIN head = PRs
      BY <1>0, <1>3 DEF Push, GitHubOK
    <3>2. QED
      BY <1>1, <3>1
  <2>2. QED
    BY <1>1, <1>3, <2>1 DEF Push, LabelsAreDated
<1>4. ASSUME NEW p \in PRs, NEW l \in ToggledLabels, ToggleLabel(p, l) PROVE Goal
  <2>1. UNCHANGED head
    BY <1>4 DEF ToggleLabel
  <2>2. CASE l \in ApprovalLabels /\ l \notin labels[p]
    <3>1. /\ labelAt' = [labelAt EXCEPT ![p][l] = head[p]]
          /\ labels' = [labels EXCEPT ![p] = labels[p] \cup {l}]
      BY <1>4, <2>2 DEF ToggleLabel
    <3>2. \A q \in PRs : \A m \in ApprovalLabels :
            /\ labelAt'[q][m] = IF q = p /\ m = l THEN head[p] ELSE labelAt[q][m]
            /\ m \in labels'[q] => m \in labels[q] \/ (q = p /\ m = l)
      BY <1>0, <2>2, <3>1 DEF GitHubOK
    <3>3. QED
      BY <1>1, <2>1, <3>2 DEF LabelsAreDated
  <2>3. CASE ~(l \in ApprovalLabels /\ l \notin labels[p])
    <3>1. /\ labelAt' = labelAt
          /\ \A q \in PRs : \A m \in ApprovalLabels : m \in labels'[q] => m \in labels[q]
      BY <1>0, <1>4, <2>3 DEF ToggleLabel, GitHubOK
    <3>2. QED
      BY <1>1, <2>1, <3>1 DEF LabelsAreDated
  <2>4. QED
    BY <2>2, <2>3
<1>5. QED
  BY <1>2, <1>3, <1>4
     DEF Next, vars, prVars, ciVars, Munger, EachLoop, ForEachIssueDo, MungerApply, Recheck,
       RecheckFails, Munge, MungeFails, E2E, PollQueue, selectPullRequest, StartE2E, E2EFails,
       ResumeFails, RequestRetest, WaitPoll, WaitForPending, WaitForNotPending, WaitTimeout,
       RefreshTested, LockE2E, CheckTested, MergeE2E, MergeE2EFails, FinishE2E, BatchMerge,
       PollBatches, LockBatch, RecheckBatch, VerifyBatch, MergeBatch, BatchFails, Environment,
       Conflict, StartTests, FinishTests, BreakJobs, RepairJobs, EmergencyStop,
       EmergencyResume, HandMerge, ReportBatch

\* A pull request that passes the check as it is now carries an LGTM for its
\* present head.
LEMMA ValidIsReviewed ==
  ASSUME TypeInv, LabelsAreDated, NEW p \in PRs, Verdict(GetObject(p), FALSE) = "ok"
  PROVE  labelAt[p]["lgtm"] >= head[p]
<1>0. GitHubOK
  BY TypeInvParts
<1> DEFINE o == GetObject(p)
<1>1. o.pr = p /\ o.labels = labels[p] /\ o.commits = head[p]
  BY DEF GetObject
<1> HIDE DEF o
<1>2. "lgtm" \in o.labels /\ ~ChangedSinceApproval(o)
  BY DEF Verdict, o
<1>3. labelAt[p]["lgtm"] >= 0 /\ labelAt[p]["lgtm"] \in Int /\ head[p] \in Int
  BY <1>0, <1>1, <1>2 DEF LabelsAreDated, ApprovalLabels, GitHubOK
<1>4. QED
  BY <1>1, <1>2, <1>3 DEF ChangedSinceApproval, ApprovalLabels

\* The batch goroutine's locals after each of its steps.
LEMMA BatchSteps ==
  ASSUME TypeInv, [Next]_vars
  PROVE  \/ UNCHANGED batch
         \/ batch'.pc \in {"poll", "lock", "recheck"}
         \/ /\ batch.pc = "recheck" /\ batch'.pc = "verify"
            /\ batch'.b = batch.b /\ batch'.next = batch'.match + 1
            /\ batch'.match = Len(branch) - batch.b.base
            /\ matchesCommits(batch.b)
            /\ UNCHANGED <<branch, head>>
         \/ /\ batch.pc = "verify" /\ batch'.pc = "verify"
            /\ batch'.b = batch.b /\ batch'.match = batch.match
            /\ batch'.next = batch.next + 1
            /\ batch.next \in 1 .. Len(batch.b.pulls)
            /\ head[batch.b.pulls[batch.next].pr] = batch.b.pulls[batch.next].head
            /\ Verdict(GetObject(batch.b.pulls[batch.next].pr), FALSE) = "ok"
            /\ UNCHANGED <<branch, head>>
         \/ /\ batch.pc = "verify" /\ batch'.pc = "merge"
            /\ batch'.b = batch.b /\ batch'.match = batch.match
            /\ batch'.next = batch.match + 1
            /\ batch.next > Len(batch.b.pulls)
            /\ UNCHANGED <<branch, head>>
         \/ /\ batch.pc = "merge" /\ batch'.pc = "merge"
            /\ batch'.b = batch.b /\ batch'.match = batch.match
            /\ batch'.next = batch.next + 1
            /\ batch.next \in 1 .. Len(batch.b.pulls)
            /\ MergePR(batch.b.pulls[batch.next].pr, "batch", batch.b.base, batch.b.pulls)
            /\ UNCHANGED head
<1>0. BatchOK /\ BranchOK
  BY TypeInvParts
<1>1. CASE ~BatchMerge
  <2>1. UNCHANGED batch
    BY <1>1, ZenonT(60)
       DEF Next, vars, Munger, EachLoop, ForEachIssueDo, MungerApply, Recheck,
         RecheckFails, Munge, MungeFails, E2E, PollQueue, selectPullRequest, StartE2E, E2EFails,
         ResumeFails, RequestRetest, WaitPoll, WaitForPending, WaitForNotPending, WaitTimeout,
         RefreshTested, LockE2E, CheckTested, MergeE2E, MergeE2EFails, FinishE2E, Environment,
         Push, ToggleLabel, Conflict, StartTests, FinishTests, BreakJobs, RepairJobs,
         EmergencyStop, EmergencyResume, HandMerge, ReportBatch, serverVars
  <2>2. QED
    BY <2>1
<1>2. ASSUME NEW b \in batches, PollBatches(b) PROVE batch'.pc = "lock"
  BY <1>0, <1>2 DEF PollBatches, BatchOK
<1>3. CASE LockBatch
  BY <1>0, <1>3 DEF LockBatch, BatchOK
<1>4. CASE batch' = IdleBatch
  BY <1>4, IdleType
<1>5. CASE RecheckBatch /\ batch' # IdleBatch
  <2> DEFINE match == Len(branch) - batch.b.base
  <2>1. /\ batch.pc = "recheck" /\ matchesCommits(batch.b) /\ UNCHANGED <<branch, head>>
        /\ batch' = [batch EXCEPT !.pc = "verify", !.match = match, !.next = match + 1]
    BY <1>5 DEF RecheckBatch, batchIsApplicable, prVars
  <2> HIDE DEF match
  <2>2. batch'.pc = "verify" /\ batch'.b = batch.b /\ batch'.next = match + 1 /\ batch'.match = match
    BY <1>0, <2>1 DEF BatchOK
  <2>3. QED
    BY <2>1, <2>2 DEF match
<1>6. CASE VerifyBatch /\ batch' # IdleBatch
  <2>1. batch.pc = "verify" /\ UNCHANGED <<branch, head>>
    BY <1>6 DEF VerifyBatch, prVars
  <2>2. Len(batch.b.pulls) \in Nat /\ batch.next \in Nat \ {0} /\ batch.match \in Nat
    BY <1>0, <2>1 DEF BatchOK, Batch
  <2>3. CASE batch.next > Len(batch.b.pulls)
    <3>1. batch' = [batch EXCEPT !.pc = "merge", !.next = batch.match + 1]
      BY <1>6, <2>3 DEF VerifyBatch
    <3>2. batch'.pc = "merge" /\ batch'.b = batch.b /\ batch'.next = batch.match + 1
          /\ batch'.match = batch.match
      BY <1>0, <3>1 DEF BatchOK
    <3>3. QED
      BY <2>1, <2>3, <3>2, Zenon
  <2>4. CASE ~(batch.next > Len(batch.b.pulls))
    <3>1. /\ batch' = [batch EXCEPT !.next = @ + 1]
          /\ GetObject(batch.b.pulls[batch.next].pr).head = batch.b.pulls[batch.next].head
          /\ Verdict(GetObject(batch.b.pulls[batch.next].pr), FALSE) = "ok"
      BY <1>6, <2>4 DEF VerifyBatch
    <3>2. head[batch.b.pulls[batch.next].pr] = batch.b.pulls[batch.next].head
      BY <3>1 DEF GetObject
    <3>3. batch'.pc = "verify" /\ batch'.b = batch.b /\ batch'.next = batch.next + 1
          /\ batch'.match = batch.match
      BY <1>0, <2>1, <3>1 DEF BatchOK
    <3>4. batch.next \in 1 .. Len(batch.b.pulls)
      BY <2>2, <2>4
    <3>5. QED
      BY <2>1, <3>1, <3>2, <3>3, <3>4, Zenon
  <2>5. QED
    BY <2>3, <2>4
<1>7. CASE MergeBatch /\ batch' # IdleBatch
  <2>1. /\ batch.pc = "merge" /\ UNCHANGED head
        /\ ~(batch.next > Len(batch.b.pulls))
        /\ batch' = [batch EXCEPT !.next = @ + 1]
        /\ MergePR(batch.b.pulls[batch.next].pr, "batch", batch.b.base, batch.b.pulls)
    BY <1>7 DEF MergeBatch, prVars
  <2>2. Len(batch.b.pulls) \in Nat /\ batch.next \in Nat \ {0}
    BY <1>0, <2>1 DEF BatchOK, Batch
  <2>3. batch'.pc = "merge" /\ batch'.b = batch.b /\ batch'.next = batch.next + 1
        /\ batch'.match = batch.match
    BY <1>0, <2>1 DEF BatchOK
  <2>4. QED
    BY <2>1, <2>2, <2>3
<1>8. CASE BatchFails
  BY <1>4, <1>8 DEF BatchFails
<1>9. QED
  BY <1>1, <1>2, <1>3, <1>4, <1>5, <1>6, <1>7, <1>8 DEF BatchMerge

ReviewInv == LabelsAreDated /\ BatchIsReviewed

LEMMA ReviewNext ==
  ASSUME TypeInv, ReviewInv, [Next]_vars
  PROVE  ReviewInv'
<1>0. GitHubOK /\ BatchOK /\ BatchOK' /\ GitHubOK'
  BY TypeInvParts, TypeInvPartsNext, TypeInvNext
<1>1. /\ LabelsAreDated'
      /\ \A p \in PRs : \A l \in ApprovalLabels : labelAt'[p][l] >= labelAt[p][l]
  BY LabelsNext DEF ReviewInv
<1>2. ASSUME batch.pc # "poll"
      PROVE  /\ Len(batch.b.pulls) \in Nat /\ DOMAIN batch.b.pulls = 1 .. Len(batch.b.pulls)
             /\ \A j \in DOMAIN batch.b.pulls :
                  /\ batch.b.pulls[j].pr \in PRs /\ batch.b.pulls[j].head \in Nat
                  /\ labelAt[batch.b.pulls[j].pr]["lgtm"] \in Int
                  /\ labelAt'[batch.b.pulls[j].pr]["lgtm"] \in Int
                  /\ labelAt'[batch.b.pulls[j].pr]["lgtm"] >= labelAt[batch.b.pulls[j].pr]["lgtm"]
  <2>1. batch.b.pulls \in Seq(Pull)
    BY <1>0, <1>2 DEF BatchOK, Batch
  <2>2. \A j \in DOMAIN batch.b.pulls : batch.b.pulls[j] \in Pull
    BY <2>1
  <2>3. \A p \in PRs : labelAt[p]["lgtm"] \in Int /\ labelAt'[p]["lgtm"] \in Int
                       /\ labelAt'[p]["lgtm"] >= labelAt[p]["lgtm"]
    BY <1>0, <1>1 DEF GitHubOK, ApprovalLabels
  <2>4. Len(batch.b.pulls) \in Nat /\ DOMAIN batch.b.pulls = 1 .. Len(batch.b.pulls)
    BY <2>1
  <2>5. \A j \in DOMAIN batch.b.pulls :
          batch.b.pulls[j].pr \in PRs /\ batch.b.pulls[j].head \in Nat
    BY <2>2 DEF Pull
  <2>6. QED
    BY <2>3, <2>4, <2>5, Zenon
<1>2a. ASSUME batch.pc # "poll" PROVE DOMAIN batch.b.pulls \subseteq Int
  BY <1>2, <1>2a
<1> DEFINE Reviewed(j) == labelAt[batch.b.pulls[j].pr]["lgtm"] >= batch.b.pulls[j].head
           ReviewedNext(j) == labelAt'[batch.b.pulls[j].pr]["lgtm"] >= batch.b.pulls[j].head
<1>3. ASSUME batch.pc # "poll", NEW j \in DOMAIN batch.b.pulls, Reviewed(j)
      PROVE  ReviewedNext(j)
  <2>1. /\ batch.b.pulls[j].head \in Nat
        /\ labelAt[batch.b.pulls[j].pr]["lgtm"] \in Int
        /\ labelAt'[batch.b.pulls[j].pr]["lgtm"] \in Int
        /\ labelAt'[batch.b.pulls[j].pr]["lgtm"] >= labelAt[batch.b.pulls[j].pr]["lgtm"]
    BY <1>2, <1>3, Zenon
  <2>2. QED
    BY <1>3, <2>1
<1>4. BatchIsReviewed'
  <2>1. CASE UNCHANGED batch
    BY <1>3, <2>1 DEF ReviewInv, BatchIsReviewed
  <2>2. CASE batch'.pc \in {"poll", "lock", "recheck"}
    BY <2>2 DEF BatchIsReviewed
  <2>3. CASE batch.pc = "recheck" /\ batch'.pc = "verify" /\ batch'.next = batch'.match + 1
             /\ batch'.b = batch.b
    <3>1. batch'.match \in Nat /\ DOMAIN batch.b.pulls = 1 .. Len(batch.b.pulls)
      BY <1>0, <1>2, <2>3 DEF BatchOK
    <3>2. QED
      BY <1>2, <2>3, <3>1 DEF BatchIsReviewed
  <2>4. CASE /\ batch.pc = "verify" /\ batch'.pc = "verify" /\ batch'.b = batch.b
             /\ batch'.match = batch.match /\ batch'.next = batch.next + 1
             /\ batch.next \in 1 .. Len(batch.b.pulls)
             /\ head[batch.b.pulls[batch.next].pr] = batch.b.pulls[batch.next].head
             /\ Verdict(GetObject(batch.b.pulls[batch.next].pr), FALSE) = "ok"
    <3>1. Reviewed(batch.next)
      BY <1>2, <2>4, ValidIsReviewed DEF ReviewInv
    <3>2. \A j \in DOMAIN batch.b.pulls : batch.match < j /\ j < batch.next => Reviewed(j)
      BY <2>4 DEF ReviewInv, BatchIsReviewed
    <3>3. batch.match \in Nat /\ batch.next \in Nat
      BY <1>0 DEF BatchOK
    <3>4. \A j \in DOMAIN batch.b.pulls : batch.match < j /\ j < batch.next + 1 => Reviewed(j)
      <4>1. \A j \in DOMAIN batch.b.pulls :
              batch.match < j /\ j < batch.next + 1
                => j = batch.next \/ (batch.match < j /\ j < batch.next)
        <5>1. \A i, n \in Int : i < n + 1 => i = n \/ i < n
          OBVIOUS
        <5>2. DOMAIN batch.b.pulls \subseteq Int /\ batch.next \in Int
          BY <1>2a, <2>4, <3>3
        <5>3. QED
          BY <5>1, <5>2, Zenon
      <4>2. QED
        BY <3>1, <3>2, <4>1, Zenon
    <3>5. \A j \in DOMAIN batch.b.pulls : batch.match < j /\ j < batch.next + 1 => ReviewedNext(j)
      BY <1>3, <2>4, <3>4
    <3>6. QED
      BY <2>4, <3>5 DEF BatchIsReviewed
  <2>5. CASE /\ batch.pc = "verify" /\ batch'.pc = "merge" /\ batch'.b = batch.b
             /\ batch'.next = batch.match + 1 /\ batch.next > Len(batch.b.pulls)
    <3>1. \A j \in DOMAIN batch.b.pulls : batch.match < j /\ j < batch.next => Reviewed(j)
      BY <2>5 DEF ReviewInv, BatchIsReviewed
    <3>2. batch.match \in Nat /\ batch.next \in Nat
      BY <1>0 DEF BatchOK
    <3>3. \A j \in DOMAIN batch.b.pulls : batch.match + 1 <= j => Reviewed(j)
      <4>1. \A j \in DOMAIN batch.b.pulls : batch.match + 1 <= j => batch.match < j /\ j < batch.next
        BY <1>2, <2>5, <3>2
      <4>2. QED
        BY <3>1, <4>1, Zenon
    <3>4. \A j \in DOMAIN batch.b.pulls : batch.match + 1 <= j => ReviewedNext(j)
      BY <1>3, <2>5, <3>3
    <3>5. QED
      BY <2>5, <3>4 DEF BatchIsReviewed
  <2>6. CASE batch.pc = "merge" /\ batch'.pc = "merge" /\ batch'.b = batch.b
             /\ batch'.next = batch.next + 1
    <3>1. \A j \in DOMAIN batch.b.pulls : batch.next <= j => Reviewed(j)
      BY <2>6 DEF ReviewInv, BatchIsReviewed
    <3>2. batch.next \in Nat
      BY <1>0 DEF BatchOK
    <3>3. \A j \in DOMAIN batch.b.pulls : batch.next + 1 <= j => Reviewed(j)
      BY <1>2, <2>6, <3>1, <3>2
    <3>4. \A j \in DOMAIN batch.b.pulls : batch.next + 1 <= j => ReviewedNext(j)
      BY <1>3, <2>6, <3>3
    <3>5. QED
      BY <2>6, <3>4 DEF BatchIsReviewed
  <2>7. QED
    BY <2>1, <2>2, <2>3, <2>4, <2>5, <2>6, BatchSteps
<1>5. QED
  BY <1>1, <1>4 DEF ReviewInv

\* Whatever people push and however they add and remove labels while a batch
\* is verified and merged: what the goroutine has verified carries an LGTM for
\* the very commits that the batch tested.
THEOREM BatchReviewed == Spec => []BatchIsReviewed
<1>1. Init => ReviewInv
  <2> SUFFICES ASSUME Init PROVE ReviewInv
    OBVIOUS
  <2>1. LabelsAreDated
    BY DEF Init, LabelsAreDated
  <2>2. BatchIsReviewed
    BY IdleType DEF Init, BatchIsReviewed
  <2>3. QED
    BY <2>1, <2>2 DEF ReviewInv
<1>2. ReviewInv => BatchIsReviewed
  BY DEF ReviewInv
<1>3. QED
  BY <1>1, <1>2, ReviewNext, TypeInvAlways, PTL DEF Spec

(***************************************************************************)
(* What the e2e goroutine merges was reviewed as far as it was read        *)
(***************************************************************************)

Working == {"retest", "waitPending", "waitNotPending", "refresh", "lock", "check"}

\* An LGTM that the goroutine's object shows was added at some time.
ObjectIsDated ==
  e2e.pc \in Working /\ "lgtm" \in e2e.obj.labels => labelAt[e2e.obj.pr]["lgtm"] >= 0

ReadInv == LabelsAreDated /\ ObjectIsDated /\ CommitsReadAreReviewed

\* Labels are dated: also those of an object that was refreshed now.
LEMMA RefreshIsDated ==
  ASSUME TypeInv, LabelsAreDated, NEW o \in MungeObject, "lgtm" \in Refresh(o).labels
  PROVE  labelAt[o.pr]["lgtm"] >= 0
<1>1. o.pr \in PRs /\ Refresh(o).labels = labels[o.pr]
  BY DEF MungeObject, Refresh, GetObject
<1>2. QED
  BY <1>1 DEF LabelsAreDated, ApprovalLabels

\* Validation compares the LGTM with the commits that the object knows of.
LEMMA ValidIsReviewedAsRead ==
  ASSUME TypeInv, NEW o \in MungeObject, Verdict(o, TRUE) = "ok",
         "lgtm" \in o.labels => labelAt[o.pr]["lgtm"] >= 0
  PROVE  labelAt[o.pr]["lgtm"] >= o.commits
<1>0. GitHubOK
  BY TypeInvParts
<1>1. "lgtm" \in o.labels /\ ~ChangedSinceApproval(o)
  BY DEF Verdict
<1>2. o.pr \in PRs /\ o.commits \in Int
  BY DEF MungeObject
<1>3. labelAt[o.pr]["lgtm"] \in Int
  BY <1>0, <1>2 DEF GitHubOK, ApprovalLabels
<1>4. QED
  BY <1>1, <1>2, <1>3 DEF ChangedSinceApproval, ApprovalLabels

\* What a step does to the e2e goroutine, as far as its object is concerned.
LEMMA ObjectSteps ==
  ASSUME TypeInv, [Next]_vars
  PROVE  \/ e2e'.pc \notin Working \cup {"instant", "merge"}
         \/ /\ e2e.obj \in MungeObject /\ e2e'.obj \in {e2e.obj, Refresh(e2e.obj)}
            /\ e2e'.pc \in Working => e2e.pc \in Working \/ e2e'.obj = Refresh(e2e.obj)
            /\ e2e'.pc \in {"instant", "merge"} =>
                 \/ e2e.pc \in {"instant", "merge"}
                 \/ e2e'.obj = Refresh(e2e.obj) /\ Verdict(e2e'.obj, TRUE) = "ok"
                 \/ e2e.pc \in Working /\ e2e'.obj = e2e.obj /\ Verdict(e2e.obj, TRUE) = "ok"
<1> USE DEF Working
<1>0. E2EOK
  BY TypeInvParts
<1>1. CASE UNCHANGED e2e
  BY <1>0, <1>1 DEF E2EOK
<1>2. ASSUME NEW p \in PRs, Recheck(p), ~UNCHANGED e2e
      PROVE  e2e'.pc = e2e.pc /\ e2e.obj \in MungeObject /\ e2e'.obj = Refresh(e2e.obj)
  BY <1>0, <1>2 DEF Recheck, RefreshShared, E2EOK
<1>3. CASE E2E
  <2>1. CASE \/ PollQueue \/ E2EFails \/ ResumeFails \/ WaitTimeout \/ FinishE2E
             \/ MergeE2E \/ MergeE2EFails
    <3>1. e2e'.pc \in {"finish", "poll", "select"}
      BY <1>0, <2>1, IdleType
         DEF PollQueue, E2EFails, ResumeFails, WaitTimeout, FinishE2E, MergeE2E, MergeE2EFails, E2EOK
    <3>2. QED
      BY <3>1
  <2>2. CASE selectPullRequest
    <3>1. e2e'.pc \in {"start", "poll"}
      BY <1>0, <2>2, IdleType DEF selectPullRequest, E2EOK
    <3>2. QED
      BY <3>1
  <2>3. CASE RequestRetest \/ WaitPoll \/ WaitForPending \/ WaitForNotPending
             \/ RefreshTested \/ LockE2E
    <3>1. e2e.pc \in Working /\ e2e.obj \in MungeObject
      BY <1>0, <2>3 DEF RequestRetest, WaitPoll, WaitForPending, WaitForNotPending, RefreshTested,
           LockE2E, E2EOK
    <3>2. \/ \E pc \in Working \cup {"finish"} : e2e' = [e2e EXCEPT !.pc = pc]
          \/ \E pc \in {"lock", "finish"} : e2e' = [e2e EXCEPT !.pc = pc, !.obj = Refresh(e2e.obj)]
          \/ e2e' = [e2e EXCEPT !.obj = Refresh(e2e.obj)]
      BY <2>3, Zenon DEF RequestRetest, WaitPoll, WaitForPending, WaitForNotPending, RefreshTested,
           LockE2E
    <3>3. e2e'.pc \in Working \cup {"finish"} /\ e2e'.obj \in {e2e.obj, Refresh(e2e.obj)}
      <4>1. ASSUME NEW pc \in Working \cup {"finish"}, e2e' = [e2e EXCEPT !.pc = pc]
            PROVE  e2e'.pc = pc /\ e2e'.obj = e2e.obj
        BY <1>0, <4>1 DEF E2EOK
      <4>2. ASSUME NEW pc \in {"lock", "finish"},
                   e2e' = [e2e EXCEPT !.pc = pc, !.obj = Refresh(e2e.obj)]
            PROVE  e2e'.pc = pc /\ e2e'.obj = Refresh(e2e.obj)
        BY <1>0, <4>2 DEF E2EOK
      <4>3. CASE e2e' = [e2e EXCEPT !.obj = Refresh(e2e.obj)]
        BY <1>0, <3>1, <4>3 DEF E2EOK
      <4>4. QED
        BY <3>2, <4>1, <4>2, <4>3
    <3>4. QED
      BY <3>1, <3>3
  <2>4. CASE StartE2E
    <3> DEFINE o == Refresh(e2e.obj)
    <3>1. \/ e2e' = [e2e EXCEPT !.pc = "finish", !.obj = o]
          \/ /\ e2e' = [e2e EXCEPT !.pc = "instant", !.obj = o]
             /\ Verdict(o, TRUE) = "ok"
          \/ e2e' = [pc |-> "retest", obj |-> o, sha |-> o.head]
          \/ e2e' = [pc |-> "lock", obj |-> o, sha |-> o.head]
          \/ e2e' = IdleE2E
      BY <2>4 DEF StartE2E
    <3>2. e2e.obj \in MungeObject
      BY <1>0, <2>4 DEF StartE2E, E2EOK
    <3> HIDE DEF o
    <3>3. CASE e2e' = [e2e EXCEPT !.pc = "finish", !.obj = o]
      <4>1. e2e'.pc = "finish"
        BY <1>0, <3>3 DEF E2EOK
      <4>2. QED
        BY <4>1
    <3>4. CASE e2e' = [e2e EXCEPT !.pc = "instant", !.obj = o] /\ Verdict(o, TRUE) = "ok"
      <4>1. e2e'.pc = "instant" /\ e2e'.obj = o
        BY <1>0, <3>4 DEF E2EOK
      <4>2. QED
        BY <3>2, <3>4, <4>1 DEF o
    <3>5. CASE \/ e2e' = [pc |-> "retest", obj |-> o, sha |-> o.head]
               \/ e2e' = [pc |-> "lock", obj |-> o, sha |-> o.head]
      <4>1. e2e'.pc \in {"retest", "lock"} /\ e2e'.obj = o
        BY <3>5
      <4>2. QED
        BY <3>2, <4>1 DEF o
    <3>6. CASE e2e' = IdleE2E
      BY <3>6, IdleType
    <3>7. QED
      BY <3>1, <3>3, <3>4, <3>5, <3>6
  <2>5. CASE CheckTested
    <3>1. \/ e2e' = [e2e EXCEPT !.pc = "finish"] \/ e2e' = IdleE2E
          \/ e2e' = [e2e EXCEPT !.pc = "merge"] /\ Verdict(e2e.obj, TRUE) = "ok"
      BY <2>5 DEF CheckTested
    <3>2. \/ e2e'.pc \in {"finish", "poll"}
          \/ e2e'.pc = "merge" /\ e2e'.obj = e2e.obj /\ Verdict(e2e.obj, TRUE) = "ok"
      BY <1>0, <3>1, IdleType DEF E2EOK
    <3>3. e2e.pc \in Working /\ e2e.obj \in MungeObject
      BY <1>0, <2>5 DEF CheckTested, E2EOK
    <3>4. QED
      BY <3>2, <3>3
  <2>6. QED
    BY <1>3, <2>1, <2>2, <2>3, <2>4, <2>5 DEF E2E
<1>4. UNCHANGED e2e \/ E2E \/ \E p \in PRs : Recheck(p)
  BY ZenonT(60)
     DEF Next, vars, Munger, EachLoop, ForEachIssueDo, MungerApply, RecheckFails, Munge,
       MungeFails, BatchMerge, PollBatches, LockBatch, RecheckBatch, VerifyBatch, MergeBatch,
       BatchFails, Environment, Push, ToggleLabel, Conflict, StartTests, FinishTests,
       BreakJobs, RepairJobs, EmergencyStop, EmergencyResume, HandMerge, ReportBatch, serverVars
<1>5. CASE E2E \/ UNCHANGED e2e
  BY <1>1, <1>3, <1>5
<1>6. CASE ~UNCHANGED e2e /\ \E p \in PRs : Recheck(p)
  <2>1. e2e'.pc = e2e.pc /\ e2e.obj \in MungeObject /\ e2e'.obj = Refresh(e2e.obj)
    BY <1>2, <1>6
  <2>2. QED
    BY <2>1
<1>7. QED
  BY <1>4, <1>5, <1>6

LEMMA ReadNext ==
  ASSUME TypeInv, ReadInv, [Next]_vars
  PROVE  ReadInv'
<1>0. GitHubOK /\ GitHubOK' /\ LabelsAreDated
  BY TypeInvParts, TypeInvPartsNext, TypeInvNext DEF ReadInv
<1>1. /\ LabelsAreDated'
      /\ \A p \in PRs : \A l \in ApprovalLabels : labelAt'[p][l] >= labelAt[p][l]
  BY <1>0, LabelsNext
<1>2. CASE e2e'.pc \notin Working \cup {"instant", "merge"}
  BY <1>1, <1>2 DEF ReadInv, ObjectIsDated, CommitsReadAreReviewed
<1>3. CASE /\ e2e.obj \in MungeObject /\ e2e'.obj \in {e2e.obj, Refresh(e2e.obj)}
           /\ e2e'.pc \in Working => e2e.pc \in Working \/ e2e'.obj = Refresh(e2e.obj)
           /\ e2e'.pc \in {"instant", "merge"} =>
                \/ e2e.pc \in {"instant", "merge"}
                \/ e2e'.obj = Refresh(e2e.obj) /\ Verdict(e2e'.obj, TRUE) = "ok"
                \/ e2e.pc \in Working /\ e2e'.obj = e2e.obj /\ Verdict(e2e.obj, TRUE) = "ok"
  <2> DEFINE p == e2e.obj.pr
             r == Refresh(e2e.obj)
  <2>1. /\ p \in PRs /\ e2e.obj.commits \in Int /\ r \in MungeObject /\ r.pr = p
        /\ e2e'.obj.pr = p /\ r.commits = e2e.obj.commits /\ e2e'.obj.commits = e2e.obj.commits
    <3>1. p \in PRs /\ e2e.obj.commits \in Int
      BY <1>3 DEF MungeObject
    <3>2. r \in MungeObject /\ r.pr = p
      BY <1>3, RefreshType DEF TypeInv
    <3>3. r.commits = e2e.obj.commits
      BY DEF Refresh, GetObject
    <3>4. QED
      BY <1>3, <3>1, <3>2, <3>3
  <2>2. /\ labelAt[p]["lgtm"] \in Int /\ labelAt'[p]["lgtm"] \in Int
        /\ labelAt'[p]["lgtm"] >= labelAt[p]["lgtm"]
    <3>1. "lgtm" \in ApprovalLabels
      BY DEF ApprovalLabels
    <3>2. \A q \in PRs : \A l \in ApprovalLabels : labelAt[q][l] \in Int /\ labelAt'[q][l] \in Int
      BY <1>0 DEF GitHubOK
    <3> HIDE DEF p
    <3>3. QED
      BY <1>1, <2>1, <3>1, <3>2, Zenon
  <2>3. "lgtm" \in r.labels => labelAt[p]["lgtm"] >= 0
    BY <1>0, <1>3, RefreshIsDated
  <2>4. ObjectIsDated'
    <3> SUFFICES ASSUME e2e'.pc \in Working, "lgtm" \in e2e'.obj.labels
                 PROVE  labelAt'[p]["lgtm"] >= 0
      BY <2>1 DEF ObjectIsDated, Working
    <3>1. labelAt[p]["lgtm"] >= 0
      <4>1. CASE e2e'.obj = r
        BY <2>3, <4>1
      <4>2. CASE e2e'.obj = e2e.obj /\ e2e.pc \in Working
        BY <4>2 DEF ReadInv, ObjectIsDated
      <4>3. QED
        BY <1>3, <4>1, <4>2
    <3> HIDE DEF p
    <3>2. QED
      BY <2>2, <3>1
  <2>5. CommitsReadAreReviewed'
    <3> SUFFICES ASSUME e2e'.pc \in {"instant", "merge"}
                 PROVE  labelAt'[p]["lgtm"] >= e2e.obj.commits
      BY <2>1 DEF CommitsReadAreReviewed
    <3>1. labelAt[p]["lgtm"] >= e2e.obj.commits
      <4>1. CASE e2e.pc \in {"instant", "merge"}
        BY <4>1 DEF ReadInv, CommitsReadAreReviewed
      <4>2. CASE e2e'.obj = r /\ Verdict(e2e'.obj, TRUE) = "ok"
        <5> HIDE DEF r
        <5>1. labelAt[r.pr]["lgtm"] >= r.commits
          BY <2>1, <2>3, <4>2, ValidIsReviewedAsRead
        <5>2. QED
          BY <2>1, <5>1
      <4>3. CASE e2e.pc \in Working /\ Verdict(e2e.obj, TRUE) = "ok"
        BY <1>3, <4>3, ValidIsReviewedAsRead DEF ReadInv, ObjectIsDated
      <4>4. QED
        BY <1>3, <4>1, <4>2, <4>3
    <3> HIDE DEF p
    <3>2. QED
      BY <2>1, <2>2, <3>1
  <2>6. QED
    BY <1>1, <2>4, <2>5 DEF ReadInv
<1>4. QED
  BY <1>2, <1>3, ObjectSteps

\* Whatever people push and label while a pull request is queued, retested,
\* interrupted and taken up again: the e2e goroutine merges it only with an LGTM
\* that is no older than the commits that were read with its object. (Pushes
\* after that are what it does not see.)
THEOREM ReviewedAsRead == Spec => []CommitsReadAreReviewed
<1>1. Init => ReadInv
  <2> SUFFICES ASSUME Init PROVE ReadInv
    OBVIOUS
  <2>1. LabelsAreDated
    BY DEF Init, LabelsAreDated
  <2>2. e2e.pc = "poll"
    BY IdleType DEF Init
  <2>3. QED
    BY <2>1, <2>2 DEF ReadInv, ObjectIsDated, CommitsReadAreReviewed, Working
<1>2. ReadInv => CommitsReadAreReviewed
  BY DEF ReadInv
<1>3. QED
  BY <1>1, <1>2, ReadNext, TypeInvAlways, PTL DEF Spec

(***************************************************************************)
(* What a batch merges lands on the base it was tested on                  *)
(***************************************************************************)

\* Nobody goes past mergeLock: no pushes and merges by hand, and no pull
\* request that the e2e goroutine merges without the lock.
Isolated ==
  /\ {"push", "hand"} \cap Disruptions = {}
  /\ "retest-not-required" \notin ToggledLabels
  /\ \A p \in PRs : "retest-not-required" \notin InitLabels[p]

NoInstantMerge ==
  /\ \A p \in PRs : "retest-not-required" \notin labels[p]
  /\ e2e.pc # "instant"

\* The pull requests of the batch from i to j have the heads that were tested.
HeadsTested(i, j) ==
  \A k \in DOMAIN batch.b.pulls :
    i <= k /\ k <= j => head[batch.b.pulls[k].pr] = batch.b.pulls[k].head

\* Under the lock, the branch remains the base and the merged part of the batch.
BatchProgress ==
  /\ batch.pc = "verify" =>
       /\ matchesCommits(batch.b)
       /\ batch.match = Len(branch) - batch.b.base
       /\ HeadsTested(batch.match + 1, batch.next - 1)
  /\ batch.pc = "merge" =>
       /\ matchesCommits(batch.b)
       /\ batch.next = Len(branch) - batch.b.base + 1
       /\ HeadsTested(batch.next, Len(batch.b.pulls))

\* A commit that extends a prefix of its batch.
Extends(c) ==
  LET k == (Len(branch) + 1) - c.base IN
  /\ k \in 1 .. Len(c.pulls)
  /\ SamePull(c, c.pulls[k])
  /\ \A j \in 1 .. k - 1 : SamePull(branch[c.base + j], c.pulls[j])

LEMMA AppendTested ==
  ASSUME TypeInv, BatchOnTestedBase, NEW c \in MergeCommit,
         branch' = Append(branch, c), c.how = "batch" => Extends(c)
  PROVE  BatchOnTestedBase'
<1>0. branch \in Seq(MergeCommit) /\ Len(branch) \in Nat /\ c.base \in Nat /\ Len(c.pulls) \in Nat
  BY TypeInvParts DEF BranchOK, MergeCommit
<1>1. /\ DOMAIN branch' = 1 .. Len(branch) + 1
      /\ \A i \in 1 .. Len(branch) : branch'[i] = branch[i] /\ branch[i] \in MergeCommit
      /\ branch'[Len(branch) + 1] = c
  BY <1>0
<1> SUFFICES ASSUME NEW i \in DOMAIN branch', branch'[i].how = "batch"
             PROVE  LET k == i - branch'[i].base IN
                    /\ k \in 1 .. Len(branch'[i].pulls)
                    /\ \A j \in 1 .. k : SamePull(branch'[branch'[i].base + j], branch'[i].pulls[j])
  BY DEF BatchOnTestedBase, SamePull
<1>2. CASE i \in 1 .. Len(branch)
  <2>1. branch'[i] = branch[i] /\ branch[i].base \in Nat /\ i \in DOMAIN branch
    <3>1. branch'[i] = branch[i] /\ branch[i] \in MergeCommit
      BY <1>1, <1>2
    <3>2. branch[i].base \in Nat
      BY <3>1 DEF MergeCommit
    <3>3. i \in DOMAIN branch
      BY <1>0, <1>2
    <3>4. QED
      BY <3>1, <3>2, <3>3
  <2>2. /\ i - branch[i].base \in 1 .. Len(branch[i].pulls)
        /\ \A j \in 1 .. i - branch[i].base :
             SamePull(branch[branch[i].base + j], branch[i].pulls[j])
    BY <2>1 DEF BatchOnTestedBase
  <2>3. \A j \in 1 .. i - branch[i].base : branch'[branch[i].base + j] = branch[branch[i].base + j]
    BY <1>0, <1>1, <1>2, <2>1
  <2>4. QED
    BY <2>1, <2>2, <2>3
<1>3. CASE i = Len(branch) + 1
  <2>1. branch'[i] = c /\ Extends(c)
    BY <1>1, <1>3
  <2> DEFINE k == i - c.base
  <2>2. /\ k \in 1 .. Len(c.pulls) /\ SamePull(c, c.pulls[k])
        /\ \A j \in 1 .. k - 1 : SamePull(branch[c.base + j], c.pulls[j])
    <3>1. k = (Len(branch) + 1) - c.base
      BY <1>3
    <3> HIDE DEF k
    <3>2. QED
      BY <2>1, <3>1, Zenon DEF Extends
  <2>3. \A j \in 1 .. k : j = k \/ j \in 1 .. k - 1
    BY <1>0, <1>3
  <2>4. branch'[c.base + k] = c
    BY <1>0, <1>1, <1>3
  <2>5. \A j \in 1 .. k - 1 : branch'[c.base + j] = branch[c.base + j]
    BY <1>0, <1>1, <1>3
  <2> HIDE DEF k
  <2>6. \A j \in 1 .. k : SamePull(branch'[c.base + j], c.pulls[j])
    BY <2>2, <2>3, <2>4, <2>5
  <2>7. QED
    BY <2>1, <2>2, <2>6 DEF k
<1>4. i \in 1 .. Len(branch) \/ i = Len(branch) + 1
  BY <1>0, <1>1
<1>5. QED
  BY <1>2, <1>3, <1>4

\* Nothing but the e2e goroutine under the lock and the batch goroutine reaches
\* the branch, and no head moves.
LEMMA BranchSteps ==
  ASSUME Isolated, TypeInv, NoInstantMerge, [Next]_vars
  PROVE  /\ UNCHANGED head
         /\ \/ UNCHANGED branch
            \/ /\ e2e.pc = "merge" /\ UNCHANGED batch
               /\ \E base : MergePR(e2e.obj.pr, "retest", base, <<>>)
            \/ /\ batch.pc = "merge" /\ batch.next <= Len(batch.b.pulls) /\ batch' # batch
               /\ MergePR(batch.b.pulls[batch.next].pr, "batch", batch.b.base, batch.b.pulls)
<1>1. CASE Munger \/ UNCHANGED vars
  BY <1>1
     DEF vars, prVars, Munger, EachLoop, ForEachIssueDo, MungerApply, Recheck, RecheckFails,
       Munge, MungeFails
<1>2. CASE MergeE2E \/ MergeE2EFails
  <2>1. e2e.pc = "merge"
    BY <1>2 DEF MergeE2E, MergeE2EFails, NoInstantMerge
  <2>2. QED
    BY <1>2, <2>1 DEF MergeE2E, MergeE2EFails, prVars
<1>3. CASE E2E /\ ~(MergeE2E \/ MergeE2EFails)
  BY <1>3
     DEF prVars, E2E, PollQueue, selectPullRequest, StartE2E, E2EFails, ResumeFails,
       RequestRetest, WaitPoll, WaitForPending, WaitForNotPending, WaitTimeout, RefreshTested,
       LockE2E, CheckTested, FinishE2E
<1>4. CASE MergeBatch
  <2>1. BatchOK
    BY TypeInvParts
  <2>2. batch.next \in Nat /\ Len(batch.b.pulls) \in Nat
    BY <1>4, <2>1 DEF MergeBatch, BatchOK, Batch
  <2>3. [batch EXCEPT !.next = batch.next + 1] # batch
    BY <2>1, <2>2 DEF BatchOK
  <2>4. QED
    BY <1>4, <2>2, <2>3 DEF MergeBatch, prVars
<1>5. CASE BatchFails
  <2>1. batch' # batch
    BY <1>5, IdleType DEF BatchFails
  <2>2. QED
    BY <1>5, <2>1 DEF BatchFails, prVars
<1>6. CASE BatchMerge /\ ~MergeBatch /\ ~BatchFails
  BY <1>6 DEF BatchMerge, PollBatches, LockBatch, RecheckBatch, VerifyBatch, prVars
<1>7. CASE Environment
  <2>1. \A p \in PRs : ~Push(p) /\ ~HandMerge(p)
    BY DEF Isolated, Push, HandMerge, Disturb
  <2>2. QED
    BY <1>7, <2>1
       DEF Environment, prVars, ToggleLabel, Conflict, StartTests, FinishTests, BreakJobs,
         RepairJobs, EmergencyStop, EmergencyResume, ReportBatch
<1>8. QED
  BY <1>1, <1>2, <1>3, <1>4, <1>5, <1>6, <1>7 DEF Next

LEMMA NoInstantNext ==
  ASSUME Isolated, TypeInv, NoInstantMerge, [Next]_vars
  PROVE  NoInstantMerge'
<1>0. E2EOK /\ GitHubOK
  BY TypeInvParts
<1>1. \A p \in PRs : "retest-not-required" \notin labels'[p]
  <2>1. CASE UNCHANGED labels
    BY <2>1 DEF NoInstantMerge
  <2>2. ASSUME NEW p \in PRs, NEW l \in ToggledLabels, ToggleLabel(p, l)
        PROVE  \A q \in PRs : "retest-not-required" \notin labels'[q]
    <3>1. l # "retest-not-required"
      BY DEF Isolated
    <3>2. \A q \in PRs : labels'[q] \subseteq labels[q] \cup {l}
      BY <1>0, <2>2 DEF ToggleLabel, GitHubOK
    <3>3. QED
      BY <3>1, <3>2 DEF NoInstantMerge
  <2>3. QED
    BY <2>1, <2>2
       DEF Next, vars, prVars, Munger, EachLoop, ForEachIssueDo, MungerApply, Recheck,
         RecheckFails, Munge, MungeFails, E2E, PollQueue, selectPullRequest, StartE2E, E2EFails,
         ResumeFails, RequestRetest, WaitPoll, WaitForPending, WaitForNotPending, WaitTimeout,
         RefreshTested, LockE2E, CheckTested, MergeE2E, MergeE2EFails, FinishE2E, BatchMerge,
         PollBatches, LockBatch, RecheckBatch, VerifyBatch, MergeBatch, BatchFails, Environment,
         Push, Conflict, StartTests, FinishTests, BreakJobs, RepairJobs, EmergencyStop,
         EmergencyResume, HandMerge, ReportBatch
<1>2. e2e'.pc # "instant"
  <2>1. CASE StartE2E
    <3> DEFINE o == Refresh(e2e.obj)
    <3>1. e2e.obj \in MungeObject
      BY <1>0, <2>1 DEF StartE2E, E2EOK
    <3>2. o.labels = labels[e2e.obj.pr] /\ e2e.obj.pr \in PRs
      BY <3>1 DEF Refresh, GetObject, MungeObject
    <3>3. ~RetestNotRequired(o)
      BY <3>2 DEF RetestNotRequired, NoInstantMerge
    <3>4. \/ e2e' = [e2e EXCEPT !.pc = "finish", !.obj = o]
          \/ e2e' = [pc |-> "retest", obj |-> o, sha |-> o.head]
          \/ e2e' = [pc |-> "lock", obj |-> o, sha |-> o.head]
          \/ e2e' = IdleE2E
      BY <2>1, <3>3 DEF StartE2E
    <3> HIDE DEF o
    <3>5. CASE e2e' = [e2e EXCEPT !.pc = "finish", !.obj = o]
      BY <1>0, <3>5 DEF E2EOK
    <3>6. QED
      BY <3>4, <3>5, IdleType
  <2>2. CASE selectPullRequest
    BY <1>0, <2>2, IdleType DEF selectPullRequest, E2EOK
  <2>3. CASE WaitPoll
    BY <1>0, <2>3 DEF WaitPoll, E2EOK
  <2>4. CASE E2E /\ ~StartE2E /\ ~selectPullRequest /\ ~WaitPoll
    <3>1. \/ e2e' = IdleE2E
          \/ \E pc \in {"select", "waitPending", "refresh", "waitNotPending", "check", "merge",
                        "finish"} : e2e' = [e2e EXCEPT !.pc = pc]
          \/ \E o : e2e' = [e2e EXCEPT !.pc = "lock", !.obj = o]
      BY <2>4
         DEF E2E, PollQueue, E2EFails, ResumeFails, RequestRetest, WaitForPending,
           WaitForNotPending, WaitTimeout, RefreshTested, LockE2E, CheckTested, MergeE2E,
           MergeE2EFails, FinishE2E
    <3>2. QED
      BY <1>0, <3>1, IdleType DEF E2EOK
  <2>5. ASSUME NEW p \in PRs, Recheck(p) PROVE e2e'.pc = e2e.pc
    BY <1>0, <2>5 DEF Recheck, RefreshShared, E2EOK
  <2>6. CASE UNCHANGED e2e
    BY <2>6 DEF NoInstantMerge
  <2>7. QED
    BY <2>1, <2>2, <2>3, <2>4, <2>5, <2>6
       DEF NoInstantMerge, Next, vars, Munger, EachLoop, ForEachIssueDo, MungerApply,
         RecheckFails, Munge, MungeFails, BatchMerge, PollBatches, LockBatch, RecheckBatch,
         VerifyBatch, MergeBatch, BatchFails, Environment, Push, ToggleLabel, Conflict,
         StartTests, FinishTests, BreakJobs, RepairJobs, EmergencyStop, EmergencyResume,
         HandMerge, ReportBatch, serverVars
<1>3. QED
  BY <1>1, <1>2 DEF NoInstantMerge

TestedInv ==
  NoInstantMerge /\ LockIsHeldByOwner /\ BatchProgress /\ BatchOnTestedBase

\* The place in its batch of the pull request that comes next on the branch.
LEMMA NextPlace ==
  ASSUME TypeInv, BatchProgress, batch.pc = "merge", batch.next <= Len(batch.b.pulls)
  PROVE  /\ (Len(branch) + 1) - batch.b.base = batch.next
         /\ batch.next \in 1 .. Len(batch.b.pulls)
         /\ batch.next - 1 = Len(branch) - batch.b.base
<1>0. BatchOK /\ BranchOK
  BY TypeInvParts
<1>1. batch.next \in Nat \ {0} /\ batch.b.base \in Nat /\ batch.b.pulls \in Seq(Pull)
  BY <1>0 DEF BatchOK, Batch
<1>2. Len(batch.b.pulls) \in Nat /\ Len(branch) \in Nat
  BY <1>0, <1>1 DEF BranchOK
<1>3. batch.next = Len(branch) - batch.b.base + 1
  BY DEF BatchProgress
<1>4. QED
  BY <1>1, <1>2, <1>3

\* Where the batch goroutine merges, the commit extends a prefix of the batch.
LEMMA BatchCommitExtends ==
  ASSUME TypeInv, BatchProgress, batch.pc = "merge", batch.next <= Len(batch.b.pulls),
         NEW c, c = [pr |-> batch.b.pulls[batch.next].pr,
                     head |-> head[batch.b.pulls[batch.next].pr], how |-> "batch",
                     base |-> batch.b.base, pulls |-> batch.b.pulls]
  PROVE  Extends(c)
<1>0. BatchOK /\ BranchOK
  BY TypeInvParts
<1>1. /\ batch.b \in Batch /\ batch.next \in Nat \ {0} /\ batch.b.base \in Nat
      /\ batch.b.pulls \in Seq(Pull)
  BY <1>0 DEF BatchOK, Batch
<1>2. /\ Len(batch.b.pulls) \in Nat /\ DOMAIN batch.b.pulls = 1 .. Len(batch.b.pulls)
      /\ Len(branch) \in Nat
  BY <1>0, <1>1 DEF BranchOK
<1> DEFINE k == (Len(branch) + 1) - batch.b.base
<1>3. /\ matchesCommits(batch.b) /\ batch.next = Len(branch) - batch.b.base + 1
      /\ HeadsTested(batch.next, Len(batch.b.pulls))
  BY DEF BatchProgress
<1>4. k = batch.next /\ k \in 1 .. Len(batch.b.pulls) /\ k - 1 = Len(branch) - batch.b.base
  BY NextPlace
<1> HIDE DEF k
<1>5. head[batch.b.pulls[k].pr] = batch.b.pulls[k].head
  <2>1. k \in DOMAIN batch.b.pulls /\ batch.next <= k /\ k <= Len(batch.b.pulls)
    BY <1>1, <1>2, <1>4
  <2>2. QED
    BY <1>3, <2>1, Zenon DEF HeadsTested
<1>6. SamePull(c, c.pulls[k])
  BY <1>4, <1>5 DEF SamePull
<1>7. \A j \in 1 .. k - 1 : SamePull(branch[batch.b.base + j], batch.b.pulls[j])
  BY <1>3, <1>4 DEF matchesCommits
<1>8. QED
  BY <1>4, <1>6, <1>7 DEF Extends, k

LEMMA TestedNext ==
  ASSUME Isolated, TypeInv, TestedInv, [Next]_vars
  PROVE  TestedInv'
<1>0. BatchOK /\ BranchOK /\ BatchOK' /\ BranchOK'
  BY TypeInvParts, TypeInvPartsNext, TypeInvNext
<1>1. NoInstantMerge' /\ LockIsHeldByOwner'
  BY NoInstantNext, LockNext DEF TestedInv
<1>2. BatchOnTestedBase'
  <2>0. ASSUME NEW c, branch' = Append(branch, c) PROVE c \in MergeCommit
    <3>1. branch' \in Seq(MergeCommit) /\ Len(branch) \in Nat
      BY <1>0 DEF BranchOK
    <3>2. branch'[Len(branch) + 1] = c /\ Len(branch) + 1 \in DOMAIN branch'
      BY <1>0, <2>0 DEF BranchOK
    <3>3. QED
      BY <3>1, <3>2, ElementOfSeq
  <2>1. CASE UNCHANGED branch
    BY <2>1 DEF TestedInv, BatchOnTestedBase, SamePull
  <2>2. ASSUME NEW base, MergePR(e2e.obj.pr, "retest", base, <<>>)
        PROVE  BatchOnTestedBase'
    <3> DEFINE c == [pr |-> e2e.obj.pr, head |-> head[e2e.obj.pr], how |-> "retest",
                     base |-> base, pulls |-> <<>>]
    <3>1. branch' = Append(branch, c)
      BY <2>2 DEF MergePR
    <3>2. c.how # "batch"
      OBVIOUS
    <3> HIDE DEF c
    <3>3. QED
      BY <2>0, <3>1, <3>2, AppendTested DEF TestedInv
  <2>3. CASE /\ batch.pc = "merge" /\ batch.next <= Len(batch.b.pulls)
             /\ MergePR(batch.b.pulls[batch.next].pr, "batch", batch.b.base, batch.b.pulls)
    <3> DEFINE c == [pr |-> batch.b.pulls[batch.next].pr,
                     head |-> head[batch.b.pulls[batch.next].pr], how |-> "batch",
                     base |-> batch.b.base, pulls |-> batch.b.pulls]
    <3>1. branch' = Append(branch, c)
      BY <2>3 DEF MergePR
    <3>2. Extends(c)
      BY <2>3, BatchCommitExtends DEF TestedInv
    <3> HIDE DEF c
    <3>3. QED
      BY <2>0, <3>1, <3>2, AppendTested DEF TestedInv
  <2>4. QED
    BY <2>1, <2>2, <2>3, BranchSteps DEF TestedInv
<1>3. BatchProgress'
  <2>1. CASE UNCHANGED batch
    <3>1. CASE batch.pc \in {"verify", "merge"}
      <4>1. e2e.pc # "merge"
        BY <3>1 DEF TestedInv, LockIsHeldByOwner
      <4>2. UNCHANGED <<branch, head>>
        BY <2>1, <4>1, BranchSteps DEF TestedInv
      <4>3. QED
        BY <2>1, <4>2 DEF TestedInv, BatchProgress, matchesCommits, HeadsTested, SamePull
    <3>2. CASE batch.pc \notin {"verify", "merge"}
      BY <2>1, <3>2 DEF BatchProgress
    <3>3. QED
      BY <3>1, <3>2
  <2>2. CASE batch'.pc \in {"poll", "lock", "recheck"}
    BY <2>2 DEF BatchProgress
  <2>3. CASE /\ batch.pc = "recheck" /\ batch'.pc = "verify"
             /\ batch'.b = batch.b /\ batch'.next = batch'.match + 1
             /\ batch'.match = Len(branch) - batch.b.base
             /\ matchesCommits(batch.b)
             /\ UNCHANGED <<branch, head>>
    <3>1. batch'.match \in Nat
      BY <1>0 DEF BatchOK
    <3>2. \A k \in Nat : ~(batch'.match + 1 <= k /\ k <= batch'.next - 1)
      BY <2>3, <3>1
    <3>3. \A k \in DOMAIN batch'.b.pulls : k \in Nat
      BY <1>0, <2>3 DEF BatchOK, Batch
    <3>4. HeadsTested(batch.match + 1, batch.next - 1)'
      BY <3>2, <3>3 DEF HeadsTested
    <3>5. QED
      BY <2>3, <3>4 DEF BatchProgress, matchesCommits, SamePull
  <2>4. CASE /\ batch.pc = "verify" /\ batch'.pc = "verify"
             /\ batch'.b = batch.b /\ batch'.match = batch.match
             /\ batch'.next = batch.next + 1
             /\ batch.next \in 1 .. Len(batch.b.pulls)
             /\ head[batch.b.pulls[batch.next].pr] = batch.b.pulls[batch.next].head
             /\ UNCHANGED <<branch, head>>
    <3>1. /\ matchesCommits(batch.b) /\ batch.match = Len(branch) - batch.b.base
          /\ HeadsTested(batch.match + 1, batch.next - 1)
      BY <2>4 DEF TestedInv, BatchProgress
    <3>2. batch.next \in Nat /\ \A k \in DOMAIN batch.b.pulls : k \in Nat
      BY <1>0, <2>4 DEF BatchOK, Batch
    <3>3. HeadsTested(batch.match + 1, batch.next - 1)'
      <4>1. \A k \in DOMAIN batch.b.pulls :
              k <= batch'.next - 1 => k <= batch.next - 1 \/ k = batch.next
        BY <2>4, <3>2
      <4>2. QED
        BY <2>4, <3>1, <4>1 DEF HeadsTested
    <3>4. QED
      BY <2>4, <3>1, <3>3 DEF BatchProgress, matchesCommits, SamePull
  <2>5. CASE /\ batch.pc = "verify" /\ batch'.pc = "merge"
             /\ batch'.b = batch.b /\ batch'.match = batch.match
             /\ batch'.next = batch.match + 1
             /\ batch.next > Len(batch.b.pulls)
             /\ UNCHANGED <<branch, head>>
    <3>1. /\ matchesCommits(batch.b) /\ batch.match = Len(branch) - batch.b.base
          /\ HeadsTested(batch.match + 1, batch.next - 1)
      BY <2>5 DEF TestedInv, BatchProgress
    <3>2. batch.next \in Nat /\ Len(batch.b.pulls) \in Nat
      BY <1>0, <2>5 DEF BatchOK, Batch
    <3>3. \A k \in DOMAIN batch.b.pulls : k <= Len(batch.b.pulls) => k <= batch.next - 1
      BY <1>0, <2>5, <3>2 DEF BatchOK, Batch
    <3>4. HeadsTested(batch.next, Len(batch.b.pulls))'
      BY <2>5, <3>1, <3>3 DEF HeadsTested
    <3>5. QED
      BY <2>5, <3>1, <3>4 DEF BatchProgress, matchesCommits, SamePull
  <2>6. CASE /\ batch.pc = "merge" /\ batch'.pc = "merge"
             /\ batch'.b = batch.b /\ batch'.match = batch.match
             /\ batch'.next = batch.next + 1
             /\ batch.next \in 1 .. Len(batch.b.pulls)
             /\ MergePR(batch.b.pulls[batch.next].pr, "batch", batch.b.base, batch.b.pulls)
             /\ UNCHANGED head
    <3>1. /\ batch.next = Len(branch) - batch.b.base + 1
          /\ HeadsTested(batch.next, Len(batch.b.pulls))
      BY <2>6 DEF TestedInv, BatchProgress
    <3>2. /\ batch.next \in Nat /\ batch.b.base \in Nat /\ Len(batch.b.pulls) \in Nat
          /\ Len(branch) \in Nat /\ \A k \in DOMAIN batch.b.pulls : k \in Nat
      BY <1>0, <2>6 DEF BatchOK, Batch, BranchOK
    <3> DEFINE n == Len(branch) + 1
    <3>3. /\ Len(branch') = n /\ n \in DOMAIN branch'
          /\ branch'[n].how = "batch" /\ branch'[n].base = batch.b.base
          /\ branch'[n].pulls = batch.b.pulls
      BY <1>0, <2>6 DEF MergePR, BranchOK
    <3> HIDE DEF n
    <3>4. /\ n - batch.b.base \in 1 .. Len(batch.b.pulls)
          /\ \A j \in 1 .. n - batch.b.base :
               SamePull(branch'[batch.b.base + j], batch.b.pulls[j])
      <4>1. /\ n - branch'[n].base \in 1 .. Len(branch'[n].pulls)
            /\ \A j \in 1 .. n - branch'[n].base :
                 SamePull(branch'[branch'[n].base + j], branch'[n].pulls[j])
        BY <1>2, <3>3 DEF BatchOnTestedBase
      <4>2. QED
        BY <3>3, <4>1
    <3>5. matchesCommits(batch.b)'
      <4>1. n - batch.b.base \in 0 .. Len(batch.b.pulls)
        BY <3>2, <3>4 DEF n
      <4>2. QED
        BY <2>6, <3>3, <3>4, <4>1 DEF matchesCommits, SamePull
    <3>6. batch'.next = Len(branch') - batch'.b.base + 1
      <4>1. /\ batch'.next = batch.next + 1 /\ batch'.b = batch.b /\ Len(branch') = Len(branch) + 1
            /\ batch.next = Len(branch) - batch.b.base + 1
            /\ batch.b.base \in Nat /\ Len(branch) \in Nat
        BY <2>6, <3>1, <3>2, <3>3 DEF n
      <4>2. QED
        BY <4>1
    <3>7. HeadsTested(batch.next, Len(batch.b.pulls))'
      BY <2>6, <3>1, <3>2 DEF HeadsTested
    <3>8. QED
      BY <2>6, <3>5, <3>6, <3>7 DEF BatchProgress
  <2>7. QED
    BY <2>1, <2>2, <2>3, <2>4, <2>5, <2>6, BatchSteps
<1>4. QED
  BY <1>1, <1>2, <1>3 DEF TestedInv

\* As long as nobody goes past mergeLock, what a batch merges completes a
\* prefix of the batch on the very base the batch was tested on, whatever calls
\* fail, whatever the e2e goroutine merges in between and however often a batch
\* is taken up again.
THEOREM BatchTested == Isolated /\ Spec => []BatchOnTestedBase
<1> SUFFICES ASSUME Isolated PROVE Spec => []BatchOnTestedBase
  OBVIOUS
<1>1. Init => TestedInv
  <2> SUFFICES ASSUME Init PROVE TestedInv
    OBVIOUS
  <2>1. NoInstantMerge
    BY IdleType DEF Init, NoInstantMerge, Isolated
  <2>2. BatchProgress
    BY IdleType DEF Init, BatchProgress
  <2>3. BatchOnTestedBase
    BY DEF Init, BatchOnTestedBase
  <2>4. QED
    BY <2>1, <2>2, <2>3, LockInit DEF TestedInv
<1>2. TypeInv /\ TestedInv /\ [Next]_vars => TestedInv'
  BY TestedNext
<1>3. TestedInv => BatchOnTestedBase
  BY DEF TestedInv
<1>4. QED
  BY <1>1, <1>2, <1>3, TypeInvAlways, PTL DEF Spec

(***************************************************************************)
(* What a retest merges lands on the base it was retested with             *)
(***************************************************************************)

\* What reaches the branch without the e2e goroutine.
Others == {"hand", "batch"}

\* From commit b on, sequence s has nothing but such commits.
OthersSince(s, b) == b <= Len(s) /\ \A j \in b + 1 .. Len(s) : s[j].how \in Others

\* Nothing that the e2e goroutine merged itself came between the start of the
\* last test run of a commit and the merge of that commit.
RetestIsTheLatest ==
  \A i \in DOMAIN branch :
    branch[i].how = "retest" =>
      /\ branch[i].base < i
      /\ \A j \in branch[i].base + 1 .. i - 1 : branch[j].how \in Others

\* The heads from h to t were all tested with the branch as the e2e goroutine
\* last left it; bases are the branch lengths their test runs started on.
TestedSince(s, bases, h, t) == h <= t /\ \A k \in h .. t : OthersSince(s, bases[k])

\* The retest was asked for: a test run of one of the heads since then is new.
RetestAsked ==
  e2e.pc \in {"retest", "waitPending"} =>
    LET p == e2e.obj.pr IN
    /\ e2e.sha <= e2e.obj.head /\ e2e.obj.head <= head[p]
    /\ \A k \in e2e.sha .. head[p] :
         \/ OthersSince(branch, ciBase[p][k])
         \/ k = e2e.sha /\ ci[p][k] # "pending"

\* The retest was seen to run: so are its results, and those of every later head.
RetestSeen ==
  e2e.pc \in {"waitNotPending", "refresh", "lock", "check", "merge"} =>
    TestedSince(branch, ciBase[e2e.obj.pr], e2e.obj.head, head[e2e.obj.pr])

\* An interrupted pull request comes first: nothing is merged before it.
InterruptedIsNext ==
  interruptedObj # None =>
    /\ e2e.pc \in {"finish", "poll", "select", "start"}
    /\ e2e.pc = "start" => e2e.obj.pr = interruptedObj.obj.pr
    /\ TestedSince(branch, ciBase[interruptedObj.obj.pr], interruptedObj.head,
                   head[interruptedObj.obj.pr])

RetestInv == RetestIsTheLatest /\ RetestAsked /\ RetestSeen /\ InterruptedIsNext

\* The branch grows by nothing but such commits.
OthersGrow ==
  \/ UNCHANGED branch
  \/ \E c \in MergeCommit : c.how \in Others /\ branch' = Append(branch, c)

LEMMA OthersSinceKept ==
  ASSUME BranchOK, OthersGrow, NEW b \in Nat, OthersSince(branch, b)
  PROVE  OthersSince(branch', b)
<1>1. CASE UNCHANGED branch
  BY <1>1
<1>2. ASSUME NEW c \in MergeCommit, c.how \in Others, branch' = Append(branch, c)
      PROVE  OthersSince(branch', b)
  <2>1. /\ Len(branch) \in Nat /\ Len(branch') = Len(branch) + 1
        /\ \A i \in 1 .. Len(branch) : branch'[i] = branch[i]
        /\ branch'[Len(branch) + 1] = c
    BY <1>2 DEF BranchOK
  <2>2. ASSUME NEW j \in b + 1 .. Len(branch') PROVE branch'[j].how \in Others
    <3>1. CASE j = Len(branch) + 1
      BY <1>2, <2>1, <3>1
    <3>2. CASE j # Len(branch) + 1
      <4>1. j \in b + 1 .. Len(branch) /\ j \in 1 .. Len(branch)
        BY <2>1, <3>2
      <4>2. QED
        BY <2>1, <4>1 DEF OthersSince
    <3>3. QED
      BY <3>1, <3>2
  <2>3. b <= Len(branch')
    BY <2>1 DEF OthersSince
  <2>4. QED
    BY <2>2, <2>3 DEF OthersSince
<1>3. QED
  BY <1>1, <1>2 DEF OthersGrow

\* The branch of the moment is the newest base.
LEMMA NewestBase ==
  ASSUME BranchOK, OthersGrow
  PROVE  OthersSince(branch, Len(branch)) /\ OthersSince(branch', Len(branch))
<1>1. Len(branch) \in Nat
  BY DEF BranchOK
<1>2. OthersSince(branch, Len(branch))
  BY <1>1 DEF OthersSince
<1>3. QED
  BY <1>1, <1>2, OthersSinceKept

LEMMA AppendLatest ==
  ASSUME BranchOK, RetestIsTheLatest, NEW c \in MergeCommit, branch' = Append(branch, c),
         c.how = "retest" => OthersSince(branch, c.base)
  PROVE  RetestIsTheLatest'
<1>1. /\ Len(branch) \in Nat /\ DOMAIN branch' = 1 .. Len(branch) + 1
      /\ DOMAIN branch = 1 .. Len(branch)
      /\ \A i \in 1 .. Len(branch) : branch'[i] = branch[i] /\ branch[i] \in MergeCommit
      /\ branch'[Len(branch) + 1] = c
  BY DEF BranchOK
<1>2. \A d \in MergeCommit : d.base \in Nat
  BY DEF MergeCommit
<1> SUFFICES ASSUME NEW i \in DOMAIN branch', branch'[i].how = "retest"
             PROVE  /\ branch'[i].base < i
                    /\ \A j \in branch'[i].base + 1 .. i - 1 : branch'[j].how \in Others
  BY DEF RetestIsTheLatest
<1>3. CASE i \in 1 .. Len(branch)
  <2>1. branch'[i] = branch[i] /\ branch[i].base \in Nat
    BY <1>1, <1>2, <1>3
  <2>2. \A j \in branch[i].base + 1 .. i - 1 : j \in 1 .. Len(branch)
    BY <1>1, <1>3, <2>1
  <2>3. QED
    BY <1>1, <1>3, <2>1, <2>2 DEF RetestIsTheLatest
<1>4. CASE i = Len(branch) + 1
  <2>1. branch'[i] = c /\ c.base \in Nat /\ OthersSince(branch, c.base)
    BY <1>1, <1>2, <1>4
  <2>2. \A j \in c.base + 1 .. i - 1 : j \in 1 .. Len(branch) /\ j \in c.base + 1 .. Len(branch)
    BY <1>1, <1>4, <2>1
  <2>3. c.base < i
    BY <1>1, <1>4, <2>1 DEF OthersSince
  <2>4. QED
    BY <1>1, <2>1, <2>2, <2>3 DEF OthersSince
<1>5. i \in 1 .. Len(branch) \/ i = Len(branch) + 1
  BY <1>1
<1>6. QED
  BY <1>3, <1>4, <1>5

\* What any step does to the heads and the test runs of pull request p: heads
\* only come, and a test run that starts, starts on the branch of the moment.
TestsGoOn(p) ==
  /\ head[p] <= head'[p]
  /\ \A k \in 0 .. head'[p] :
       \/ ciBase'[p][k] = Len(branch)
       \/ /\ k <= head[p] /\ ciBase'[p][k] = ciBase[p][k]
          /\ ci'[p][k] = "pending" => ci[p][k] = "pending"

LEMMA TestedSinceKept ==
  ASSUME TypeInv, OthersGrow, NEW p \in PRs, TestsGoOn(p), head'[p] \in Heads, NEW h \in Heads,
         TestedSince(branch, ciBase[p], h, head[p])
  PROVE  TestedSince(branch', ciBase'[p], h, head'[p])
<1>0. BranchOK /\ GitHubOK
  BY TypeInvParts
<1>1. head[p] \in Nat /\ head'[p] \in Nat /\ h \in Nat /\ \A k \in 0 .. head[p] : ciBase[p][k] \in Nat
  BY <1>0 DEF GitHubOK
<1>2. h <= head'[p]
  BY <1>1 DEF TestedSince, TestsGoOn
<1>3. ASSUME NEW k \in h .. head'[p] PROVE OthersSince(branch', ciBase'[p][k])
  <2>1. k \in 0 .. head'[p]
    BY <1>1
  <2>2. CASE ciBase'[p][k] = Len(branch)
    BY <1>0, <2>2, NewestBase
  <2>3. CASE k <= head[p] /\ ciBase'[p][k] = ciBase[p][k]
    <3>1. k \in h .. head[p] /\ ciBase[p][k] \in Nat
      BY <1>1, <2>1, <2>3
    <3>2. QED
      BY <1>0, <2>3, <3>1, OthersSinceKept DEF TestedSince
  <2>4. QED
    BY <2>1, <2>2, <2>3 DEF TestsGoOn
<1>4. QED
  BY <1>2, <1>3 DEF TestedSince

\* A step that leaves the e2e goroutine where it is.
LEMMA RetestKept ==
  ASSUME TypeInv, TypeInv', RetestInv, OthersGrow, \A p \in PRs : TestsGoOn(p),
         UNCHANGED <<e2e, interruptedObj>>
  PROVE  RetestInv'
<1>0. /\ BranchOK /\ GitHubOK /\ E2EOK /\ InterruptedOK /\ GitHubOK'
      /\ \A p \in PRs : head'[p] \in Heads
  BY TypeInvParts, TypeInvPartsNext DEF GitHubOK
<1>1. RetestIsTheLatest'
  <2>1. CASE UNCHANGED branch
    BY <2>1 DEF RetestInv, RetestIsTheLatest
  <2>2. ASSUME NEW c \in MergeCommit, c.how \in Others, branch' = Append(branch, c)
        PROVE  RetestIsTheLatest'
    <3>1. c.how # "retest"
      BY <2>2 DEF Others
    <3>2. QED
      BY <1>0, <2>2, <3>1, AppendLatest DEF RetestInv
  <2>3. QED
    BY <2>1, <2>2 DEF OthersGrow
<1>2. RetestAsked'
  <2> SUFFICES ASSUME e2e.pc \in {"retest", "waitPending"}
               PROVE  LET p == e2e.obj.pr IN
                      /\ e2e.sha <= e2e.obj.head /\ e2e.obj.head <= head'[p]
                      /\ \A k \in e2e.sha .. head'[p] :
                           \/ OthersSince(branch', ciBase'[p][k])
                           \/ k = e2e.sha /\ ci'[p][k] # "pending"
    BY DEF RetestAsked
  <2> DEFINE p == e2e.obj.pr
  <2>1. p \in PRs /\ e2e.obj.head \in Nat /\ e2e.sha \in Nat
    BY <1>0 DEF E2EOK, MungeObject
  <2>2. head[p] \in Nat /\ head'[p] \in Nat /\ \A k \in 0 .. head[p] : ciBase[p][k] \in Nat
    <3>1. head[p] \in 0 .. MaxHead /\ head'[p] \in 0 .. MaxHead /\ ciBase[p] \in [0 .. MaxHead -> Nat]
      BY <1>0, <2>1 DEF GitHubOK
    <3> HIDE DEF p
    <3>2. QED
      BY <3>1
  <2>3. /\ e2e.sha <= e2e.obj.head /\ e2e.obj.head <= head[p]
        /\ \A k \in e2e.sha .. head[p] :
             \/ OthersSince(branch, ciBase[p][k])
             \/ k = e2e.sha /\ ci[p][k] # "pending"
    BY DEF RetestInv, RetestAsked
  <2> HIDE DEF p
  <2>4. TestsGoOn(p)
    BY <2>1
  <2>5. e2e.obj.head <= head'[p]
    BY <2>1, <2>2, <2>3, <2>4 DEF TestsGoOn
  <2>6. ASSUME NEW k \in e2e.sha .. head'[p]
        PROVE  OthersSince(branch', ciBase'[p][k]) \/ (k = e2e.sha /\ ci'[p][k] # "pending")
    <3>1. k \in 0 .. head'[p]
      BY <2>1, <2>2
    <3>2. CASE ciBase'[p][k] = Len(branch)
      BY <1>0, <3>2, NewestBase
    <3>3. CASE /\ k <= head[p] /\ ciBase'[p][k] = ciBase[p][k]
               /\ ci'[p][k] = "pending" => ci[p][k] = "pending"
      <4>1. k \in e2e.sha .. head[p] /\ ciBase[p][k] \in Nat
        BY <2>1, <2>2, <3>1, <3>3
      <4>2. CASE OthersSince(branch, ciBase[p][k])
        BY <1>0, <3>3, <4>1, <4>2, OthersSinceKept
      <4>3. CASE k = e2e.sha /\ ci[p][k] # "pending"
        BY <3>3, <4>3
      <4>4. QED
        BY <2>3, <4>1, <4>2, <4>3
    <3>4. QED
      BY <2>4, <3>1, <3>2, <3>3 DEF TestsGoOn
  <2>7. QED
    BY <2>3, <2>5, <2>6 DEF p
<1>3. RetestSeen'
  <2> SUFFICES ASSUME e2e.pc \in {"waitNotPending", "refresh", "lock", "check", "merge"}
               PROVE  TestedSince(branch', ciBase'[e2e.obj.pr], e2e.obj.head, head'[e2e.obj.pr])
    BY DEF RetestSeen
  <2>1. e2e.obj.pr \in PRs /\ e2e.obj.head \in Heads
    BY <1>0 DEF E2EOK, MungeObject
  <2>2. TestedSince(branch, ciBase[e2e.obj.pr], e2e.obj.head, head[e2e.obj.pr])
    BY DEF RetestInv, RetestSeen
  <2>3. QED
    BY <1>0, <2>1, <2>2, TestedSinceKept
<1>4. InterruptedIsNext'
  <2> SUFFICES ASSUME interruptedObj # None
               PROVE  TestedSince(branch', ciBase'[interruptedObj.obj.pr], interruptedObj.head,
                                  head'[interruptedObj.obj.pr])
    BY DEF RetestInv, InterruptedIsNext
  <2>1. interruptedObj.obj.pr \in PRs /\ interruptedObj.head \in Heads
    BY <1>0 DEF InterruptedOK, Interrupted, MungeObject
  <2>2. TestedSince(branch, ciBase[interruptedObj.obj.pr], interruptedObj.head,
                    head[interruptedObj.obj.pr])
    BY DEF RetestInv, InterruptedIsNext
  <2>3. QED
    BY <1>0, <2>1, <2>2, TestedSinceKept
<1>5. QED
  BY <1>1, <1>2, <1>3, <1>4 DEF RetestInv

LEMMA TestsSteps ==
  ASSUME TypeInv, TypeInv', [Next]_vars
  PROVE  \A p \in PRs : TestsGoOn(p)
<1> SUFFICES ASSUME NEW p \in PRs PROVE TestsGoOn(p)
  OBVIOUS
<1>0. GitHubOK /\ BranchOK /\ GitHubOK'
  BY TypeInvParts, TypeInvPartsNext
<1>1. head[p] \in 0 .. MaxHead /\ head'[p] \in 0 .. MaxHead /\ MaxHead \in Nat
  BY <1>0 DEF GitHubOK
<1>2. /\ ciBase \in [PRs -> [Heads -> Nat]] /\ ci \in [PRs -> [Heads -> CIStates]]
      /\ head \in [PRs -> Heads]
  BY <1>0 DEF GitHubOK
<1>3. CASE UNCHANGED <<head, ci, ciBase>>
  BY <1>1, <1>3 DEF TestsGoOn
<1>4. ASSUME NEW q \in PRs, Push(q) PROVE TestsGoOn(p)
  <2> DEFINE n == head[q] + 1
  <2>1. /\ n \in Heads /\ head' = [head EXCEPT ![q] = n]
        /\ ci' = [ci EXCEPT ![q][n] = "pending"]
        /\ ciBase' = [ciBase EXCEPT ![q][n] = Len(branch)]
    <3>1. head[q] \in 0 .. MaxHead /\ head[q] < MaxHead /\ MaxHead \in Nat
      BY <1>2, <1>4 DEF Push
    <3>2. n \in Heads
      BY <3>1
    <3>3. QED
      BY <1>4, <3>2 DEF Push
  <2>2. CASE q # p
    <3>1. head'[p] = head[p] /\ ci'[p] = ci[p] /\ ciBase'[p] = ciBase[p]
      BY <1>2, <2>1, <2>2
    <3>2. QED
      BY <1>1, <3>1 DEF TestsGoOn
  <2>3. CASE q = p
    <3>1. /\ head'[p] = n /\ ciBase'[p][n] = Len(branch)
          /\ \A k \in Heads \ {n} : ciBase'[p][k] = ciBase[p][k] /\ ci'[p][k] = ci[p][k]
      BY <1>2, <2>1, <2>3
    <3>2. head[p] <= head'[p]
      BY <1>1, <2>3, <3>1
    <3>3. \A k \in 0 .. head'[p] : k = n \/ (k \in Heads \ {n} /\ k <= head[p])
      BY <1>1, <2>3, <3>1
    <3> HIDE DEF n
    <3>4. QED
      BY <3>1, <3>2, <3>3 DEF TestsGoOn
  <2>4. QED
    BY <2>2, <2>3
<1>5. ASSUME NEW q \in PRs, StartTests(q) PROVE TestsGoOn(p)
  <2>1. UNCHANGED head /\ ciBase' = [ciBase EXCEPT ![q][head[q]] = Len(branch)]
        /\ ci' = [ci EXCEPT ![q][head[q]] = "pending"]
    BY <1>5 DEF StartTests, prVars
  <2>2. \A k \in Heads : \/ ciBase'[p][k] = Len(branch)
                         \/ ciBase'[p][k] = ciBase[p][k] /\ ci'[p][k] = ci[p][k]
    BY <1>2, <2>1
  <2>3. \A k \in 0 .. head'[p] : k \in Heads /\ k <= head[p]
    BY <1>1, <2>1
  <2>4. head[p] <= head'[p]
    BY <1>1, <2>1
  <2>5. QED
    BY <2>2, <2>3, <2>4 DEF TestsGoOn
<1>6. ASSUME NEW q \in PRs, NEW h \in Heads, FinishTests(q, h) PROVE TestsGoOn(p)
  <2>1. /\ UNCHANGED <<head, ciBase>>
        /\ \/ ci' = [ci EXCEPT ![q][h] = "success"]
           \/ ci' = [ci EXCEPT ![q][h] = "failure"]
    BY <1>6 DEF FinishTests, prVars
  <2>2. \A k \in Heads : ci'[p][k] = "pending" => ci[p][k] = "pending"
    <3>1. CASE ci' = [ci EXCEPT ![q][h] = "success"]
      BY <1>2, <3>1
    <3>2. CASE ci' = [ci EXCEPT ![q][h] = "failure"]
      BY <1>2, <3>2
    <3>3. QED
      BY <2>1, <3>1, <3>2
  <2>3. \A k \in 0 .. head'[p] : k \in Heads /\ k <= head[p]
    BY <1>1, <2>1
  <2>4. head[p] <= head'[p]
    BY <1>1, <2>1
  <2>5. QED
    BY <2>1, <2>2, <2>3, <2>4 DEF TestsGoOn
<1>7. QED
  BY <1>3, <1>4, <1>5, <1>6, ZenonT(60)
     DEF Next, vars, prVars, ciVars, Munger, EachLoop, ForEachIssueDo, MungerApply, Recheck,
       RecheckFails, Munge, MungeFails, E2E, PollQueue, selectPullRequest, StartE2E, E2EFails,
       ResumeFails, RequestRetest, WaitPoll, WaitForPending, WaitForNotPending, WaitTimeout,
       RefreshTested, LockE2E, CheckTested, MergeE2E, MergeE2EFails, FinishE2E, BatchMerge,
       PollBatches, LockBatch, RecheckBatch, VerifyBatch, MergeBatch, BatchFails, Environment,
       Conflict, ToggleLabel, BreakJobs, RepairJobs, EmergencyStop, EmergencyResume,
       HandMerge, ReportBatch

\* A commit that is appended has its type, as the branch still has its own.
LEMMA AppendedCommit ==
  ASSUME BranchOK, BranchOK', NEW c, branch' = Append(branch, c)
  PROVE  c \in MergeCommit
<1>1. branch' \in Seq(MergeCommit) /\ Len(branch) \in Nat
  BY DEF BranchOK
<1>2. branch'[Len(branch) + 1] = c /\ Len(branch) + 1 \in DOMAIN branch'
  BY DEF BranchOK
<1>3. QED
  BY <1>1, <1>2, ElementOfSeq

LEMMA OthersSteps ==
  ASSUME TypeInv, TypeInv', BatchMerge \/ Environment \/ Munger \/ UNCHANGED vars
  PROVE  OthersGrow
<1>0. BranchOK /\ BranchOK'
  BY TypeInvParts, TypeInvPartsNext
<1>1. ASSUME NEW p, NEW how \in Others, NEW base, NEW pulls, MergePR(p, how, base, pulls)
      PROVE  OthersGrow
  <2> DEFINE c == [pr |-> p, head |-> head[p], how |-> how, base |-> base, pulls |-> pulls]
  <2>1. branch' = Append(branch, c) /\ c.how \in Others
    BY <1>1 DEF MergePR
  <2> HIDE DEF c
  <2>2. c \in MergeCommit
    BY <1>0, <2>1, AppendedCommit
  <2>3. QED
    BY <2>1, <2>2 DEF OthersGrow
<1>2. "hand" \in Others /\ "batch" \in Others
  BY DEF Others
<1>3. CASE UNCHANGED branch
  BY <1>3 DEF OthersGrow
<1>4. CASE MergeBatch \/ BatchFails
  BY <1>1, <1>2, <1>3, <1>4 DEF MergeBatch, BatchFails
<1>5. ASSUME NEW p \in PRs, HandMerge(p) PROVE OthersGrow
  BY <1>1, <1>2, <1>5 DEF HandMerge
<1>6. QED
  BY <1>3, <1>4, <1>5, ZenonT(60)
     DEF vars, Munger, EachLoop, ForEachIssueDo, MungerApply, Recheck, RecheckFails, Munge,
       MungeFails, BatchMerge, PollBatches, LockBatch, RecheckBatch, VerifyBatch, Environment,
       Push, ToggleLabel, Conflict, StartTests, FinishTests, BreakJobs, RepairJobs,
       EmergencyStop, EmergencyResume, ReportBatch

\* A step of the e2e goroutine, or of the munger on its object, that changes
\* neither the branch nor what was tested.
GitHubStays == UNCHANGED <<head, ci, ciBase, branch>>

\* The goroutine's object is as it was or refreshed, and knows the current head.
LEMMA RefreshedHead ==
  ASSUME TypeInv, NEW o \in MungeObject
  PROVE  /\ Refresh(o).pr = o.pr /\ Refresh(o).head = head[o.pr] /\ Refresh(o) \in MungeObject
         /\ o.pr \in PRs /\ o.head \in Nat /\ head[o.pr] \in 0 .. MaxHead
<1>1. o.pr \in PRs /\ o.head \in Nat
  BY DEF MungeObject
<1>2. head[o.pr] \in 0 .. MaxHead
  BY <1>1, TypeInvParts DEF GitHubOK
<1>3. Refresh(o) \in MungeObject /\ Refresh(o).pr = o.pr
  BY RefreshType DEF TypeInv
<1>4. Refresh(o).head = head[o.pr]
  BY DEF Refresh, GetObject
<1>5. QED
  BY <1>1, <1>2, <1>3, <1>4

\* Where the tests of a head count, those of the current head do.
LEMMA TestedNow ==
  ASSUME NEW s, NEW bases, NEW h \in Nat, NEW t \in Nat, TestedSince(s, bases, h, t)
  PROVE  TestedSince(s, bases, t, t) /\ OthersSince(s, bases[t])
<1>1. t \in h .. t /\ \A k \in t .. t : k = t
  BY DEF TestedSince
<1>2. QED
  BY <1>1 DEF TestedSince

Asking == {"retest", "waitPending"}
Seeing == {"waitNotPending", "refresh", "lock", "check", "merge"}

\* The goroutine stays with its pull request, with the object it had or a fresh one.
LEMMA RetestGoesOn ==
  ASSUME TypeInv, RetestInv, GitHubStays, UNCHANGED interruptedObj,
         e2e.obj \in MungeObject, e2e'.obj \in {e2e.obj, Refresh(e2e.obj)}, e2e'.sha = e2e.sha,
         e2e'.pc \in Asking => e2e.pc \in Asking,
         e2e'.pc \in Seeing => e2e.pc \in Seeing,
         interruptedObj # None => e2e'.pc = e2e.pc
  PROVE  RetestInv'
<1> DEFINE p == e2e.obj.pr
<1>1. /\ e2e'.obj.pr = p /\ e2e'.obj.head \in {e2e.obj.head, head[p]}
      /\ p \in PRs /\ e2e.obj.head \in Nat /\ head[p] \in Nat
  BY RefreshedHead
<1>2. RetestIsTheLatest'
  BY DEF GitHubStays, RetestInv, RetestIsTheLatest
<1>3. RetestAsked'
  <2> SUFFICES ASSUME e2e'.pc \in Asking
               PROVE  /\ e2e'.sha <= e2e'.obj.head /\ e2e'.obj.head <= head[p]
                      /\ \A k \in e2e'.sha .. head[p] :
                           \/ OthersSince(branch, ciBase[p][k])
                           \/ k = e2e'.sha /\ ci[p][k] # "pending"
    BY <1>1 DEF RetestAsked, GitHubStays, Asking
  <2>1. /\ e2e.sha <= e2e.obj.head /\ e2e.obj.head <= head[p]
        /\ \A k \in e2e.sha .. head[p] :
             \/ OthersSince(branch, ciBase[p][k])
             \/ k = e2e.sha /\ ci[p][k] # "pending"
    BY DEF RetestInv, RetestAsked, Asking
  <2>2. e2e.sha \in Nat
    BY TypeInvParts DEF E2EOK
  <2> HIDE DEF p
  <2>3. e2e'.sha <= e2e'.obj.head /\ e2e'.obj.head <= head[p]
    BY <1>1, <2>1, <2>2
  <2>4. QED
    BY <2>1, <2>3
<1>4. RetestSeen'
  <2> SUFFICES ASSUME e2e'.pc \in Seeing
               PROVE  TestedSince(branch, ciBase[p], e2e'.obj.head, head[p])
    BY <1>1 DEF RetestSeen, GitHubStays, Seeing
  <2>1. TestedSince(branch, ciBase[p], e2e.obj.head, head[p])
    BY DEF RetestInv, RetestSeen, Seeing
  <2> HIDE DEF p
  <2>2. QED
    BY <1>1, <2>1, TestedNow
<1>5. InterruptedIsNext'
  BY <1>1 DEF RetestInv, InterruptedIsNext, GitHubStays
<1>6. QED
  BY <1>2, <1>3, <1>4, <1>5 DEF RetestInv

\* The goroutine is done with its pull request, or has none.
LEMMA RetestRests ==
  ASSUME RetestInv, GitHubStays, interruptedObj' \in {None, interruptedObj},
         e2e'.pc \in {"finish", "poll", "select"}
  PROVE  RetestInv'
BY DEF RetestInv, RetestIsTheLatest, RetestAsked, RetestSeen, InterruptedIsNext, GitHubStays

\* selectPullRequest takes the interrupted pull request first.
LEMMA RetestSelect ==
  ASSUME TypeInv, RetestInv, selectPullRequest
  PROVE  RetestInv'
<1>0. E2EOK
  BY TypeInvParts
<1>1. GitHubStays /\ UNCHANGED interruptedObj
  BY DEF selectPullRequest, GitHubStays, prVars, ciVars
<1>2. CASE e2e' = IdleE2E
  BY <1>1, <1>2, IdleType, RetestRests
<1>3. CASE e2e' # IdleE2E
  <2>1. e2e'.pc = "start" /\ (interruptedObj # None => e2e'.obj = interruptedObj.obj)
    BY <1>0, <1>3 DEF selectPullRequest, E2EOK
  <2>2. QED
    BY <1>1, <2>1
       DEF RetestInv, RetestIsTheLatest, RetestAsked, RetestSeen, InterruptedIsNext, GitHubStays
<1>4. QED
  BY <1>2, <1>3

\* What StartE2E leads to: it retests only a commit whose tests passed, and goes
\* on without a retest only with the commit that was interrupted.
LEMMA RetestStart ==
  ASSUME TypeInv, RetestInv, StartE2E
  PROVE  RetestInv'
<1> DEFINE o == Refresh(e2e.obj)
           p == e2e.obj.pr
<1>0. E2EOK /\ InterruptedOK /\ e2e.pc = "start" /\ e2e.obj \in MungeObject
  BY TypeInvParts DEF StartE2E, E2EOK
<1>1. o.pr = p /\ o.head = head[p] /\ head[p] \in Nat
  BY <1>0, RefreshedHead
<1>2. GitHubStays /\ interruptedObj' = None
  BY DEF StartE2E, GitHubStays, prVars, ciVars
<1>3. \/ e2e'.pc \in {"finish", "poll", "instant"}
      \/ /\ e2e' = [pc |-> "retest", obj |-> o, sha |-> o.head]
         /\ Verdict(o, TRUE) = "ok"
      \/ /\ e2e' = [pc |-> "lock", obj |-> o, sha |-> o.head]
         /\ interruptedObj # None /\ interruptedObj.head = o.head
  <2>1. \/ e2e' = [e2e EXCEPT !.pc = "finish", !.obj = o]
        \/ e2e' = [e2e EXCEPT !.pc = "instant", !.obj = o]
        \/ /\ e2e' = [pc |-> "retest", obj |-> o, sha |-> o.head]
           /\ Verdict(o, TRUE) = "ok"
        \/ e2e' = IdleE2E
        \/ /\ e2e' = [pc |-> "lock", obj |-> o, sha |-> o.head]
           /\ interruptedObj # None /\ interruptedObj.head = o.head
    BY DEF StartE2E, hasSHAChanged
  <2> HIDE DEF o
  <2>2. CASE e2e' = [e2e EXCEPT !.pc = "finish", !.obj = o]
    BY <1>0, <2>2 DEF E2EOK
  <2>3. CASE e2e' = [e2e EXCEPT !.pc = "instant", !.obj = o]
    BY <1>0, <2>3 DEF E2EOK
  <2>4. QED
    BY <2>1, <2>2, <2>3, IdleType
<1> SUFFICES RetestAsked' /\ RetestSeen'
  BY <1>2 DEF RetestInv, RetestIsTheLatest, InterruptedIsNext, GitHubStays
<1>4. CASE e2e'.pc \in {"finish", "poll", "instant"}
  BY <1>4 DEF RetestAsked, RetestSeen
<1>5. CASE /\ e2e' = [pc |-> "retest", obj |-> o, sha |-> o.head]
           /\ Verdict(o, TRUE) = "ok"
  <2>1. ci[p][head[p]] = "success"
    BY <1>1, <1>5 DEF Verdict
  <2>2. e2e'.pc = "retest" /\ e2e'.sha = head[p] /\ e2e'.obj.head = head[p] /\ e2e'.obj.pr = p
    BY <1>1, <1>5
  <2> HIDE DEF p
  <2>3. head[p] <= head[p] /\ \A k \in head[p] .. head[p] : k = head[p]
    BY <1>1
  <2>4. QED
    BY <1>2, <2>1, <2>2, <2>3 DEF RetestAsked, RetestSeen, GitHubStays
<1>6. CASE /\ e2e' = [pc |-> "lock", obj |-> o, sha |-> o.head]
           /\ interruptedObj # None /\ interruptedObj.head = o.head
  <2>1. TestedSince(branch, ciBase[p], head[p], head[p])
    BY <1>0, <1>1, <1>6 DEF RetestInv, InterruptedIsNext
  <2>2. e2e'.pc = "lock" /\ e2e'.obj.head = head[p] /\ e2e'.obj.pr = p
    BY <1>1, <1>6
  <2> HIDE DEF p
  <2>3. QED
    BY <1>2, <2>1, <2>2 DEF RetestAsked, RetestSeen, GitHubStays
<1>7. QED
  BY <1>3, <1>4, <1>5, <1>6

\* A test run that is pending after the retest was asked for is a new one.
LEMMA RetestPending ==
  ASSUME TypeInv, RetestInv, WaitForPending
  PROVE  RetestInv'
<1> DEFINE p == e2e.obj.pr
           h == e2e.obj.head
<1>0. E2EOK /\ e2e.pc = "waitPending" /\ e2e.obj \in MungeObject
  BY TypeInvParts DEF WaitForPending, E2EOK
<1>1. GitHubStays /\ UNCHANGED interruptedObj /\ ci[p][h] = "pending"
  BY DEF WaitForPending, StatusOf, GitHubStays, prVars, ciVars
<1>2. e2e'.pc = "waitNotPending" /\ e2e'.obj = e2e.obj
  BY <1>0 DEF WaitForPending, E2EOK
<1>3. interruptedObj = None
  BY <1>0 DEF RetestInv, InterruptedIsNext
<1>4. p \in PRs /\ h \in Nat /\ head[p] \in Nat /\ e2e.sha \in Nat
  BY <1>0, RefreshedHead DEF E2EOK
<1>5. TestedSince(branch, ciBase[p], h, head[p])
  <2>1. /\ e2e.sha <= h /\ h <= head[p]
        /\ \A k \in e2e.sha .. head[p] :
             OthersSince(branch, ciBase[p][k]) \/ (k = e2e.sha /\ ci[p][k] # "pending")
    BY <1>0 DEF RetestInv, RetestAsked
  <2> HIDE DEF p, h
  <2>2. ASSUME NEW k \in h .. head[p] PROVE OthersSince(branch, ciBase[p][k])
    <3>1. k \in e2e.sha .. head[p] /\ (k = e2e.sha => k = h)
      BY <1>4, <2>1
    <3>2. QED
      BY <1>1, <2>1, <3>1
  <2>3. QED
    BY <2>1, <2>2 DEF TestedSince
<1>6. QED
  BY <1>1, <1>2, <1>3, <1>5
     DEF RetestInv, RetestIsTheLatest, RetestAsked, RetestSeen, InterruptedIsNext, GitHubStays

\* The last checks: what is interrupted there was tested, with the head it has.
LEMMA RetestCheck ==
  ASSUME TypeInv, RetestInv, CheckTested
  PROVE  RetestInv'
<1>0. E2EOK /\ e2e.pc = "check" /\ e2e.obj \in MungeObject
  BY TypeInvParts DEF CheckTested, E2EOK
<1>1. GitHubStays /\ interruptedObj = None
  BY <1>0 DEF CheckTested, GitHubStays, prVars, ciVars, RetestInv, InterruptedIsNext
<1>2. \/ UNCHANGED interruptedObj /\ e2e' = [e2e EXCEPT !.pc = "finish"]
      \/ UNCHANGED interruptedObj /\ e2e' = IdleE2E
      \/ UNCHANGED interruptedObj /\ e2e' = [e2e EXCEPT !.pc = "merge"]
      \/ /\ interruptedObj' = [obj |-> e2e.obj, head |-> e2e.obj.head, base |-> Len(branch)]
         /\ e2e' = [e2e EXCEPT !.pc = "finish"]
  BY DEF CheckTested
<1>3. CASE UNCHANGED interruptedObj /\ (e2e' = [e2e EXCEPT !.pc = "finish"] \/ e2e' = IdleE2E)
  <2>1. e2e'.pc \in {"finish", "poll"}
    BY <1>0, <1>3, IdleType DEF E2EOK
  <2>2. QED
    BY <1>1, <1>3, <2>1, RetestRests
<1>4. CASE UNCHANGED interruptedObj /\ e2e' = [e2e EXCEPT !.pc = "merge"]
  <2>1. e2e'.pc = "merge" /\ e2e'.obj = e2e.obj /\ e2e'.sha = e2e.sha
    BY <1>0, <1>4 DEF E2EOK
  <2>2. QED
    BY <1>0, <1>1, <1>4, <2>1, RetestGoesOn DEF Asking, Seeing
<1>5. CASE /\ interruptedObj' = [obj |-> e2e.obj, head |-> e2e.obj.head, base |-> Len(branch)]
           /\ e2e' = [e2e EXCEPT !.pc = "finish"]
  <2>1. e2e'.pc = "finish"
    BY <1>0, <1>5 DEF E2EOK
  <2>2. TestedSince(branch, ciBase[e2e.obj.pr], e2e.obj.head, head[e2e.obj.pr])
    BY <1>0 DEF RetestInv, RetestSeen
  <2>3. interruptedObj'.obj.pr = e2e.obj.pr /\ interruptedObj'.head = e2e.obj.head
    BY <1>5
  <2>4. QED
    BY <1>1, <2>1, <2>2, <2>3
       DEF RetestInv, RetestIsTheLatest, RetestAsked, RetestSeen, InterruptedIsNext, GitHubStays
<1>6. QED
  BY <1>2, <1>3, <1>4, <1>5

\* The merge: the test run that vouches for it is the latest.
LEMMA RetestMerge ==
  ASSUME TypeInv, TypeInv', RetestInv, MergeE2E \/ MergeE2EFails
  PROVE  RetestInv'
<1> DEFINE p == e2e.obj.pr
<1>0. /\ E2EOK /\ BranchOK /\ BranchOK' /\ e2e.pc \in {"instant", "merge"}
      /\ e2e.obj \in MungeObject
  BY TypeInvParts, TypeInvPartsNext DEF MergeE2E, MergeE2EFails, E2EOK
<1>1. e2e'.pc = "finish" /\ interruptedObj = None /\ UNCHANGED interruptedObj
  BY <1>0 DEF MergeE2E, MergeE2EFails, E2EOK, RetestInv, InterruptedIsNext
<1>2. \/ UNCHANGED branch
      \/ MergePR(p, "instant", 0, <<>>)
      \/ e2e.pc = "merge" /\ MergePR(p, "retest", ciBase[p][head[p]], <<>>)
  BY <1>0 DEF MergeE2E, MergeE2EFails
<1>3. RetestIsTheLatest'
  <2>1. CASE UNCHANGED branch
    BY <2>1 DEF RetestInv, RetestIsTheLatest
  <2>2. CASE MergePR(p, "instant", 0, <<>>)
    <3> DEFINE c == [pr |-> p, head |-> head[p], how |-> "instant", base |-> 0, pulls |-> <<>>]
    <3>1. branch' = Append(branch, c) /\ c.how # "retest"
      BY <2>2 DEF MergePR
    <3> HIDE DEF c
    <3>2. QED
      BY <1>0, <3>1, AppendedCommit, AppendLatest DEF RetestInv
  <2>3. CASE e2e.pc = "merge" /\ MergePR(p, "retest", ciBase[p][head[p]], <<>>)
    <3> DEFINE c == [pr |-> p, head |-> head[p], how |-> "retest",
                     base |-> ciBase[p][head[p]], pulls |-> <<>>]
    <3>1. branch' = Append(branch, c) /\ c.base = ciBase[p][head[p]]
      BY <2>3 DEF MergePR
    <3>2. TestedSince(branch, ciBase[p], e2e.obj.head, head[p])
      BY <2>3 DEF RetestInv, RetestSeen
    <3>3. e2e.obj.head \in Nat /\ head[p] \in Nat
      BY <1>0, RefreshedHead
    <3> HIDE DEF c, p
    <3>4. OthersSince(branch, c.base)
      BY <3>1, <3>2, <3>3, TestedNow
    <3>5. QED
      BY <1>0, <3>1, <3>4, AppendedCommit, AppendLatest DEF RetestInv
  <2>4. QED
    BY <1>2, <2>1, <2>2, <2>3
<1>4. QED
  BY <1>1, <1>3 DEF RetestInv, RetestAsked, RetestSeen, InterruptedIsNext

LEMMA RetestNext ==
  ASSUME RetestRequired, TypeInv, RetestInv, [Next]_vars
  PROVE  RetestInv'
<1>0. E2EOK /\ TypeInv'
  BY TypeInvParts, TypeInvNext
<1>1. CASE BatchMerge \/ Environment \/ UNCHANGED vars
  <2>1. UNCHANGED <<e2e, interruptedObj>>
    BY <1>1
       DEF vars, serverVars, BatchMerge, PollBatches, LockBatch, RecheckBatch, VerifyBatch,
         MergeBatch, BatchFails, Environment, Push, ToggleLabel, Conflict, StartTests,
         FinishTests, BreakJobs, RepairJobs, EmergencyStop, EmergencyResume, HandMerge,
         ReportBatch
  <2>2. QED
    BY <1>0, <1>1, <2>1, OthersSteps, TestsSteps, RetestKept
<1>2. ASSUME NEW p \in PRs, Recheck(p), ~UNCHANGED e2e PROVE RetestInv'
  <2>1. GitHubStays /\ UNCHANGED interruptedObj
    BY <1>2 DEF Recheck, GitHubStays, prVars, ciVars
  <2>2. e2e.pc \notin {"poll", "select"} /\ e2e' = [e2e EXCEPT !.obj = Refresh(e2e.obj)]
    BY <1>2 DEF Recheck, RefreshShared
  <2>3. /\ e2e.obj \in MungeObject /\ e2e'.obj = Refresh(e2e.obj) /\ e2e'.sha = e2e.sha
        /\ e2e'.pc = e2e.pc
    BY <1>0, <2>2 DEF E2EOK
  <2>4. QED
    BY <2>1, <2>3, RetestGoesOn
<1>3. CASE Munger
  <2>1. CASE UNCHANGED e2e
    <3>1. UNCHANGED interruptedObj
      BY <1>3
         DEF Munger, EachLoop, ForEachIssueDo, MungerApply, Recheck, RecheckFails, Munge, MungeFails
    <3>2. QED
      BY <1>0, <1>3, <2>1, <3>1, OthersSteps, TestsSteps, RetestKept
  <2>2. QED
    BY <1>2, <1>3, <2>1
       DEF Munger, EachLoop, ForEachIssueDo, MungerApply, RecheckFails, Munge, MungeFails
<1>4. CASE E2E
  <2>1. CASE PollQueue \/ E2EFails \/ ResumeFails \/ WaitTimeout \/ FinishE2E
    <3>1. GitHubStays /\ interruptedObj' \in {None, interruptedObj}
      BY <2>1 DEF PollQueue, E2EFails, ResumeFails, WaitTimeout, FinishE2E, GitHubStays, prVars, ciVars
    <3>2. e2e'.pc \in {"finish", "poll", "select"}
      BY <1>0, <2>1, IdleType
         DEF PollQueue, E2EFails, ResumeFails, WaitTimeout, FinishE2E, E2EOK
    <3>3. QED
      BY <3>1, <3>2, RetestRests
  <2>2. CASE RequestRetest \/ WaitPoll \/ WaitForNotPending \/ RefreshTested \/ LockE2E
    <3>1. GitHubStays /\ UNCHANGED interruptedObj
      BY <2>2
         DEF RequestRetest, WaitPoll, WaitForNotPending, RefreshTested, LockE2E, GitHubStays,
           prVars, ciVars
    <3>2. e2e.pc \in Asking \cup Seeing /\ e2e.obj \in MungeObject /\ interruptedObj = None
      BY <1>0, <2>2
         DEF RequestRetest, WaitPoll, WaitForNotPending, RefreshTested, LockE2E, E2EOK,
           RetestInv, InterruptedIsNext, Asking, Seeing
    <3>3. \/ e2e'.pc = "finish"
          \/ /\ e2e'.obj \in {e2e.obj, Refresh(e2e.obj)} /\ e2e'.sha = e2e.sha
             /\ e2e'.pc \in Asking => e2e.pc \in Asking
             /\ e2e'.pc \in Seeing => e2e.pc \in Seeing
      <4>1. CASE RequestRetest
        BY <1>0, <4>1 DEF RequestRetest, E2EOK, Asking, Seeing
      <4>2. CASE WaitPoll
        BY <1>0, <4>2 DEF WaitPoll, E2EOK
      <4>3. CASE WaitForNotPending \/ RefreshTested \/ LockE2E
        BY <1>0, <4>3 DEF WaitForNotPending, RefreshTested, LockE2E, E2EOK, Asking, Seeing
      <4>4. QED
        BY <2>2, <4>1, <4>2, <4>3
    <3>4. QED
      BY <3>1, <3>2, <3>3, RetestGoesOn, RetestRests
  <2>3. QED
    BY <1>0, <1>4, <2>1, <2>2, RetestSelect, RetestStart, RetestPending, RetestCheck, RetestMerge
       DEF E2E
<1>5. QED
  BY <1>1, <1>3, <1>4 DEF Next

LEMMA RetestInit == Init => RetestInv
<1> SUFFICES ASSUME Init PROVE RetestInv
  OBVIOUS
<1>1. e2e.pc = "poll" /\ interruptedObj = None /\ DOMAIN branch = {}
  BY IdleType DEF Init
<1>2. QED
  BY <1>1 DEF RetestInv, RetestIsTheLatest, RetestAsked, RetestSeen, InterruptedIsNext

\* Where there are tests to run, what the e2e goroutine merges after a retest
\* was tested with everything it had merged before: whatever people push, label
\* or merge, whatever calls fail, whatever is interrupted and taken up again,
\* only merges by hand and of batches can come between the test and the merge.
THEOREM RetestLatest == RetestRequired /\ Spec => []RetestIsTheLatest
<1> SUFFICES ASSUME RetestRequired PROVE Spec => []RetestIsTheLatest
  OBVIOUS
<1>1. TypeInv /\ RetestInv /\ [Next]_vars => RetestInv'
  BY RetestNext
<1>2. RetestInv => RetestIsTheLatest
  BY DEF RetestInv
<1>3. QED
  BY <1>1, <1>2, RetestInit, TypeInvAlways, PTL DEF Spec

(***************************************************************************)
(* Without merges by hand and without batches                              *)
(***************************************************************************)

\* Only the e2e goroutine merges.
Alone == "hand" \notin Disruptions /\ MaxBatches = 0

OnlyE2E ==
  /\ batches = {} /\ batch = IdleBatch
  /\ \A i \in DOMAIN branch : branch[i].how \notin Others

LEMMA AloneNext ==
  ASSUME Alone, TypeInv, OnlyE2E, [Next]_vars
  PROVE  OnlyE2E'
<1>0. BranchOK /\ batch.pc = "poll" /\ Cardinality(batches) = 0
  BY TypeInvParts, IdleType, FS_EmptySet DEF OnlyE2E
<1>1. ~BatchMerge
  BY <1>0 DEF OnlyE2E, BatchMerge, LockBatch, RecheckBatch, VerifyBatch, MergeBatch, BatchFails
<1>2. \A p \in PRs : ~HandMerge(p)
  BY DEF Alone, HandMerge, Disturb
<1>3. \A prs : ~ReportBatch(prs)
  BY <1>0 DEF Alone, ReportBatch
<1>4. UNCHANGED <<batches, batch>>
  BY <1>1, <1>2, <1>3, ZenonT(60)
     DEF Next, vars, serverVars, Munger, EachLoop, ForEachIssueDo, MungerApply, Recheck,
       RecheckFails, Munge, MungeFails, E2E, PollQueue, selectPullRequest, StartE2E, E2EFails,
       ResumeFails, RequestRetest, WaitPoll, WaitForPending, WaitForNotPending, WaitTimeout,
       RefreshTested, LockE2E, CheckTested, MergeE2E, MergeE2EFails, FinishE2E, Environment,
       Push, Conflict, StartTests, FinishTests, ToggleLabel, BreakJobs, RepairJobs,
       EmergencyStop, EmergencyResume
<1>5. \/ UNCHANGED branch
      \/ \E how \in {"instant", "retest"} : \E base : MergePR(e2e.obj.pr, how, base, <<>>)
  BY <1>1, <1>2, <1>3, ZenonT(60)
     DEF Next, vars, Munger, EachLoop, ForEachIssueDo, MungerApply, Recheck,
       RecheckFails, Munge, MungeFails, E2E, PollQueue, selectPullRequest, StartE2E, E2EFails,
       ResumeFails, RequestRetest, WaitPoll, WaitForPending, WaitForNotPending, WaitTimeout,
       RefreshTested, LockE2E, CheckTested, MergeE2E, MergeE2EFails, FinishE2E, Environment,
       Push, Conflict, StartTests, FinishTests, ToggleLabel, BreakJobs, RepairJobs,
       EmergencyStop, EmergencyResume
<1>6. \A i \in DOMAIN branch' : branch'[i].how \notin Others
  <2>1. CASE UNCHANGED branch
    BY <2>1 DEF OnlyE2E
  <2>2. ASSUME NEW how \in {"instant", "retest"}, NEW base, MergePR(e2e.obj.pr, how, base, <<>>)
        PROVE  \A i \in DOMAIN branch' : branch'[i].how \notin Others
    <3> DEFINE c == [pr |-> e2e.obj.pr, head |-> head[e2e.obj.pr], how |-> how,
                     base |-> base, pulls |-> <<>>]
    <3>1. branch' = Append(branch, c) /\ c.how \notin Others
      BY <2>2 DEF MergePR, Others
    <3> HIDE DEF c
    <3>2. \A i \in DOMAIN branch' : branch'[i] = c \/ (i \in DOMAIN branch /\ branch'[i] = branch[i])
      BY <1>0, <3>1 DEF BranchOK
    <3>3. QED
      BY <3>1, <3>2 DEF OnlyE2E
  <2>3. QED
    BY <1>5, <2>1, <2>2
<1>7. QED
  BY <1>4, <1>6 DEF OnlyE2E, IdleBatch

LEMMA LatestIsTestedBase ==
  ASSUME TypeInv, OnlyE2E, RetestIsTheLatest
  PROVE  RetestOnTestedBase
<1>0. branch \in Seq(MergeCommit) /\ Len(branch) \in Nat /\ DOMAIN branch = 1 .. Len(branch)
  BY TypeInvParts DEF BranchOK
<1> SUFFICES ASSUME NEW i \in DOMAIN branch, branch[i].how = "retest"
             PROVE  branch[i].base = i - 1
  BY DEF RetestOnTestedBase
<1>1. i \in 1 .. Len(branch) /\ branch[i].base \in Nat
  <2>1. branch[i] \in MergeCommit
    BY <1>0
  <2>2. QED
    BY <1>0, <2>1 DEF MergeCommit
<1>2. branch[i].base < i /\ \A j \in branch[i].base + 1 .. i - 1 : branch[j].how \in Others
  BY DEF RetestIsTheLatest
<1>3. ~(branch[i].base + 1 <= i - 1)
  <2> SUFFICES ASSUME branch[i].base + 1 <= i - 1 PROVE FALSE
    OBVIOUS
  <2>1. i - 1 \in DOMAIN branch /\ i - 1 \in branch[i].base + 1 .. i - 1
    BY <1>0, <1>1
  <2>2. QED
    BY <1>2, <2>1 DEF OnlyE2E
<1>4. QED
  BY <1>1, <1>2, <1>3

\* Where nobody else merges, a retested pull request is merged into exactly the
\* branch its last test run started on, at once or after an interruption.
THEOREM RetestTested == RetestRequired /\ Alone /\ Spec => []RetestOnTestedBase
<1> SUFFICES ASSUME RetestRequired, Alone PROVE Spec => []RetestOnTestedBase
  OBVIOUS
<1>1. Init => OnlyE2E
  BY DEF Init, OnlyE2E
<1>2. TypeInv /\ OnlyE2E /\ [Next]_vars => OnlyE2E'
  BY AloneNext
<1>3. TypeInv /\ OnlyE2E /\ RetestIsTheLatest => RetestOnTestedBase
  BY LatestIsTestedBase
<1>4. Spec => []RetestIsTheLatest
  BY RetestLatest
<1>5. QED
  BY <1>1, <1>2, <1>3, <1>4, TypeInvAlways, PTL DEF Spec

============================================================================
