# Verification of the kubernetes contrib repository

The repository is a collection of about thirty independent programs around
Kubernetes. Only a few of them coordinate several threads or machines, keep
state across failures and can get an order of events wrong; those are what this
development is about. Five are modelled:

| Program | Modules | Runs |
|---|---|---|
| submit queue of `mungegithub`, which decides what is merged into the Kubernetes repository | `SubmitQueue`, `SubmitQueueProofs`, `SubmitQueueMergeProofs` | `sq_*`, `v_review` |
| cluster autoscaler, which adds nodes to a cluster and deletes them | `UsageTracker`, `ClusterAutoscaler` and their `...Proofs` | `ca_*` |
| GCE ingress controller, which keeps cloud load balancers for Ingresses | `GCEIngress` (all of them, shared resources), `L7` (one, in detail) and their `...Proofs` | `gi_sync`, `l7`, `v_nodes` |
| leader election sidecar and library | `LeaderElection`, implementing `Mastership`; `LeaderElectionProofs` | `le_lease` |
| rescheduler, which makes room for critical pods | `Rescheduler`, `ReschedulerProofs` | `rs_taints` |

An `MC...` module gives each its small instances. The programs do not call each
other: each one meets the others only through the API server, so there is no
composition of two of them. Within a program, `ClusterAutoscaler` is composed of
the main loop and the tracker that it extends, `LeaderElection` instantiates
`Mastership`, and `GCEIngress` and `L7` look at the same controller at two
grains.

## Inventory

| Part | State | Operations | What is hard | Correct means |
|---|---|---|---|---|
| submit queue (`mungegithub/mungers/submit-queue*.go`) | queue, running marker, interrupted pull request, emergency flag, mergeLock, counters | munge loop, e2e goroutine, batch goroutine, HTTP handlers | three goroutines and GitHub change the same pull requests; every call may fail; stale objects | nothing is merged untested, unreviewed or twice; eligible pull requests are merged |
| GitHub layer (`mungegithub/github/github.go`) | caches inside a MungeObject | Refresh, GetCommits, LabelTime, doWaitStatus, MergePR | what is cached, what is fresh; polls and timeouts | the callers see what they believe to see |
| e2e health (`mungegithub/mungers/e2e`) | results of the last builds, manual resolutions | LoadNonBlockingStatus, GCSBasedStable, SetNotStable | unstable jobs, resolved builds | the queue stops exactly when it should |
| munge loop (`mungegithub/mungegithub.go`) | list of mungers | EachLoop, ForEachIssueDo | runs beside the queue's goroutines | every open issue is visited |
| other mungers, issue sync, reports | labels, comments, issue caches | one Munge per munger | duplicates after a restart | one issue per flake |
| cluster autoscaler (`cluster-autoscaler/*.go`, `simulator`) | unneeded nodes and since when, usage tracker, times of the last scale-up and the last failed trial, caches of nodes and pods | main loop, ScaleUp, FindUnneededNodes, ScaleDown, RemoveNodeFromTracker | the scheduler and the cloud move on while a pass works on its lists; drains fail half way; crashes leave taints; concurrent deletions | a node goes only if its pods fit elsewhere and it was unneeded long enough; groups keep their limits; waiting pods get nodes |
| autoscaler cloud providers and expanders | target sizes, instance cache | IncreaseSize, DeleteNodes, BestOption | check and act in two calls, operations that time out but succeed | sizes stay between the limits |
| GCE ingress controller (`ingress/controllers/gce`) | pools that remember instance groups, backends, load balancers; the cloud's resources; two work queues | sync: Checkpoint, url map, GC; syncNodes; edgeHop and Cleanup of a load balancer | resources shared by Ingresses and referring to each other, any call may fail half way, restarts empty the pools | what is used exists and is reachable, what is unused goes, nothing is forgotten |
| leader election (`election`, with the vendored elector) | annotation with the lease; what each candidate has observed and when; the name that the sidecar serves | NewElection, tryAcquireOrRenew, acquire, renew, callbacks | stale observations, lost answers, slow calls, callbacks in goroutines | at most one leader; some leader in the end; it knows |
| rescheduler (`rescheduler/rescheduler.go`) | taints of nodes, cache of nodes, pods being processed | main loop, prepareNodeForPod, releaseAllTaints, waitForScheduled | cached objects are edited before the update, crash between taint and release | room is made only on reserved nodes; critical pods are scheduled; no node stays tainted |
| addon resizer | deployment resources | PollAPIServer | flapping | resources follow the cluster size |
| keepalived-vip, service-loadbalancer | generated configuration | sync | template output | configuration follows services |
| the rest: dashboards, metrics, command line tools, demos, images, ansible | none of interest | | | |

`PROJECT.json` lists every part with its status, and the hazards with the line
at which each one bites.

## Plan

1. `SubmitQueue` with its proofs. **Done**: every safety property is a theorem.
2. `UsageTracker`, `ClusterAutoscaler` with their proofs. **Done**: every safety
   property is a theorem, those that rest on folds included.
3. `GCEIngress`, `L7` with their proofs. **Done.**
4. `LeaderElection` and its refinement of `Mastership`. **Done**, proved too.
5. `Rescheduler` with its proofs. **Done.**
6. Left: `MergeQueueSpec`, an abstract queue that `SubmitQueue` implements;
   `BatchCommits` (the walk of `matchesCommits` over the commit graph);
   `QueueOrder` (`queueSorter.Less` is a strict weak order); `E2EStability`;
   the addon resizer; a refinement of `GCEIngress` by several copies of `L7`.

## SubmitQueue

### Processes and state

| Process | Code | Control state |
|---|---|---|
| munger | `doMungers`: `EachLoop`, then `Munge` for every open pull request | `munger`: phase, what is left to do, the object and verdict in hand |
| e2e | `handleGithubE2EAndMerge`, `doGithubE2EAndMerge`, `retestPR`, the waits | `e2e`: program counter, the object, the head when the retest was requested |
| batch | `handleGithubE2EBatchMerge`, `doBatchMerge` | `batch`: program counter, the batch, how much of it was merged, the next pull request |
| people, GitHub, Jenkins, Prow | external | `head`, `labels`, `labelAt`, `mergeable`, `ci`, `ciBase`, `retestWanted`, `branch`, `batches`, `jobsStable` |

The fields of the Go struct keep their names: `githubE2EQueue`,
`githubE2ERunning`, `interruptedObj`, `emergencyMergeStopFlag`, `mergeLock`;
`queueBalance` is `prsAdded - prsRemoved`.

A step is a stretch of code between two points at which another goroutine can
act: a critical section of `sync.Mutex`, or the calls to GitHub that lead to one
decision. The munger's validation and what it does to the queue are two steps
(`Munge` or `Recheck`, then `MungerApply`), because the calls to GitHub are made
without the mutex. The e2e goroutine's waits are as many steps as there are
polls. A batch is verified and merged pull request by pull request.

A `MungeObject` is a snapshot of GitHub. `Refresh` renews the issue and the pull
request and keeps the list of commits, as the Go method does: the field
`commits` is the head at the time the object was made. What is read from GitHub
at the time of the check (CI results, label events) is read from the state. The
queue holds pointers, so an object that EachLoop refreshes may be the object the
e2e goroutine works with: `RefreshShared` lets both happen.

### Abstractions

- A commit of the branch is its position, a head is the number of pushes before
  it; a branch commit records how it came about and what its tests started from.
  Those two facts are history, no step of the code reads them.
- The two lists of required contexts (`RequiredStatusContexts` and
  `RequiredRetestContexts`) share one combined status per head. Its value is one of
  `none` (incomplete), `pending`, `success`, `failure` (also `error`). It
  stands for the result of `computeStatus`, for which a missing context outweighs a
  pending one, and that one a failure.
- The combined status is cached for five seconds in the code, which is shorter
  than any of the intervals that matter here; the cache is left out.
- The reasons for a refusal are collapsed to those that `SetMergeStatus` treats
  differently. The labels are reduced to one per role: the three CLA labels are
  `cla`, a milestone of `DoNotMergeMilestones` is `blocked-milestone`.
- The queue order is a fixed rank per pull request (`Order`: priority label,
  milestone and LGTM time) behind the pull requests that need no retest.
- `matchesCommits` walks over at most 100 commits of GitHub's list; here the
  branch is a sequence, and the walk is the prefix relation it decides.
- `MergePR` sleeps and tries once more when GitHub answers that the base branch was
  modified; both attempts are one step, which succeeds or fails. If EachLoop cannot
  refresh an object it goes on with the old one; if it cannot read its commits or
  events either, it refuses the pull request (`RecheckFails`).
- Not modelled: mergeability that GitHub has not computed yet, pull requests
  closed without a merge, commits with a committer date in the past, several
  target branches, the status shown in the web UI.
- Bounds: `MaxHead` pushes per pull request, `MaxDisruptions` disturbances of
  the kinds in `Disruptions`, `MaxBatches` batches of at most `MaxBatchSize`. A
  disturbance is anything that people, CI or the network may do to the queue:
  `push`, `label`, `conflict`, `ci` (a test fails), `api` (a call fails, or its
  answer is lost), `slow` (a wait times out although CI will answer), `jobs`
  (the e2e jobs break), `stop` (emergency stop), `hand` (a merge by hand).
  Repairs cost nothing.

### Runs

| Run | Instance | Shows |
|---|---|---|
| `sq_retest` | 2 pull requests; push, ci, api, slow, jobs, stop, label (`retest-not-required`), conflict; 2 disturbances | `TypeOK`; `RetestOnTestedBase`: a retested pull request lands on the branch it was retested with, also after an interruption; `QueueAccounting`, `RunningIsUnderTest` |
| `sq_batch` | 3 pull requests, a batch of 2; api; 1 disturbance; no retests | `LockIsHeldByOwner`, `BatchOnTestedBase` |
| `sq_review` | 2 pull requests, a batch; push, label, conflict; 2 disturbances | `BatchIsReviewed`: what a batch merges has an LGTM for the tested commits; `CommitsReadAreReviewed`: what the e2e goroutine merges has one for the commits its object knows of |
| `sq_live` | 2 pull requests; jobs, hand; 2 disturbances; fairness | `EventuallyMerged`, `MergedLeavesQueue` |

Two pull requests are enough for every race about one queue entry and the head
of the queue; a batch needs a third one that is merged beside it, which is why
`sq_batch` has three. One disturbance reaches each error path, two reach a
disturbance during the recovery from another. Prow's batches have two pull
requests so that one may be merged and the other not.

`RetestOnTestedBase` does not hold once people merge by hand, or with batches
and a branch that moved between the start of a test run and the lock: the code
does not compare the base of a retest with the branch, unless the merge was
interrupted. What the run shows is that the e2e goroutine by itself is
sequential enough for that. The theorem `RetestLatest` says what remains true
with batches and merges by hand.

`CommitsReadAreReviewed` is as much as the e2e goroutine guarantees about reviews;
`v_review` below shows that it is less than the code says.

One run is expected to be violated. It states what a comment of the code says, and
the counterexample is what the code does:

| Run | Says | Does |
|---|---|---|
| `v_review` | "PR must have LGTM after the last commit" | `Refresh` keeps the commits of the time when the object was queued; a commit pushed later passes as reviewed |

More disagreements can be read off the model and have no run of their own:

- mergeLock is "acquired when attempting to merge a specific PR", but not for a merge
  without retest, which can fall between the checks and the merges of a batch;
- a batch is applicable if "all unmerged PRs in the batch are still in the queue"
  (`submit-queue-batch.go:254`), and it is enough that one is;
- `doGithubE2EAndMerge` returns "false if we must keep it for later", but at some of
  these places the pull request has been deleted from the queue before;
- the emergency flag is not looked at again before a pull request that needs no
  retest is merged;
- `doWaitStatus` goes on polling a closed pull request, and after a timeout the
  goroutine blocks for ever on a channel that nobody reads.

### Fairness

`FairSpec` assumes what the code's scheduling gives: each goroutine is an endless
loop, so its steps are weakly fair, and the waits end by `prMaxWaitTime`. Go's
mutexes are not overtaken for ever (starvation mode), so taking mergeLock is
strongly fair. Jenkins starts and finishes the tests it is asked for. A test run
takes much longer than the 30 seconds between two polls, so seeing it pending is
strongly fair: a run may slip through between two polls, but not every run. No
fairness is assumed for failing calls, people or the repair of the e2e jobs:
`EventuallyMerged` has the latter as its hypothesis.

### Proofs

For every set of pull requests, every bound and every choice of disturbances:

- `Typing`: `TypeOK`. It is not inductive: the goroutines dereference objects
  that may be nil, so `TypeInv` adds that from the selection on the e2e
  goroutine has an object, the batch goroutine has a batch, and the index of the
  next pull request is positive. One lemma per process, one step per action.
- `Accounting`: `QueueAccounting`. Lemma `QueueSteps` sorts the steps into those
  that leave the queue alone, remove one entry, add or replace one; the invariant
  follows with the theorems on cardinalities.
- `Running`: `RunningIsUnderTest`, inductive relative to `TypeInv`.
- `MergeLock`: `LockIsHeldByOwner`, from `LockSteps`, which says how each step
  moves lock and program counters together.
- `BatchReviewed`: `BatchIsReviewed`. The strengthening `LabelsAreDated` says that
  a label that is there was added at some time, and that no label event is from
  the future; `ValidIsReviewed` derives from it that a pull request which passes
  the check as it is now has an LGTM for its present head. That is where a fresh
  object matters, which the e2e goroutine does not have.
- `ReviewedAsRead`: `CommitsReadAreReviewed`. The strengthening is `LabelsAreDated`
  again, and `ObjectIsDated`: an LGTM that the goroutine's object shows was added at
  some time, although it may be gone by now. Lemma `ObjectSteps` says which steps,
  of the goroutine itself or of EachLoop on the shared object, can change the object,
  and that the way to a merge always leads through a validation of it.
- `RetestLatest`: `RetestIsTheLatest`, where there are required tests to run and
  without any other restriction. Between the start of the test run that vouches for a
  commit and its merge, there are only merges by hand and of batches: whatever the
  e2e goroutine merged itself was tested with. The invariant `RetestInv` follows a
  pull request: once the retest is asked for, a head is either newly tested or is the
  old one and not pending (`RetestAsked`), so a run that is seen pending is a new one,
  and it and all later heads are tested with the present branch (`RetestSeen`); and an
  interrupted pull request is taken up before anything else is merged
  (`InterruptedIsNext`). Lemma `TestsSteps` says that a test run always starts on the
  branch of the moment.
- `RetestTested`: `RetestOnTestedBase`, from `RetestLatest`, where moreover nobody merges
  by hand and there are no batches (`Alone`, the instance of `sq_retest`): then what can
  come between is nothing.
- `BatchTested`: `BatchOnTestedBase`, under the hypothesis `Isolated` that nobody
  pushes, merges by hand or past mergeLock (a merge without retest takes no lock).
  The invariant `TestedInv` adds `NoInstantMerge` (the path without lock is not
  taken), `LockIsHeldByOwner` and `BatchProgress` (while the batch goroutine
  merges, the branch is the tested base with the batch's pull requests up to the
  next one, at the tested heads). Lemma `BranchSteps` sorts the steps by what they
  do to the branch.

All proofs assume `ConstantsAssumption`; the hypotheses `Isolated`, `RetestRequired` and
`Alone` are part of the theorems that need them. `SubmitQueueProofs` has the theorems about
the queue, `SubmitQueueMergeProofs` those about what is merged. Only model-checked, and
out of the prover's reach: liveness (`EventuallyMerged`, `MergedLeavesQueue`).

## Cluster autoscaler

### UsageTracker

`simulator/tracker.go` remembers which node would take over pods of which other
node. When a node is removed, the space that its pods were promised is taken, and
`RemoveNodeFromTracker` stops the timers of all nodes that counted on the same
space. Records are bounded (`maxUsageRecorded`), entries age, and nodes are
unregistered, so what the tracker knows is less than what happened. The variable
`uses` is the exact relation, a history that no operation reads; the properties
compare the two.

The operators (`RegisterUsage`, `Unregister`, `CleanUp`, `KeysToRemove`) are those
of the code, on maps from all nodes with `Absent` for missing keys; a node without
record has an empty one, which the code never tells apart. Time stamps are ages,
which stop at `UnneededTime + 1`. The module has a driver, `TrackerSpec`, that
calls the operations in any order, with `CleanUp` whenever time passes: the main loop
calls it in the passes that get as far as scaling down, and entries that stay longer
only make the tracker more careful. `ClusterAutoscaler` extends the module and uses the
operators for its own actions.

### ClusterAutoscaler

| Process | Code | State |
|---|---|---|
| main loop | `run`, one pass after another: `ListNodes`, `ListPods`, then `ScaleUp` or `FindUnneededNodes` and `ScaleDown...` | `ca`: place in the pass, the lists it works with, pods to help, nodes to delete; `usage`, `unneeded`, `upAge`, `failAge` |
| deletion goroutines | `deleteNodeFromCloudProvider`, one for each node: `CheckSize`, `DeleteInstance` | `ca.victims`, `ca.sized` |
| caches | reflectors of nodes and pods | `cachedTaint`; pod status `hidden` |
| scheduler, API server, kubelets, cloud | external | `pod`, `taint`, `node`, `target`, `settling` |

A pass is split where it talks to somebody: two steps for its lists, one for a
decision, one for each call that changes the cluster. Between any two the rest of
the world may act. Errors are disjuncts of the action whose call fails; a call
that works on several objects may fail for any subset. Two bugs of sharing are in
the model because the code has them: `cleanToBeDeleted` edits the annotation map
of the cached node, and `resetPodScheduledConditionForPod` the cached pod, before
the update is sent. After a failure the cache is wrong until the watch delivers
the object again.

Abstractions:

- A pod takes one unit of the `Capacity` of a node and fits everywhere. So the
  predicates, `CalculateUtilization`, `findPlaceFor` and `Estimate` depend on
  numbers only. `findPlaceFor` may register any set of places that has room,
  which covers hints and the shuffle; the order in which nodes and pods are
  handled, which matters when a record gets full, is free.
- A pod is `new`, found `unschedulable`, or `stale`: marked before the newest node
  was a minute old. Daemon sets, mirror pods, local storage and system pods are
  left out; `Standalone` pods stand for all that forbid a drain.
- `lost` is a node whose VM is deleted and whose node object is still ready. It
  counts for its group, as in the instance cache of the GCE manager, until it
  vanishes. VMs do not fail by themselves, and nodes do not become unready.
- A new node gets a name that the autoscaler does not remember (`Unknown`).
- Deletion of a pod takes effect at once, or not before the node is deleted.
- The flags have their defaults (`verify-unschedulable-pods`, `scale-down-enabled`).
  `random` is the default expander; the others return nil without options.
- One tick is a unit for the delays; it is longer than a pass, and time passes
  between passes and while VMs are deleted.
- Disturbances: `api` (a call fails), `slow` (a resize operation times out after the
  cloud has accepted it), `crash`, `create` and `finish` (a pod). Their number is
  bounded by `MaxDisruptions`.

### Runs

| Run | Instance | Shows |
|---|---|---|
| `ca_room` | 3 nodes of capacity 2 in a group, a pod on each, one of them standalone; records of 1 entry; api, crash; 1 disturbance | `TypeOK`; `UsesAreCovered`; `RoomNotPromisedTwice`: the second of two nodes that counted on the same space waits for another `UnneededTime` |
| `ca_live` | 2 nodes in a group of 1 to 3, at most 2 nodes in all; 3 pods, 1 of them there at first; api, slow, crash, create, finish; 2 disturbances; random expander; fairness | `SizesInBounds`, `TotalInBounds`, `GrowOnlyWhenComplete`, `TaintReleased`, `PodsGetNodes` |

Three nodes are the least for two that count on a third, and a record of one entry
is full after the first use, which is the case the limit is about. A group that
may grow by two while the cluster may grow by one is what `max-nodes-total` has to
cut. One group is enough for the sizes: a pass deletes at most one node of a
group, so the goroutines of one pass never meet in a group (and the theorem
`SizesStay` has any number of groups). In `ca_live` the limit of the cluster is
met before the limit of the group, so the random expander panics there because
`TargetSize` fails, not because every group is at its maximum. Three disturbances
take TLC more than four minutes and show the same.

`TotalInBounds` and `GrowOnlyWhenComplete` both rest on `CheckGroupsAndNodes`: a
pass goes on only if every group has as many nodes as its target. Without it (the
mutant `GroupsUnchecked`) the nodes on their way would be counted by nobody.

Some observations are in the model and have no run of their own. An empty
node is not tainted, and the pods are those listed at the start of the pass, so a
stand-alone pod bound in between goes with its node. `getEmptyNodes`
never reads the value in `availabilityMap` and returns one node per group.
The random expander panics in `rand.Int31n(0)` without options. A resize that times
out although the cloud accepts it is not recorded as a scale-up, so a scale-down may
follow before the 10 minutes that the documentation promises. And
`lastScaleDownFailedTrial` is set only when `ScaleDown` returns no error, while
`ScaleDownError` always comes with one.

### Fairness

The loop, the restart after a panic, the cloud, the node controller and kubelets
are weakly fair. So is the renewal of a cached pod: the reflector lists anew when
its watch fails, and the pod's events are delivered. Time is strongly fair because
a tick is only taken between passes. Binding is strongly fair: the scheduler tries
a waiting pod every few seconds, and a node lives for minutes, so it is not always
too late. Disturbances are not fair.

### Proofs

`UsageTrackerProofs`, for every set of nodes, every `UnneededTime` and every limit:

- Lemmas about the operations, for any records and any history: `RegisterCovers`,
  `UnregisterCovers`, `CleanUpCovers`, `AgedCovers` say that an operation that is applied
  to records and to the exact relation alike keeps what `Covers` states of the two, and
  `SharersAreFound` that covering records name all that share space with a node. They
  do not mention the tracker's variables, so the autoscaler's proofs use them too.
- `Covered`: `UsesAreCovered`. With these lemmas it is inductive together with the types
  of the records (`TrackerInv`). What a record knows after one use is the entry, or
  the admission that it is incomplete. `CleanUp` keeps what is fresh, and `Unregister`
  removes entries only of the node that the exact relation forgets.
- `SharersStop`: `SharersRestart` (removing a node stops the timers of all that counted
  on the same space) follows from it. If the removed node's record or that of a
  node it used is incomplete, all timers stop; otherwise both records have the use,
  and the other node is among the keys.

They assume `TrackerAssumption` only, and are about `TrackerSpec`, which may call the
operations in any order. The autoscaler calls them many times in one step; that it keeps
the same invariant is proved below.

The last part of the module is about folds. The library's induction theorems take a
predicate, which the provers cannot instantiate; here induction is over a *set* of
numbers (`Induction`, `StepByStep`), which is an ordinary variable and follows from the
least element of its complement. `FoldExists` turns a fold over a finite set into a
function `g` on its subsets with `g[s] = F[c[s]][g[s \ {c[s]}]]`, for any choice function
`c` and any operation given as a function `F`; what every such step keeps, the fold
keeps. `MaxChosen`, `SetByChoice` and the others connect that form with the folds of the
community modules that the model uses.

`ClusterAutoscalerProofs`, for every number of nodes, groups and pods, with
`AutoscalerAssumption`:

- `GrowsWhenComplete`: `GrowOnlyWhenComplete`. A pass compares the sizes with its list of
  nodes, which still has those whose VM is deleted, so the comparison could come out
  right by accident. The invariant `LoopInv` says why it does not: a group that
  waits for a VM has no node on its way out (`Coming`), because growth and deletion
  are never under way together; hence a pass that has passed the check has a list
  without lost nodes (`Complete`), and nobody can join before it ends.
- `SizesStay`: `SizesInBounds`, provided that the groups start within their limits. The
  victims of a pass are in different groups (`Victims`, from lemma `OneOfEach` on
  `getEmptyNodes`), so what `CheckSize` has found is still so when the instance is
  deleted; and `NewSize` is between the present size and the maximum, because the
  limit of the cluster is not reached when a pass scales up.

- `TotalStays`: `TotalInBounds`, provided that the cluster starts within its limit
  (`WithinTotal`). The sum of the targets is a fold over the groups (`GroupSum`); `Sums`
  gives its recursion, `SumChanges` what one new size does to it, `SumCounts` that over
  complete groups it is the number of their nodes. The invariant adds that a pass has
  all instances in its list (`Seen`); so when it scales up, after the groups were found
  complete, the targets and the nodes outside groups (`Own`) are together no more than the
  nodes of its list, and `NewSize` asks for no more than the limit leaves (`ScaleUpTotal`).
- `RecordsCover`: `UsesAreCovered` for the tracker inside the loop. `FindUnneededNodes`
  registers the uses of all its simulations in one step, and a scale-down of empty nodes
  removes several nodes from the tracker, one after the other: both are folds over a
  sequence, in any order.
  `RegisterAllCovers` and `RemovalsCover` carry the tracker's lemmas through these folds.
- `RoomForOne`: `RoomNotPromisedTwice`. The invariant `RoomInv` is the tracker's
  `TrackerInv` and `Timers`: a node's timer is never older than `sharedAge`, the time since
  space it counted on was last given away. A removal resets both, as `SharersAreFound`
  says, and a node is picked only if its timer has run for `UnneededTime`
  (`PickedAreCandidates`).
- `LoopTypes`: `TypeOK`, from `LoopInv`, `RoomInv` and the types of what these do not
  mention (`RestType`).

`AutoscalerAssumption` has the constants' types, among them that at first every pod is on a
node, waiting or absent (`InitPod`). `Removal` is written with `RemoveOne` and `RemoveAll` so
that one removal can be reasoned about before their fold. With TLC stays liveness
(`TaintReleased`, `PodsGetNodes`).

## GCE ingress controller

### GCEIngress

One action is what a pool does for one port, load balancer or the nodes; between
two of them the other goroutines, users and nodes act.

| Process | Code | State |
|---|---|---|
| sync worker | `sync`: `Checkpoint` (backends, nodes, default backend, load balancers, firewall), `UpdateUrlMap`, `GC` | `pc`, `job` (what it has read), `todo`, `failed`; `ingQueue` |
| node worker | `syncNodes` | `npc`, `njob`, `nodeQueue` |
| listing pool | `CloudListingPool.ReplenishPool` | `backendPool` |
| informers | resync of Ingresses | `ingQueue` |
| cloud | external | `groups`, `members`, `backends` (the zones each one is linked to), `healthChecks`, `urlMaps`, `firewall` |
| users, kubelets | external | `exists`, `port`, `ready`, `cordoned` |

A pool's memory (`backendPool`, `l7Pool`, `nodePool`) is separate from what exists.
A failed call leaves what the calls before it did (`AddFails`, `DeleteFails`,
`ApplyFails`), and a call may take effect and lose its answer. The errors are
handled as in `sync`: an error of `Checkpoint` is followed by the url map and GC all
the same, an error of GC of load balancers does not keep GC from the backends, and
the key goes back to the queue. Nodes are removed and added with one call per zone,
each of which the cloud may refuse or fail while the others succeed; only if all
removals have succeeded are nodes added. The controller may stop in the middle of
`Backends.Add` or `Delete` (`StopsHalfway`). A cordoned node is ready, so its zone is
listed, but it is not put into the groups (`getReadyNodeNames`). `bare` is history: the
zones that have been without ready nodes at some time.

Abstractions: a load balancer is its url map (`L7` has the rest); a service has at
most one node port; an Ingress's own default backend (whose lookup error the code
ignores, `controller/utils.go:270`) is left out, so every url map falls back to the default
backend of the cluster; hosts and paths, probes, named ports and the status of the
Ingress are left out; some node is always ready. Not modelled: deleting everything on
shutdown (`delete-all-and-quit`), changes of the class annotation.

| Run | Instance | Shows |
|---|---|---|
| `gi_sync` | 2 Ingresses that share a service, 2 ports, 2 nodes in 2 zones; 2 changes, 1 failed call or restart | `TypeOK`; `Tracked`: what exists is remembered; `Served`, `Collected`: in the end what is needed works, with exactly the schedulable ones of the ready nodes in the groups, and the rest is gone |
| `v_nodes` | 1 Ingress, 2 nodes in a zone, 2 changes, no failure | violation of `NoDeadMembers` |

Two Ingresses with one service make a backend shared and then not; two ports let the
service move between two reads of a pass; two zones let a backend miss a group.
Deadlock is not checked: the controller may have nothing to do.

`v_nodes`: the code says "A node deleted via kubernetes could still exist as a gce vm.
We don't want to route requests to it." `Remove` looks for the zone of such a node
among the ready nodes, does not find it, and skips the node: it stays in its
instance group for ever.

Fairness: both workers go on (weak for `Pass` and `syncNodes`). The queue hands out
every key in its turn, and the informer and the pool list periodically, also between
passes: `Start(i)`, `Resync` and `ReplenishPool` are strongly fair, since they are
disabled during a pass.

`Collected` is what `controller.go:314` promises, "At the end of a successful GC we know
that there are no dangling cloud resources", for load balancers, backends, health checks,
the firewall rule and instance groups. The code keeps the promise up to these exceptions,
each of which the property names and TLC shows to be needed:

- a load balancer whose Ingress was deleted while the controller was down (`Leaked`;
  README.md of the controller, line 683, admits it), and what it refers to;
- a cluster without any Ingress after a restart, where nothing starts a pass;
- a health check without a backend after a restart (`Orphaned`): the controller stopped,
  or a call failed before it stopped, between the creation of the two, and the pool is
  filled again from the list of backends only;
- an instance group in a zone that has been bare: `DeleteInstanceGroup` goes through the
  zones of ready nodes (`instances.go:99`) and forgets the group all the same.

Proofs (`GCEIngressProofs`, from `IngressAssumption`): `TypeCorrect` needs `InHand`: what is
left to do are ports or load balancers according to the step, and a pass has a key.
Its parts `LinkedOK` and so on are proved for each action that can disturb them; the
interesting one is that backends are linked only to groups that exist, while two
workers create, link and delete. `AlwaysTracked`: each step that creates something for
a port remembers it, also when it fails, and GC forgets a port only after both its
backend and its health check are gone.

### L7

One load balancer, resource by resource: url map, two proxies, two forwarding rules,
static address, two names for the certificate. `cloud` is what exists, `lb` the
pointers of the `L7` object. Each `check...` of `edgeHop` and each deletion of
`Cleanup` is one action; a call may fail, take effect and lose its answer, and the
controller may restart between any two. The cloud gives a rule that asks for an address
by name only one that is reserved (`Reserved`). `KeptPointers` models that `l.fws` and
`l.ip` are not set to nil after a successful deletion. A GET whose error is ignored makes the
create that follows conflict, which is a failed call, except for the static address,
where any answer 400, a conflict or not, is taken for success (`checkStaticIPRefused`).

| Run | Instance | Shows |
|---|---|---|
| `l7` | 2 certificates, 3 addresses and the user's; 3 changes of the Ingress, 1 failing call, 1 lost answer or restart; fairness | `TypeOK`; `RightOrder`: Cleanup deletes nothing that is in use; `KeepsTrack`: nothing is forgotten; `HttpServed`, `HttpsServed`, `CleanedUp` |

Three changes are create, change and delete, or two rotations of the certificate, which
need both names. Three addresses are enough for two rules and the reserved one to
differ. The only fairness is that the queue's worker goes on (weak for `Sync`): a
failed key is taken again, and the resync hands in every Ingress.

The properties name the exceptions that the code has:

- `Cleanup` releases the static address, keeps `l.ip` and fails at a later deletion; then
  an Ingress of the same name is created. The object asks for the released address
  in every pass, the cloud refuses it, and the http rule is never created, until
  the controller restarts or the Ingress is deleted. `HttpServed` excepts the rule
  of an Ingress without an address of its own in that state (`Released`).
- `Cleanup` does not look at `oldSSLCert`: a certificate whose deletion failed is
  forgotten when Cleanup ends, or, if Cleanup fails after it has deleted the
  certificate in use, when the next one is made.
- After a restart the object takes the primary name for the one in use. If the
  certificate had been rotated to the secondary name, the next rotation conflicts
  with it for ever; `HttpServed` says that http is served all the same, `HttpsServed`
  has the hypothesis. The same happens if the deletion of an old certificate fails
  before a second rotation.
- If TLS is removed from an Ingress and the controller restarts, the object does not
  know the https proxy, and Cleanup cannot delete the url map that it refers to.

Proofs (`L7Proofs`, from `L7Assumption`): `TypeCorrect` with `InHand` (a pass works on runtime
info, Cleanup on one of its resources). `TrackIsKept` and `OrderIsRight` come from one
invariant: `Known` (as long as no answer was lost and there was no restart, the object
knows all resources) and `Done` (what Cleanup has come past is deleted, or the object
has not known of it). Whatever refers to a resource comes before it in `Deletes`; if
it existed the object would have known and deleted it, so it is gone.

## Leader election

`LeaderElection` has the sidecar and library of this repository and the vendored
`LeaderElector` that they run, because what the library promises is the elector's
doing. For each candidate: its `phase` (NewElection, acquire, lead, stop), the `stage` of
the attempt under way (GET, update, answer), what it remembers of the record (`same`,
`obsAge`) and since when it has polled (`loopAge`), the goroutine that is to call
OnStartedLeading (`starting`), and the `name` that the sidecar serves.

An attempt is three steps: the server answers the GET, performs the update under its
resource version, and the answer arrives; it may fail or be lost at each. Records are
abstracted to whether a candidate's observation is still the server's record. `Poll`
makes one more attempt after its timeout, as `wait.go` does (`BeginLast`). All clocks
run alike, in ticks, and an attempt takes at most `MaxDelay`; nobody deletes the
object. A candidate may crash and come back, or stay away while another is left.

| Run | Instance | Shows |
|---|---|---|
| `le_lease` | 2 candidates; lease 8, deadline 4, retry 2, delay 1; 2 faults; fairness | `TypeOK`; `OneLeader`; `ImplementsMastership` (refinement); `StableLeader`; `LeaderKnows` |

The durations are in the proportion of `NewElection`: the deadline is half and the retry
period a quarter of the lease (8 ticks for its 10 s). The lease outlasts the deadline
and three slow calls. That last condition
(`RenewDeadline + 3 * MaxDelay < LeaseDuration`) is an assumption on the network which
the code does not check; it is needed, because a leader's last attempt starts
when the one before, begun at the deadline, is over.

`Mastership` is the abstract specification: a record that names the master, and passes
to another only while there is none. The refinement maps `owner` to `holder` and
`leaders` to the candidates that lead.

Fairness: every process, its goroutines and time go on (weak). Faults are not fair.

Two things the model shows that are no property: a second creator of the object gets
AlreadyExists, which the code does not take for a conflict, and its process ends and is
started again; and a follower's sidecar serves the leader of the time when it joined
(`Join` sets `name` once), although `election/README.md:72` says that asking it gives "the
name of the current master".

Proofs (`LeaderElectionProofs`, from `ElectionAssumption`, any number of candidates and any
durations that satisfy it): `TypeCorrect`; `LeaseExclusive`: `OneLeader`; `Implementation`:
`Spec => Master!Spec`. `TypeOK` says also that a candidate has one attempt at a time, in the
phase that began it, and an object in hand only between its GET and its update (`InHand`).
`OneLeader` is not inductive. `LeaseInv` adds: a leader is the holder
(`LeaderHolds`), its Poll ends in time (`PollEnds`), nobody has observed its record long
before its Poll began (`Observers`, `Answers`), and who has found a record expired or may
overwrite another's has observed it for a whole lease (`Expired`, `Overwrites`). Together:
who overwrites finds no leader left.

## Rescheduler

The loop of `main` with `prepareNodeForPod` (`Find`, `addTaint`, `groupPods`, `Evict`,
`Prepared`), `releaseAllTaints` (`ReleaseAll`, `Release`) and the goroutine `waitForScheduled`
(`Remove`). `taints` is what the server has, `cached` what the reflector's object in
memory says: `addTaint` and `releaseAllTaints` edit that object before the update is sent,
and the update may conflict, fail, or succeed without an answer. `held` are the objects
listed that are still the cached ones: a listed object that the reflector has replaced is
edited in vain. A node has `Slots` for pods of one size: critical ones, which are
required, and others. A deletion, which gives the pod ten seconds to end, frees its slot
at once. Around the loop are the scheduler, the reflectors, kubelets
(`Heartbeat`), and people who write to a node or delete a pod (`Interfere`).

`Find` takes a node with a taint like any other: the code says that it ignores such nodes,
but the `continue` is missing, and the model follows the code.

| Run | Instance | Shows |
|---|---|---|
| `rs_taints` | 2 critical pods, a node with 2 slots; 3 faults; fairness | `TypeOK`; `RoomIsMade`: pods are deleted only from a reserved node, and leave room; `CriticalScheduled`; `TaintsReleased` |

One node makes two pods meet on it, each with its own taint. Three faults are an update
that fails, a restart and a conflict in one behaviour.

Fairness: the loop, the waits and the reflectors go on (weak). The scheduler retries a
pod every few seconds while a wait lasts ten minutes, so it finds the room that is
made (strong for `Schedule`); a node's heartbeats come every ten seconds and some come
while the loop sleeps (strong for `Heartbeat`).

Proofs (`ReschedulerProofs`, from `ReschedulerAssumption`, any number of nodes, pods and
faults): `TypeCorrect`, and `RoomAlways`: `RoomIsMade`, with `Reserved`: the node is reserved
since `addTaint` has returned without an error. Nobody but the loop removes a taint, and no
pod is scheduled to a node that has one, so the others on the node only get fewer.

## Not modelled

Nearly all of the 1.7 million lines of Go in the repository are vendored or generated
code (`Godeps`, `vendor`, `types.generated.go`) that occurs once per program; a map of
them would be a map of other projects. Of the repository's own programs these are left
out:

- the other mungers and the issue sync: each is a sequential visit of one issue, whose
  state is GitHub's; the flake cache has one reader and one writer under a lock;
- the addon resizer: a loop without concurrency that compares and updates one object;
- keepalived-vip, service-loadbalancer, diurnal controller: they render configuration
  or set a number of replicas from what they have read, and keep no state;
- dashboards, metrics, command line tools, demos, images, ansible: no state of interest.

In the modelled programs: the web pages and statistics of the submit queue, the health of
the e2e jobs from their builds, the order of the queue beyond a rank; predicates, sizes of
pods and unready nodes in the autoscaler, its AWS manager, which has the same checks, and
its own leader election, which is the same code as above; probes, paths and shutdown in
the ingress controller, where a tombstone (`DeletedFinalStateUnknown`) in the deletion
handler panics.

Every invariant and every action property that a passing run checks is a theorem too.
What stays with TLC, because the prover cannot do it, are the temporal properties under
fairness: `EventuallyMerged`, `MergedLeavesQueue`, `TaintReleased`, `PodsGetNodes`,
`HttpServed`, `HttpsServed`, `CleanedUp`, `Served`, `Collected`, `StableLeader`, `LeaderKnows`,
`CriticalScheduled`, `TaintsReleased`. No theorem is about ENABLED or a RECURSIVE operator.

## Mutants

Each property has a mutant of the code that breaks it (`PROJECT.json`); the
operators are next to the definitions that they replace, marked `Mutant`.
