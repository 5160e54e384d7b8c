# TLA+ verification of K8SFramework (TarsK8S)

TarsK8S runs Tars services on Kubernetes. Every program of it is a client of
one Kubernetes API server, in which all shared state lives; what makes the
system hard is that several programs write the same objects, each from a copy
of its own that may be old, with requests that may fail, be repeated, or
overtake one another. This directory models those programs one component at a
time, checks the models with TLC, and proves what matters most with TLAPS.

Paths below are relative to the repository; `v1beta3` stands for
`src/src/ControllerServer/controller/tars/v1beta3` or
`src/src/WebhookServer/webhook/{mutating,validating}/tars/v1beta3`. The v1beta2
webhooks are near-copies of the v1beta3 ones and are not modelled apart.

## 1. Inventory

| Component | State it keeps | Operations | Interacts with | Hard behaviour | What makes it correct |
|---|---|---|---|---|---|
| **tarsimage** (`ImageServer`) | per task: its copy of the TImage, its place in the build, the waiting request; five workers; a 15-minute pod reaper | `PostTask`, `build` (context, secret, submit, watch), `onBuildFailed/Success` | TImage object (`build.running`, `build.last`, `releases`), builder pods, their watch | Update with a remembered resourceVersion beside unconditional JSON patches with retries; crash loses all tasks | one build at a time, slot freed in the end, releases neither lost nor invented |
| **tarskaniko** (`KanikoServer`) | its own copy of the TImage | check of the task id, two progress reports, upload | same object, from inside the pod | its copy competes with the engine's | uploads only for the task in the slot |
| **timage controller** (`v1beta3/timage.go`) | informer cache, delayed queue | overtime check of `build.running` | same object | stale cache, timers lost at restart | frees what nobody serves, nothing else |
| **tconfig webhooks** (`v1beta3/tconfig.go`) | informer cache | create, activate, delete of versions; marks versions that give way | TConfig objects through labels | side effects in admission; stale cache; concurrent requests; request refused after its side effects | one active version; a master for node versions |
| **tconfig controller** (`v1beta3/tconfig.go`) | three queues, informer cache | deactivates and deletes marked versions; history limit | TConfig objects | patches computed from a cache, half-done lists, restart | marks are acted on, once |
| **tarsconfig** (`ConfigServer`) | none for configurations; map of pod addresses | `listConfig`, `loadConfig` | lists TConfigs per request; pod watch | which of several active versions wins | serves the chosen version |
| **K8SWatcher** (`LibK8SClient`) | per session: phase, continue token, newest version, half-read response; one count of sessions not in sync | list in pages, watch, 410, errors, `addWatch`, `waitSync` | API server; the servers' callbacks; the main thread | gaps between list and watch, broken lists, shared counter | the map served is a state of the API server, and catches up |
| **tarsregistry** (`RegistryServer`) | two maps with a second buffer each, under read/write locks | storage callbacks; endpoint queries; template joins; server state patches | K8SWatcher; tarsnode (`updateServerState`); pods | queries during lists; five retries of a patch that may be late | answers from one state; last state wins |
| **tarsnode** (`NodeServer`) | `ServerObject`: process state, keep-alive times, launch counts | start, stop, keep-alive, notify; timers `activateCheck`, `inactivateCheck` | business process, tarsregistry | keep-alives, timers and requests on different threads | a dead server is noticed, a stopped one stays stopped |
| **Workload controllers** (`statefulset`, `daemonset`, `service`, with `k8s.tars.io/translator`) | informer caches and queues | turn a TServer into a StatefulSet, DaemonSet or Service | API server, garbage collector, webhooks | read-modify-write from caches, rebuild in two deletions, lost answers | converge to the TServer, never back to an older one |
| **Pod records** (`tendpoint`, `texitedrecord`, `tserver`) | informer caches and queues | show the pods of a server, record those that have gone | pods and their events | lists rewritten from old copies, events that are never heard | what is shown is what there is; no exit lost |
| **Local volumes** (`AgentServer`) | directories of the node, two queues, what it knows of node and class | provision, wait, delete, reclaim | PVs, PVCs, binder and protection controllers | an object and a directory changed in two steps, caches that are empty at start | no live data removed; whoever waits is served |
| **Tree, accounts, nodes, claims** (`ttree`, `taccount`, `node`, `persistentvolumeclaim`) | queues | one idempotent patch each | their objects | none | |
| **Controller manager** (`ControllerServer/controller`, `k8s.tars.io/runtime`) | leader lease, work queues | start, lease loss, retries | everything above | two leaders for a moment | keys are handled one at a time |
| **Other webhooks, conversion** | informer cache | validate, default, convert v1beta2/v1beta3 | all CRDs | pure functions of some size | round trips |
| **KEvent, log, notify, statistics, query, admin registry, LibESClient** | queues of messages | forward to elasticsearch, limit rates | external services | back-pressure | not lost while there is room |

Generated clients (`k8s.tars.io/client-go`, `apis`), charts and build scripts
hold no behaviour of their own and stay out.

## 2. Modules

| Module | Models | Size |
|---|---|---|
| `TImageBuild` | tarsimage's engine, tarskaniko, the timage controller and their one object | the core |
| `BuildSlot` | what users are promised of that object | abstract specification |
| `MCTImageBuild` | instances for TLC | |
| `TImageBuildProofs`, `TImageTurnsProofs` | theorems about `TImageBuild`: what holds under every fault; what makes it a sequence of turns, up to the refinement `TakesTurns` of `BuildSlot` | proofs |
| `TConfig` | tconfig webhooks, API server admission, controller, tarsconfig | |
| `MCTConfig` | instances for TLC | |
| `TConfigProofs`, `TConfigTurnsProofs` | theorems about `TConfig`: under every fault; with requests one after the other | proofs |
| `K8SWatcher` | the C++ list-and-watch client, the storage behind it, the start of a server | |
| `K8SWatcherProofs` | theorems about `K8SWatcher` | proofs |
| `ServerObject`, `MCServerObject` | tarsnode's server process, from launch to SIGKILL, and its state on the way through tarsregistry into the pod's condition | |
| `ServerObjectProofs` | theorems about `ServerObject` | proofs |
| `Workload`, `MCWorkload` | the StatefulSet, DaemonSet and Service reconcilers with the translator | |
| `WorkloadProofs` | theorems about `Workload` | proofs |
| `Pods`, `MCPods` | the TEndpoint, TExitedRecord and TServer-status reconcilers | |
| `LocalVolume`, `MCLocalVolume` | tarsagent's two volume reconcilers and the provisioner | |
| `LocalVolumeProofs` | theorems about `LocalVolume` | proofs |

`TImageBuild` and `TConfig` each compose several programs, since there the
programs are only correct (or wrong) together; each program's steps are a
section of the module. The API server is external: modelled as the code uses
it (optimistic locking on Update, unconditional patches, watches, admission).

### 2.1 TImageBuild

State: `timage` is the object, with its resourceVersion; `pc[t]`, `snap[t]`,
`tries[t]`, `answer[t]` are a task in the engine (`task.timage` is `snap`,
`waitChan` is `answer`); `pod`, `podSnap`, `gone`, `pushed` a builder pod and its
copy; `cached`, `timers` the controller. Every request to the API server is a
step, and what the program does with its answer is in the same step: the code
between two requests touches only the task's own memory.

- `PostTaskGet`, `PostTaskClaim`: the two requests of `PostTask`
  (engine.go:530-600), apart, because two requests may read the same empty slot.
- `PrepareContext`, `PrepareSecret`, `PushSubmitting`: `pushBuildRunningState`
  with the work on files after it. A refused Update leaves an *empty* copy, as
  the typed client returns one beside an error (`Empty`); the next report with
  it is a nil dereference (`EnginePanic`), and the last patches then name nothing.
- `Submit`, `OpenWatch`, `WatchEvent`, `WatchLost`: the pod and its watch. The
  first event is skipped by the code, so an end that came before the watch is
  never seen (`blind`, `deaf`); a closed watch is taken for a success.
- `ReportFailure` / `OnBuildFailed` / `OnBuildSuccess`: the answer to the
  request and the last JSON patch with its two attempts.
- `KanikoGet` ... `KanikoExit`: cmd.go. `InformerSync`, `CheckOvertime`,
  `ControllerRestart`: timage.go.

### 2.2 TConfig

State: `store` the objects; `pc`, `op`, `target`, `todo` a request under
admission (the webhook marks one version after the other); `changed` stands for
the resourceVersion conflict of a request admitted before its object changed;
`cache` the webhook's informer; `known`, `watched`, `adds`, `modifies`,
`deletes`, `work` the controller. `chosen` is a history variable: what users
asked for. `Loaded` is what tarsconfig answers. DeleteCollection is one step,
the webhook's stale cache jumps to the present when it moves (its watch sends
the states one by one, but admission looks at it only between), the 48-second
guard before a deletion is not modelled.

### 2.3 K8SWatcher

State: `history` and `compacted` the API server; per session `phase` (the
handler it waits in), `continue`, `newestVersion`, `stream` (the watch response: up to
which version it was `sent`, the versions of the events in its `body` and of those `left` to dispatch, how far the session
is with a 410 at the end of it, `gone`, and whether the response is `done`),
`cache` and `served` (`cacheTEs_`, `tes_`); `waitSyncCount`; `main`. All
handlers run on one thread, so that each is a step; a body of several events is
dispatched in several steps because a query may take the read lock in between.
`server` says whose `main` and `onError` apply: tarsregistry never starts a new
session, tarsconfig and tarsnotify always do. An event is read whole: a JSON
document cut by a read is the parser's business. `resumed` is a history
variable: the session began its list with an old continue token. Events
carry the version they bring about, hence the events of a response are a set of
versions that is dispatched in order.

### 2.4 ServerObject

State: `server` (target, setting and present state), `runtime` (`ServerRuntime`:
pid, ages of launch, SIGTERM, SIGKILL and of the heartbeats of each adapter),
`patrol` (which of the two checks the thread comes to, and what its report has
read), `procs` the processes of the pod, `calls` a heartbeat on its way, `condition`
the pod's `tars.io/active`, `late` a patch that overran its time. Every handler and
both checks hold `mutex_` and are one step; only the periodic report
(ServerObject.cpp:447) reads without it, field by field (`ReadState`). Times are ages
that stop at the limit they are compared with, and `Tick` may come at any time, so
that every ratio of the real intervals is covered. The faults are lost or late patches,
a template that cannot be read, a launch that fails, processes that hang (`stuck`),
ignore SIGTERM (`deaf`), send heartbeats too soon (`hurry`) or die, and a dying node.

### 2.5 Workload

State: `tserver`, `object` in the API server, `seen` and `known` the informers'
copies, `fresh` which copies still have the object's resourceVersion, `deleted` the
informers that have yet to hear of a deletion of the object, `queued` and
`work` the key and its worker, `late` a call that ended without an answer and may yet
be carried out, `volumes` the claims of the StatefulSet. The informers of a controller
are started before it seeks the lease (ControllerServer/main.go:36, 51): who takes over
begins with what they have heard. `standby` is what the controller that leads next has
heard, once it has fallen behind (`Lag`); `Lead` begins with it, and each informer catches up
when it does, so that the copy of the object may be current before that of the TServer is. Of the object's events only Deleted brings the key
back (`SyncObject`); a deletion that is learned from a new list after a broken watch is a
`DeletedFinalStateUnknown` (controller.go:35), which no `EnqueueResourceEvent` knows
(`RelistTServer`, `RelistObject`, `BuryObject`). Lists are of the present, as with a single
API server. The three reconcilers write
nothing another one reads, hence one behaviour follows one of them (`kind`).
`Build`, `Sync` and `Equal` are the translator's functions over classes of fields
that it treats alike: one that is compared and copied (image), one that is compared and
not copied, ports (compared by index, built by walking a map), claim templates (local
or not). A version of an object is the edit of the TServer it was built from.
The claim triggers of a rebuild are instantiated for a list that changes, not for one
that was empty.

### 2.6 Pods

The same skeleton for objects that follow pods: `pods` and `cached` the pods and the
copies of them, `queue` with keys for the server and for pods (`Keys`). `PodStatus`
is `buildPodStatus`, `Patched` the JSON patch of an exit, with its length check and
its limit. An informer may miss a deletion of a pod, of the TServer or of the object, and
deliver a tombstone (`RelistPods`, `RelistTServer`, `RelistObject`). `Restart` is a controller
that starts and lists what there is, `Takeover` one that has stood by and heard what the last
one had; both begin with the keys of what they have listed. `faults.noted` keeps what the
properties except, until the key is taken again where that repairs it. A
ready pod stays ready until it is deleted; pods that linger in termination occur for
kind `TServer` only, where they matter.

### 2.7 LocalVolume

One agent, one node, one directory of one server, hence one volume name for which the
claims of all its pods compete. `claims` and `volume` are in the API server,
`seenClaims` and `seenVolume` the agent's copies, empty after a start, since nothing
waits for the caches (AgentServer/main.go:44). A lister's answer and the one call
that follows are a step; directory and creation, removal of files and update are
two. `settled` is a history variable: claims the agent has created the volume for
and no longer looks at. The binder and the two protection controllers are external.
Delays (`AddAfter`, rate limits) are not shown; the node's label stays once seen; claims
that are bound on other nodes are left out; the owner and mode of the directory are
abstracted; pods only delay the protection of claims, which is weakly fair anyway.

## 3. Runs

| Run | Question | Bounds |
|---|---|---|
| `timage_faults` | What holds whatever goes wrong? `CopiesAreVersioned`, `SlotNotStolen`, `OnlyHolderPushes`, `ReleasedOnce` | 2 tasks, 2 workers, every kind of fault but quickPod, one fault |
| `timage_turns` | Is the object's history one of turns? `OneLiveBuild`, `OwnSlotFreed`, `AnsweredOkIsReleased`, `OutcomeAgrees`, refinement `TakesTurns` | 1 worker, faults apiError, podDeleted, evicted, crash, restart; three of them |
| `timage_progress` | Does a build, a slot, a request always come to an end? `SlotIsFreed`, `WaiterAnswered`, `ReleasedWasPushed` | 2 tasks, 1 worker, overtime, quickPod, crash; one fault; fairness |
| `tconfig_faults` | What holds under every fault? `MarkCountsOnce`, `DeletingIsFinal` | versions 1, 2 (master), 3 (node), 2 requests, one fault, symmetry in requests |
| `tconfig_turns` | With requests one after the other: `OneActive`, `ChosenIsActive`, `NodeHasMaster`, `MarksAreActedOn`, `ServesChosenAtLast` | same, apiError; fairness |
| `tconfig_concurrent` | One active version with concurrent requests? No: finding | concurrent |
| `watcher_session` | Does the map follow the API server? `ServedInStep`, `NeverGoesBack`, `CatchesUp` | 1 session, 2 objects in pages of 1, versions 1 to 4, one failure; fairness |
| `server_faults` | What holds of the process whatever goes wrong? `OneServer`, `AskedFirst` | 2 requests, 3 pids, every kind of fault, one fault |
| `server_progress` | Does a start, a stop, a hang come to its end, and does the condition follow? `StartEnds`, `StopEnds`, `StuckIsReplaced`, `ConditionFollows` | 1 request, 2 pids, no late patch; one fault; fairness |
| `workload_rollout` | Does the workload follow the TServer? `NeverGoesBack`, `ClaimsAfterSet`, `RollsOut` | 3 or 4 specs for each kind, 3 writes, fail, restart, lag, edit, delete, relist; one fault; fairness |
| `pods_status` | Is what is shown of pods, and remembered of them, true in the end, and the newest of it at any time? `StatusFollows`, `NewestKept`, `ExitRecorded` | 2 pods for records, 1 for the others, limit 2, 1 write of the TServer for records, 2 for the others, one fault; fairness |
| `volume_lives` | Does data stay, and is a waiting claim served? `DataKept`, `ServedAtLast` | class "Retain" with 2 claims, class "Delete" (as in the chart) with 1; creations unbounded, 1 deletion, 1 fault; fairness |

Why the bounds are enough. Two tasks show every race for a slot; a third would
only wait or repeat one of the two. One fault reaches every error path, and
three in `timage_turns` let an error path be hit by a further one (both attempts
of a patch fail). Three versions make a master being replaced, a node version
depending on it, and a deletion taking a further version along. A list of two
objects in pages of one is the smallest that has a middle; three writes make a
create, update and delete of one object, and let events, a compaction past them
and a 410 meet in one response. `MaxFaults`, `MaxVersion`, the set of requests and the set of
tasks are the only bounds; no counter is cut otherwise.
Three pids let a process outlive its successor's launch; two requests let a start
overtake a stop. Three writes of a TServer are a creation and an edit taken back, or a
deletion and another creation; the specs of a kind differ in each class of fields it treats.
Two exits fill a record of limit two; with the entry of one of them repeated, from a copy that
lacks it, a third patch finds it full and drops its last entry by the length of a copy that may be
shorter or longer, which is where `NewestKept` and `ExitRecorded` could fail. One deletion
is enough to free a volume for the claim that waits, with creations for free; the agent
is stopped at every point of it. Under "Delete" the agent
removes files only until it has seen the class, and nothing else depends on the policy, so one claim
will do there; under "Retain" it removes them each time (the policy is inverted, see section 4).
Several runs set CHECK_DEADLOCK FALSE: when every task or request is done and no
fault is left, the system rests.

The kinds of fault each run leaves out are those under which its properties do
not hold, and the reader should know why: a JSON patch with a lost reply is
repeated and may free another task's slot, a controller whose overtime is
shorter than the build (480 s against a reaper of 15 min) lets a second build
start beside the first, an outside edit makes a remembered copy old. `timage_faults` has them
and checks what still holds. A worker that waits for a pod deleted before its watch
was open never ends (`deaf`): `WaiterAnswered` says so.

### Fairness

- `TImageBuild`: the engine's goroutines, its timers, the informer and the
  controller's queue keep running (weak fairness for each task). Nothing is
  assumed of requests, pods, tarskaniko or faults: a builder pod may hang for good, and the
  overtime check still frees the slot.
- `TConfig`: the API server answers requests, the informer and the workers of the
  two queues run. Users are not assumed to do anything.
- `ServerObject`: the patrol thread runs, comes to its report again and again (strong:
  one round of 420), a request that was accepted is handled, a process that was killed
  ends, and time passes. That a process sends heartbeats is not assumed.
- `Workload`, `Pods`: the worker's loop, the watches and the garbage collector run;
  each key in the queue has its turn (strong, since the worker may be at another one).
  Nothing is assumed of users, pods or late calls.
- `LocalVolume`: the goroutines and the watches run, each key has its turn (strong), the binder
  and the protection controllers act. Users and pods owe nothing.
- `K8SWatcher`: the io thread runs its handlers and the API server answers (weak
  fairness); it sends the events it has before it ends a response, again and again
  (strong fairness of that step: a response lasts 30 minutes or more, K8SWatcher.cpp:48).

## 4. Findings

1. **Two active versions** (`tconfig_concurrent`, with a trace): two activations do
   not see each other.

The properties of the other runs hold with exceptions that the models name, and
that are behaviours of the code. They were met while modelling, most of them in a trace
that TLC gave before the exception was named.

- *Image builds.* The list of releases is replaced from a copy taken when the build
  began: others' releases are lost (engine.go:480). A closed watch is taken for a
  success, and a release recorded whose image was never pushed (engine.go:342).
- *Configurations.* The controller's Added handler does not fill the deletion queue and
  the informers do not resync: versions marked before a restart stay (tconfig.go:47).
- *Watcher.* A session counts itself as synced after each of its lists and errors, so
  that one may count for another (K8SWatcher.cpp:243).
- *tarsnode.* A start during a shutdown makes the target Start and leaves the state
  Deactivating, for good, as asserts are compiled out in a Release build
  (src/src/CMakeLists.txt:13). A process that ignores SIGTERM and goes on with its heartbeats
  postpones SIGKILL for ever, which Fixed.h:11 does not tell. A crash within 30 s of
  the launch is not reported until the next launch or report. A heartbeat that waited
  for the lock makes `pid_` name a dead process, and a second server is launched.
- *Workloads.* `Create` takes "already exists" for a success though what exists may be
  older, and events of the object do not bring the key back (`stale`); an edit that is
  taken back before the informer shows its update is lost in the same way; dropping a
  claim template of another storage class dereferences nil (statefulset.go:63), again
  after every restart (`panic`); a deletion of claims that fails is only logged, and a
  claim added to a list that was not empty is never seen. A controller that takes over with
  informers that lag may have a copy of the object that is current and one of the TServer that
  is not: it writes the live object back to the older edit, until it hears of the newer one
  (`behind`). An object that others delete while the watch is broken is not made again until the
  next event of the TServer, as the tombstone is dropped and there is no resync (`unheard`).
- *Pods.* An exit that is handled before the record is cached is dropped, and so is one
  that comes as a tombstone (controller.go:35) or while no controller runs; a TEndpoint keeps a pod
  of which it has heard a tombstone only, and one that is deleted unheard is not made again, until
  the next event of the server (`unheard`, `early`); a late status of the TServer stays until the
  next event of a pod (`late`). A patch from an old copy enters a pod twice: the record fills up
  with fewer pods, but never drops one of its newest entries for it (`NewestKept`). After its own update `updateStatus` uses the old copy, so that
  a conflict and a retry are the rule.
- *Local volumes.* A claim that is not in the cache yet, as after each start, looks like
  one that has gone: its volume's files are removed although it lives (`unseen`). The removal
  of a large directory can be overtaken by the next volume at the same path. A claim
  that goes before the agent has deleted its volume leaves it Released, and nobody
  deletes it: the claims that wait for the node wait for good. A volume that is deleted by hand
  while it is bound to a claim that lives stays terminating as long as that claim does
  (reconcile.go:269). The claim for which the
  agent created the volume is not looked at again: when another claim takes that volume,
  or it is deleted, it waits for good (`settled`), against the comment at
  reconcile.go:162.

Seen while reading, straight-line, and without a run: `tbuild`'s limit on releases
is applied to a copy that is not sent (engine.go:485-501); the history limit of
TConfigs deletes nothing, since the map of names is never filled
(v1beta3/tconfig.go:94, 111); tarsconfig looks for a label
`/metadata/labels/Deactivate` that is called `tars.io/Deactivate`
(K8SInterface.cpp:172, meta/label.go:20); the validating webhook writes objects
though webhook.yaml:14 says `sideEffects: None`; a missing ServerTag is set after
the image name was made of it (engine.go:541-548); version names use a
twelve-hour clock (mutating tconfig.go:61); SIGTERM is ignored
(ImageServer/main.go:95); the pod watch of tarsconfig keeps pods *without* an address
(ConfigServer/Storage.cpp:61), so that no pod has a sequence number;
`filedSelector` is misspelt in both URIs (K8SWatcher.cpp:36, 55); a list broken
between two pages is resumed without its first pages, and one whose token has
expired is resumed for ever (K8SWatcher.cpp:90, `resumed` in the model); the
registry never reconnects a watch (RegistryServer.cpp:13); the body with a 410 is
not cleared and its earlier events are dispatched twice (K8SWatcher.cpp:360).
In the translator: `equalVolumesPVC` is inverted; `buildContainerPorts` walks a map while
`equalContainerPorts` compares by index, so that ports in another order roll out anew;
`&v` of a loop variable makes every container name the last one; a foreign init container
makes the sync drop the server's container; the strategy of a DaemonSet is compared and
not copied; `equalTServerPorts` leaves out the numbers. The validating webhooks of
StatefulSet, DaemonSet and Service name "needs an update" *equal*, so that unchanged
updates are refused and changed ones admitted. `RemoveFinalizer` puts the finalizer to
be removed in the place of every other one (finalizer.go:16, as modelled);
`provision.Delete` removes files when the policy is *not* Delete (provisioner.go:191, as
modelled); `SyncClaim` swallows its error (provisioner.go:262); the volume claim controller
registers the informer of TServers twice and that of claims never
(persistentvolumeclaim.go:63); docs/zh/property.md:1106 has it that only daemonset
servers use local volumes, `validTServer` that they must not.

## 5. Proofs

Every invariant and every action property that the runs check is stated by a theorem, but for
`NewestKept` of `Pods`. What
a theorem assumes of `Faults` is its only hypothesis beside the named assumptions on
constants, which TLC evaluates in every run. The inductive invariants were
checked with TLC on the instances of section 3 before they were proved; several were found to
be too weak there.

`TImageBuildProofs` proves, for every set of tasks and releases, any number of
workers, any set of kinds of fault and any number of faults:

- `TypeCorrect`: `Spec => []TypeOK`.
- `CopiesVersioned`: `Spec => []CopiesAreVersioned`. A copy of the object
  never carries a resourceVersion of the future; and whoever holds the
  present one, knows what is in the slot.
- `SlotIsNotStolen`: `Spec => SlotNotStolen`: a task enters an empty slot only.
- `HolderPushes`: `Spec => OnlyHolderPushes`: an image is uploaded only on
  behalf of the task that was in the slot when tarskaniko decided so.

The only assumption is `ConstantsAssumption` of `TImageBuild`. The argument:
the action properties say nothing of how old a copy may be, so they are not
inductive. The inductive invariant is `TypeOK /\ CopiesAreVersioned`; every
request either leaves the object alone or makes resourceVersion grow by one
(`RequestWrites`), which makes every other copy old (`KeptCopiesVersioned`), and
the writer's own copy is checked against what it wrote (`ClaimVersioned`,
`PushStateVersioned`, `KanikoGetVersioned`, `PushStateOrDieVersioned`). With it
an Update by an old copy is refused, an Update by a present one puts into the
slot whoever is there (`EntryStep`, `PushStep`).

`TConfigProofs` proves, for any finite set of version names, masters and requests, any
history limit, any set of kinds of fault and any number of faults:

- `TypeCorrect`: `Spec => []TypeOK`.
- `MarksCountOnce`: `Spec => MarkCountsOnce`: an old list in the controller's cache
  deactivates no version whose mark is gone.
- `DeletionIsFinal`: `Spec => DeletingIsFinal`: an activation admitted before its
  version was marked for deletion does not undo the mark.

The assumptions are `ConstantsAssumption` and `AbsentAssumption` (no object is the
value for "no object"). `TypeOK` alone is not inductive: an activation writes a
label of its object, which is typed only if that object still exists. The inductive
invariant is `TypeOK /\ RequestsAsAdmitted` (what the webhook has seen of the object of a
request stays true until somebody else writes it): whoever else writes the object enters the
request into `changed` (`OvertakenStep`, `RequestKept`), and the writes of a request that is
not in there find what was admitted. `VersionStep` lists how a step may change a
version: not at all, deletion, one of the two marks, activation of a version that is
not marked for deletion, deactivation together with a mark; both action properties
follow from it.

`TImageTurnsProofs` adds what makes the object's history one of turns. Two theorems need
little:

- `ReleasesAreUnique`: `Spec => []ReleasedOnce`, under every fault. A list of releases, in
  the object or in a copy, is extended only by a task that is in none of the lists it could be
  put in front of (`ReleaseInv`): a patch that is repeated writes the same list again.
- `ReleasesArePushed`: `[]ReleasedWasPushed` unless watches are closed on the engine
  (`watchClosed`), which takes a closed watch for a success.

The others have the hypothesis `Prompt`: no reply to a patch is lost and maxBuildTime does
not run out before a build ends. Either breaks them in the code as it is (section 3).
All other faults may occur, in any number: `OneBuildIsLive`, `SlotIsFreedByOwner`,
`ToldOkIsReleased`, `OutcomesAgree`. Their invariant is `LiveHolds`, a task at work is in the
slot, from which `TurnStep` lists what a step may do with slot and history: leave them
(`Waits`, perhaps with an edit of the releases), let a task in (`Enters`), or end the turn of the task
in the slot (`Fails`, by itself or by the overtime check once it is lost; `Succeeds`). `TurnInv` then says that the copy a live task will write back
lacks no release of a task. `TurnsAreTaken` is the refinement, `Spec => TakesTurns`, with each
case of `TurnStep` mapped to a step of `BuildSlot` or a stutter; it assumes in addition that
nobody else edits the list (`edit`), since the engine replaces it from its copy (engine.go:480).

`TConfigTurnsProofs` proves what holds when requests come one after the other and the
webhook sees what is stored (`InTurn`; `tconfig_concurrent` shows that the first is
needed): `OneActiveHolds`. Its invariant is that the versions an activation has yet to mark
are in its list (`RivalsInTodo`). `ChosenStaysActive` and `NodesHaveMaster` assume besides that no
request is refused after the webhook has admitted it (`Kept`), as its marks stay
behind then. Failed requests of the webhook and of the controller and restarts are allowed by all
three. Between the marks on the old version and the write of the new one neither
property holds; `ChosenInv` says where the request must be in the meantime (`Replaced`), what each
kind of request still finds as it was at its admission (`RequestInv`), and that an active version
that was not chosen is being deleted.

`K8SWatcherProofs`, for any finite sets of watches and objects, any page size, number of
versions and faults: `TypeCorrect`, `ServedInStepHolds`, `NeverGoesBackHolds`. The invariant
follows a session through its phases: a token belongs to the version the session is at
(`TokenOK`), the map being filled holds the pages read and nothing else (`CacheOK`), and
`StreamOK`, what is left of a response is all that changed between `newestVersion_` and what was
sent. That a state lasts until an event changes it would be an induction over
versions; `QuietIsSame` says it of all versions so far and is kept by each write.

`ServerObjectProofs`, for any process ids, adapters and time limits: `TypeCorrect`,
`OneServerHolds`, `AskedFirstHolds`. That one process lives is not inductive: `KnownInv` adds
that `runtime_` knows it, that heartbeats on their way come from it, and that a server
reported Inactive has none; all three fail after a late heartbeat, which the property excepts.
`AskedInv` compares the patrol's clock with the process's own: while a server is to go, the
process in `pid_` was asked at least as long ago as `runtime_` says, also after a late heartbeat
made `pid_` name another one.

`WorkloadProofs`, for all three kinds, any specs, claim names and numbers of edits:
`TypeCorrect`, `NeverGoesBackHolds`, `ClaimsAfterSetHolds`. `VersionInv` orders the copies: no object,
in the API server, in the cache, in the worker or in a call that may yet land, was built from a
later edit than any TServer that can still be read, and a copy that still has the
resourceVersion is the object (`FreshIsSame`), so that an update by it is at least as new.
This holds for the copies of the controller that stands by as well, as long as it has heard of
every edit; once one has taken over that had not, `NeverGoesBack` promises nothing, since the
code does not. `GoneBeforeClaims` is what one worker guarantees, and a late call does not.

`LocalVolumeProofs`, for any claims, policies, deletions and faults: `TypeCorrect` and
`DataIsKept`. A copy of an object that is being deleted, if it has the uid of the present one, tells
the truth about it (`ClaimCopies`, `VolumeCopies`), and whose files are removed has no claim that
lives (`WorkInv`), if the agent had heard of that claim when it began, nor will have one: the claim it names has gone, and a new one of that name
gets another uid. A new uid is any that no copy bears, so that uids stay bounded in TLC;
`UnusedIs` shows by counting that there always is one.

Only model-checked: all liveness, which is out of the prover's reach (`SlotIsFreed`,
`WaiterAnswered`, `MarksAreActedOn`, `ServesChosenAtLast`, `CatchesUp`, `StartEnds`, `StopEnds`,
`StuckIsReplaced`, `ConditionFollows`, `RollsOut`, `StatusFollows`, `ExitRecorded`, `ServedAtLast`),
and with it most of `Pods`, whose promises are of this kind, and its `NewestKept`. `ImagePushed` and the other
external actions are assumptions of the models, which no proof justifies.

## 6. Plan

Modelled first: the object with most writers, the configuration versions, the watch
every C++ server depends on; then the life of a server process, the workloads, what is
told of pods, and local volumes; then the proofs of their safety. What is left:

1. A proof of `NewestKept`, which TLC checks: it needs that no copy of a record is newer than
   the record.
2. What liveness rests on, as far as it is safety: that whatever waits is in a queue, or is in
   one of the states the properties except (`deaf`, `stale`, `settled`, `unheard`).
3. The hazards that no property covers, since the code does not meet them (PROJECT.json names them
   with the reason): each would become a property once the code is changed.

## 7. Not modelled

- *Pure functions*: the conversion between v1beta2 and v1beta3, the defaults and checks of
  the TServer, TImage, TTree and TTemplate webhooks, template joins of tarsregistry. They
  copy and compare fields, have no steps to interleave, and would be as long in TLA+
  as in Go. A cycle of template parents would not end in `joinTemplates`
  (RegistryImp.cpp:11); the removal of duplicate releases fills in times at a shifted
  index (mutating timage.go:81).
- *Single idempotent patches*: the tree, account, node and volume claim controllers.
- *Queues that may lose by design*: KEvent, log, notify, statistics and query servers on
  their way to elasticsearch, and `K8SClient`'s request queue, whose callers are
  modelled with requests that fail, are lost or late.
- *tarsadminregistry*, a translation of the old administration interface; the
  endpoint queries of tarsregistry, which read the maps that `K8SWatcher` has.
- *The leader lease*, client-go's own; a restart or takeover at any time, with calls of the old
  process carried out later (`late`), stands for its loss.
- Generated clients, API types, charts and build scripts; of the nearly 66,000 lines of
  source most are of this kind, or near-copies for v1beta1 and v1beta2.
