----------------------------- MODULE TImageBuild -----------------------------
(***************************************************************************)
(* Building server images for one TImage object.  A request reaches the    *)
(* engine of tarsimage, which claims the object's build slot (build.running*)
(* in the API server), runs a tarskaniko pod, watches it and finally       *)
(* writes build and releases back; tarskaniko itself moves the phase of    *)
(* the slot; the timage controller frees a slot whose build takes longer   *)
(* than maxBuildTime.  All of them write the same object: some with        *)
(* Update, refused unless it carries the current resourceVersion, some     *)
(* with a JSON patch, which is never refused.                              *)
(***************************************************************************)
EXTENDS Naturals, Sequences, FiniteSets

CONSTANTS
    Task,       \* the build requests, by task.id
    Release,    \* releases a user may add to the object by hand
    None,       \* an empty slot
    Threads,    \* engine workers, MaximumConcurrencyBuildTask
    Faults,     \* what may go wrong, a subset of FaultKinds
    MaxFaults   \* bound on the faults of one behaviour

(***************************************************************************)
(* apiError    a request to the API server fails and is not applied        *)
(* lostReply   a request is applied, and its sender is told it failed      *)
(* edit        another client of the API server changes the object         *)
(* podDeleted  the builder pod is deleted by something other than tarsimage*)
(* evicted     the builder pod fails before it has a container status      *)
(* quickPod    the builder pod ends before tarsimage has opened the watch  *)
(* watchClosed the watch on the builder pod is closed                      *)
(* crash       the tarsimage process restarts                              *)
(* restart     the controller process restarts                             *)
(* overtime    maxBuildTime is shorter than a build, or runs out within    *)
(*             the time the controller's cache lags behind                 *)
(***************************************************************************)
FaultKinds == {"apiError", "lostReply", "edit", "podDeleted", "evicted",
               "quickPod", "watchClosed", "crash", "restart", "overtime"}

ASSUME ConstantsAssumption ==
    /\ None \notin Task
    /\ Task \cap Release = {}
    /\ None \notin Release
    /\ Threads \in Nat \ {0}
    /\ Faults \subseteq FaultKinds
    /\ MaxFaults \in Nat

VARIABLES
    timage,     \* the object in the API server
    pc,         \* where the engine is with each task
    snap,       \* task.timage: the engine's copy of the object
    tries,      \* attempts already spent on the last patch of a task
    answer,     \* what a request that waits (wait=1) has been told
    reaper,     \* tasks whose pod tarsimage will delete after 15 minutes
    pod,        \* the tarskaniko pod of each task
    podSnap,    \* resourceVersion of timageSnap inside that pod
    gone,       \* pods that have been deleted
    pushed,     \* tasks whose image has reached the registry
    cached,     \* build.running.id in the controller's informer cache
    timers,     \* overtime checks the controller's queue holds
    faults      \* faults so far

apiVars == <<timage, faults>>
engineVars == <<pc, snap, tries, answer>>
podVars == <<pod, podSnap, pushed>>
controllerVars == <<cached, timers>>
vars == <<apiVars, engineVars, reaper, podVars, gone, controllerVars>>

Phase == {"none", "Pending", "Preparing", "Submitting", "Building", "Pushing"}
Outcome == {"Done", "Failed"}

(* Between accepting a request and the last write of its outcome. *)
LivePc == {"queued", "context", "secret", "submit", "create", "watch",
           "watching", "blind", "deaf", "failed", "failing", "succeeding"}
EndPc == {"rejected", "ended", "lost"}
WatchPc == {"watching", "blind", "deaf"}

Running == {"created", "got", "building", "pushing"}
Terminated == {"succeeded", "failed", "killed", "evicted"}

Live(t) == pc[t] \in LivePc
Elements(s) == {s[i] : i \in DOMAIN s}

-----------------------------------------------------------------------------
(* The API server.                                                          *)

Fault(kind) ==
    /\ kind \in Faults
    /\ faults < MaxFaults
    /\ faults' = faults + 1

(* An Update that carries resourceVersion rv; ok is what the sender learns.
   An accepted Update carries the latest object, so what it leaves alone
   keeps its value. *)
Update(rv, object, ok) ==
    \/ /\ ok
       /\ rv = timage.rv
       /\ timage' = object
       /\ UNCHANGED faults
    \/ /\ ~ok
       /\ rv # timage.rv
       /\ UNCHANGED apiVars
    \/ /\ ~ok
       /\ Fault("apiError")
       /\ UNCHANGED timage
    \/ /\ ~ok
       /\ rv = timage.rv
       /\ Fault("lostReply")
       /\ timage' = object

(* A JSON patch carries no resourceVersion: it applies to whatever is there. *)
Patch(object, ok) ==
    \/ /\ ok
       /\ timage' = object
       /\ UNCHANGED faults
    \/ /\ ~ok
       /\ Fault("apiError")
       /\ UNCHANGED timage
    \/ /\ ~ok
       /\ Fault("lostReply")
       /\ timage' = object

(* The object with task t in the slot, in a phase. *)
InSlot(t, phase) ==
    [timage EXCEPT !.rv = @ + 1, !.running = t, !.phase = phase]

(* The object with the slot's task in another phase. *)
InPhase(phase) == [timage EXCEPT !.rv = @ + 1, !.phase = phase]

(* The object with an empty slot and t's outcome on record. *)
SlotFreed(t, outcome) ==
    [timage EXCEPT !.rv = @ + 1, !.running = None, !.phase = "none",
                   !.last = [id |-> t, phase |-> outcome]]

(* A client outside this model changes the object: its labels, its mark, or
   a release added by hand. *)
UserEdit ==
    /\ Fault("edit")
    /\ \/ timage' = [timage EXCEPT !.rv = @ + 1]
       \/ \E r \in Release \ Elements(timage.releases) :
             timage' = [timage EXCEPT !.rv = @ + 1, !.releases = <<r>> \o @]
    /\ UNCHANGED <<engineVars, reaper, podVars, gone, controllerVars>>

-----------------------------------------------------------------------------
(* The engine of tarsimage.                                                 *)

Copy == [ok |-> TRUE, rv |-> timage.rv, releases |-> timage.releases]
Returned == [ok |-> TRUE, rv |-> timage.rv + 1, releases |-> timage.releases]
(* Mutant: the object is read again after a conflict. *)
EmptyMutant == Copy

(* What the typed client returns beside an error: an empty object. *)
Empty == [ok |-> FALSE, rv |-> 0, releases |-> <<>>]

Goto(t, label) == pc' = [pc EXCEPT ![t] = label]

Reject(t) ==
    /\ Goto(t, "rejected")
    /\ answer' = [answer EXCEPT ![t] = "error"]

(* Mutant: PostTask does not look at the slot. *)
PostTaskGetMutant(t) ==
    /\ pc[t] = "idle"
    /\ Goto(t, "posting")
    /\ snap' = [snap EXCEPT ![t] = Copy]
    /\ UNCHANGED <<apiVars, tries, answer, reaper, podVars, gone, controllerVars>>

(* PostTask reads the object, and refuses when a task is in the slot. *)
PostTaskGet(t) ==
    /\ pc[t] = "idle"
    /\ \/ /\ timage.running = None
          /\ Goto(t, "posting")
          /\ snap' = [snap EXCEPT ![t] = Copy]
          /\ UNCHANGED <<answer, faults>>
       \/ /\ timage.running # None
          /\ Reject(t)
          /\ UNCHANGED <<snap, faults>>
       \/ /\ Fault("apiError")
          /\ Reject(t)
          /\ UNCHANGED snap
    /\ UNCHANGED <<timage, tries, reaper, podVars, gone, controllerVars>>

(* PostTask claims the slot, then offers the task to the workers. *)
PostTaskClaim(t) ==
    /\ pc[t] = "posting"
    /\ \/ /\ Update(snap[t].rv, InSlot(t, "Pending"), TRUE)
          /\ Goto(t, "queued")
          /\ snap' = [snap EXCEPT ![t] = Returned]
          /\ UNCHANGED answer
       \/ /\ Update(snap[t].rv, InSlot(t, "Pending"), FALSE)
          /\ Reject(t)
          /\ UNCHANGED snap
    /\ UNCHANGED <<tries, reaper, podVars, gone, controllerVars>>

(* A worker that is free takes the task from buildChan. *)
Start(t) ==
    /\ pc[t] = "queued"
    /\ Cardinality({u \in Task : Live(u) /\ pc[u] # "queued"}) < Threads
    /\ Goto(t, "context")
    /\ UNCHANGED <<apiVars, snap, tries, answer, reaper, podVars, gone,
                   controllerVars>>

(* pushBuildRunningState, and the work on local files that follows it. *)
PushState(t, from, phase, next) ==
    /\ pc[t] = from
    /\ snap[t].ok
    /\ \/ /\ Update(snap[t].rv, InSlot(t, phase), TRUE)
          /\ snap' = [snap EXCEPT ![t] = Returned]
       \/ /\ Update(snap[t].rv, InSlot(t, phase), FALSE)
          /\ snap' = [snap EXCEPT ![t] = Empty]
    /\ \E label \in next : Goto(t, label)
    /\ UNCHANGED <<tries, answer, reaper, podVars, gone, controllerVars>>

PrepareContext(t) == PushState(t, "context", "Preparing", {"secret", "failed"})
PrepareSecret(t) == PushState(t, "secret", "Preparing", {"submit", "failed"})
PushSubmitting(t) == PushState(t, "submit", "Submitting", {"create"})

(* submit creates the pod, and arms the deletion of it. *)
Submit(t) ==
    /\ pc[t] = "create"
    /\ \/ /\ Goto(t, "watch")
          /\ pod' = [pod EXCEPT ![t] = "created"]
          /\ reaper' = reaper \cup {t}
          /\ UNCHANGED faults
       \/ /\ Fault("apiError")
          /\ Goto(t, "failed")
          /\ UNCHANGED <<pod, reaper>>
       \/ /\ Fault("lostReply")
          /\ Goto(t, "failed")
          /\ pod' = [pod EXCEPT ![t] = "created"]
          /\ UNCHANGED reaper
    /\ UNCHANGED <<timage, snap, tries, answer, podSnap, pushed, gone,
                   controllerVars>>

(* The watch starts with an Added event, which watch skips: an end the pod
   has already reached is seen only through its deletion, and the deletion
   not at all if it came first. *)
OpenWatch(t) ==
    /\ pc[t] = "watch"
    /\ \/ /\ \/ t \in gone /\ Goto(t, "deaf")
             \/ t \notin gone /\ pod[t] \in Terminated /\ Goto(t, "blind")
             \/ t \notin gone /\ pod[t] \in Running /\ Goto(t, "watching")
          /\ UNCHANGED faults
       \/ /\ Fault("apiError")
          /\ Goto(t, "failed")
    /\ UNCHANGED <<timage, snap, tries, answer, reaper, podVars, gone,
                   controllerVars>>

(* Mutant: the phases Failed and Succeeded are not told apart. *)
WatchEventMutant(t) ==
    /\ pc[t] = "watching"
    /\ pod[t] \in {"succeeded", "failed"}
    /\ Goto(t, "succeeding")
    /\ UNCHANGED <<apiVars, snap, tries, answer, reaper, podVars, gone,
                   controllerVars>>

WatchEvent(t) ==
    /\ \/ pc[t] = "watching" /\ pod[t] = "succeeded" /\ Goto(t, "succeeding")
       \/ pc[t] = "watching" /\ pod[t] \in {"failed", "killed"} /\ Goto(t, "failed")
       \/ pc[t] = "blind" /\ t \in gone /\ Goto(t, "failed")
    /\ UNCHANGED <<apiVars, snap, tries, answer, reaper, podVars, gone,
                   controllerVars>>

(* A closed channel ends watch with a nil error, an Error event does not. *)
WatchLost(t) ==
    /\ pc[t] \in WatchPc
    /\ \/ Fault("watchClosed") /\ Goto(t, "succeeding")
       \/ Fault("apiError") /\ Goto(t, "failed")
    /\ UNCHANGED <<timage, snap, tries, answer, reaper, podVars, gone,
                   controllerVars>>

(* Mutant: only a success is sent to waitChan. *)
ReportFailureMutant(t) ==
    /\ pc[t] = "failed"
    /\ Goto(t, "failing")
    /\ UNCHANGED <<apiVars, snap, tries, answer, reaper, podVars, gone,
                   controllerVars>>

(* onBuildFailed tells the waiting request first. *)
ReportFailure(t) ==
    /\ pc[t] = "failed"
    /\ Goto(t, "failing")
    /\ answer' = [answer EXCEPT ![t] = "error"]
    /\ UNCHANGED <<apiVars, snap, tries, reaper, podVars, gone, controllerVars>>

(* One attempt at the last patch; without a name (an Empty copy) it is
   refused by the client library itself. *)
Attempt(t, object, ok) ==
    \/ snap[t].ok /\ Patch(object, ok)
    \/ ~snap[t].ok /\ ~ok /\ UNCHANGED apiVars

(* Mutant: one attempt more. *)
LastAttemptMutant(t) == tries[t] = 2

LastAttempt(t) == tries[t] = 1

(* Mutant: the phase is not set before the failure is recorded. *)
FailedMutant(t) == SlotFreed(t, "Done")

Failed(t) == SlotFreed(t, "Failed")

OnBuildFailed(t) ==
    /\ pc[t] = "failing"
    /\ \/ /\ Attempt(t, Failed(t), TRUE)
          /\ Goto(t, "ended")
          /\ UNCHANGED tries
       \/ /\ Attempt(t, Failed(t), FALSE)
          /\ LastAttempt(t)
          /\ Goto(t, "ended")
          /\ UNCHANGED tries
       \/ /\ Attempt(t, Failed(t), FALSE)
          /\ ~LastAttempt(t)
          /\ tries' = [tries EXCEPT ![t] = @ + 1]
          /\ UNCHANGED pc
    /\ UNCHANGED <<snap, answer, reaper, podVars, gone, controllerVars>>

(* Mutant: the new release is added to the list found in the object. *)
SucceededMutant(t) ==
    [SlotFreed(t, "Done") EXCEPT !.releases = <<t>> \o @]

(* Mutant: the new release is added at the end. *)
SucceededAtEndMutant(t) ==
    [SlotFreed(t, "Done") EXCEPT !.releases = snap[t].releases \o <<t>>]

(* The new release goes before the releases of the engine's copy, and the
   whole list replaces the one in the object: the shortened list is kept in
   the engine's copy only. *)
Succeeded(t) ==
    [SlotFreed(t, "Done") EXCEPT !.releases = <<t>> \o snap[t].releases]

(* Mutant: the error of the last attempt does not reach waitChan. *)
OnBuildSuccessMutant(t) ==
    /\ pc[t] = "succeeding"
    /\ \E ok \in BOOLEAN :
          /\ Attempt(t, Succeeded(t), ok)
          /\ IF ok \/ LastAttempt(t)
                THEN /\ Goto(t, "ended")
                     /\ answer' = [answer EXCEPT ![t] = "ok"]
                     /\ UNCHANGED tries
                ELSE /\ tries' = [tries EXCEPT ![t] = @ + 1]
                     /\ UNCHANGED <<pc, answer>>
    /\ UNCHANGED <<snap, reaper, podVars, gone, controllerVars>>

OnBuildSuccess(t) ==
    /\ pc[t] = "succeeding"
    /\ \/ /\ Attempt(t, Succeeded(t), TRUE)
          /\ Goto(t, "ended")
          /\ answer' = [answer EXCEPT ![t] = "ok"]
          /\ UNCHANGED tries
       \/ /\ Attempt(t, Succeeded(t), FALSE)
          /\ LastAttempt(t)
          /\ Goto(t, "ended")
          /\ answer' = [answer EXCEPT ![t] = "error"]
          /\ UNCHANGED tries
       \/ /\ Attempt(t, Succeeded(t), FALSE)
          /\ ~LastAttempt(t)
          /\ tries' = [tries EXCEPT ![t] = @ + 1]
          /\ UNCHANGED <<pc, answer>>
    /\ UNCHANGED <<snap, reaper, podVars, gone, controllerVars>>

(* Every task and every timer of the process is lost. *)
EngineDies ==
    /\ pc' = [t \in Task |->
                 IF Live(t) \/ pc[t] = "posting" THEN "lost" ELSE pc[t]]
    /\ reaper' = {}
    /\ UNCHANGED <<timage, snap, tries, answer, podVars, gone, controllerVars>>

EngineCrash ==
    /\ Fault("crash")
    /\ EngineDies

(* pushBuildRunningState on an Empty copy dereferences a nil Build, and watch
   reads the first of no container statuses. *)
EnginePanic(t) ==
    /\ \/ pc[t] \in {"context", "secret", "submit"} /\ ~snap[t].ok
       \/ pc[t] = "watching" /\ pod[t] = "evicted"
    /\ EngineDies
    /\ UNCHANGED faults

-----------------------------------------------------------------------------
(* tarskaniko, in its pod.                                                  *)

(* The pod waits for the watch, unless it is quick. *)
Watched(t) == pc[t] # "watch" \/ "quickPod" \in Faults

(* Mutant: the id of the slot's task is not compared. *)
KanikoGetMutant(t) ==
    /\ pod[t] = "created"
    /\ timage.running # None
    /\ pod' = [pod EXCEPT ![t] = "got"]
    /\ podSnap' = [podSnap EXCEPT ![t] = timage.rv]
    /\ UNCHANGED <<apiVars, engineVars, reaper, pushed, gone, controllerVars>>

(* It runs only if its task is still in the slot. *)
KanikoGet(t) ==
    /\ pod[t] = "created"
    /\ Watched(t)
    /\ \/ /\ timage.running = t
          /\ pod' = [pod EXCEPT ![t] = "got"]
          /\ podSnap' = [podSnap EXCEPT ![t] = timage.rv]
       \/ /\ timage.running # t
          /\ pod' = [pod EXCEPT ![t] = "failed"]
          /\ UNCHANGED podSnap
    /\ UNCHANGED <<apiVars, engineVars, reaper, pushed, gone, controllerVars>>

(* pushStateOrDie: the copy is lost with the first error, so that its other
   two attempts name no object and the process exits. *)
PushStateOrDie(t, from, phase, to) ==
    /\ pod[t] = from
    /\ \/ /\ Update(podSnap[t], InPhase(phase), TRUE)
          /\ pod' = [pod EXCEPT ![t] = to]
          /\ podSnap' = [podSnap EXCEPT ![t] = timage.rv + 1]
       \/ /\ Update(podSnap[t], InPhase(phase), FALSE)
          /\ pod' = [pod EXCEPT ![t] = "failed"]
          /\ UNCHANGED podSnap
    /\ UNCHANGED <<engineVars, reaper, pushed, gone, controllerVars>>

KanikoBuild(t) == PushStateOrDie(t, "got", "Building", "building")
KanikoPush(t) == PushStateOrDie(t, "building", "Pushing", "pushing")

(* DoPush has uploaded the image. *)
ImagePushed(t) ==
    /\ pod[t] = "pushing"
    /\ t \notin pushed
    /\ pushed' = pushed \cup {t}
    /\ UNCHANGED <<apiVars, engineVars, reaper, pod, podSnap, gone,
                   controllerVars>>

KanikoExit(t) ==
    /\ Watched(t)
    /\ \/ /\ pod[t] = "pushing"
          /\ t \in pushed
          /\ pod' = [pod EXCEPT ![t] = "succeeded"]
          /\ UNCHANGED faults
       \/ /\ pod[t] \in Running
          /\ pod' = [pod EXCEPT ![t] = "failed"]
          /\ UNCHANGED faults
       \/ /\ pod[t] = "created"
          /\ Fault("evicted")
          /\ pod' = [pod EXCEPT ![t] = "evicted"]
    /\ UNCHANGED <<timage, engineVars, reaper, podSnap, pushed, gone,
                   controllerVars>>

DeletePod(t) ==
    /\ Watched(t)
    /\ gone' = gone \cup {t}
    /\ pod' = [pod EXCEPT ![t] = IF @ \in Running THEN "killed" ELSE @]
    /\ UNCHANGED <<timage, engineVars, podSnap, pushed, controllerVars>>

(* 15 minutes after submit, longer than maxBuildTime, and only once. *)
ReapPod(t) ==
    /\ t \in reaper
    /\ "overtime" \in Faults \/ ~Live(t)
    /\ reaper' = reaper \ {t}
    /\ \/ DeletePod(t) /\ UNCHANGED faults
       \/ /\ Fault("apiError")
          /\ UNCHANGED <<timage, engineVars, podVars, gone, controllerVars>>

PodDeleted(t) ==
    /\ pod[t] # "absent"
    /\ t \notin gone
    /\ Fault("podDeleted")
    /\ DeletePod(t)
    /\ UNCHANGED reaper

-----------------------------------------------------------------------------
(* The timage controller.                                                   *)

(* Mutant: no overtime check is queued. *)
InformerSyncMutant ==
    /\ cached # timage.running
    /\ cached' = timage.running
    /\ UNCHANGED <<apiVars, engineVars, reaper, podVars, gone, timers>>

(* The informer catches up; the handler of the event adds an overtime check
   for the task in the slot. *)
InformerSync ==
    /\ cached # timage.running
    /\ cached' = timage.running
    /\ timers' = timers \cup ({timage.running} \ {None})
    /\ UNCHANGED <<apiVars, engineVars, reaper, podVars, gone>>

(* Without that fault maxBuildTime runs out only for a task nobody serves. *)
MaxBuildTimeOver(t) ==
    "overtime" \in Faults \/ (~Live(t) /\ timage.running = t)

CheckOvertime(t) ==
    /\ t \in timers
    /\ \/ /\ cached # t
          /\ timers' = timers \ {t}
          /\ UNCHANGED apiVars
       \/ /\ cached = t
          /\ MaxBuildTimeOver(t)
          /\ \/ Patch(SlotFreed(t, "Failed"), TRUE) /\ timers' = timers \ {t}
             \/ Patch(SlotFreed(t, "Failed"), FALSE) /\ UNCHANGED timers
    /\ UNCHANGED <<engineVars, reaper, podVars, gone, cached>>

(* The queue is in memory; the new process lists the object. *)
ControllerRestart ==
    /\ Fault("restart")
    /\ cached' = timage.running
    /\ timers' = {timage.running} \ {None}
    /\ UNCHANGED <<timage, engineVars, reaper, podVars, gone>>

-----------------------------------------------------------------------------
Init ==
    /\ timage = [rv |-> 0, running |-> None, phase |-> "none", last |-> None,
                 releases |-> <<>>]
    /\ pc = [t \in Task |-> "idle"]
    /\ snap = [t \in Task |-> Empty]
    /\ tries = [t \in Task |-> 0]
    /\ answer = [t \in Task |-> "none"]
    /\ reaper = {}
    /\ pod = [t \in Task |-> "absent"]
    /\ podSnap = [t \in Task |-> 0]
    /\ gone = {}
    /\ pushed = {}
    /\ cached = None
    /\ timers = {}
    /\ faults = 0

EngineStep(t) ==
    \/ Start(t) \/ PrepareContext(t) \/ PrepareSecret(t) \/ PushSubmitting(t)
    \/ Submit(t) \/ OpenWatch(t) \/ WatchEvent(t)
    \/ ReportFailure(t) \/ OnBuildFailed(t) \/ OnBuildSuccess(t)

KanikoStep(t) ==
    \/ KanikoGet(t) \/ KanikoBuild(t) \/ KanikoPush(t)
    \/ ImagePushed(t) \/ KanikoExit(t)

Next ==
    \/ \E t \in Task :
          \/ PostTaskGet(t) \/ PostTaskClaim(t)
          \/ EngineStep(t) \/ WatchLost(t) \/ EnginePanic(t)
          \/ KanikoStep(t) \/ ReapPod(t) \/ PodDeleted(t)
          \/ CheckOvertime(t)
    \/ InformerSync
    \/ UserEdit \/ EngineCrash \/ ControllerRestart

Spec == Init /\ [][Next]_vars

(* The goroutines of tarsimage, its timers, and the controller's informer
   and queue keep running; nothing is assumed of requests, pods or faults. *)
Fairness ==
    /\ \A t \in Task : /\ WF_vars(PostTaskClaim(t))
                       /\ WF_vars(EngineStep(t))
                       /\ WF_vars(EnginePanic(t))
                       /\ WF_vars(ReapPod(t))
                       /\ WF_vars(CheckOvertime(t))
    /\ WF_vars(InformerSync)

FairSpec == Spec /\ Fairness

-----------------------------------------------------------------------------
(* Properties.                                                              *)

Releases == Seq(Task \cup Release)
TImage == [rv : Nat, running : Task \cup {None}, phase : Phase,
           last : [id : Task, phase : Outcome] \cup {None},
           releases : Releases]
Snap == [ok : BOOLEAN, rv : Nat, releases : Releases]

(* The values every variable may take. *)
TypeOK ==
    /\ timage \in TImage
    /\ pc \in [Task -> {"idle", "posting"} \cup LivePc \cup EndPc]
    /\ snap \in [Task -> Snap]
    /\ tries \in [Task -> 0 .. 1]
    /\ answer \in [Task -> {"none", "ok", "error"}]
    /\ reaper \subseteq Task
    /\ pod \in [Task -> {"absent"} \cup Running \cup Terminated]
    /\ podSnap \in [Task -> Nat]
    /\ gone \subseteq Task
    /\ pushed \subseteq Task
    /\ cached \in Task \cup {None}
    /\ timers \subseteq Task
    /\ faults \in 0 .. MaxFaults

ClaimedPc == {"queued", "context", "secret", "submit"}

CopyIsVersioned(t) ==
    /\ snap[t].rv <= timage.rv
    /\ podSnap[t] <= timage.rv
    /\ pc[t] = "posting" /\ snap[t].rv = timage.rv => timage.running = None
    /\ pc[t] \in ClaimedPc /\ snap[t].ok /\ snap[t].rv = timage.rv
          => timage.running = t
    /\ pod[t] \in {"got", "building"} /\ podSnap[t] = timage.rv
          => timage.running = t

(* What a resourceVersion is worth: whoever holds the current one, engine or
   tarskaniko, knows what is in the slot. *)
CopiesAreVersioned == \A t \in Task : CopyIsVersioned(t)

(* No writer of a progress report or of a claim ever takes the slot away from
   another task: whatever goes wrong, a task enters an empty slot only. *)
SlotNotStolen ==
    [][\A t \in Task : timage'.running = t /\ timage.running # t
                           => timage.running = None]_vars

(* An image is uploaded only on behalf of the task that was in the slot when
   tarskaniko decided to upload it, also after an overtime, a crash or a
   failure report that freed the slot under a pod that goes on building. *)
OnlyHolderPushes ==
    [][\A t \in Task : pod[t] # "pushing" /\ pod'[t] = "pushing"
                           => timage.running = t]_vars

(* However often the patch that records a release is repeated or overtaken, no
   release is in the list twice: the webhook that removes duplicates finds
   none in what tarsimage writes. *)
ReleasedOnce ==
    \A i, j \in DOMAIN timage.releases :
        timage.releases[i] = timage.releases[j] => i = j

(* A task works, from its claim to the last attempt at recording its outcome,
   only while no other task does. *)
OneLiveBuild == \A t, u \in Task : Live(t) /\ Live(u) => t = u

(* The slot is emptied on behalf of the task that is in it: no late report of
   one build ends the turn of another. *)
OwnSlotFreed ==
    [][timage.running # None /\ timage'.running = None
          => timage'.last.id = timage.running]_vars

(* A request that was told its build succeeded finds its release recorded. *)
AnsweredOkIsReleased ==
    \A t \in Task : answer[t] = "ok" => t \in Elements(timage.releases)

(* build.last and releases, written together by tarsimage and apart from it
   by the controller, tell the same story. *)
OutcomeAgrees ==
    timage.last # None =>
        (timage.last.phase = "Done" <=>
            timage.last.id \in Elements(timage.releases))

(* A release stands for an image that has reached the registry. *)
ReleasedWasPushed == Task \cap Elements(timage.releases) \subseteq pushed

(* The slot never stays with a task for good: its engine or, when that is
   gone or stuck, the controller frees it. *)
SlotIsFreed ==
    \A t \in Task : timage.running = t ~> timage.running # t

(* A request that waits is answered, unless the process dies, or a worker
   waits for good for the events of a pod that was gone before it looked: the
   tasks behind it then wait as well. *)
WaiterAnswered ==
    \A t \in Task :
        Live(t) ~> \/ answer[t] # "none" \/ pc[t] = "lost"
                   \/ \E u \in Task : pc[u] = "deaf"

(* The object as its users see it. *)
Slot == INSTANCE BuildSlot
            WITH holder <- timage.running, releases <- timage.releases

(* Without a late timer, a lost reply or a writer from outside, the object
   goes through the turns BuildSlot describes. *)
TakesTurns == Slot!SlotSpec
=============================================================================
