------------------------- MODULE TImageTurnsProofs -------------------------
(***************************************************************************)
(* Theorems about the turns of TImageBuild: who works, what is released,   *)
(* and that the object goes through what BuildSlot promises; each for the  *)
(* faults it survives, any requests, workers and number of faults.         *)
(***************************************************************************)
EXTENDS TImageBuildProofs

(* Nobody is told a patch failed that was applied, and maxBuildTime is long *)
(* enough for a build.                                                      *)
Prompt == {"lostReply", "overtime"} \cap Faults = {}

(* Where a task may be that has been released, as far as anybody knows.    *)
ReleasingPc == {"succeeding", "ended", "lost"}

Unique(s) == \A i, j \in DOMAIN s : s[i] = s[j] => i = j

(* Some list of releases, in the object or in a copy of it, has task t.    *)
Listed(t) ==
    \/ t \in Elements(timage.releases)
    \/ \E u \in Task : t \in Elements(snap[u].releases)

(* A list is only ever extended by a task that is in none of those it could *)
(* be put in front of.                                                      *)
ReleaseInv ==
    /\ Unique(timage.releases)
    /\ \A t \in Task : Unique(snap[t].releases)
    /\ \A t \in Task : Listed(t) => pc[t] \in ReleasingPc
    /\ \A t \in Task : t \notin Elements(snap[t].releases)

(* Who is to be released has been uploaded, as far as anybody can tell.    *)
PushedInv ==
    \A t \in Task :
        Listed(t) \/ pc[t] = "succeeding" \/ pod[t] = "succeeded" => t \in pushed

(* A task at work is in the slot. *)
LiveHolds == \A t \in Task : Live(t) => timage.running = t

(* Releases are recorded in turn: of tasks that are through, none is lost, *)
(* and the last outcome is the one the releases tell of.                   *)
Told(t) ==
    /\ t \in Elements(timage.releases) => pc[t] = "ended" /\ timage.running # t
    /\ answer[t] = "ok" => t \in Elements(timage.releases)
    /\ Live(t) /\ snap[t].ok =>
          Task \cap Elements(timage.releases) \subseteq Elements(snap[t].releases)
    /\ Task \cap Elements(snap[t].releases) \subseteq Elements(timage.releases)

TurnInv ==
    /\ \A t \in Task : Told(t)
    /\ OutcomeAgrees

(* Nobody else writes releases: the copy of who is at work is the list.    *)
CopyIsList ==
    \A t \in Task : Live(t) /\ snap[t].ok => snap[t].releases = timage.releases

-----------------------------------------------------------------------------
(* Lists and objects.                                                       *)

(* What is put in front of a list without it. *)
LEMMA InFront ==
    ASSUME NEW S, NEW s \in Seq(S), NEW x \in S
    PROVE  /\ Elements(<<x>> \o s) = {x} \cup Elements(s)
           /\ Unique(s) /\ x \notin Elements(s) => Unique(<<x>> \o s)
<1> DEFINE front == <<x>> \o s
<1>1. /\ DOMAIN front = 1 .. Len(s) + 1 /\ DOMAIN s = 1 .. Len(s) /\ Len(s) \in Nat
      /\ front[1] = x
      /\ \A i \in 2 .. Len(s) + 1 : front[i] = s[i - 1]
    OBVIOUS
<1> HIDE DEF front
<1>2. \A i \in DOMAIN front : i = 1 \/ (i - 1 \in DOMAIN s /\ front[i] = s[i - 1])
    BY <1>1
<1>3. \A i \in DOMAIN s : i + 1 \in DOMAIN front /\ front[i + 1] = s[i]
    BY <1>1
<1>4. Elements(front) \subseteq {x} \cup Elements(s)
    BY <1>1, <1>2 DEF Elements
<1>5. {x} \cup Elements(s) \subseteq Elements(front)
    BY <1>1, <1>3 DEF Elements
<1>6. ASSUME Unique(s), x \notin Elements(s)
      PROVE  Unique(front)
    <2> SUFFICES ASSUME NEW i \in DOMAIN front, NEW j \in DOMAIN front, front[i] = front[j]
                 PROVE  i = j
        BY DEF Unique
    <2>1. CASE i = 1 \/ j = 1
        BY <1>1, <1>2, <1>6, <2>1 DEF Elements
    <2>2. CASE i # 1 /\ j # 1
        BY <1>1, <1>2, <1>6, <2>2 DEF Unique
    <2> QED BY <2>1, <2>2
<1> QED BY <1>4, <1>5, <1>6 DEF front

LEMMA ReleasesTyped ==
    ASSUME TypeOK, NEW t \in Task
    PROVE  timage.releases \in Releases /\ snap[t].releases \in Releases
BY DEF TypeOK, TImage, Snap

(* What the objects the program writes say beside their version. *)
LEMMA ObjectsSay ==
    ASSUME TypeOK, NEW t \in Task
    PROVE  /\ \A p : /\ InSlot(t, p).releases = timage.releases
                     /\ InSlot(t, p).last = timage.last
           /\ \A p : /\ InPhase(p).releases = timage.releases
                     /\ InPhase(p).last = timage.last
                     /\ InPhase(p).running = timage.running
           /\ \A o : /\ SlotFreed(t, o).releases = timage.releases
                     /\ SlotFreed(t, o).last = [id |-> t, phase |-> o]
           /\ Failed(t).releases = timage.releases
           /\ Failed(t).last = [id |-> t, phase |-> "Failed"]
           /\ Succeeded(t).releases = <<t>> \o snap[t].releases
           /\ Succeeded(t).last = [id |-> t, phase |-> "Done"]
BY DEF TypeOK, TImage, InSlot, InPhase, SlotFreed, Failed, Succeeded

-----------------------------------------------------------------------------
(* Which releases are recorded, whatever goes wrong.                        *)

USE DEF apiVars, engineVars, podVars, controllerVars

(* What a step may make of the list in the object. *)
ListGrows ==
    \/ timage'.releases = timage.releases
    \/ \E r \in Release \ Elements(timage.releases) :
          timage'.releases = <<r>> \o timage.releases
    \/ \E t \in Task : /\ pc[t] = "succeeding"
                       /\ timage'.releases = <<t>> \o snap[t].releases

(* And of the list in the copy of a task. *)
CopyFollows(t) ==
    \/ snap'[t].releases = snap[t].releases
    \/ snap'[t].releases = <<>>
    \/ /\ pc[t] \notin ReleasingPc
       /\ snap'[t].releases = timage.releases

(* A task that is through stays so, and a build succeeds in its pod.       *)
Proceeds(t) ==
    /\ pc[t] \in ReleasingPc => pc'[t] \in ReleasingPc
    /\ pc'[t] = "succeeding" =>
          pc[t] = "succeeding" \/ pod[t] = "succeeded" \/ "watchClosed" \in Faults
    /\ pod'[t] = "succeeded" => pod[t] = "succeeded" \/ t \in pushed
    /\ t \in pushed => t \in pushed'

ListStep == ListGrows /\ \A t \in Task : CopyFollows(t) /\ Proceeds(t)

LEMMA ListStepIs == TypeOK /\ [Next]_vars => ListStep
<1> SUFFICES ASSUME TypeOK, [Next]_vars
             PROVE  ListStep
    OBVIOUS
<1> USE DEF ListStep, Goto, Reject, ReleasingPc
<1>1. ASSUME NEW t \in Task, PostTaskGet(t)
      PROVE  ListStep
    <2>1. ListGrows
        BY <1>1 DEF PostTaskGet, ListGrows
    <2>2. \A u \in Task : CopyFollows(u)
        BY <1>1 DEF PostTaskGet, Copy, TypeOK, CopyFollows
    <2>3. \A u \in Task : Proceeds(u)
        BY <1>1 DEF PostTaskGet, TypeOK, Proceeds
    <2> QED
        BY <2>1, <2>2, <2>3
<1>2. ASSUME NEW t \in Task, PostTaskClaim(t)
      PROVE  ListStep
    <2>1. timage' = timage \/ timage' = InSlot(t, "Pending")
        BY <1>2, UpdateSlot DEF PostTaskClaim
    <2>2. InSlot(t, "Pending").releases = timage.releases
        BY ObjectsSay
    <2>3. ListGrows
        BY <2>1, <2>2 DEF ListGrows
    <2>4. ASSUME NEW u \in Task
          PROVE  CopyFollows(u)
        <3>1. snap' = snap \/ snap' = [snap EXCEPT ![t] = Returned]
            BY <1>2 DEF PostTaskClaim
        <3>2. pc[t] = "posting"
            BY <1>2 DEF PostTaskClaim
        <3>3. CASE snap' = snap
            BY <3>3 DEF CopyFollows
        <3>4. CASE snap' = [snap EXCEPT ![t] = Returned]
            BY <3>2, <3>4 DEF Returned, TypeOK, CopyFollows
        <3> QED
            BY <3>1, <3>3, <3>4
    <2>5. ASSUME NEW u \in Task
          PROVE  Proceeds(u)
        BY <1>2 DEF PostTaskClaim, TypeOK, Proceeds
    <2> QED
        BY <2>3, <2>4, <2>5
<1>3. ASSUME NEW t \in Task, NEW from \in ClaimedPc, NEW phase,
             NEW next \in SUBSET (LivePc \ {"succeeding"}), PushState(t, from, phase, next)
      PROVE  ListStep
    <2>1. timage' = timage \/ timage' = InSlot(t, phase)
        BY <1>3, UpdateSlot DEF PushState
    <2>2. InSlot(t, phase).releases = timage.releases
        BY ObjectsSay
    <2>3. ListGrows
        BY <2>1, <2>2 DEF ListGrows
    <2>4. ASSUME NEW u \in Task
          PROVE  CopyFollows(u)
        <3>1. \/ snap' = [snap EXCEPT ![t] = Empty]
              \/ snap' = [snap EXCEPT ![t] = Returned]
            BY <1>3 DEF PushState
        <3>2. pc[t] \in ClaimedPc
            BY <1>3 DEF PushState
        <3> QED
            BY <3>1, <3>2 DEF Returned, Empty, TypeOK, CopyFollows, ClaimedPc
    <2>5. PICK label \in LivePc \ {"succeeding"} : Goto(t, label)
        BY <1>3 DEF PushState
    <2>6. ASSUME NEW u \in Task
          PROVE  Proceeds(u)
        BY <1>3, <2>5 DEF PushState, TypeOK, Proceeds, ClaimedPc
    <2> QED
        BY <2>3, <2>4, <2>6
<1>4. ASSUME NEW t \in Task,
             \/ Start(t) \/ Submit(t) \/ OpenWatch(t) \/ WatchEvent(t)
             \/ WatchLost(t) \/ ReportFailure(t)
      PROVE  ListStep
    <2>1. ListGrows
        BY <1>4 DEF Start, Submit, OpenWatch, WatchEvent, WatchLost, ReportFailure, ListGrows
    <2>2. \A u \in Task : CopyFollows(u)
        BY <1>4 DEF Start, Submit, OpenWatch, WatchEvent, WatchLost, ReportFailure, CopyFollows
    <2>3. \A u \in Task : Proceeds(u)
        BY <1>4 DEF Start, Submit, OpenWatch, WatchEvent, WatchLost, WatchPc, ReportFailure,
                    Proceeds, TypeOK, Fault
    <2> QED
        BY <2>1, <2>2, <2>3
<1>5. ASSUME NEW t \in Task, OnBuildFailed(t) \/ OnBuildSuccess(t)
      PROVE  ListStep
    <2>1. \/ timage' = timage
          \/ timage' = Failed(t)
          \/ pc[t] = "succeeding" /\ timage' = Succeeded(t)
        BY <1>5, PatchSlot DEF OnBuildFailed, OnBuildSuccess, Attempt
    <2>2. ListGrows
        BY <2>1, ObjectsSay DEF ListGrows
    <2> QED
        BY <1>5, <2>2 DEF OnBuildFailed, OnBuildSuccess, CopyFollows, Proceeds, TypeOK
<1>6. ASSUME EngineDies, UNCHANGED faults
      PROVE  ListStep
    BY <1>6 DEF EngineDies, ListGrows, CopyFollows, Proceeds, TypeOK, Live, LivePc
<1>7. ASSUME NEW t \in Task, EnginePanic(t)
      PROVE  ListStep
    BY <1>6, <1>7 DEF EnginePanic
<1>8. CASE EngineCrash
    BY <1>8 DEF EngineCrash, EngineDies, ListGrows, CopyFollows, Proceeds, TypeOK, Live, LivePc
<1>9. ASSUME NEW t \in Task, KanikoStep(t)
      PROVE  ListStep
    <2>1. CASE KanikoBuild(t) \/ KanikoPush(t)
        <3>1. PICK phase : timage' = timage \/ timage' = InPhase(phase)
            BY <2>1, UpdateSlot DEF KanikoBuild, KanikoPush, PushStateOrDie
        <3>2. InPhase(phase).releases = timage.releases
            BY ObjectsSay
        <3>3. ListGrows
            BY <3>1, <3>2 DEF ListGrows
        <3> QED
            BY <2>1, <3>3 DEF KanikoBuild, KanikoPush, PushStateOrDie, CopyFollows, Proceeds,
                              TypeOK
    <2>2. CASE KanikoGet(t) \/ ImagePushed(t) \/ KanikoExit(t)
        BY <2>2 DEF KanikoGet, ImagePushed, KanikoExit, ListGrows, CopyFollows, Proceeds, TypeOK,
                    Running
    <2> QED
        BY <1>9, <2>1, <2>2 DEF KanikoStep
<1>10. ASSUME NEW t \in Task, ReapPod(t) \/ PodDeleted(t)
       PROVE  ListStep
    BY <1>10 DEF ReapPod, PodDeleted, DeletePod, ListGrows, CopyFollows, Proceeds, TypeOK
<1>11. ASSUME NEW t \in Task, CheckOvertime(t)
       PROVE  ListStep
    <2>1. timage' = timage \/ timage' = SlotFreed(t, "Failed")
        BY <1>11, PatchSlot DEF CheckOvertime
    <2>2. SlotFreed(t, "Failed").releases = timage.releases
        BY ObjectsSay
    <2>3. ListGrows
        BY <2>1, <2>2 DEF ListGrows
    <2> QED
        BY <1>11, <2>3 DEF CheckOvertime, CopyFollows, Proceeds
<1>12. CASE InformerSync \/ ControllerRestart \/ UNCHANGED vars
    BY <1>12 DEF InformerSync, ControllerRestart, vars, ListGrows, CopyFollows, Proceeds
<1>13. CASE UserEdit
    <2>1. ListGrows
        BY <1>13 DEF UserEdit, ListGrows, TypeOK, TImage
    <2> QED
        BY <1>13, <2>1 DEF UserEdit, CopyFollows, Proceeds
<1>14. ASSUME NEW t \in Task, EngineStep(t)
       PROVE  ListStep
    BY <1>3, <1>4, <1>5, <1>14
       DEF EngineStep, PrepareContext, PrepareSecret, PushSubmitting, ClaimedPc, LivePc
<1> QED
    BY <1>1, <1>2, <1>4, <1>7, <1>8, <1>9, <1>10, <1>11, <1>12, <1>13, <1>14 DEF Next

(* Who gets into the object's list was in some list, or has just succeeded. *)
LEMMA ListedAfter ==
    ASSUME TypeOK, ListStep
    PROVE  \A t \in Task :
               t \in Elements(timage.releases)' => Listed(t) \/ pc[t] = "succeeding"
<1> DEFINE list == timage.releases
           S == Task \cup Release
<1>0. list \in Seq(S) /\ \A t \in Task : snap[t].releases \in Seq(S)
    BY ReleasesTyped DEF Releases, TypeOK, TImage, Snap
<1>1. CASE list' = list
    BY <1>1 DEF Listed, Elements
<1>2. ASSUME NEW r \in Release \ Elements(list), list' = <<r>> \o list
      PROVE  \A t \in Task : t \in Elements(list)' => t \in Elements(list)
    <2>1. Elements(<<r>> \o list) = {r} \cup Elements(list)
        BY <1>0, InFront
    <2>2. Elements(list)' = {r} \cup Elements(list)
        BY <1>2, <2>1 DEF Elements
    <2> QED
        BY <2>2, ConstantsAssumption
<1>3. ASSUME NEW u \in Task, pc[u] = "succeeding", list' = <<u>> \o snap[u].releases
      PROVE  \A t \in Task : t \in Elements(list)' => Listed(t) \/ pc[t] = "succeeding"
    <2>1. Elements(<<u>> \o snap[u].releases) = {u} \cup Elements(snap[u].releases)
        BY <1>0, InFront
    <2>2. Elements(list)' = {u} \cup Elements(snap[u].releases)
        BY <1>3, <2>1 DEF Elements
    <2> QED
        BY <1>3, <2>2 DEF Listed
<1> QED
    BY <1>1, <1>2, <1>3 DEF ListStep, ListGrows, Listed

LEMMA ReleaseStep == TypeOK /\ ReleaseInv /\ ListStep => ReleaseInv'
<1> SUFFICES ASSUME TypeOK, ReleaseInv, ListStep
             PROVE  ReleaseInv'
    OBVIOUS
<1> DEFINE list == timage.releases
           S == Task \cup Release
<1>1. list \in Seq(S) /\ \A t \in Task : snap[t].releases \in Seq(S)
    BY ReleasesTyped DEF Releases, TypeOK, TImage, Snap
<1>2. Elements(<<>>) = {} /\ Unique(<<>>)
    BY DEF Elements, Unique
<1>3. \A t, u \in Task : t \in Elements(snap[u].releases)' =>
                \/ t \in Elements(snap[u].releases)
                \/ t \in Elements(list) /\ pc[u] \notin ReleasingPc
    BY <1>2 DEF ListStep, CopyFollows, Elements
<1>4. \A t \in Task : t \in Elements(list)' => Listed(t) \/ pc[t] = "succeeding"
    BY ListedAfter
<1>5. \A t \in Task : Listed(t)' => pc'[t] \in ReleasingPc
    <2>1. \A t \in Task : Listed(t)' => Listed(t) \/ pc[t] = "succeeding"
        BY <1>3, <1>4 DEF Listed
    <2> QED
        BY <2>1 DEF ReleaseInv, ListStep, Proceeds, ReleasingPc
<1>6. \A t \in Task : t \notin Elements(snap[t].releases)'
    BY <1>3 DEF ReleaseInv, Listed
<1>7. Unique(list)'
    <2>1. CASE list' = list
        BY <2>1 DEF ReleaseInv, Unique
    <2>2. ASSUME NEW r \in Release \ Elements(list), list' = <<r>> \o list
          PROVE  Unique(list')
        BY <1>1, <2>2, InFront DEF ReleaseInv
    <2>3. ASSUME NEW u \in Task, pc[u] = "succeeding", list' = <<u>> \o snap[u].releases
          PROVE  Unique(list')
        BY <1>1, <2>3, InFront DEF ReleaseInv
    <2> QED
        BY <2>1, <2>2, <2>3 DEF ListStep, ListGrows, Unique
<1>8. \A t \in Task : Unique(snap[t].releases)'
    BY <1>2 DEF ReleaseInv, ListStep, CopyFollows, Unique
<1> QED
    BY <1>5, <1>6, <1>7, <1>8 DEF ReleaseInv

LEMMA ReleaseInit == Init => ReleaseInv
<1>1. Elements(<<>>) = {} /\ Unique(<<>>)
    BY DEF Elements, Unique
<1> QED
    BY <1>1 DEF Init, ReleaseInv, Listed, Empty

(* No release is in the list twice, whatever goes wrong and however often  *)
(* (onBuildSuccess, and the webhook that would remove duplicates).         *)
THEOREM ReleasesAreUnique == Spec => []ReleasedOnce
<1>1. ReleaseInv => ReleasedOnce
    BY DEF ReleaseInv, ReleasedOnce, Unique
<1>2. TypeOK /\ ReleaseInv /\ [Next]_vars => ReleaseInv'
    BY ListStepIs, ReleaseStep
<1> QED
    BY <1>1, <1>2, ReleaseInit, TypeCorrect, PTL DEF Spec

-----------------------------------------------------------------------------
(* Which images there are.                                                  *)

LEMMA PushedStep ==
    TypeOK /\ PushedInv /\ ListStep /\ "watchClosed" \notin Faults => PushedInv'
<1> SUFFICES ASSUME TypeOK, PushedInv, ListStep, "watchClosed" \notin Faults
             PROVE  PushedInv'
    OBVIOUS
<1> DEFINE list == timage.releases
           S == Task \cup Release
<1>1. list \in Seq(S) /\ \A t \in Task : snap[t].releases \in Seq(S)
    BY ReleasesTyped DEF Releases, TypeOK, TImage, Snap
<1>2. \A t, u \in Task : t \in Elements(snap[u].releases)' => Listed(t)
    BY DEF ListStep, CopyFollows, Listed, Elements
<1>3. \A t \in Task : t \in Elements(list)' => Listed(t) \/ pc[t] = "succeeding"
    BY ListedAfter
<1>4. \A t \in Task : t \in pushed => t \in pushed'
    BY DEF ListStep, Proceeds
<1>5. \A t \in Task : Listed(t)' => t \in pushed
    BY <1>2, <1>3 DEF Listed, PushedInv
<1>6. \A t \in Task : pc'[t] = "succeeding" \/ pod'[t] = "succeeded" => t \in pushed
    BY DEF PushedInv, ListStep, Proceeds
<1> QED
    BY <1>4, <1>5, <1>6 DEF PushedInv

(* A release stands for an image that has reached the registry, whatever   *)
(* goes wrong but for a watch that is closed on the engine (watch).        *)
THEOREM ReleasesArePushed ==
    ASSUME "watchClosed" \notin Faults
    PROVE  Spec => []ReleasedWasPushed
<1>1. Init => PushedInv
    BY DEF Init, PushedInv, Listed, Empty, Elements
<1>2. TypeOK /\ PushedInv /\ [Next]_vars => PushedInv'
    BY ListStepIs, PushedStep
<1>3. PushedInv => ReleasedWasPushed
    BY DEF PushedInv, Listed, ReleasedWasPushed
<1> QED
    BY <1>1, <1>2, <1>3, TypeCorrect, PTL DEF Spec

-----------------------------------------------------------------------------
(* Turns, when no reply is lost and maxBuildTime does not run out.          *)

(* What a step of somebody else does to task u. *)
Stays(u) ==
    /\ Live(u)' => Live(u)
    /\ pc[u] = "ended" => pc'[u] = "ended"
    /\ answer'[u] = "ok" => answer[u] = "ok"
    /\ Live(u)' /\ snap'[u].ok =>
          \/ snap[u].ok /\ snap'[u].releases = snap[u].releases
          \/ snap'[u].releases = timage.releases

Edited ==
    /\ "edit" \in Faults
    /\ \E r \in Release \ Elements(timage.releases) :
          timage'.releases = <<r>> \o timage.releases

(* The slot stays as it is. *)
Waits ==
    /\ timage'.running = timage.running /\ timage'.last = timage.last
    /\ timage'.releases = timage.releases \/ Edited
    /\ \A u \in Task : Stays(u)

(* Task t claims it. *)
Enters(t) ==
    /\ pc[t] = "posting" /\ timage.running = None
    /\ timage'.running = t /\ timage'.last = timage.last
    /\ timage'.releases = timage.releases
    /\ snap'[t].releases = timage.releases
    /\ answer'[t] = answer[t]
    /\ \A u \in Task \ {t} : Stays(u)

(* The turn of t ends with a failure. *)
Fails(t) ==
    /\ timage.running = t /\ timage'.running = None
    /\ timage'.last = [id |-> t, phase |-> "Failed"]
    /\ timage'.releases = timage.releases
    /\ ~Live(t)'
    /\ \A u \in Task : Stays(u)

(* It ends with a release. *)
Succeeds(t) ==
    /\ timage.running = t /\ timage'.running = None
    /\ timage'.last = [id |-> t, phase |-> "Done"]
    /\ Live(t) /\ snap[t].ok
    /\ timage'.releases = <<t>> \o snap[t].releases
    /\ pc'[t] = "ended"
    /\ \A u \in Task \ {t} : Stays(u)

TurnStep == Waits \/ \E t \in Task : Enters(t) \/ Fails(t) \/ Succeeds(t)

LEMMA PromptRequest ==
    ASSUME Prompt, NEW rv, NEW object
    PROVE  /\ Update(rv, object, TRUE) => rv = timage.rv /\ timage' = object
           /\ Update(rv, object, FALSE) => timage' = timage
           /\ Patch(object, TRUE) => timage' = object
           /\ Patch(object, FALSE) => timage' = timage
BY DEF Prompt, Update, Patch, Fault

(* A task that is at work and in the slot is the only one. *)
TurnCtx == TypeOK /\ CopiesAreVersioned /\ LiveHolds

LEMMA ClaimTurns ==
    ASSUME Prompt, TurnCtx, NEW t \in Task, PostTaskClaim(t)
    PROVE  TurnStep
<1> DEFINE object == InSlot(t, "Pending")
<1>1. TypeOK /\ pc[t] = "posting" /\ CopyIsVersioned(t)
    BY DEF TurnCtx, PostTaskClaim, CopiesAreVersioned
<1>2. /\ object.running = t /\ object.releases = timage.releases
      /\ object.last = timage.last
    BY <1>1, ObjectsSay, ObjectsVersioned
<1> HIDE DEF object
<1>3. ASSUME NEW u \in Task \ {t}
      PROVE  Stays(u)
    <2>1. pc'[u] = pc[u] /\ snap'[u] = snap[u] /\ answer'[u] = answer[u]
        BY <1>1 DEF PostTaskClaim, Goto, Reject, TypeOK
    <2> QED
        BY <2>1 DEF Stays, Live
<1>4. CASE /\ Update(snap[t].rv, object, TRUE)
           /\ snap' = [snap EXCEPT ![t] = Returned] /\ UNCHANGED answer
    <2>1. timage' = object /\ snap[t].rv = timage.rv
        BY <1>4, PromptRequest
    <2>2. timage.running = None
        BY <1>1, <2>1 DEF CopyIsVersioned
    <2>3. snap'[t].releases = timage.releases
        BY <1>1, <1>4 DEF Returned, TypeOK
    <2>4. Enters(t)
        BY <1>1, <1>2, <1>3, <1>4, <2>1, <2>2, <2>3 DEF Enters
    <2> QED
        BY <2>4 DEF TurnStep
<1>5. CASE Update(snap[t].rv, object, FALSE) /\ Reject(t) /\ UNCHANGED snap
    <2>1. timage' = timage
        BY <1>5, PromptRequest
    <2>2. pc'[t] = "rejected" /\ answer'[t] = "error"
        BY <1>1, <1>5 DEF Reject, Goto, TypeOK
    <2>3. Stays(t)
        BY <1>1, <2>2 DEF Stays, Live, LivePc
    <2>4. Waits
        BY <1>3, <2>1, <2>3 DEF Waits
    <2> QED
        BY <2>4 DEF TurnStep
<1> QED
    BY <1>4, <1>5 DEF PostTaskClaim, object

LEMMA PushStateTurns ==
    ASSUME Prompt, TurnCtx, NEW t \in Task, NEW from \in ClaimedPc, NEW phase,
           NEW next, PushState(t, from, phase, next)
    PROVE  TurnStep
<1> DEFINE object == InSlot(t, phase)
<1>1. TypeOK /\ pc[t] \in ClaimedPc /\ Live(t)
    BY DEF TurnCtx, PushState, Live, LivePc, ClaimedPc
<1>2. /\ object.running = t /\ object.releases = timage.releases
      /\ object.last = timage.last
    BY <1>1, ObjectsSay, ObjectsVersioned
<1>3. timage.running = t
    BY <1>1 DEF TurnCtx, LiveHolds
<1> HIDE DEF object
<1>4. timage' = timage \/ timage' = object
    BY UpdateSlot DEF PushState, object
<1>5. ASSUME NEW u \in Task
      PROVE  Stays(u)
    <2>1. PICK label : pc' = [pc EXCEPT ![t] = label]
        BY DEF PushState, Goto
    <2>2. \/ snap' = [snap EXCEPT ![t] = Empty]
          \/ snap' = [snap EXCEPT ![t] = Returned]
        BY DEF PushState
    <2>3. answer' = answer
        BY DEF PushState
    <2>4. Empty.ok = FALSE /\ Returned.releases = timage.releases
        BY DEF Empty, Returned
    <2>5. CASE u = t
        BY <1>1, <2>1, <2>2, <2>3, <2>4, <2>5 DEF Stays, TypeOK, ClaimedPc
    <2>6. CASE u # t
        BY <1>1, <2>1, <2>2, <2>3, <2>6 DEF Stays, TypeOK, Live
    <2> QED
        BY <2>5, <2>6
<1>6. Waits
    BY <1>2, <1>3, <1>4, <1>5 DEF Waits
<1> QED
    BY <1>6 DEF TurnStep

LEMMA FailureTurns ==
    ASSUME Prompt, TurnCtx, NEW t \in Task, OnBuildFailed(t)
    PROVE  TurnStep
<1>1. TypeOK /\ pc[t] = "failing" /\ Live(t) /\ timage.running = t
    BY DEF TurnCtx, LiveHolds, OnBuildFailed, Live, LivePc
<1>2. /\ Failed(t).running = None /\ Failed(t).releases = timage.releases
      /\ Failed(t).last = [id |-> t, phase |-> "Failed"]
    BY <1>1, ObjectsSay, ObjectsVersioned
<1>3. \A u \in Task : Stays(u)
    BY <1>1 DEF OnBuildFailed, Goto, TypeOK, Stays, Live
<1>4. CASE Attempt(t, Failed(t), TRUE) /\ Goto(t, "ended")
    <2>1. timage' = Failed(t)
        BY <1>4, PromptRequest DEF Attempt
    <2>2. ~Live(t)'
        BY <1>1, <1>4 DEF Goto, Live, LivePc, TypeOK
    <2>3. Fails(t)
        BY <1>1, <1>2, <1>3, <2>1, <2>2 DEF Fails
    <2> QED
        BY <2>3 DEF TurnStep
<1>5. CASE Attempt(t, Failed(t), FALSE)
    <2>1. timage' = timage
        BY <1>5, PromptRequest DEF Attempt
    <2>2. Waits
        BY <1>3, <2>1 DEF Waits
    <2> QED
        BY <2>2 DEF TurnStep
<1> QED
    BY <1>4, <1>5 DEF OnBuildFailed

LEMMA SuccessTurns ==
    ASSUME Prompt, TurnCtx, NEW t \in Task, OnBuildSuccess(t)
    PROVE  TurnStep
<1>1. TypeOK /\ pc[t] = "succeeding" /\ Live(t) /\ timage.running = t
    BY DEF TurnCtx, LiveHolds, OnBuildSuccess, Live, LivePc
<1>2. /\ Succeeded(t).running = None
      /\ Succeeded(t).releases = <<t>> \o snap[t].releases
      /\ Succeeded(t).last = [id |-> t, phase |-> "Done"]
    BY <1>1, ObjectsSay, ObjectsVersioned
<1>3. \A u \in Task \ {t} : Stays(u)
    BY <1>1 DEF OnBuildSuccess, Goto, TypeOK, Stays, Live
<1>4. CASE Attempt(t, Succeeded(t), TRUE) /\ Goto(t, "ended")
    <2>1. timage' = Succeeded(t) /\ snap[t].ok
        BY <1>4, PromptRequest DEF Attempt
    <2>2. pc'[t] = "ended"
        BY <1>1, <1>4 DEF Goto, TypeOK
    <2>3. Succeeds(t)
        BY <1>1, <1>2, <1>3, <2>1, <2>2 DEF Succeeds
    <2> QED
        BY <2>3 DEF TurnStep
<1>5. CASE /\ Attempt(t, Succeeded(t), FALSE)
           /\ UNCHANGED answer \/ answer' = [answer EXCEPT ![t] = "error"]
    <2>1. timage' = timage
        BY <1>5, PromptRequest DEF Attempt
    <2>2. Stays(t)
        BY <1>1, <1>5 DEF OnBuildSuccess, TypeOK, Stays
    <2>3. Waits
        BY <1>3, <2>1, <2>2 DEF Waits
    <2> QED
        BY <2>3 DEF TurnStep
<1> QED
    BY <1>4, <1>5 DEF OnBuildSuccess

LEMMA OvertimeTurns ==
    ASSUME Prompt, TurnCtx, NEW t \in Task, CheckOvertime(t)
    PROVE  TurnStep
<1> DEFINE object == SlotFreed(t, "Failed")
<1>1. TypeOK
    BY DEF TurnCtx
<1>2. /\ object.running = None /\ object.releases = timage.releases
      /\ object.last = [id |-> t, phase |-> "Failed"]
    <2>1. object.running = None
        BY <1>1, ObjectsVersioned
    <2>2. object.releases = timage.releases /\ object.last = [id |-> t, phase |-> "Failed"]
        BY <1>1, ObjectsSay
    <2> QED
        BY <2>1, <2>2
<1> HIDE DEF object
<1>3. \A u \in Task : Stays(u)
    BY DEF CheckOvertime, Stays, Live
<1>4. CASE MaxBuildTimeOver(t) /\ Patch(object, TRUE)
    <2>1. timage' = object
        BY <1>4, PromptRequest
    <2>2. ~Live(t) /\ timage.running = t
        BY <1>4 DEF MaxBuildTimeOver, Prompt
    <2>3. ~Live(t)'
        BY <2>2 DEF CheckOvertime, Live
    <2>4. Fails(t)
        BY <1>2, <1>3, <2>1, <2>2, <2>3 DEF Fails
    <2> QED
        BY <2>4 DEF TurnStep
<1>5. CASE Patch(object, FALSE) \/ timage' = timage
    <2>1. timage' = timage
        BY <1>5, PromptRequest
    <2>2. Waits
        BY <1>3, <2>1 DEF Waits
    <2> QED
        BY <2>2 DEF TurnStep
<1> QED
    BY <1>4, <1>5 DEF CheckOvertime, object

(* The steps that leave the slot alone. *)
LEMMA OtherTurns ==
    ASSUME TypeOK, NEW t \in Task,
           \/ PostTaskGet(t) \/ Start(t) \/ Submit(t) \/ OpenWatch(t) \/ WatchEvent(t)
           \/ WatchLost(t) \/ ReportFailure(t) \/ EnginePanic(t) \/ KanikoStep(t)
           \/ ReapPod(t) \/ PodDeleted(t)
    PROVE  Waits
<1>1. CASE PostTaskGet(t)
    <2>1. timage' = timage
        BY <1>1 DEF PostTaskGet
    <2>2. \A u \in Task : Stays(u)
        BY <1>1 DEF PostTaskGet, Goto, Reject, TypeOK, Stays, Live, LivePc
    <2> QED
        BY <2>1, <2>2 DEF Waits
<1>2. CASE \/ Start(t) \/ Submit(t) \/ OpenWatch(t) \/ WatchEvent(t)
           \/ WatchLost(t) \/ ReportFailure(t)
    <2>1. timage' = timage /\ snap' = snap
        BY <1>2 DEF Start, Submit, OpenWatch, WatchEvent, WatchLost, ReportFailure, Fault
    <2>2. pc[t] \in LivePc /\ \E label : pc' = [pc EXCEPT ![t] = label]
        BY <1>2 DEF Start, Submit, OpenWatch, WatchEvent, WatchLost, ReportFailure, Goto, LivePc,
                    WatchPc
    <2>3. answer' = answer \/ answer' = [answer EXCEPT ![t] = "error"]
        BY <1>2 DEF Start, Submit, OpenWatch, WatchEvent, WatchLost, ReportFailure
    <2>4. \A u \in Task : Stays(u)
        BY <2>1, <2>2, <2>3 DEF TypeOK, Stays, Live, LivePc
    <2> QED
        BY <2>1, <2>4 DEF Waits
<1>3. CASE EnginePanic(t)
    <2>1. EngineDies
        BY <1>3 DEF EnginePanic
    <2> QED
        BY <2>1 DEF EngineDies, Waits, Stays, Live, LivePc, TypeOK
<1>4. CASE KanikoBuild(t) \/ KanikoPush(t)
    <2>1. PICK phase : timage' = timage \/ timage' = InPhase(phase)
        BY <1>4, UpdateSlot DEF KanikoBuild, KanikoPush, PushStateOrDie
    <2>2. /\ InPhase(phase).running = timage.running /\ InPhase(phase).last = timage.last
          /\ InPhase(phase).releases = timage.releases
        BY ObjectsSay
    <2>3. \A u \in Task : Stays(u)
        BY <1>4 DEF KanikoBuild, KanikoPush, PushStateOrDie, Stays, Live
    <2> QED
        BY <2>1, <2>2, <2>3 DEF Waits
<1>5. CASE \/ KanikoGet(t) \/ ImagePushed(t) \/ KanikoExit(t)
           \/ ReapPod(t) \/ PodDeleted(t)
    BY <1>5 DEF KanikoGet, ImagePushed, KanikoExit, ReapPod, PodDeleted, DeletePod, Fault, Waits,
                Stays, Live
<1> QED
    BY <1>1, <1>2, <1>3, <1>4, <1>5 DEF KanikoStep

LEMMA TurnStepIs == Prompt /\ TurnCtx /\ [Next]_vars => TurnStep
<1> SUFFICES ASSUME Prompt, TurnCtx, [Next]_vars
             PROVE  TurnStep
    OBVIOUS
<1>1. TypeOK
    BY DEF TurnCtx
<1>2. CASE EngineCrash
    <2>1. EngineDies
        BY <1>2 DEF EngineCrash
    <2>2. Waits
        BY <1>1, <2>1 DEF EngineDies, Waits, Stays, Live, LivePc, TypeOK
    <2> QED
        BY <2>2 DEF TurnStep
<1>3. CASE InformerSync \/ ControllerRestart \/ UNCHANGED vars
    BY <1>3 DEF InformerSync, ControllerRestart, vars, Waits, Stays, Live, TurnStep
<1>4. CASE UserEdit
    <2>1. \A u \in Task : Stays(u)
        BY <1>4 DEF UserEdit, Stays, Live
    <2>2. /\ timage'.running = timage.running /\ timage'.last = timage.last
          /\ timage'.releases = timage.releases \/ Edited
        BY <1>1, <1>4 DEF UserEdit, Fault, Edited, TypeOK, TImage
    <2> QED
        BY <2>1, <2>2 DEF Waits, TurnStep
<1>5. ASSUME NEW t \in Task, PrepareContext(t) \/ PrepareSecret(t) \/ PushSubmitting(t)
      PROVE  TurnStep
    BY <1>5, PushStateTurns DEF PrepareContext, PrepareSecret, PushSubmitting, ClaimedPc
<1>6. ASSUME NEW t \in Task, EngineStep(t)
      PROVE  TurnStep
    BY <1>1, <1>5, <1>6, OtherTurns, FailureTurns, SuccessTurns DEF EngineStep, TurnStep
<1> QED
    BY <1>1, <1>2, <1>3, <1>4, <1>6, ClaimTurns, OvertimeTurns, OtherTurns DEF Next, TurnStep

(* A task enters an empty slot, and leaves it before it is through.        *)
LEMMA LiveStep == TurnCtx /\ TurnStep => LiveHolds'
<1> SUFFICES ASSUME TurnCtx, TurnStep, NEW u \in Task, Live(u)'
             PROVE  timage'.running = u
    BY DEF LiveHolds
<1>1. \A v \in Task : Live(v) => timage.running = v /\ v # None
    BY ConstantsAssumption DEF TurnCtx, LiveHolds
<1>2. CASE Waits
    BY <1>1, <1>2 DEF Waits, Stays
<1>3. ASSUME NEW t \in Task, Enters(t)
      PROVE  timage'.running = u
    BY <1>1, <1>3 DEF Enters, Stays
<1>4. ASSUME NEW t \in Task, Fails(t)
      PROVE  FALSE
    BY <1>1, <1>4 DEF Fails, Stays
<1>5. ASSUME NEW t \in Task, Succeeds(t)
      PROVE  FALSE
    BY <1>1, <1>5 DEF Succeeds, Stays, Live, LivePc
<1> QED
    BY <1>2, <1>3, <1>4, <1>5 DEF TurnStep

LEMMA TurnsInvariance == Prompt => (Spec => []TurnCtx)
<1> SUFFICES ASSUME Prompt
             PROVE  Spec => []TurnCtx
    OBVIOUS
<1>1. Init => LiveHolds
    BY DEF Init, LiveHolds, Live, LivePc
<1>2. TurnCtx /\ [Next]_vars => LiveHolds'
    BY TurnStepIs, LiveStep
<1>3. TypeOK /\ CopiesAreVersioned /\ LiveHolds => TurnCtx
    BY DEF TurnCtx
<1> QED
    BY <1>1, <1>2, <1>3, TypeCorrect, CopiesVersioned, PTL DEF Spec

(* From its claim to the last attempt at its outcome a task is at work only *)
(* while no other is (PostTask, onBuildFailed, onBuildSuccess), when no     *)
(* reply is lost and maxBuildTime is long enough.                           *)
THEOREM OneBuildIsLive ==
    ASSUME Prompt
    PROVE  Spec => []OneLiveBuild
<1>1. TurnCtx => OneLiveBuild
    BY DEF TurnCtx, LiveHolds, OneLiveBuild
<1> QED
    BY <1>1, TurnsInvariance, PTL

LEMMA SlotFreedStep ==
    ASSUME Prompt, TurnCtx, [Next]_vars, timage.running # None, timage'.running = None
    PROVE  timage'.last.id = timage.running
<1>1. TurnStep
    BY TurnStepIs
<1>2. ~Waits
    BY DEF Waits
<1>3. \A t \in Task : ~Enters(t)
    BY DEF Enters
<1>4. PICK t \in Task : Fails(t) \/ Succeeds(t)
    BY <1>1, <1>2, <1>3 DEF TurnStep
<1>5. timage.running = t /\ timage'.last.id = t
    BY <1>4 DEF Fails, Succeeds
<1> QED
    BY <1>5

(* The slot is emptied on behalf of the task in it: no late report of one  *)
(* build ends the turn of another.                                         *)
THEOREM SlotIsFreedByOwner ==
    ASSUME Prompt
    PROVE  Spec => OwnSlotFreed
<1>1. TurnCtx /\ [Next]_vars
        => [timage.running # None /\ timage'.running = None
              => timage'.last.id = timage.running]_vars
    BY SlotFreedStep
<1> QED
    BY <1>1, TurnsInvariance, PTL DEF Spec, OwnSlotFreed

-----------------------------------------------------------------------------
(* What is recorded of the turns.                                           *)

(* The tasks among the releases after a step. *)
LEMMA TasksAfter ==
    ASSUME TypeOK
    PROVE  /\ timage'.releases = timage.releases =>
                Elements(timage.releases)' = Elements(timage.releases)
           /\ Edited =>
                Task \cap Elements(timage.releases)' = Task \cap Elements(timage.releases)
           /\ \A t \in Task : timage'.releases = <<t>> \o snap[t].releases =>
                Elements(timage.releases)' = {t} \cup Elements(snap[t].releases)
<1>1. timage.releases \in Seq(Task \cup Release)
    BY DEF TypeOK, TImage, Releases
<1>2. \A t \in Task : snap[t].releases \in Seq(Task \cup Release)
    BY ReleasesTyped DEF Releases
<1>3. timage'.releases = timage.releases =>
          Elements(timage.releases)' = Elements(timage.releases)
    BY DEF Elements
<1>4. ASSUME Edited
      PROVE  Task \cap Elements(timage.releases)' = Task \cap Elements(timage.releases)
    <2>1. PICK r \in Release : timage'.releases = <<r>> \o timage.releases
        BY <1>4 DEF Edited
    <2>2. Elements(<<r>> \o timage.releases) = {r} \cup Elements(timage.releases)
        BY <1>1, InFront
    <2>3. Elements(timage.releases)' = {r} \cup Elements(timage.releases)
        BY <2>1, <2>2 DEF Elements
    <2> QED
        BY <2>3, ConstantsAssumption
<1>5. ASSUME NEW t \in Task, timage'.releases = <<t>> \o snap[t].releases
      PROVE  Elements(timage.releases)' = {t} \cup Elements(snap[t].releases)
    <2>1. Elements(<<t>> \o snap[t].releases) = {t} \cup Elements(snap[t].releases)
        BY <1>2, InFront
    <2> QED
        BY <1>5, <2>1 DEF Elements
<1> QED
    BY <1>3, <1>4, <1>5

LEMMA TurnInvStep ==
    ASSUME TurnCtx, TurnInv, TurnStep, ListStep
    PROVE  TurnInv'
<1> DEFINE tasks == Task \cap Elements(timage.releases)
           before(u) == Task \cap Elements(snap[u].releases)
<1>1. TypeOK /\ OutcomeAgrees /\ \A u \in Task : Told(u)
    BY DEF TurnCtx, TurnInv
<1>2. \A v \in Task : Live(v) => timage.running = v /\ v # None
    BY ConstantsAssumption DEF TurnCtx, LiveHolds
<1>3. tasks \subseteq tasks'
    <2>1. CASE Waits
        BY <1>1, <2>1, TasksAfter DEF Waits
    <2>2. CASE \E t \in Task : Enters(t) \/ Fails(t)
        BY <1>1, <2>2, TasksAfter DEF Enters, Fails
    <2>3. ASSUME NEW t \in Task, Succeeds(t)
          PROVE  tasks \subseteq tasks'
        BY <1>1, <2>3, TasksAfter DEF Succeeds, Told
    <2> QED
        BY <2>1, <2>2, <2>3 DEF TurnStep
<1>4. ASSUME NEW u \in Task
      PROVE  (Task \cap Elements(snap[u].releases))' \subseteq tasks
    BY <1>1 DEF ListStep, CopyFollows, Told, Elements
<1>5. ASSUME NEW u \in Task, Stays(u), tasks' = tasks, Live(u)', snap'[u].ok
      PROVE  tasks' \subseteq Elements(snap[u].releases)'
    BY <1>1, <1>5 DEF Stays, Told, Elements
<1>6. ASSUME NEW u \in Task, Stays(u), tasks' = tasks,
             timage'.running = u => timage.running = u
      PROVE  Told(u)'
    <2>1. Told(u)
        BY <1>1
    <2>2. u \in Elements(timage.releases)' <=> u \in Elements(timage.releases)
        BY <1>6
    <2>3. u \in Elements(timage.releases)' => pc'[u] = "ended" /\ timage'.running # u
        BY <1>6, <2>1, <2>2 DEF Told, Stays
    <2>4. answer'[u] = "ok" => u \in Elements(timage.releases)'
        BY <1>6, <2>1, <2>2 DEF Told, Stays
    <2> QED
        BY <1>4, <1>5, <1>6, <2>3, <2>4 DEF Told
<1>7. CASE Waits
    <2>1. tasks' = tasks
        BY <1>1, <1>7, TasksAfter DEF Waits
    <2>2. \A u \in Task : Told(u)'
        BY <1>6, <1>7, <2>1 DEF Waits
    <2>3. OutcomeAgrees'
        BY <1>1, <1>7, <2>1 DEF OutcomeAgrees, Waits, TypeOK, TImage
    <2> QED
        BY <2>2, <2>3 DEF TurnInv
<1>8. ASSUME NEW t \in Task, Enters(t)
      PROVE  TurnInv'
    <2>1. tasks' = tasks
        BY <1>1, <1>8, TasksAfter DEF Enters
    <2>2. \A u \in Task \ {t} : Told(u)'
        BY <1>6, <1>8, <2>1 DEF Enters
    <2>3. t \notin Elements(timage.releases)' /\ answer'[t] # "ok"
        BY <1>1, <1>8, <2>1 DEF Enters, Told
    <2>4. snap'[t].releases = timage'.releases
        BY <1>8 DEF Enters
    <2>5. Told(t)'
        BY <2>3, <2>4 DEF Told, Elements
    <2>6. OutcomeAgrees'
        BY <1>1, <1>8, <2>1 DEF OutcomeAgrees, Enters, TypeOK, TImage
    <2> QED
        BY <2>2, <2>5, <2>6 DEF TurnInv
<1>9. ASSUME NEW t \in Task, Fails(t)
      PROVE  TurnInv'
    <2>1. tasks' = tasks
        BY <1>1, <1>9, TasksAfter DEF Fails
    <2>2. \A u \in Task : Told(u)'
        BY <1>6, <1>9, <2>1, ConstantsAssumption DEF Fails
    <2>3. t \notin Elements(timage.releases)'
        BY <1>1, <1>9, <2>1 DEF Fails, Told
    <2>4. timage'.last.id = t /\ timage'.last.phase = "Failed"
        BY <1>9 DEF Fails
    <2>5. OutcomeAgrees'
        BY <2>3, <2>4 DEF OutcomeAgrees
    <2> QED
        BY <2>2, <2>5 DEF TurnInv
<1>10. ASSUME NEW t \in Task, Succeeds(t)
       PROVE  TurnInv'
    <2>1. Elements(timage.releases)' = {t} \cup Elements(snap[t].releases)
        BY <1>1, <1>10, TasksAfter DEF Succeeds
    <2>2. before(t) \subseteq tasks
        BY <1>1 DEF Told
    <2>3. timage'.running = None /\ pc'[t] = "ended" /\ ~Live(t)'
        BY <1>10 DEF Succeeds, Live, LivePc
    <2>4. Told(t)'
        BY <1>3, <1>4, <2>1, <2>3, ConstantsAssumption DEF Told
    <2>5. ASSUME NEW u \in Task \ {t}
          PROVE  Told(u)'
        <3>1. Stays(u) /\ ~Live(u)'
            BY <1>2, <1>10, <2>5 DEF Succeeds, Stays
        <3>2. u \in Elements(timage.releases)' => pc'[u] = "ended"
            BY <1>1, <2>1, <2>2, <2>5, <3>1 DEF Told, Stays
        <3>3. answer'[u] = "ok" => u \in Elements(timage.releases)'
            BY <1>1, <1>3, <3>1 DEF Told, Stays
        <3> QED
            BY <1>3, <1>4, <2>3, <3>1, <3>2, <3>3, ConstantsAssumption DEF Told
    <2>6. timage'.last.id = t /\ timage'.last.phase = "Done"
        BY <1>10 DEF Succeeds
    <2>7. OutcomeAgrees'
        BY <2>1, <2>6 DEF OutcomeAgrees
    <2> QED
        BY <2>4, <2>5, <2>7 DEF TurnInv
<1> QED
    BY <1>7, <1>8, <1>9, <1>10 DEF TurnStep

LEMMA TurnInvariance == Prompt => (Spec => []TurnInv)
<1> SUFFICES ASSUME Prompt
             PROVE  Spec => []TurnInv
    OBVIOUS
<1>1. Init => TurnInv
    BY DEF Init, TurnInv, Told, Live, LivePc, Empty, Elements, OutcomeAgrees
<1>2. TurnCtx /\ TurnInv /\ [Next]_vars => TurnInv'
    BY TurnStepIs, TurnInvStep, ListStepIs DEF TurnCtx
<1> QED
    BY <1>1, <1>2, TurnsInvariance, PTL DEF Spec

(* A request that was told its build succeeded finds its release recorded  *)
(* (onBuildSuccess): the copy each build writes back has all releases.     *)
THEOREM ToldOkIsReleased ==
    ASSUME Prompt
    PROVE  Spec => []AnsweredOkIsReleased
<1>1. TurnInv => AnsweredOkIsReleased
    BY DEF TurnInv, Told, AnsweredOkIsReleased
<1> QED
    BY <1>1, TurnInvariance, PTL

(* build.last and releases tell the same story, of tarsimage and of the    *)
(* controller's overtime check.                                            *)
THEOREM OutcomesAgree ==
    ASSUME Prompt
    PROVE  Spec => []OutcomeAgrees
<1>1. TurnInv => OutcomeAgrees
    BY DEF TurnInv
<1> QED
    BY <1>1, TurnInvariance, PTL

-----------------------------------------------------------------------------
(* The abstract specification.                                              *)

LEMMA CopyIsListStep ==
    ASSUME "edit" \notin Faults, TurnCtx, CopyIsList, TurnStep
    PROVE  CopyIsList'
<1> SUFFICES ASSUME NEW u \in Task, Live(u)', snap'[u].ok
             PROVE  snap'[u].releases = timage'.releases
    BY DEF CopyIsList
<1>1. \A v \in Task : Live(v) => timage.running = v /\ v # None
    BY ConstantsAssumption DEF TurnCtx, LiveHolds
<1>2. CASE Waits
    BY <1>2 DEF Waits, Stays, Edited, CopyIsList
<1>3. ASSUME NEW t \in Task, Enters(t)
      PROVE  snap'[u].releases = timage'.releases
    BY <1>1, <1>3 DEF Enters, Stays
<1>4. ASSUME NEW t \in Task, Fails(t)
      PROVE  FALSE
    BY <1>1, <1>4 DEF Fails, Stays
<1>5. ASSUME NEW t \in Task, Succeeds(t)
      PROVE  FALSE
    BY <1>1, <1>5 DEF Succeeds, Stays, Live, LivePc
<1> QED
    BY <1>2, <1>3, <1>4, <1>5 DEF TurnStep

(* A turn of TImageBuild is one of BuildSlot. *)
LEMMA TurnRefines ==
    ASSUME "edit" \notin Faults, CopyIsList, TurnStep
    PROVE  [Slot!SlotNext]_(Slot!slotVars)
<1>1. CASE Waits
    BY <1>1 DEF Waits, Edited, Slot!slotVars
<1>2. ASSUME NEW t \in Task, Enters(t)
      PROVE  Slot!Acquire(t)
    BY <1>2 DEF Enters, Slot!Acquire
<1>3. ASSUME NEW t \in Task, Fails(t)
      PROVE  Slot!Fail
    BY <1>3, ConstantsAssumption DEF Fails, Slot!Fail
<1>4. ASSUME NEW t \in Task, Succeeds(t)
      PROVE  Slot!Succeed
    <2>1. snap[t].releases = timage.releases
        BY <1>4 DEF Succeeds, CopyIsList
    <2> QED
        BY <1>4, <2>1, ConstantsAssumption DEF Succeeds, Slot!Succeed
<1> QED
    BY <1>1, <1>2, <1>3, <1>4 DEF TurnStep, Slot!SlotNext

(* The object goes through the turns BuildSlot describes, when besides     *)
(* nobody else edits its releases.                                         *)
THEOREM TurnsAreTaken ==
    ASSUME Prompt, "edit" \notin Faults
    PROVE  Spec => TakesTurns
<1>1. Init => CopyIsList /\ Slot!SlotInit
    BY DEF Init, CopyIsList, Live, LivePc, Slot!SlotInit
<1>2. TurnCtx /\ CopyIsList /\ [Next]_vars
        => CopyIsList' /\ [Slot!SlotNext]_(Slot!slotVars)
    BY TurnStepIs, CopyIsListStep, TurnRefines
<1> QED
    BY <1>1, <1>2, TurnsInvariance, PTL DEF Spec, TakesTurns, Slot!SlotSpec
=============================================================================
