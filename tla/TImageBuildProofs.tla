-------------------------- MODULE TImageBuildProofs --------------------------
(***************************************************************************)
(* What holds of TImageBuild for every set of requests, every number of    *)
(* workers and every combination and number of faults.                     *)
(***************************************************************************)
EXTENDS TImageBuild, TLAPS

-----------------------------------------------------------------------------
(* Types.                                                                   *)

(* A field at a time, a well-formed object stays well formed. *)
LEMMA FieldsTyped ==
    ASSUME NEW o \in TImage
    PROVE  /\ [o EXCEPT !.rv = @ + 1] \in TImage
           /\ \A r \in Task \cup {None} : [o EXCEPT !.running = r] \in TImage
           /\ \A p \in Phase : [o EXCEPT !.phase = p] \in TImage
           /\ \A l \in [id : Task, phase : Outcome] :
                 [o EXCEPT !.last = l] \in TImage
           /\ \A s \in Releases : [o EXCEPT !.releases = s] \in TImage
<1>1. o.rv + 1 \in Nat
    BY DEF TImage
<1> QED
    BY <1>1 DEF TImage

(* Every object the program writes is well formed. *)
LEMMA ObjectsTyped ==
    ASSUME TypeOK, NEW t \in Task
    PROVE  /\ \A phase \in Phase : InSlot(t, phase) \in TImage
           /\ \A phase \in Phase : InPhase(phase) \in TImage
           /\ \A outcome \in Outcome : SlotFreed(t, outcome) \in TImage
           /\ Failed(t) \in TImage
           /\ Succeeded(t) \in TImage
<1> DEFINE Next0 == [timage EXCEPT !.rv = @ + 1]
           Held(r) == [Next0 EXCEPT !.running = r]
           Phased(r, p) == [Held(r) EXCEPT !.phase = p]
<1>1. Next0 \in TImage
    BY FieldsTyped DEF TypeOK
<1>2. \A r \in Task \cup {None} : Held(r) \in TImage
    BY <1>1, FieldsTyped
<1>3. \A r \in Task \cup {None}, p \in Phase : Phased(r, p) \in TImage
    BY <1>2, FieldsTyped
<1>4. \A p \in Phase : InSlot(t, p) \in TImage
    BY <1>3 DEF InSlot
<1>5. \A p \in Phase : InPhase(p) \in TImage
    BY <1>1, FieldsTyped DEF InPhase
<1>6. \A outcome \in Outcome : SlotFreed(t, outcome) \in TImage
    <2> SUFFICES ASSUME NEW outcome \in Outcome
                 PROVE  SlotFreed(t, outcome) \in TImage
        OBVIOUS
    <2>1. Phased(None, "none") \in TImage
        BY <1>3 DEF Phase
    <2>2. [id |-> t, phase |-> outcome] \in [id : Task, phase : Outcome]
        OBVIOUS
    <2>3. [Phased(None, "none") EXCEPT !.last = [id |-> t, phase |-> outcome]]
              \in TImage
        BY <2>1, <2>2, FieldsTyped
    <2> QED
        BY <2>3 DEF SlotFreed
<1>7. Failed(t) \in TImage
    BY <1>6 DEF Failed, Outcome
<1>8. <<t>> \o snap[t].releases \in Releases
    <2>1. snap[t].releases \in Releases
        BY DEF TypeOK, Snap
    <2> QED
        BY <2>1 DEF Releases
<1>9. Succeeded(t) \in TImage
    <2>1. SlotFreed(t, "Done") \in TImage
        BY <1>6 DEF Outcome
    <2> QED
        BY <2>1, <1>8, FieldsTyped DEF Succeeded
<1> QED
    BY <1>4, <1>5, <1>6, <1>7, <1>9

(* A fault is counted within its bound. *)
LEMMA FaultTyped ==
    ASSUME TypeOK, NEW kind, Fault(kind)
    PROVE  faults' \in 0 .. MaxFaults
BY ConstantsAssumption DEF TypeOK, Fault

(* Whatever becomes of a request, it leaves the API server in a good state. *)
LEMMA RequestTyped ==
    ASSUME TypeOK, NEW object \in TImage, NEW ok
    PROVE  /\ \A rv : Update(rv, object, ok)
                  => timage' \in TImage /\ faults' \in 0 .. MaxFaults
           /\ Patch(object, ok)
                  => timage' \in TImage /\ faults' \in 0 .. MaxFaults
<1>1. timage \in TImage /\ faults \in 0 .. MaxFaults
    BY DEF TypeOK
<1>2. \A kind : Fault(kind) => faults' \in 0 .. MaxFaults
    BY FaultTyped
<1> QED
    BY <1>1, <1>2 DEF Update, Patch, apiVars

(* The copies the engine takes are well formed. *)
LEMMA CopiesTyped ==
    ASSUME TypeOK
    PROVE  Copy \in Snap /\ Returned \in Snap /\ Empty \in Snap
<1>1. timage.rv \in Nat /\ timage.releases \in Releases /\ <<>> \in Releases
    BY DEF TypeOK, TImage, Releases
<1> QED
    BY <1>1 DEF Copy, Returned, Empty, Snap

USE DEF apiVars, engineVars, podVars, controllerVars

(* Every step keeps the types. *)
LEMMA TypeStep == TypeOK /\ [Next]_vars => TypeOK'
<1> SUFFICES ASSUME TypeOK, [Next]_vars
             PROVE  TypeOK'
    OBVIOUS
<1> USE DEF Goto, Reject, LivePc, EndPc, Running, Terminated
<1> DEFINE Counted == timage' \in TImage /\ faults' \in 0 .. MaxFaults
<1>1. ASSUME NEW t \in Task, PostTaskGet(t)
      PROVE  TypeOK'
    BY <1>1, CopiesTyped, FaultTyped DEF PostTaskGet, TypeOK
<1>2. ASSUME NEW t \in Task, PostTaskClaim(t)
      PROVE  TypeOK'
    <2>1. InSlot(t, "Pending") \in TImage
        BY ObjectsTyped DEF Phase
    <2>2. Counted
        BY <1>2, <2>1, RequestTyped DEF PostTaskClaim
    <2>3. /\ pc' \in [Task -> {"idle", "posting"} \cup LivePc \cup EndPc]
          /\ answer' \in [Task -> {"none", "ok", "error"}]
        BY <1>2 DEF PostTaskClaim, TypeOK
    <2>4. snap' \in [Task -> Snap]
        BY <1>2, CopiesTyped DEF PostTaskClaim, TypeOK
    <2> QED
        BY <1>2, <2>2, <2>3, <2>4 DEF PostTaskClaim, TypeOK
<1>3. ASSUME NEW t \in Task, Start(t)
      PROVE  TypeOK'
    BY <1>3 DEF Start, TypeOK
<1>4. ASSUME NEW t \in Task, NEW from, NEW phase \in Phase,
             NEW next \in SUBSET LivePc, PushState(t, from, phase, next)
      PROVE  TypeOK'
    <2>1. InSlot(t, phase) \in TImage
        BY ObjectsTyped
    <2>2. Counted
        BY <1>4, <2>1, RequestTyped DEF PushState
    <2>3. snap' \in [Task -> Snap]
        BY <1>4, CopiesTyped DEF PushState, TypeOK
    <2>4. PICK label \in next : Goto(t, label)
        BY <1>4 DEF PushState
    <2>5. pc' \in [Task -> {"idle", "posting"} \cup LivePc \cup EndPc]
        BY <2>4 DEF TypeOK
    <2> QED
        BY <1>4, <2>2, <2>3, <2>5 DEF PushState, TypeOK
<1>5. ASSUME NEW t \in Task, Submit(t)
      PROVE  TypeOK'
    BY <1>5, FaultTyped DEF Submit, TypeOK
<1>6. ASSUME NEW t \in Task, OpenWatch(t) \/ WatchEvent(t) \/ WatchLost(t)
      PROVE  TypeOK'
    <2>1. faults' \in 0 .. MaxFaults
        BY <1>6, FaultTyped DEF OpenWatch, WatchEvent, WatchLost, TypeOK
    <2> QED
        BY <1>6, <2>1 DEF OpenWatch, WatchEvent, WatchLost, TypeOK
<1>7. ASSUME NEW t \in Task, ReportFailure(t)
      PROVE  TypeOK'
    BY <1>7 DEF ReportFailure, TypeOK
<1>8. ASSUME NEW t \in Task, NEW object \in TImage, NEW ok,
             Attempt(t, object, ok)
      PROVE  Counted
    BY <1>8, RequestTyped DEF Attempt, TypeOK
<1>9. ASSUME NEW t \in Task, OnBuildFailed(t)
      PROVE  TypeOK'
    <2>1. Counted
        BY <1>8, <1>9, ObjectsTyped DEF OnBuildFailed
    <2>2. \/ UNCHANGED tries
          \/ tries' = [tries EXCEPT ![t] = @ + 1] /\ tries[t] # 1
        BY <1>9 DEF OnBuildFailed, LastAttempt
    <2>3. tries[t] # 1 => tries[t] + 1 \in 0 .. 1
        BY DEF TypeOK
    <2>4. tries' \in [Task -> 0 .. 1]
        BY <2>2, <2>3 DEF TypeOK
    <2> QED
        BY <1>9, <2>1, <2>4 DEF OnBuildFailed, TypeOK
<1>10. ASSUME NEW t \in Task, OnBuildSuccess(t)
       PROVE  TypeOK'
    <2>1. Counted
        BY <1>8, <1>10, ObjectsTyped DEF OnBuildSuccess
    <2>2. \/ UNCHANGED tries
          \/ tries' = [tries EXCEPT ![t] = @ + 1] /\ tries[t] # 1
        BY <1>10 DEF OnBuildSuccess, LastAttempt
    <2>3. tries[t] # 1 => tries[t] + 1 \in 0 .. 1
        BY DEF TypeOK
    <2>4. tries' \in [Task -> 0 .. 1]
        BY <2>2, <2>3 DEF TypeOK
    <2> QED
        BY <1>10, <2>1, <2>4 DEF OnBuildSuccess, TypeOK
<1>11. ASSUME EngineDies, faults' \in 0 .. MaxFaults
       PROVE  TypeOK'
    BY <1>11 DEF EngineDies, Live, TypeOK
<1>12. CASE EngineCrash
    BY <1>11, <1>12, FaultTyped DEF EngineCrash
<1>13. ASSUME NEW t \in Task, EnginePanic(t)
       PROVE  TypeOK'
    BY <1>11, <1>13 DEF EnginePanic, TypeOK
<1>14. ASSUME NEW t \in Task, KanikoGet(t)
       PROVE  TypeOK'
    <2>1. timage.rv \in Nat
        BY DEF TypeOK, TImage
    <2> QED
        BY <1>14, <2>1 DEF KanikoGet, TypeOK
<1>15. ASSUME NEW t \in Task, NEW from, NEW phase \in Phase,
              NEW to \in Running, PushStateOrDie(t, from, phase, to)
       PROVE  TypeOK'
    <2>1. InPhase(phase) \in TImage
        BY ObjectsTyped
    <2>2. Counted
        BY <1>15, <2>1, RequestTyped DEF PushStateOrDie
    <2>3. timage.rv + 1 \in Nat
        BY DEF TypeOK, TImage
    <2>4. podSnap' \in [Task -> Nat]
        BY <1>15, <2>3 DEF PushStateOrDie, TypeOK
    <2>5. pod' \in [Task -> {"absent"} \cup Running \cup Terminated]
        BY <1>15 DEF PushStateOrDie, TypeOK
    <2> QED
        BY <1>15, <2>2, <2>4, <2>5 DEF PushStateOrDie, TypeOK
<1>16. ASSUME NEW t \in Task, ImagePushed(t) \/ KanikoExit(t)
       PROVE  TypeOK'
    <2>1. faults' \in 0 .. MaxFaults
        BY <1>16, FaultTyped DEF ImagePushed, KanikoExit, TypeOK
    <2> QED
        BY <1>16, <2>1 DEF ImagePushed, KanikoExit, TypeOK
<1>17. ASSUME NEW t \in Task, ReapPod(t) \/ PodDeleted(t)
       PROVE  TypeOK'
    <2>1. faults' \in 0 .. MaxFaults
        BY <1>17, FaultTyped DEF ReapPod, PodDeleted, TypeOK
    <2> QED
        BY <1>17, <2>1 DEF ReapPod, PodDeleted, DeletePod, TypeOK
<1>18. CASE InformerSync
    <2>1. timage.running \in Task \cup {None}
        BY DEF TypeOK, TImage
    <2> QED
        BY <1>18, <2>1 DEF InformerSync, TypeOK
<1>19. ASSUME NEW t \in Task, CheckOvertime(t)
       PROVE  TypeOK'
    <2>1. Counted
        BY <1>19, RequestTyped, ObjectsTyped DEF CheckOvertime, Outcome, TypeOK
    <2> QED
        BY <1>19, <2>1 DEF CheckOvertime, TypeOK
<1>20. CASE ControllerRestart
    <2>1. timage.running \in Task \cup {None}
        BY DEF TypeOK, TImage
    <2> QED
        BY <1>20, <2>1, FaultTyped DEF ControllerRestart, TypeOK
<1>21. CASE UserEdit
    <2>1. [timage EXCEPT !.rv = @ + 1] \in TImage
        BY FieldsTyped DEF TypeOK
    <2>2. ASSUME NEW r \in Release
          PROVE  <<r>> \o timage.releases \in Releases
        BY <2>2 DEF TypeOK, TImage, Releases
    <2>3. ASSUME NEW r \in Release
          PROVE  [timage EXCEPT !.rv = @ + 1, !.releases = <<r>> \o @] \in TImage
        <3>1. [[timage EXCEPT !.rv = @ + 1]
                  EXCEPT !.releases = <<r>> \o timage.releases] \in TImage
            BY <2>1, <2>2, FieldsTyped
        <3>2. [timage EXCEPT !.rv = @ + 1].releases = timage.releases
            BY DEF TypeOK, TImage
        <3> QED
            BY <3>1, <3>2
    <2>4. Counted
        BY <1>21, <2>1, <2>3, FaultTyped DEF UserEdit
    <2> QED
        BY <1>21, <2>4 DEF UserEdit, TypeOK
<1>22. CASE UNCHANGED vars
    BY <1>22 DEF vars, TypeOK
<1>23. ASSUME NEW t \in Task, EngineStep(t)
       PROVE  TypeOK'
    <2>1. CASE PrepareContext(t) \/ PrepareSecret(t) \/ PushSubmitting(t)
        BY <1>4, <2>1 DEF PrepareContext, PrepareSecret, PushSubmitting, Phase
    <2> QED
        BY <1>3, <1>5, <1>6, <1>7, <1>9, <1>10, <1>23, <2>1 DEF EngineStep
<1>24. ASSUME NEW t \in Task, KanikoStep(t)
       PROVE  TypeOK'
    <2>1. CASE KanikoBuild(t) \/ KanikoPush(t)
        BY <1>15, <2>1 DEF KanikoBuild, KanikoPush, Phase
    <2> QED
        BY <1>14, <1>16, <1>24, <2>1 DEF KanikoStep
<1> QED
    BY <1>1, <1>2, <1>6, <1>12, <1>13, <1>17, <1>18, <1>19, <1>20, <1>21,
       <1>22, <1>23, <1>24 DEF Next

(* Every variable keeps to its type, under any combination of faults. *)
THEOREM TypeCorrect == Spec => []TypeOK
<1>1. Init => TypeOK
    <2>1. Empty \in Snap /\ <<>> \in Releases
        BY DEF Empty, Snap, Releases
    <2> QED
        BY <2>1, ConstantsAssumption DEF Init, TypeOK, TImage, Phase
<1> QED
    BY <1>1, TypeStep, PTL DEF Spec

-----------------------------------------------------------------------------
(* Versions.                                                                *)

(* Whatever is written has the next resourceVersion. *)
Written == timage' = timage \/ timage'.rv = timage.rv + 1

(* A step that takes no new copy for task t, and moves it to no state in which
   its old copy counts. *)
KeepsCopies(t) ==
    /\ snap'[t] = snap[t]
    /\ \/ pc'[t] = pc[t]
       \/ pc'[t] \notin ClaimedPc \cup {"posting"}
       \/ pc[t] = "queued" /\ pc'[t] = "context"
    /\ podSnap'[t] = podSnap[t]
    /\ pod'[t] = pod[t] \/ pod'[t] \notin {"got", "building"}

(* Every object the program writes has the next resourceVersion. *)
LEMMA ObjectsVersioned ==
    ASSUME TypeOK, NEW t
    PROVE  /\ \A p : InSlot(t, p).rv = timage.rv + 1 /\ InSlot(t, p).running = t
           /\ \A p : /\ InPhase(p).rv = timage.rv + 1
                     /\ InPhase(p).running = timage.running
           /\ \A o : /\ SlotFreed(t, o).rv = timage.rv + 1
                     /\ SlotFreed(t, o).running = None
           /\ Failed(t).rv = timage.rv + 1 /\ Failed(t).running = None
           /\ Succeeded(t).rv = timage.rv + 1 /\ Succeeded(t).running = None
BY DEF TypeOK, TImage, InSlot, InPhase, SlotFreed, Failed, Succeeded

(* A request leaves the object alone or writes what it carries. *)
LEMMA RequestWrites ==
    ASSUME NEW object, object.rv = timage.rv + 1, NEW ok
    PROVE  /\ \A rv : Update(rv, object, ok) => Written
           /\ Patch(object, ok) => Written
BY DEF Update, Patch, Written

(* Old copies of a task nobody touches stay harmless. *)
LEMMA KeptCopiesVersioned ==
    ASSUME TypeOK, TypeOK', Written, NEW t \in Task,
           CopyIsVersioned(t), KeepsCopies(t)
    PROVE  CopyIsVersioned(t)'
<1>1. timage.rv \in Nat /\ snap[t].rv \in Nat /\ podSnap[t] \in Nat
    BY DEF TypeOK, TImage, Snap
<1>2. CASE timage' = timage
    BY <1>2 DEF CopyIsVersioned, KeepsCopies, ClaimedPc
<1>3. CASE timage'.rv = timage.rv + 1
    BY <1>1, <1>3 DEF CopyIsVersioned, KeepsCopies
<1> QED
    BY <1>2, <1>3 DEF Written

(* The steps that take no copy. *)
LEMMA OtherStepsKeepCopies ==
    ASSUME TypeOK, NEW t \in Task,
           \/ Start(t) \/ Submit(t) \/ OpenWatch(t) \/ WatchEvent(t)
           \/ WatchLost(t) \/ ReportFailure(t) \/ OnBuildFailed(t)
           \/ OnBuildSuccess(t) \/ EnginePanic(t) \/ EngineCrash
           \/ ImagePushed(t) \/ KanikoExit(t) \/ ReapPod(t) \/ PodDeleted(t)
           \/ CheckOvertime(t) \/ InformerSync \/ ControllerRestart \/ UserEdit
    PROVE  Written /\ \A u \in Task : KeepsCopies(u)
<1>0. /\ Failed(t).rv = timage.rv + 1 /\ Succeeded(t).rv = timage.rv + 1
      /\ SlotFreed(t, "Failed").rv = timage.rv + 1
    BY ObjectsVersioned
<1> USE DEF TypeOK, KeepsCopies, ClaimedPc, Goto, Running
<1>1. CASE \/ Start(t) \/ Submit(t) \/ OpenWatch(t) \/ WatchEvent(t)
           \/ WatchLost(t) \/ ReportFailure(t)
    BY <1>1 DEF Start, Submit, OpenWatch, WatchEvent, WatchLost, ReportFailure,
                Written
<1>2. CASE OnBuildFailed(t) \/ OnBuildSuccess(t)
    <2>1. /\ Attempt(t, Failed(t), TRUE) => Written
          /\ Attempt(t, Failed(t), FALSE) => Written
          /\ Attempt(t, Succeeded(t), TRUE) => Written
          /\ Attempt(t, Succeeded(t), FALSE) => Written
        BY <1>0, RequestWrites DEF Attempt, Written
    <2>2. Written
        BY <1>2, <2>1 DEF OnBuildFailed, OnBuildSuccess
    <2> QED
        BY <1>2, <2>2 DEF OnBuildFailed, OnBuildSuccess
<1>3. CASE EnginePanic(t) \/ EngineCrash
    BY <1>3 DEF EnginePanic, EngineCrash, EngineDies, Live, Written
<1>4. CASE ImagePushed(t) \/ KanikoExit(t)
    BY <1>4 DEF ImagePushed, KanikoExit, Written
<1>5. CASE ReapPod(t) \/ PodDeleted(t)
    BY <1>5 DEF ReapPod, PodDeleted, DeletePod, Written
<1>6. CASE CheckOvertime(t)
    <2>1. Written
        BY <1>6, <1>0, RequestWrites DEF CheckOvertime, Written
    <2> QED
        BY <1>6, <2>1 DEF CheckOvertime
<1>7. CASE InformerSync \/ ControllerRestart
    BY <1>7 DEF InformerSync, ControllerRestart, Written
<1>8. CASE UserEdit
    <2>1. /\ [timage EXCEPT !.rv = @ + 1].rv = timage.rv + 1
          /\ \A s : [timage EXCEPT !.rv = @ + 1, !.releases = s].rv
                       = timage.rv + 1
        BY DEF TImage
    <2>2. Written
        BY <1>8, <2>1 DEF UserEdit, Written
    <2> QED
        BY <1>8, <2>2 DEF UserEdit
<1> QED
    BY <1>1, <1>2, <1>3, <1>4, <1>5, <1>6, <1>7, <1>8

(* The claim of the slot. *)
LEMMA ClaimVersioned ==
    ASSUME TypeOK, TypeOK', CopiesAreVersioned, NEW t \in Task,
           PostTaskClaim(t)
    PROVE  CopiesAreVersioned'
<1> DEFINE object == InSlot(t, "Pending")
<1>1. object.rv = timage.rv + 1 /\ object.running = t
    BY ObjectsVersioned
<1>2. Written
    <2> HIDE DEF object
    <2>1. \A rv, ok : Update(rv, object, ok) => Written
        BY <1>1, RequestWrites
    <2> QED
        BY <2>1 DEF PostTaskClaim, object
<1>3. ASSUME NEW u \in Task \ {t}
      PROVE  CopyIsVersioned(u)'
    <2>1. KeepsCopies(u)
        BY <1>3 DEF PostTaskClaim, Goto, Reject, KeepsCopies, TypeOK
    <2> QED
        BY <1>2, <1>3, <2>1, KeptCopiesVersioned DEF CopiesAreVersioned
<1>4. CopyIsVersioned(t)'
    <2>1. CASE Reject(t) /\ UNCHANGED snap
        <3>1. KeepsCopies(t)
            BY <2>1 DEF PostTaskClaim, Reject, Goto, KeepsCopies, ClaimedPc,
                        TypeOK
        <3> QED
            BY <1>2, <3>1, KeptCopiesVersioned DEF CopiesAreVersioned
    <2>2. CASE /\ Update(snap[t].rv, object, TRUE)
               /\ Goto(t, "queued")
               /\ snap' = [snap EXCEPT ![t] = Returned]
        <3>1. timage' = object
            BY <2>2 DEF Update
        <3>2. pc'[t] = "queued" /\ snap'[t].rv = timage.rv + 1
            BY <2>2 DEF Goto, Returned, TypeOK
        <3>3. podSnap'[t] = podSnap[t] /\ pod'[t] = pod[t]
            BY DEF PostTaskClaim
        <3>4. podSnap[t] \in Nat /\ timage.rv \in Nat /\ podSnap[t] <= timage.rv
            BY DEF TypeOK, TImage, CopiesAreVersioned, CopyIsVersioned
        <3> HIDE DEF object
        <3> QED
            BY <1>1, <3>1, <3>2, <3>3, <3>4 DEF CopyIsVersioned
    <2> QED
        BY <2>1, <2>2 DEF PostTaskClaim
<1> QED
    BY <1>3, <1>4 DEF CopiesAreVersioned

(* A progress report of the engine: it leaves the engine with a copy of what it
   has written, or with an empty one. *)
LEMMA PushStateVersioned ==
    ASSUME TypeOK, TypeOK', CopiesAreVersioned, NEW t \in Task,
           NEW from, NEW phase, NEW next \in SUBSET LivePc,
           PushState(t, from, phase, next)
    PROVE  CopiesAreVersioned'
<1> DEFINE object == InSlot(t, phase)
<1>1. object.rv = timage.rv + 1 /\ object.running = t
    BY ObjectsVersioned
<1>2. Written
    <2> HIDE DEF object
    <2>1. \A rv, ok : Update(rv, object, ok) => Written
        BY <1>1, RequestWrites
    <2> QED
        BY <2>1 DEF PushState, object
<1>3. PICK label \in LivePc : Goto(t, label)
    BY DEF PushState
<1>4. ASSUME NEW u \in Task \ {t}
      PROVE  CopyIsVersioned(u)'
    <2>1. KeepsCopies(u)
        BY <1>3, <1>4 DEF PushState, Goto, KeepsCopies, TypeOK
    <2> QED
        BY <1>2, <1>4, <2>1, KeptCopiesVersioned DEF CopiesAreVersioned
<1>5. CopyIsVersioned(t)'
    <2>1. /\ podSnap'[t] = podSnap[t] /\ pod'[t] = pod[t]
          /\ podSnap[t] \in Nat /\ timage.rv \in Nat /\ podSnap[t] <= timage.rv
          /\ pod[t] \in {"got", "building"} /\ podSnap[t] = timage.rv
                => timage.running = t
        BY DEF PushState, TypeOK, TImage, CopiesAreVersioned, CopyIsVersioned
    <2>2. pc'[t] = label /\ label # "posting"
        BY <1>3 DEF Goto, LivePc, TypeOK
    <2>3. CASE /\ Update(snap[t].rv, object, TRUE)
               /\ snap' = [snap EXCEPT ![t] = Returned]
        <3>1. timage' = object
            BY <2>3 DEF Update
        <3>2. snap'[t].rv = timage.rv + 1
            BY <2>3 DEF Returned, TypeOK
        <3> HIDE DEF object
        <3> QED
            BY <1>1, <2>1, <2>2, <3>1, <3>2 DEF CopyIsVersioned
    <2>4. CASE snap' = [snap EXCEPT ![t] = Empty]
        <3>1. snap'[t].rv = 0 /\ ~snap'[t].ok
            BY <2>4 DEF Empty, TypeOK
        <3>2. timage'.rv \in Nat
            BY DEF TypeOK, TImage
        <3> QED
            BY <1>2, <2>1, <2>2, <3>1, <3>2 DEF Written, CopyIsVersioned
    <2> QED
        BY <2>3, <2>4 DEF PushState
<1> QED
    BY <1>4, <1>5 DEF CopiesAreVersioned

(* tarskaniko reads the object. *)
LEMMA KanikoGetVersioned ==
    ASSUME TypeOK, TypeOK', CopiesAreVersioned, NEW t \in Task, KanikoGet(t)
    PROVE  CopiesAreVersioned'
<1>1. timage' = timage /\ pc' = pc /\ snap' = snap
    BY DEF KanikoGet
<1>2. ASSUME NEW u \in Task
      PROVE  \/ pod'[u] = pod[u] /\ podSnap'[u] = podSnap[u]
             \/ pod'[u] = "failed" /\ podSnap'[u] = podSnap[u]
             \/ podSnap'[u] = timage.rv /\ timage.running = u
    BY <1>2 DEF KanikoGet, TypeOK
<1>3. timage.rv \in Nat
    BY DEF TypeOK, TImage
<1> QED
    BY <1>1, <1>2, <1>3 DEF CopiesAreVersioned, CopyIsVersioned

(* A progress report of tarskaniko. *)
LEMMA PushStateOrDieVersioned ==
    ASSUME TypeOK, TypeOK', CopiesAreVersioned, NEW t \in Task,
           NEW from \in {"got", "building"}, NEW phase, NEW to,
           PushStateOrDie(t, from, phase, to)
    PROVE  CopiesAreVersioned'
<1> DEFINE object == InPhase(phase)
<1>1. object.rv = timage.rv + 1 /\ object.running = timage.running
    BY ObjectsVersioned
<1>2. Written
    <2> HIDE DEF object
    <2>1. \A rv, ok : Update(rv, object, ok) => Written
        BY <1>1, RequestWrites
    <2> QED
        BY <2>1 DEF PushStateOrDie, object
<1>3. ASSUME NEW u \in Task \ {t}
      PROVE  CopyIsVersioned(u)'
    <2>1. KeepsCopies(u)
        BY <1>3 DEF PushStateOrDie, KeepsCopies, TypeOK
    <2> QED
        BY <1>2, <1>3, <2>1, KeptCopiesVersioned DEF CopiesAreVersioned
<1>4. CASE Update(podSnap[t], object, TRUE)
           /\ podSnap' = [podSnap EXCEPT ![t] = timage.rv + 1]
    <2>1. timage' = object /\ podSnap[t] = timage.rv
        BY <1>4 DEF Update
    <2>2. timage.running = t
        BY <2>1 DEF PushStateOrDie, CopiesAreVersioned, CopyIsVersioned
    <2>3. podSnap'[t] = timage.rv + 1 /\ pc'[t] = pc[t] /\ snap'[t] = snap[t]
        BY <1>4 DEF PushStateOrDie, TypeOK
    <2>4. snap[t].rv <= timage.rv /\ snap[t].rv \in Nat /\ timage.rv \in Nat
        BY DEF TypeOK, TImage, Snap, CopiesAreVersioned, CopyIsVersioned
    <2>5. CopyIsVersioned(t)'
        <3> HIDE DEF object
        <3> QED
            BY <1>1, <2>1, <2>2, <2>3, <2>4 DEF CopyIsVersioned
    <2> QED
        BY <1>3, <2>5 DEF CopiesAreVersioned
<1>5. CASE pod' = [pod EXCEPT ![t] = "failed"] /\ UNCHANGED podSnap
    <2>1. KeepsCopies(t)
        BY <1>5 DEF PushStateOrDie, KeepsCopies, TypeOK
    <2>2. CopyIsVersioned(t)'
        BY <1>2, <2>1, KeptCopiesVersioned DEF CopiesAreVersioned
    <2> QED
        BY <1>3, <2>2 DEF CopiesAreVersioned
<1> QED
    BY <1>4, <1>5 DEF PushStateOrDie

(* Every step keeps the copies versioned. *)
LEMMA VersionStep ==
    TypeOK /\ TypeOK' /\ CopiesAreVersioned /\ [Next]_vars
        => CopiesAreVersioned'
<1> SUFFICES ASSUME TypeOK, TypeOK', CopiesAreVersioned, [Next]_vars
             PROVE  CopiesAreVersioned'
    OBVIOUS
<1>1. ASSUME Written, \A u \in Task : KeepsCopies(u)
      PROVE  CopiesAreVersioned'
    BY <1>1, KeptCopiesVersioned DEF CopiesAreVersioned
<1>2. ASSUME NEW t \in Task, PostTaskGet(t)
      PROVE  CopiesAreVersioned'
    <2>1. timage' = timage /\ pod' = pod /\ podSnap' = podSnap
        BY <1>2 DEF PostTaskGet
    <2>2. ASSUME NEW u \in Task
          PROVE  \/ pc'[u] = pc[u] /\ snap'[u] = snap[u]
                 \/ pc'[u] = "rejected" /\ snap'[u] = snap[u]
                 \/ /\ pc'[u] = "posting" /\ timage.running = None
                    /\ snap'[u].rv = timage.rv
        BY <1>2, <2>2 DEF PostTaskGet, Goto, Reject, Copy, TypeOK
    <2>3. timage.rv \in Nat
        BY DEF TypeOK, TImage
    <2> QED
        BY <2>1, <2>2, <2>3 DEF CopiesAreVersioned, CopyIsVersioned, ClaimedPc
<1>3. ASSUME NEW t \in Task,
             PrepareContext(t) \/ PrepareSecret(t) \/ PushSubmitting(t)
      PROVE  CopiesAreVersioned'
    BY <1>3, PushStateVersioned
       DEF PrepareContext, PrepareSecret, PushSubmitting, LivePc
<1>4. ASSUME NEW t \in Task, KanikoBuild(t) \/ KanikoPush(t)
      PROVE  CopiesAreVersioned'
    BY <1>4, PushStateOrDieVersioned DEF KanikoBuild, KanikoPush
<1>5. ASSUME NEW t \in Task, EngineStep(t) \/ KanikoStep(t)
      PROVE  CopiesAreVersioned'
    BY <1>1, <1>3, <1>4, <1>5, OtherStepsKeepCopies, KanikoGetVersioned
       DEF EngineStep, KanikoStep
<1>6. CASE UNCHANGED vars
    BY <1>6 DEF vars, CopiesAreVersioned, CopyIsVersioned
<1>7. CASE \E t \in Task :
              WatchLost(t) \/ EnginePanic(t) \/ ReapPod(t) \/ PodDeleted(t)
                \/ CheckOvertime(t)
    BY <1>1, <1>7, OtherStepsKeepCopies
<1>8. CASE InformerSync \/ UserEdit \/ EngineCrash \/ ControllerRestart
    <2>1. ASSUME Task = {}
          PROVE  CopiesAreVersioned'
        BY <2>1 DEF CopiesAreVersioned
    <2> QED
        BY <1>1, <1>8, <2>1, OtherStepsKeepCopies
<1> QED
    BY <1>2, <1>5, <1>6, <1>7, <1>8, ClaimVersioned DEF Next

(* The current resourceVersion is proof of the slot's state. *)
THEOREM CopiesVersioned == Spec => []CopiesAreVersioned
<1>1. Init => CopiesAreVersioned
    BY DEF Init, CopiesAreVersioned, CopyIsVersioned, Empty, ClaimedPc
<1> QED
    BY <1>1, TypeCorrect, VersionStep, PTL DEF Spec

-----------------------------------------------------------------------------
(* The slot.                                                                *)

(* What a request did to the slot, if it did anything. *)
LEMMA UpdateSlot ==
    ASSUME NEW rv, NEW object, NEW ok, Update(rv, object, ok)
    PROVE  timage' = timage \/ (timage' = object /\ rv = timage.rv)
BY DEF Update, apiVars

(* The same of a patch. *)
LEMMA PatchSlot ==
    ASSUME NEW object, NEW ok, Patch(object, ok)
    PROVE  timage' = timage \/ timage' = object
BY DEF Patch

(* A task that was not in the slot enters it only by claiming it empty. *)
LEMMA EntryStep ==
    ASSUME TypeOK, CopiesAreVersioned, [Next]_vars, NEW t \in Task,
           timage'.running = t, timage.running # t
    PROVE  timage.running = None
<1> SUFFICES ASSUME timage' # timage
             PROVE  timage.running = None
    OBVIOUS
<1>1. t # None
    BY ConstantsAssumption
<1>2. ASSUME NEW u \in Task, PostTaskClaim(u)
      PROVE  timage.running = None
    <2>1. snap[u].rv = timage.rv
        BY <1>2, UpdateSlot DEF PostTaskClaim
    <2> QED
        BY <1>2, <2>1 DEF PostTaskClaim, CopiesAreVersioned, CopyIsVersioned
<1>3. ASSUME NEW u \in Task, NEW from \in ClaimedPc, NEW phase, NEW next,
             PushState(u, from, phase, next)
      PROVE  FALSE
    <2> DEFINE object == InSlot(u, phase)
    <2>1. snap[u].rv = timage.rv /\ timage' = object
        BY <1>3, UpdateSlot DEF PushState
    <2>2. timage.running = u
        BY <1>3, <2>1 DEF PushState, CopiesAreVersioned, CopyIsVersioned
    <2>3. timage'.running = u
        BY <2>1, ObjectsVersioned
    <2> QED
        BY <2>2, <2>3
<1>4. ASSUME NEW u \in Task, NEW from, NEW phase, NEW to,
             PushStateOrDie(u, from, phase, to)
      PROVE  FALSE
    <2>1. timage' = InPhase(phase)
        BY <1>4, UpdateSlot DEF PushStateOrDie
    <2> QED
        BY <2>1, ObjectsVersioned
<1>5. ASSUME NEW u \in Task, OnBuildFailed(u) \/ OnBuildSuccess(u)
      PROVE  FALSE
    <2>1. timage' = Failed(u) \/ timage' = Succeeded(u)
        BY <1>5, PatchSlot DEF OnBuildFailed, OnBuildSuccess, Attempt
    <2> QED
        BY <1>1, <2>1, ObjectsVersioned
<1>6. ASSUME NEW u \in Task, CheckOvertime(u)
      PROVE  FALSE
    <2>1. timage' = SlotFreed(u, "Failed")
        BY <1>6, PatchSlot DEF CheckOvertime
    <2> QED
        BY <1>1, <2>1, ObjectsVersioned
<1>7. ~UserEdit
    BY DEF UserEdit, TypeOK, TImage
<1>8. ASSUME NEW u \in Task
      PROVE  /\ ~PostTaskGet(u) /\ ~Start(u) /\ ~Submit(u) /\ ~OpenWatch(u)
             /\ ~WatchEvent(u) /\ ~WatchLost(u) /\ ~ReportFailure(u)
             /\ ~EnginePanic(u) /\ ~KanikoGet(u) /\ ~ImagePushed(u)
             /\ ~KanikoExit(u) /\ ~ReapPod(u) /\ ~PodDeleted(u)
    BY DEF PostTaskGet, Start, Submit, OpenWatch, WatchEvent, WatchLost,
           ReportFailure, EnginePanic, EngineDies, KanikoGet, ImagePushed,
           KanikoExit, ReapPod, PodDeleted, DeletePod
<1>9. ~InformerSync /\ ~EngineCrash /\ ~ControllerRestart /\ ~UNCHANGED vars
    BY DEF InformerSync, EngineCrash, EngineDies, ControllerRestart, vars
<1>10. ASSUME NEW u \in Task, EngineStep(u) \/ KanikoStep(u)
       PROVE  FALSE
    BY <1>3, <1>4, <1>5, <1>8, <1>10
       DEF EngineStep, KanikoStep, PrepareContext, PrepareSecret,
           PushSubmitting, KanikoBuild, KanikoPush, ClaimedPc
<1> QED
    BY <1>2, <1>6, <1>7, <1>8, <1>9, <1>10 DEF Next

(* Nobody takes the slot from another task, whatever goes wrong. *)
THEOREM SlotIsNotStolen == Spec => SlotNotStolen
<1>1. TypeOK /\ CopiesAreVersioned /\ [Next]_vars
        => [\A t \in Task : timage'.running = t /\ timage.running # t
                               => timage.running = None]_vars
    BY EntryStep
<1> QED
    BY <1>1, TypeCorrect, CopiesVersioned, PTL DEF Spec, SlotNotStolen

(* A pod decides to upload only while its task is in the slot. *)
LEMMA PushStep ==
    ASSUME TypeOK, CopiesAreVersioned, [Next]_vars, NEW t \in Task,
           pod[t] # "pushing", pod'[t] = "pushing"
    PROVE  timage.running = t
<1> USE DEF TypeOK
<1>1. ASSUME NEW u \in Task, KanikoPush(u)
      PROVE  timage.running = t
    <2>1. u = t /\ Update(podSnap[t], InPhase("Pushing"), TRUE)
        BY <1>1 DEF KanikoPush, PushStateOrDie
    <2>2. podSnap[t] = timage.rv
        BY <2>1 DEF Update
    <2> QED
        BY <1>1, <2>1, <2>2
           DEF KanikoPush, PushStateOrDie, CopiesAreVersioned, CopyIsVersioned
<1>2. ASSUME NEW u \in Task, EngineStep(u)
      PROVE  FALSE
    BY <1>2 DEF EngineStep, Start, PrepareContext, PrepareSecret,
                PushSubmitting, PushState, Submit, OpenWatch, WatchEvent,
                ReportFailure, OnBuildFailed, OnBuildSuccess
<1>3. ASSUME NEW u \in Task,
             \/ PostTaskGet(u) \/ PostTaskClaim(u) \/ WatchLost(u)
             \/ EnginePanic(u) \/ CheckOvertime(u)
      PROVE  FALSE
    BY <1>3 DEF PostTaskGet, PostTaskClaim, WatchLost, EnginePanic, EngineDies,
                CheckOvertime
<1>4. ASSUME NEW u \in Task,
             \/ KanikoGet(u) \/ KanikoBuild(u) \/ ImagePushed(u)
             \/ KanikoExit(u) \/ ReapPod(u) \/ PodDeleted(u)
      PROVE  FALSE
    BY <1>4 DEF KanikoGet, KanikoBuild, PushStateOrDie, ImagePushed,
                KanikoExit, ReapPod, PodDeleted, DeletePod
<1>5. \/ InformerSync \/ UserEdit \/ EngineCrash \/ ControllerRestart
      \/ UNCHANGED vars
      => FALSE
    BY DEF InformerSync, UserEdit, EngineCrash, EngineDies, ControllerRestart,
           vars
<1> QED
    BY <1>1, <1>2, <1>3, <1>4, <1>5 DEF Next, KanikoStep

(* Images are uploaded on behalf of the task in the slot only. *)
THEOREM HolderPushes == Spec => OnlyHolderPushes
<1>1. TypeOK /\ CopiesAreVersioned /\ [Next]_vars
        => [\A t \in Task : pod[t] # "pushing" /\ pod'[t] = "pushing"
                               => timage.running = t]_vars
    BY PushStep
<1> QED
    BY <1>1, TypeCorrect, CopiesVersioned, PTL DEF Spec, OnlyHolderPushes
=============================================================================
