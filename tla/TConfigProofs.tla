---------------------------- MODULE TConfigProofs ----------------------------
(***************************************************************************)
(* Theorems about TConfig, for any versions, requests, faults and bounds.  *)
(***************************************************************************)
EXTENDS TConfig, TLAPS

Objects == [Config -> Object \cup {Absent}]

(* What a verdict is worth, as the resourceVersion of the request has it: until
   somebody else writes its object, an admitted activation finds the version
   inactive and not marked for deletion, and an admitted deletion finds it. *)
RequestAsAdmitted(r) ==
    InFlight(r) /\ r \notin changed =>
        /\ op[r] = "activate" =>
              target[r] \in Existing(store) \ (Activated(store) \cup Deleting(store))
        /\ op[r] = "delete" => target[r] \in Existing(store)

RequestsAsAdmitted == \A r \in Request : RequestAsAdmitted(r)

(* An object stays one when its labels are set. *)
LEMMA ObjectsTyped ==
    ASSUME TypeOK, NEW c \in Existing(store)
    PROVE  /\ store[c] \in Object
           /\ [store[c] EXCEPT !.activated = TRUE] \in Object
           /\ [store[c] EXCEPT !.deleting = TRUE] \in Object
           /\ [store[c] EXCEPT !.deactivate = TRUE] \in Object
           /\ [store[c] EXCEPT !.deactivate = FALSE, !.activated = FALSE] \in Object
<1>1. store[c] \in Object
    BY DEF TypeOK, Existing
<1> QED BY <1>1 DEF Object

(* What a write of well-formed objects does to the variables it touches. *)
LEMMA WriteTyped ==
    ASSUME TypeOK, NEW objects \in Objects, Write(objects)
    PROVE  /\ store' \in Objects
           /\ watched' \in Seq(Objects)
           /\ changed' \subseteq Request
BY DEF TypeOK, Write, Objects

(* A write of one object is a write of well-formed objects. *)
LEMMA WriteObjectTyped ==
    ASSUME TypeOK, NEW c \in Config, NEW object \in Object \cup {Absent},
           WriteObject(c, object)
    PROVE  /\ store' \in Objects
           /\ watched' \in Seq(Objects)
           /\ changed' \subseteq Request
<1>1. [store EXCEPT ![c] = object] \in Objects
    BY DEF TypeOK, Objects
<1> QED BY <1>1, WriteTyped DEF WriteObject

(* A fault is counted, up to the bound. *)
LEMMA FaultTyped ==
    ASSUME TypeOK, NEW kind, Fault(kind)
    PROVE  faults' \in 0 .. MaxFaults
BY ConstantsAssumption DEF TypeOK, Fault

(* A verdict types the request's part of the state. *)
LEMMA VerdictTyped ==
    ASSUME TypeOK, NEW r \in Request, NEW kind \in Op, NEW c \in Config,
           NEW accepted, NEW marks \in SUBSET Config,
           Verdict(r, kind, c, accepted, marks)
    PROVE  TypeOK'
BY DEF TypeOK, Verdict, InFlight, controllerVars, queueVars

(* The history variable names versions only. *)
LEMMA ChooseTyped ==
    ASSUME TypeOK, NEW r \in Request, target[r] \in Config, Choose(r)
    PROVE  chosen' \in [PodSeq -> Config \cup {None}]
BY DEF TypeOK, Choose, SeqOf, PodSeq

(* What the webhook sees are versions. *)
LEMMA SeenTyped ==
    ASSUME TypeOK
    PROVE  /\ Existing(Seen) \in SUBSET Config
           /\ \A c \in Config : GivesWay(c) \in SUBSET Config
           /\ \A c \in Config : GoesAlong(c) \in SUBSET Config
BY DEF Existing, Activated, GivesWay, GoesAlong

(* The requests, up to their admission. *)
LEMMA SendTyped ==
    ASSUME TypeOK, NEW r \in Request, NEW c \in Config,
           SendCreate(r, c) \/ SendActivate(r, c) \/ SendDelete(r, c)
    PROVE  TypeOK'
<1>1. {} \in SUBSET Config
    OBVIOUS
<1>2. {"create", "createActive", "activate", "delete"} \subseteq Op
    BY DEF Op
<1>3. CASE SendCreate(r, c)
    BY <1>1, <1>2, <1>3, SeenTyped, VerdictTyped DEF SendCreate
<1>4. CASE SendActivate(r, c)
    BY <1>2, <1>4, SeenTyped, VerdictTyped DEF SendActivate
<1>5. CASE SendDelete(r, c)
    BY <1>1, <1>2, <1>5, SeenTyped, VerdictTyped DEF SendDelete
<1> QED BY <1>3, <1>4, <1>5

(* The webhook's patches. *)
LEMMA MarkTyped ==
    ASSUME TypeOK, NEW r \in Request, NEW c \in Config, Mark(r, c)
    PROVE  TypeOK'
<1>1. CASE /\ c \in Existing(store) \ Deleting(store)
           /\ WriteObject(c, Marked(r, c))
           /\ todo' = [todo EXCEPT ![r] = @ \ {c}]
           /\ pc' = [pc EXCEPT ![r] = IF todo[r] = {c} THEN "admitted" ELSE @]
           /\ UNCHANGED faults
    <2>1. Marked(r, c) \in Object \cup {Absent}
        BY <1>1, ObjectsTyped DEF Marked
    <2>2. /\ store' \in Objects
          /\ watched' \in Seq(Objects)
          /\ changed' \subseteq Request
        BY <1>1, <2>1, WriteObjectTyped
    <2>3. /\ pc' \in [Request -> {"idle", "marking", "admitted", "done", "refused"}]
          /\ \A q \in Request : InFlight(q)' => target'[q] \in Config
        BY <1>1 DEF TypeOK, InFlight, Mark
    <2> QED BY <1>1, <2>2, <2>3 DEF TypeOK, Mark, Objects, queueVars
<1>2. CASE /\ faults' = faults \/ Fault("apiError")
           /\ pc' = [pc EXCEPT ![r] = "refused"]
           /\ todo' = [todo EXCEPT ![r] = {}]
           /\ UNCHANGED storeVars
    <2>1. faults' \in 0 .. MaxFaults
        BY <1>2, FaultTyped DEF TypeOK
    <2>2. /\ pc' \in [Request -> {"idle", "marking", "admitted", "done", "refused"}]
          /\ \A q \in Request : InFlight(q)' => target'[q] \in Config
        BY <1>2 DEF TypeOK, InFlight, Mark
    <2> QED BY <1>2, <2>1, <2>2 DEF TypeOK, Mark, storeVars, queueVars
<1> QED BY <1>1, <1>2 DEF Mark

(* The API server answers an admitted request. *)
LEMMA PersistTyped ==
    ASSUME TypeOK, NEW r \in Request, RequestAsAdmitted(r), Persist(r)
    PROVE  TypeOK'
<1>1. target[r] \in Config
    BY DEF Persist, TypeOK, InFlight
<1>2. \A active \in BOOLEAN : New(active) \in Object
    BY DEF New, Object
<1>3. CASE Create(r)
    <2>1. CASE /\ WriteObject(target[r], New(op[r] = "createActive"))
               /\ Answer(r, "done")
               /\ Choose(r)
        BY <1>1, <1>2, <2>1, WriteObjectTyped, ChooseTyped
           DEF TypeOK, Persist, Answer, InFlight, Objects, queueVars
    <2>2. CASE Answer(r, "refused") /\ UNCHANGED <<storeVars, chosen>>
        BY <2>2 DEF TypeOK, Persist, Answer, InFlight, storeVars, queueVars
    <2> QED BY <1>3, <2>1, <2>2 DEF Create
<1>4. CASE Modify(r)
    <2>1. CASE op[r] = "delete"
        BY <1>1, <1>4, <2>1, WriteObjectTyped, ChooseTyped
           DEF TypeOK, Persist, Modify, Answer, InFlight, Objects, queueVars
    <2>2. CASE op[r] = "activate"
        <3>1. [store[target[r]] EXCEPT !.activated = TRUE] \in Object \cup {Absent}
            <4>1. target[r] \in Existing(store)
                BY <1>4, <2>2 DEF Persist, Modify, RequestAsAdmitted, InFlight
            <4> QED BY <4>1, ObjectsTyped
        <3> QED
            BY <1>1, <1>4, <2>2, <3>1, WriteObjectTyped, ChooseTyped
               DEF TypeOK, Persist, Modify, Answer, InFlight, Objects, queueVars
    <2> QED BY <1>4, <2>1, <2>2 DEF Modify
<1>5. CASE Conflict(r)
    BY <1>5 DEF TypeOK, Persist, Conflict, Answer, InFlight, storeVars, queueVars
<1> QED BY <1>3, <1>4, <1>5 DEF Persist

(* The informer's event fills the queues. *)
LEMMA InformerTyped ==
    ASSUME TypeOK, InformerSync
    PROVE  TypeOK'
<1>1. /\ Latest \in Objects
      /\ Tail(watched) \in Seq(Objects)
    BY DEF TypeOK, InformerSync, Latest, Objects
<1>2. /\ {SeqOf(c) : c \in Appeared} \subseteq PodSeq
      /\ (modifies \/ Appeared \cup Differs # {}) \in BOOLEAN
      /\ (deletes \/ Differs \cup Vanished # {}) \in BOOLEAN
    BY DEF SeqOf, PodSeq
<1> QED BY <1>1, <1>2 DEF TypeOK, InformerSync, Objects, requestVars, InFlight

(* The controller's steps. *)
LEMMA ControllerTyped ==
    ASSUME TypeOK,
           \/ \E seq \in PodSeq : ReconcileAdded(seq)
           \/ ReconcileModified
           \/ \E c \in Config : PatchInactive(c)
           \/ ReconcileDeleted
           \/ ControllerRestart
    PROVE  TypeOK'
<1>1. CASE \E seq \in PodSeq : ReconcileAdded(seq)
    BY <1>1 DEF TypeOK, ReconcileAdded, storeVars, requestVars, InFlight
<1>2. CASE ReconcileModified
    <2>1. Deactivating(known) \subseteq Config
        BY DEF Deactivating, Existing
    <2> QED
        BY <1>2, <2>1
           DEF TypeOK, ReconcileModified, storeVars, requestVars, InFlight
<1>3. ASSUME NEW c \in Config, PatchInactive(c)
      PROVE  TypeOK'
    <2>1. CASE /\ MarkIsThere(c)
               /\ WriteObject(c, [store[c] EXCEPT !.deactivate = FALSE,
                                            !.activated = FALSE])
               /\ UNCHANGED <<modifies, faults>>
        <3>1. c \in Existing(store)
            BY <2>1 DEF MarkIsThere, Deactivating
        <3>2. /\ store' \in Objects
              /\ watched' \in Seq(Objects)
              /\ changed' \subseteq Request
            BY <2>1, <3>1, ObjectsTyped, WriteObjectTyped
        <3> QED
            BY <1>3, <2>1, <3>2
               DEF TypeOK, PatchInactive, Objects, requestVars, InFlight
    <2>2. CASE /\ UNCHANGED faults \/ Fault("apiError")
               /\ modifies' = TRUE
               /\ UNCHANGED storeVars
        <3>1. faults' \in 0 .. MaxFaults
            BY <2>2, FaultTyped DEF TypeOK
        <3> QED
            BY <1>3, <2>2, <3>1
               DEF TypeOK, PatchInactive, storeVars, requestVars, InFlight
    <2> QED BY <1>3, <2>1, <2>2 DEF PatchInactive
<1>4. CASE ReconcileDeleted
    <2> DEFINE left == [c \in Config |->
                           IF c \in Deleting(store) THEN Absent ELSE store[c]]
    <2>1. left \in Objects
        BY DEF TypeOK, Objects
    <2>2. CASE /\ Write(left)
               /\ deletes' = FALSE
               /\ UNCHANGED faults
        <3>1. /\ store' \in Objects
              /\ watched' \in Seq(Objects)
              /\ changed' \subseteq Request
            <4> HIDE DEF left
            <4> QED BY <2>1, <2>2, WriteTyped
        <3> QED
            BY <1>4, <2>2, <3>1
               DEF TypeOK, ReconcileDeleted, Objects, requestVars, InFlight
    <2>3. CASE Fault("apiError") /\ UNCHANGED <<storeVars, deletes>>
        BY <1>4, <2>3, FaultTyped
           DEF TypeOK, ReconcileDeleted, storeVars, requestVars, InFlight
    <2> QED BY <1>4, <2>2, <2>3 DEF ReconcileDeleted
<1>5. CASE ControllerRestart
    <2>1. /\ {SeqOf(c) : c \in Existing(store)} \subseteq PodSeq
          /\ (Existing(store) # {}) \in BOOLEAN
          /\ <<>> \in Seq(Objects)
        BY DEF SeqOf, PodSeq
    <2>2. faults' \in 0 .. MaxFaults
        BY <1>5, FaultTyped DEF ControllerRestart
    <2> QED
        BY <1>5, <2>1, <2>2
           DEF TypeOK, ControllerRestart, requestVars, InFlight, Objects
<1> QED BY <1>1, <1>2, <1>3, <1>4, <1>5

(* No step leaves the types, as long as requests are as admitted: an          *)
(* activation writes fields of an object that has to be there.                *)
LEMMA TypeStep == TypeOK /\ RequestsAsAdmitted /\ [Next]_vars => TypeOK'
<1> SUFFICES ASSUME TypeOK, RequestsAsAdmitted, [Next]_vars
             PROVE  TypeOK'
    OBVIOUS
<1>1. CASE UNCHANGED vars
    BY <1>1
       DEF TypeOK, vars, requestVars, controllerVars, queueVars, InFlight
<1>2. ASSUME NEW r \in Request, Abort(r)
      PROVE  TypeOK'
    BY <1>2, FaultTyped
       DEF TypeOK, Abort, Answer, controllerVars, queueVars, InFlight
<1>3. CASE WebhookSync
    BY <1>3
       DEF TypeOK, WebhookSync, requestVars, controllerVars, queueVars, InFlight
<1> QED
    BY <1>1, <1>2, <1>3, SendTyped, MarkTyped, PersistTyped, InformerTyped,
       ControllerTyped
       DEF Next, RequestsAsAdmitted

-----------------------------------------------------------------------------
(* Writes that others see: if r's object is another one afterwards, r is *)
(* among the requests that have been overtaken.                                *)
LEMMA OvertakenStep ==
    ASSUME TypeOK, NEW objects, Write(objects), NEW r \in Request,
           target[r] \in Config, r \notin changed'
    PROVE  r \notin changed /\ store'[target[r]] = store[target[r]]
BY DEF Write

(* What a request is admitted for depends on its object alone. *)
LEMMA RequestKept ==
    ASSUME TypeOK, NEW r \in Request, RequestAsAdmitted(r),
           InFlight(r)' => InFlight(r),
           op'[r] = op[r], target'[r] = target[r],
           \/ \E objects : Write(objects)
           \/ UNCHANGED store /\ (r \in changed => r \in changed')
    PROVE  RequestAsAdmitted(r)'
<1> SUFFICES ASSUME InFlight(r)', r \notin changed'
             PROVE  /\ op[r] = "activate" =>
                         target[r] \in (Existing(store) \ (Activated(store) \cup Deleting(store)))'
                    /\ op[r] = "delete" => target[r] \in Existing(store)'
    BY DEF RequestAsAdmitted
<1>1. InFlight(r) /\ target[r] \in Config
    BY DEF TypeOK
<1>2. r \notin changed /\ store'[target[r]] = store[target[r]]
    BY <1>1, OvertakenStep
<1> QED BY <1>1, <1>2 DEF RequestAsAdmitted, Existing, Activated, Deleting

(* A verdict on a request r that accepts only what is there. *)
LEMMA VerdictAsAdmitted ==
    ASSUME TypeOK, RequestsAsAdmitted, NEW r \in Request, NEW kind,
           NEW c \in Config, NEW accepted, NEW marks,
           Verdict(r, kind, c, accepted, marks),
           kind = "activate" /\ accepted =>
               c \in Existing(store) \ (Activated(store) \cup Deleting(store)),
           kind = "delete" => c \in Existing(store)
    PROVE  RequestsAsAdmitted'
<1> SUFFICES ASSUME NEW q \in Request
             PROVE  RequestAsAdmitted(q)'
    BY DEF RequestsAsAdmitted
<1>1. CASE q = r
    <2>1. op'[r] = kind /\ target'[r] = c /\ store' = store
        BY DEF Verdict, TypeOK
    <2>2. InFlight(r)' => accepted
        BY DEF Verdict, TypeOK, InFlight
    <2> QED BY <1>1, <2>1, <2>2 DEF RequestAsAdmitted, Existing, Activated, Deleting
<1>2. CASE q # r
    <2>1. /\ op'[q] = op[q] /\ target'[q] = target[q] /\ pc'[q] = pc[q]
          /\ store' = store /\ (q \in changed => q \in changed')
        BY <1>2 DEF Verdict, TypeOK
    <2> QED BY <2>1, RequestKept DEF RequestsAsAdmitted, InFlight
<1> QED BY <1>1, <1>2

(* Requests stay as they were admitted. *)
LEMMA RequestsStep ==
    TypeOK /\ RequestsAsAdmitted /\ [Next]_vars => RequestsAsAdmitted'
<1> SUFFICES ASSUME TypeOK, RequestsAsAdmitted, [Next]_vars
             PROVE  RequestsAsAdmitted'
    OBVIOUS
<1>1. ASSUME NEW r \in Request, NEW c \in Config,
             SendCreate(r, c) \/ SendActivate(r, c) \/ SendDelete(r, c)
      PROVE  RequestsAsAdmitted'
    <2>1. CASE SendCreate(r, c)
        BY <2>1, VerdictAsAdmitted DEF SendCreate
    <2>2. CASE SendActivate(r, c)
        BY <2>2, VerdictAsAdmitted DEF SendActivate, Activated, Existing, Deleting
    <2>3. CASE SendDelete(r, c)
        BY <2>3, VerdictAsAdmitted DEF SendDelete, Existing
    <2> QED BY <1>1, <2>1, <2>2, <2>3
<1>2. ASSUME NEW r \in Request,
             (\E c \in Config : Mark(r, c)) \/ Persist(r) \/ Abort(r),
             NEW q \in Request
      PROVE  RequestAsAdmitted(q)'
    <2>1. /\ op'[q] = op[q] /\ target'[q] = target[q]
          /\ InFlight(q)' => InFlight(q)
        BY <1>2 DEF Mark, Persist, Abort, Create, Modify, Conflict, Answer,
                    InFlight, TypeOK
    <2>2. \/ \E objects : Write(objects)
          \/ UNCHANGED store /\ (q \in changed => q \in changed')
        BY <1>2 DEF Mark, Persist, Abort, Create, Modify, Conflict, WriteObject,
                    storeVars
    <2> QED BY <2>1, <2>2, RequestKept DEF RequestsAsAdmitted
<1>3. ASSUME \/ UNCHANGED vars
             \/ WebhookSync
             \/ InformerSync
             \/ \E seq \in PodSeq : ReconcileAdded(seq)
             \/ ReconcileModified
             \/ \E c \in Config : PatchInactive(c)
             \/ ReconcileDeleted
             \/ ControllerRestart,
             NEW q \in Request
      PROVE  RequestAsAdmitted(q)'
    <2>1. UNCHANGED <<pc, op, target>>
        BY <1>3 DEF vars, WebhookSync, InformerSync, ReconcileAdded,
                    ReconcileModified, PatchInactive, ReconcileDeleted,
                    ControllerRestart, requestVars
    <2>2. \/ \E objects : Write(objects)
          \/ UNCHANGED <<store, changed>>
        BY <1>3 DEF vars, WebhookSync, InformerSync, ReconcileAdded,
                    ReconcileModified, PatchInactive, ReconcileDeleted,
                    ControllerRestart, storeVars, WriteObject
    <2> QED BY <2>1, <2>2, RequestKept DEF RequestsAsAdmitted, InFlight
<1> QED BY <1>1, <1>2, <1>3 DEF Next, RequestsAsAdmitted

(* The inductive invariant: the types rest on what the verdicts are worth. *)
IInv == TypeOK /\ RequestsAsAdmitted

(* It holds initially, and every step preserves it. *)
LEMMA Invariance == Spec => []IInv
<1>1. Init => IInv
    <2>1. ASSUME Init
          PROVE  store \in Objects
        <3>1. New(FALSE) \in Object /\ New(TRUE) \in Object
            BY DEF New, Object
        <3>2. store \in [Config -> {Absent, New(FALSE), New(TRUE)}]
            BY <2>1 DEF Init
        <3> QED BY <3>1, <3>2 DEF Objects
    <2>2. ASSUME Init
          PROVE  chosen \in [PodSeq -> Config \cup {None}]
        <3>1. ASSUME NEW seq \in PodSeq
              PROVE  ActiveFor(seq) \in Config \cup {None}
            <4> DEFINE active == {c \in Activated(store) : SeqOf(c) = seq}
            <4>1. active \subseteq Config
                BY DEF Activated, Existing
            <4>2. ActiveFor(seq) = IF active = {} THEN None
                                   ELSE CHOOSE c \in active : TRUE
                BY DEF ActiveFor
            <4> HIDE DEF active
            <4>3. CASE active = {}
                BY <4>2, <4>3
            <4>4. CASE active # {}
                <5>1. (CHOOSE c \in active : TRUE) \in active
                    BY <4>4
                <5> QED BY <4>1, <4>2, <4>4, <5>1
            <4> QED BY <4>3, <4>4
        <3>2. chosen = [seq \in PodSeq |-> ActiveFor(seq)]
            BY <2>2 DEF Init
        <3> QED BY <3>1, <3>2
    <2>3. Init => TypeOK
        <3> SUFFICES ASSUME Init PROVE TypeOK
            OBVIOUS
        <3>1. store \in Objects /\ cache \in Objects /\ known \in Objects
            BY <2>1 DEF Init
        <3>2. watched \in Seq(Objects)
            BY DEF Init
        <3>3. /\ pc = [r \in Request |-> "idle"]
              /\ op = [r \in Request |-> "create"]
              /\ target = [r \in Request |-> None]
              /\ todo = [r \in Request |-> {}]
              /\ changed = {} /\ adds = {} /\ work = {}
              /\ modifies = FALSE /\ deletes = FALSE /\ faults = 0
            BY DEF Init
        <3>4. faults \in 0 .. MaxFaults
            BY <3>3, ConstantsAssumption
        <3>5. \A r \in Request : InFlight(r) => target[r] \in Config
            BY <3>3 DEF InFlight
        <3>6. /\ pc \in [Request -> {"idle", "marking", "admitted", "done",
                                     "refused"}]
              /\ op \in [Request -> Op]
              /\ target \in [Request -> Config \cup {None}]
              /\ todo \in [Request -> SUBSET Config]
            BY <3>3 DEF Op
        <3> QED BY <2>2, <3>1, <3>2, <3>3, <3>4, <3>5, <3>6
                DEF TypeOK, Objects
    <2>4. Init => RequestsAsAdmitted
        BY DEF Init, RequestsAsAdmitted, RequestAsAdmitted, InFlight
    <2> QED BY <2>3, <2>4 DEF IInv
<1>2. IInv /\ [Next]_vars => IInv'
    BY TypeStep, RequestsStep DEF IInv
<1> QED BY <1>1, <1>2, PTL DEF Spec

(* Every variable keeps its type; in particular no activation is written to    *)
(* an object that has been deleted meanwhile.                                  *)
THEOREM TypeCorrect == Spec => []TypeOK
BY Invariance, PTL DEF IInv

-----------------------------------------------------------------------------
(* What one write of one object leaves of the others. *)
LEMMA OtherObjects ==
    ASSUME TypeOK, NEW c \in Config, NEW object, WriteObject(c, object)
    PROVE  \A d \in Config : store'[d] = IF d = c THEN object ELSE store[d]
BY DEF TypeOK, WriteObject, Write

(* How any step changes any version: it is created, deleted, given a mark,     *)
(* activated by a request that finds it inactive and unmarked, or deactivated  *)
(* together with its mark.                                                     *)
LEMMA VersionStep ==
    ASSUME IInv, [Next]_vars, NEW c \in Existing(store)
    PROVE  \/ store'[c] = store[c]
           \/ store'[c] = Absent
           \/ store'[c] = [store[c] EXCEPT !.deleting = TRUE]
           \/ store'[c] = [store[c] EXCEPT !.deactivate = TRUE]
           \/ /\ c \notin Deleting(store)
              /\ store'[c] = [store[c] EXCEPT !.activated = TRUE]
           \/ /\ c \in Deactivating(store)
              /\ store'[c] = [store[c] EXCEPT !.deactivate = FALSE,
                                              !.activated = FALSE]
<1> USE DEF IInv
<1> c \in Config /\ store[c] # Absent
    BY DEF Existing
<1>1. ASSUME NEW r \in Request, NEW d \in Config, Mark(r, d)
      PROVE  \/ store'[c] = store[c]
             \/ store'[c] = [store[c] EXCEPT !.deleting = TRUE]
             \/ store'[c] = [store[c] EXCEPT !.deactivate = TRUE]
    <2>1. \/ WriteObject(d, Marked(r, d))
          \/ store' = store
        BY <1>1 DEF Mark, storeVars
    <2>2. CASE WriteObject(d, Marked(r, d))
        <3>1. store'[c] = IF c = d THEN Marked(r, d) ELSE store[c]
            BY <2>2, OtherObjects
        <3> QED BY <3>1 DEF Marked
    <2>3. CASE store' = store
        BY <2>3
    <2> QED BY <2>1, <2>2, <2>3
<1>2. ASSUME NEW r \in Request, Persist(r)
      PROVE  \/ store'[c] = store[c]
             \/ store'[c] = Absent
             \/ /\ c \notin Deleting(store)
                /\ store'[c] = [store[c] EXCEPT !.activated = TRUE]
    <2>1. target[r] \in Config /\ InFlight(r)
        BY <1>2 DEF Persist, TypeOK, InFlight
    <2>2. CASE Create(r)
        BY <2>1, <2>2, OtherObjects DEF Create, storeVars
    <2>3. CASE Modify(r)
        <3>1. op[r] = "activate" => target[r] \notin Deleting(store)
            BY <2>1, <2>3 DEF Modify, RequestsAsAdmitted, RequestAsAdmitted
        <3>2. store'[c] = IF c = target[r]
                          THEN IF op[r] = "delete" THEN Absent
                               ELSE [store[target[r]] EXCEPT !.activated = TRUE]
                          ELSE store[c]
            BY <2>1, <2>3, OtherObjects DEF Modify
        <3> QED BY <2>3, <3>1, <3>2 DEF Modify
    <2>4. CASE Conflict(r)
        BY <2>4 DEF Conflict, storeVars
    <2> QED BY <1>2, <2>2, <2>3, <2>4 DEF Persist
<1>3. ASSUME NEW d \in Config, PatchInactive(d)
      PROVE  \/ store'[c] = store[c]
             \/ /\ c \in Deactivating(store)
                /\ store'[c] = [store[c] EXCEPT !.deactivate = FALSE,
                                                !.activated = FALSE]
    BY <1>3, OtherObjects DEF PatchInactive, MarkIsThere, storeVars
<1>4. ASSUME ReconcileDeleted
      PROVE  store'[c] = store[c] \/ store'[c] = Absent
    BY <1>4 DEF ReconcileDeleted, Write, storeVars
<1>5. ASSUME \/ UNCHANGED vars
             \/ \E r \in Request, d \in Config :
                   SendCreate(r, d) \/ SendActivate(r, d) \/ SendDelete(r, d)
             \/ \E r \in Request : Abort(r)
             \/ WebhookSync
             \/ InformerSync
             \/ \E seq \in PodSeq : ReconcileAdded(seq)
             \/ ReconcileModified
             \/ ControllerRestart
      PROVE  store'[c] = store[c]
    BY <1>5 DEF vars, SendCreate, SendActivate, SendDelete, Verdict, Abort,
                WebhookSync, InformerSync, ReconcileAdded, ReconcileModified,
                ControllerRestart, storeVars
<1> QED BY <1>1, <1>2, <1>3, <1>4, <1>5 DEF Next

(* A version becomes inactive only by a mark that is still on it. *)
THEOREM MarksCountOnce == Spec => MarkCountsOnce
<1>1. IInv /\ [Next]_vars =>
          [\A c \in Config :
              /\ c \in Activated(store)
              /\ store'[c] # Absent
              /\ ~store'[c].activated
              => c \in Deactivating(store)]_vars
    <2> SUFFICES ASSUME IInv, [Next]_vars, NEW c \in Activated(store),
                        store'[c] # Absent, ~store'[c].activated
                 PROVE  c \in Deactivating(store)
        OBVIOUS
    <2>1. c \in Existing(store) /\ store[c].activated
        BY DEF Activated
    <2>2. store[c] \in Object
        BY <2>1, ObjectsTyped DEF IInv
    <2> QED BY <2>1, <2>2, VersionStep DEF Object
<1> QED BY <1>1, Invariance, PTL DEF Spec, MarkCountsOnce

(* A version marked for deletion is not brought back by a request that was     *)
(* admitted before the mark.                                                   *)
THEOREM DeletionIsFinal == Spec => DeletingIsFinal
<1>1. IInv /\ [Next]_vars =>
          [\A c \in Deleting(store) :
              \/ store'[c] = Absent
              \/ /\ store'[c].deleting
                 /\ store'[c].activated => store[c].activated]_vars
    <2> SUFFICES ASSUME IInv, [Next]_vars, NEW c \in Deleting(store),
                        store'[c] # Absent
                 PROVE  /\ store'[c].deleting
                        /\ store'[c].activated => store[c].activated
        OBVIOUS
    <2>1. c \in Existing(store) /\ store[c].deleting
        BY DEF Deleting
    <2>2. store[c] \in Object
        BY <2>1, ObjectsTyped DEF IInv
    <2> QED BY <2>1, <2>2, VersionStep DEF Object
<1> QED BY <1>1, Invariance, PTL DEF Spec, DeletingIsFinal
=============================================================================
