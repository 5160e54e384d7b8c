------------------------- MODULE TConfigTurnsProofs -------------------------
(***************************************************************************)
(* Theorems about TConfig when requests come one after the other: that one *)
(* version is active for each podSeq, that it is the one the users chose,  *)
(* and that a node version has a master; for any versions and requests.    *)
(***************************************************************************)
EXTENDS TConfigProofs, FiniteSetTheorems

(* A request is answered before the next one is sent, and the webhook sees *)
(* what is stored.                                                         *)
InTurn == {"concurrent", "staleCache"} \cap Faults = {}

(* And what the webhook accepts is stored. *)
Kept == "aborted" \notin Faults

Activating(r) == InFlight(r) /\ op[r] \in {"createActive", "activate"}

Alone == \A q, r \in Request : InFlight(q) /\ InFlight(r) => q = r

Rivals(r) == (Unmarked(store) \cap SameSeq(target[r])) \ {target[r]}

(* The versions that an activation has not marked yet are in its list. *)
RivalsInTodo ==
    \A r \in Request :
        /\ Activating(r) => Rivals(r) \subseteq todo[r]
        /\ pc[r] = "admitted" => todo[r] = {}

OneActiveInv == Alone /\ OneActive /\ RivalsInTodo

(* The active version for seq has been marked, and the one that replaces it *)
(* is not written yet.                                                      *)
Replaced(seq) ==
    \E r \in Request :
        pc[r] = "admitted" /\ Activating(r) /\ SeqOf(target[r]) = seq

MarksOnActive == Deactivating(store) \subseteq Activated(store)

ActiveIsChosen == \A c \in Unmarked(store) : chosen[SeqOf(c)] = c

ChosenKept ==
    \A seq \in PodSeq :
        ~Replaced(seq) /\ chosen[seq] # None =>
            chosen[seq] \in Unmarked(store) /\ SeqOf(chosen[seq]) = seq

(* An active version that nobody replaces is being deleted. *)
RestDeleted ==
    \A c \in Activated(store) \ Deleting(store) :
        chosen[SeqOf(c)] # None \/ Replaced(SeqOf(c))

MasterChosen ==
    \/ Existing(store) \ Deleting(store) \subseteq Master
    \/ chosen["m"] # None
    \/ Replaced("m")

CreatesAbsent(r) ==
    op[r] \in {"create", "createActive"} =>
        /\ store[target[r]] = Absent
        /\ target[r] \in Master \/ chosen["m"] # None

ActivatesIdle(r) ==
    op[r] = "activate" =>
        /\ target[r] \in Existing(store) \ (Activated(store) \cup Deleting(store))
        /\ r \notin changed

(* Who gives way can be marked only while the mark means something. *)
MarksOne(r) ==
    pc[r] = "marking" /\ op[r] # "delete" =>
        /\ op[r] # "create"
        /\ \E d \in SameSeq(target[r]) \ {target[r]} :
               /\ todo[r] = {d}
               /\ \/ d \notin Existing(store) \ Deleting(store)
                  \/ d \in Activated(store) \ Deactivating(store)

DeletesAlong(r) ==
    op[r] = "delete" =>
        IF target[r] \in Unmarked(store)
          THEN /\ (Existing(store) \cap SameSeq(target[r])) \ Deleting(store)
                      \subseteq todo[r] \cup {target[r]}
               /\ todo[r] \subseteq SameSeq(target[r]) \ {target[r]}
               /\ target[r] \in Master => Existing(store) \subseteq Master
          ELSE pc[r] = "admitted"

RequestInv(r) ==
    InFlight(r) => /\ CreatesAbsent(r)
                   /\ ActivatesIdle(r)
                   /\ MarksOne(r)
                   /\ DeletesAlong(r)

StoreInv ==
    /\ MarksOnActive
    /\ ActiveIsChosen
    /\ ChosenKept
    /\ RestDeleted
    /\ MasterChosen

ChosenInv == OneActiveInv /\ StoreInv /\ \A r \in Request : RequestInv(r)

-----------------------------------------------------------------------------
(* The kinds of steps.                                                      *)

(* What the controller's steps do: they write only versions that are marked. *)
Controlled ==
    /\ UNCHANGED <<requestVars, chosen>>
    /\ \A c \in Config :
          \/ store'[c] = store[c]
          \/ /\ c \in Deactivating(store)
             /\ store'[c] = [store[c] EXCEPT !.deactivate = FALSE,
                                             !.activated = FALSE]
          \/ c \in Deleting(store) /\ store'[c] = Absent
    /\ \A r \in Request \cap (changed' \ changed) :
          \E c \in Config : target[r] = c /\ store'[c] # store[c]

(* The steps of the controller, of the informers, and no step. *)
LEMMA ControllerSteps ==
    ASSUME IInv,
           \/ UNCHANGED vars \/ WebhookSync \/ InformerSync
           \/ \E seq \in PodSeq : ReconcileAdded(seq)
           \/ ReconcileModified \/ \E c \in Config : PatchInactive(c)
           \/ ReconcileDeleted \/ ControllerRestart
    PROVE  Controlled
<1> USE DEF IInv
<1>1. ASSUME NEW c \in Config, PatchInactive(c)
      PROVE  Controlled
    <2>1. CASE /\ MarkIsThere(c)
               /\ WriteObject(c, [store[c] EXCEPT !.deactivate = FALSE,
                                            !.activated = FALSE])
        <3>1. \A d \in Config : store'[d] =
                 IF d = c THEN [store[c] EXCEPT !.deactivate = FALSE,
                                                !.activated = FALSE]
                          ELSE store[d]
            BY <2>1, OtherObjects
        <3>2. \A r \in Request \cap (changed' \ changed) :
                  \E d \in Config : target[r] = d /\ store'[d] # store[d]
            BY <2>1 DEF WriteObject, Write
        <3>3. UNCHANGED <<requestVars, chosen>>
            BY <1>1 DEF PatchInactive
        <3> QED BY <2>1, <3>1, <3>2, <3>3 DEF Controlled, MarkIsThere
    <2>2. CASE UNCHANGED storeVars
        BY <1>1, <2>2 DEF PatchInactive, Controlled, storeVars
    <2> QED BY <1>1, <2>1, <2>2 DEF PatchInactive
<1>2. CASE ReconcileDeleted
    <2>1. CASE Write([c \in Config |->
                         IF c \in Deleting(store) THEN Absent ELSE store[c]])
        <3>1. /\ \A c \in Config :
                    store'[c] = IF c \in Deleting(store) THEN Absent ELSE store[c]
              /\ \A r \in Request \cap (changed' \ changed) :
                    \E d \in Config : target[r] = d /\ store'[d] # store[d]
            BY <2>1 DEF Write
        <3> QED BY <1>2, <3>1 DEF ReconcileDeleted, Controlled
    <2>2. CASE UNCHANGED storeVars
        BY <1>2, <2>2 DEF ReconcileDeleted, Controlled, storeVars
    <2> QED BY <1>2, <2>1, <2>2 DEF ReconcileDeleted
<1>3. CASE \/ UNCHANGED vars \/ WebhookSync \/ InformerSync
           \/ \E seq \in PodSeq : ReconcileAdded(seq)
           \/ ReconcileModified \/ ControllerRestart
    <2>1. UNCHANGED <<requestVars, chosen, store, changed>>
        BY <1>3 DEF vars, WebhookSync, InformerSync, ReconcileAdded,
                    ReconcileModified, ControllerRestart, storeVars
    <2> QED BY <2>1 DEF Controlled
<1> QED BY <1>1, <1>2, <1>3

(* A verdict on a request that is sent when no other is in flight. *)
LEMMA VerdictIs ==
    ASSUME IInv, InTurn, NEW r \in Request, MaySend(r), NEW kind \in Op,
           NEW c \in Config, NEW accepted, NEW marks \in SUBSET Config,
           Verdict(r, kind, c, accepted, marks)
    PROVE  /\ store' = store /\ chosen' = chosen
           /\ op'[r] = kind /\ target'[r] = c /\ r \notin changed'
           /\ \A q \in Request : ~InFlight(q)
           /\ \A q \in Request : InFlight(q)' => q = r
           /\ InFlight(r)' => /\ accepted
                              /\ todo'[r] = marks
                              /\ pc'[r] = IF marks = {} THEN "admitted"
                                                        ELSE "marking"
<1>1. \A q \in Request : ~InFlight(q)
    BY DEF InTurn, MaySend
<1>2. /\ store' = store /\ chosen' = chosen
      /\ op'[r] = kind /\ target'[r] = c /\ r \notin changed'
    BY DEF Verdict, IInv, TypeOK
<1>3. \A q \in Request : q # r => pc'[q] = pc[q]
    BY DEF Verdict, IInv, TypeOK
<1>4. /\ ~accepted => pc'[r] = "refused"
      /\ accepted => todo'[r] = marks /\ pc'[r] = IF marks = {} THEN "admitted"
                                                                ELSE "marking"
    BY DEF Verdict, IInv, TypeOK
<1> QED BY <1>1, <1>2, <1>3, <1>4 DEF InFlight

(* A request that is in flight is the only one, and its step leaves it so. *)
LEMMA OthersIdle ==
    ASSUME IInv, Alone, NEW r \in Request, InFlight(r), NEW place,
           pc' = [pc EXCEPT ![r] = place]
    PROVE  /\ pc'[r] = place
           /\ \A q \in Request : InFlight(q)' => q = r
BY DEF IInv, TypeOK, Alone, InFlight

(* What the webhook sees. *)
LEMMA SeenIsStored == InTurn => Seen = store
BY DEF InTurn, Seen

(* A mark takes one version from the list, and leaves the others alone. *)
LEMMA MarkIs ==
    ASSUME IInv, Alone, NEW r \in Request, NEW d \in Config, Mark(r, d)
    PROVE  /\ pc[r] = "marking" /\ d \in todo[r]
           /\ op' = op /\ target' = target /\ chosen' = chosen
           /\ \A q \in Request : InFlight(q)' => q = r
           /\ \/ /\ d \in Existing(store) \ Deleting(store)
                 /\ \A c \in Config :
                       store'[c] = IF c = d THEN Marked(r, d) ELSE store[c]
                 /\ \A q \in Request \cap (changed' \ changed) : target[q] = d
                 /\ todo'[r] = todo[r] \ {d}
                 /\ pc'[r] = IF todo[r] = {d} THEN "admitted" ELSE "marking"
              \/ store' = store /\ ~InFlight(r)'
<1>1. /\ pc[r] = "marking" /\ d \in todo[r] /\ InFlight(r)
      /\ op' = op /\ target' = target /\ chosen' = chosen
    BY DEF Mark, InFlight
<1>2. CASE /\ d \in Existing(store) \ Deleting(store)
           /\ WriteObject(d, Marked(r, d))
           /\ todo' = [todo EXCEPT ![r] = @ \ {d}]
           /\ pc' = [pc EXCEPT ![r] = IF todo[r] = {d} THEN "admitted" ELSE @]
    <2>1. \A c \in Config : store'[c] = IF c = d THEN Marked(r, d) ELSE store[c]
        BY <1>2, OtherObjects DEF IInv
    <2>2. \A q \in Request \cap (changed' \ changed) : target[q] = d
        <3>1. \A q \in Request \cap (changed' \ changed) :
                 \E c \in Config : target[q] = c /\ store'[c] # store[c]
            BY <1>2 DEF WriteObject, Write
        <3> QED BY <2>1, <3>1
    <2>3. todo'[r] = todo[r] \ {d}
        BY <1>2 DEF IInv, TypeOK
    <2>4. /\ pc'[r] = IF todo[r] = {d} THEN "admitted" ELSE "marking"
          /\ \A q \in Request : InFlight(q)' => q = r
        BY <1>1, <1>2, OthersIdle
    <2> QED BY <1>1, <1>2, <2>1, <2>2, <2>3, <2>4
<1>3. CASE pc' = [pc EXCEPT ![r] = "refused"] /\ UNCHANGED storeVars
    <2>1. pc'[r] = "refused" /\ \A q \in Request : InFlight(q)' => q = r
        BY <1>1, <1>3, OthersIdle
    <2> QED BY <1>1, <1>3, <2>1 DEF InFlight, storeVars
<1> QED BY <1>2, <1>3 DEF Mark

(* The API server's answer is the end of a request. *)
LEMMA AnswerIs ==
    ASSUME IInv, Alone, NEW r \in Request, Persist(r) \/ Abort(r)
    PROVE  /\ pc[r] = "admitted" /\ InFlight(r) /\ target[r] \in Config
           /\ \A q \in Request : ~InFlight(q)'
           /\ \A q \in Request : InFlight(q) => q = r
<1>1. pc[r] = "admitted" /\ InFlight(r) /\ target[r] \in Config
    BY DEF Persist, Abort, InFlight, IInv, TypeOK
<1>2. PICK place \in {"done", "refused"} : pc' = [pc EXCEPT ![r] = place]
    BY DEF Persist, Abort, Create, Modify, Conflict, Answer
<1>3. pc'[r] = place /\ \A q \in Request : InFlight(q)' => q = r
    BY <1>1, <1>2, OthersIdle
<1> QED BY <1>1, <1>2, <1>3 DEF InFlight, Alone

(* What it stores, if the request is not refused. *)
LEMMA PersistIs ==
    ASSUME IInv, NEW r \in Request, Persist(r), target[r] \in Config
    PROVE  \/ store' = store /\ chosen' = chosen
              /\ \/ op[r] \in {"create", "createActive"} /\ store[target[r]] # Absent
                 \/ op[r] \in {"activate", "delete"} /\ r \in changed
           \/ /\ Choose(r)
              /\ \/ /\ op[r] \in {"create", "createActive"}
                    /\ store[target[r]] = Absent
                    /\ \A c \in Config : store'[c] =
                          IF c = target[r] THEN New(op[r] = "createActive")
                                           ELSE store[c]
                 \/ /\ op[r] = "activate"
                    /\ target[r] \in Existing(store)
                          \ (Activated(store) \cup Deleting(store))
                    /\ \A c \in Config : store'[c] =
                          IF c = target[r] THEN [store[c] EXCEPT !.activated = TRUE]
                                           ELSE store[c]
                 \/ /\ op[r] = "delete"
                    /\ \A c \in Config : store'[c] =
                          IF c = target[r] THEN Absent ELSE store[c]
<1> USE DEF IInv
<1>1. CASE Create(r)
    BY <1>1, OtherObjects DEF Create, storeVars
<1>2. CASE Modify(r)
    <2>1. InFlight(r) /\ r \notin changed
        BY <1>2 DEF Persist, Modify, InFlight
    <2>2. op[r] = "activate" => target[r] \in Existing(store)
                                   \ (Activated(store) \cup Deleting(store))
        BY <2>1 DEF RequestsAsAdmitted, RequestAsAdmitted
    <2>3. Choose(r) /\ op[r] \in {"activate", "delete"}
        BY <1>2 DEF Modify
    <2>4. \A c \in Config : store'[c] =
             IF c = target[r]
               THEN IF op[r] = "delete" THEN Absent
                    ELSE [store[target[r]] EXCEPT !.activated = TRUE]
               ELSE store[c]
        BY <1>2, OtherObjects DEF Modify
    <2> QED BY <2>2, <2>3, <2>4
<1>3. CASE Conflict(r)
    BY <1>3 DEF Conflict, storeVars
<1> QED BY <1>1, <1>2, <1>3 DEF Persist

-----------------------------------------------------------------------------
(* One active version.                                                      *)

(* A step that makes no version active that was not. *)
LEMMA FewerActive ==
    ASSUME OneActive, Unmarked(store)' \subseteq Unmarked(store)
    PROVE  OneActive'
BY DEF OneActive

LEMMA ControlledUnmarked ==
    ASSUME IInv, Controlled
    PROVE  Unmarked(store)' = Unmarked(store)
<1>1. \A c \in Existing(store) : store[c] \in Object
    BY ObjectsTyped DEF IInv
<1>2. ASSUME NEW c \in Config
      PROVE  c \in Unmarked(store)' <=> c \in Unmarked(store)
    <2>1. CASE store'[c] = store[c]
        BY <2>1 DEF Unmarked, Activated, Deactivating, Deleting, Existing
    <2>2. CASE /\ c \in Deactivating(store)
               /\ store'[c] = [store[c] EXCEPT !.deactivate = FALSE,
                                               !.activated = FALSE]
        BY <1>1, <2>2 DEF Unmarked, Activated, Deactivating, Deleting, Existing,
                          Object
    <2>3. CASE c \in Deleting(store) /\ store'[c] = Absent
        BY <2>3 DEF Unmarked, Activated, Deactivating, Deleting, Existing
    <2> QED BY <2>1, <2>2, <2>3 DEF Controlled
<1> QED BY <1>2 DEF Unmarked, Activated, Existing

(* A version that is marked is no longer active. *)
LEMMA MarkUnmarks ==
    ASSUME IInv, NEW r \in Request, NEW d \in Existing(store),
           \A c \in Config : store'[c] = IF c = d THEN Marked(r, d) ELSE store[c]
    PROVE  Unmarked(store)' = Unmarked(store) \ {d}
<1>1. store[d] \in Object /\ d \in Config
    BY ObjectsTyped DEF IInv, Existing
<1>2. /\ Marked(r, d) \in Object
      /\ Marked(r, d).deactivate \/ Marked(r, d).deleting
    BY <1>1 DEF Marked, Object
<1>3. ASSUME NEW c \in Config
      PROVE  c \in Unmarked(store)' <=> c \in Unmarked(store) /\ c # d
    BY <1>1, <1>2 DEF Unmarked, Activated, Deactivating, Deleting, Existing
<1> QED BY <1>3 DEF Unmarked, Activated, Existing

(* What is stored for a request adds its version at most. *)
LEMMA PersistUnmarked ==
    ASSUME IInv, NEW r \in Request, Persist(r), target[r] \in Config
    PROVE  /\ Unmarked(store)' \subseteq Unmarked(store) \cup {target[r]}
           /\ op[r] \notin {"createActive", "activate"} =>
                 Unmarked(store)' \subseteq Unmarked(store)
<1>1. ASSUME NEW c \in Config, c \in Unmarked(store)', c \notin Unmarked(store)
      PROVE  c = target[r] /\ op[r] \in {"createActive", "activate"}
    <2>1. store'[c] # store[c]
        BY <1>1 DEF Unmarked, Activated, Deactivating, Deleting, Existing
    <2>2. c = target[r] /\ op[r] # "delete"
        BY <1>1, <2>1, PersistIs
           DEF Unmarked, Activated, Deactivating, Deleting, Existing
    <2>3. op[r] # "create"
        <3>1. op[r] = "create" => store'[c] = New(FALSE)
            BY <2>1, <2>2, PersistIs
        <3> QED BY <1>1, <3>1 DEF New, Unmarked, Activated
    <2> QED BY <2>2, <2>3 DEF IInv, TypeOK, Op
<1> QED BY <1>1 DEF Unmarked, Activated, Existing

LEMMA OneActiveStep ==
    ASSUME InTurn, IInv, OneActiveInv, [Next]_vars
    PROVE  OneActiveInv'
<1> USE DEF OneActiveInv
<1>1. CASE Controlled
    <2>1. Unmarked(store)' = Unmarked(store) /\ UNCHANGED requestVars
        BY <1>1, ControlledUnmarked DEF Controlled
    <2> QED BY <2>1, FewerActive
            DEF Alone, RivalsInTodo, Rivals, Activating, InFlight, requestVars
<1>2. ASSUME NEW r \in Request, NEW c \in Config, MaySend(r), NEW kind \in Op,
             NEW accepted, NEW marks \in SUBSET Config,
             Verdict(r, kind, c, accepted, marks),
             kind \in {"createActive", "activate"} => marks = GivesWay(c)
      PROVE  OneActiveInv'
    <2>1. /\ store' = store
          /\ op'[r] = kind /\ target'[r] = c
          /\ \A q \in Request : InFlight(q)' => q = r
          /\ InFlight(r)' => /\ todo'[r] = marks
                             /\ pc'[r] = "admitted" => marks = {}
        BY <1>2, VerdictIs
    <2>2. Unmarked(store)' = Unmarked(store)
        BY <2>1 DEF Unmarked, Activated, Deactivating, Deleting, Existing
    <2>3. Activating(r)' => Rivals(r)' \subseteq todo'[r]
        <3>1. Activating(r)' => todo'[r] = GivesWay(c)
            BY <1>2, <2>1 DEF Activating
        <3>2. Rivals(r)' \subseteq GivesWay(c)
            BY <2>1, <2>2, SeenIsStored DEF Rivals, GivesWay, Unmarked
        <3> QED BY <3>1, <3>2
    <2>4. Alone' /\ RivalsInTodo'
        BY <2>1, <2>3 DEF Alone, RivalsInTodo, Activating, InFlight
    <2> QED BY <2>2, <2>4, FewerActive
<1>3. ASSUME NEW r \in Request, NEW c \in Config,
             SendCreate(r, c) \/ SendActivate(r, c) \/ SendDelete(r, c)
      PROVE  OneActiveInv'
    <2>1. /\ {"create", "createActive", "activate", "delete"} \subseteq Op
          /\ {} \in SUBSET Config
          /\ GivesWay(c) \in SUBSET Config /\ GoesAlong(c) \in SUBSET Config
        BY SeenTyped DEF Op, IInv
    <2>2. CASE SendCreate(r, c)
        BY <1>2, <2>1, <2>2 DEF SendCreate
    <2>3. CASE SendActivate(r, c)
        BY <1>2, <2>1, <2>3 DEF SendActivate
    <2>4. CASE SendDelete(r, c)
        BY <1>2, <2>1, <2>4 DEF SendDelete
    <2> QED BY <1>3, <2>2, <2>3, <2>4
<1>4. ASSUME NEW r \in Request, NEW d \in Config, Mark(r, d)
      PROVE  OneActiveInv'
    <2>1. /\ pc[r] = "marking" /\ d \in todo[r]
          /\ op' = op /\ target' = target
          /\ \A q \in Request : InFlight(q)' => q = r
        BY <1>4, MarkIs
    <2>2. CASE /\ d \in Existing(store) \ Deleting(store)
               /\ \A c \in Config :
                     store'[c] = IF c = d THEN Marked(r, d) ELSE store[c]
               /\ todo'[r] = todo[r] \ {d}
               /\ pc'[r] = IF todo[r] = {d} THEN "admitted" ELSE "marking"
        <3>1. Unmarked(store)' = Unmarked(store) \ {d}
            BY <2>2, MarkUnmarks
        <3>2. Activating(r)' => Activating(r)
            BY <2>1 DEF Activating, InFlight
        <3>3. Alone' /\ RivalsInTodo'
            BY <2>1, <2>2, <3>1, <3>2
               DEF Alone, RivalsInTodo, Rivals, Activating, InFlight
        <3> QED BY <3>1, <3>3, FewerActive
    <2>3. CASE store' = store /\ ~InFlight(r)'
        <3>1. \A q \in Request : ~InFlight(q)'
            BY <2>1, <2>3
        <3>2. Unmarked(store)' = Unmarked(store)
            BY <2>3 DEF Unmarked, Activated, Deactivating, Deleting, Existing
        <3>3. Alone' /\ RivalsInTodo'
            BY <3>1 DEF Alone, RivalsInTodo, Activating, InFlight
        <3> QED BY <3>2, <3>3, FewerActive
    <2> QED BY <1>4, <2>2, <2>3, MarkIs
<1>5. ASSUME NEW r \in Request, Persist(r) \/ Abort(r)
      PROVE  OneActiveInv'
    <2>1. /\ pc[r] = "admitted" /\ InFlight(r) /\ target[r] \in Config
          /\ \A q \in Request : ~InFlight(q)'
        BY <1>5, AnswerIs
    <2>2. Alone' /\ RivalsInTodo'
        BY <2>1 DEF Alone, RivalsInTodo, Activating, InFlight
    <2>3. OneActive'
        <3>1. CASE Abort(r)
            <4>1. Unmarked(store)' = Unmarked(store)
                BY <3>1
                   DEF Abort, Unmarked, Activated, Deactivating, Deleting, Existing
            <4> QED BY <4>1, FewerActive
        <3>2. CASE Persist(r) /\ op[r] \notin {"createActive", "activate"}
            BY <2>1, <3>2, PersistUnmarked, FewerActive
        <3>3. CASE Persist(r) /\ op[r] \in {"createActive", "activate"}
            <4>1. Rivals(r) = {}
                BY <2>1, <3>3 DEF RivalsInTodo, Activating
            <4>2. Unmarked(store)' \subseteq Unmarked(store) \cup {target[r]}
                BY <2>1, <3>3, PersistUnmarked
            <4>3. \A c \in Unmarked(store) : SeqOf(c) = SeqOf(target[r]) =>
                                                 c = target[r]
                BY <4>1 DEF Rivals, SameSeq, Unmarked, Activated, Existing
            <4> QED BY <4>2, <4>3 DEF OneActive
        <3> QED BY <1>5, <3>1, <3>2, <3>3
    <2> QED BY <2>2, <2>3
<1> QED BY <1>1, <1>3, <1>4, <1>5, ControllerSteps DEF Next

LEMMA OneActiveInvariance == ASSUME InTurn PROVE Spec => []OneActiveInv
<1>1. Init => OneActiveInv
    <2> SUFFICES ASSUME Init PROVE OneActiveInv
        OBVIOUS
    <2>1. \A r \in Request : pc[r] = "idle"
        BY DEF Init
    <2>2. OneActive
        BY DEF Init, Orderly, OneActive, Unmarked
    <2> QED BY <2>1, <2>2
            DEF OneActiveInv, Alone, RivalsInTodo, Activating, InFlight
<1>2. IInv /\ OneActiveInv /\ [Next]_vars => OneActiveInv'
    BY OneActiveStep
<1> QED BY <1>1, <1>2, Invariance, PTL DEF Spec

(* If requests come one after the other, all active versions for a podSeq but *)
(* one have been told to give way, however often requests of the webhook and *)
(* the controller fail, requests are dropped, and the controller restarts.    *)
THEOREM OneActiveHolds == ASSUME InTurn PROVE Spec => []OneActive
BY OneActiveInvariance, PTL DEF OneActiveInv

-----------------------------------------------------------------------------
(* The chosen version.                                                      *)

(* Without requests in flight, or with one that replaces nothing. *)
LEMMA NotReplaced ==
    ASSUME NEW r \in Request, \A q \in Request : InFlight(q) => q = r,
           pc[r] # "admitted" \/ op[r] \notin {"createActive", "activate"}
    PROVE  \A seq \in PodSeq : ~Replaced(seq)
BY DEF Replaced, Activating, InFlight

(* No other request than r has to be looked at. *)
LEMMA OneRequest ==
    ASSUME NEW r \in Request, \A q \in Request : InFlight(q) => q = r,
           RequestInv(r)
    PROVE  \A q \in Request : RequestInv(q)
BY DEF RequestInv

LEMMA SeqTyped == \A c \in Config : SeqOf(c) \in PodSeq
BY DEF SeqOf, PodSeq

(* The controller deactivates and deletes what has given way. *)
LEMMA ControlledChosen ==
    ASSUME IInv, ChosenInv, Controlled
    PROVE  StoreInv' /\ \A r \in Request : RequestInv(r)'
<1> USE DEF ChosenInv, StoreInv
<1>1. \A c \in Existing(store) : store[c] \in Object
    BY ObjectsTyped DEF IInv
<1>2. Unmarked(store)' = Unmarked(store)
    BY ControlledUnmarked
<1>3. /\ \A r \in Request : InFlight(r)' <=> InFlight(r)
      /\ \A seq \in PodSeq : Replaced(seq)' <=> Replaced(seq)
      /\ UNCHANGED <<pc, op, target, todo, chosen>>
    BY DEF Controlled, requestVars, InFlight, Replaced, Activating
<1>4. ASSUME NEW c \in Config
      PROVE  /\ c \in Deactivating(store)' => store'[c] = store[c]
             /\ c \in (Activated(store) \ Deleting(store))'
                   => store'[c] = store[c]
             /\ c \in Existing(store)' => c \in Existing(store)
             /\ c \in (Existing(store) \ Deleting(store))'
                   => c \in Existing(store) \ Deleting(store)
             /\ c \in Existing(store) \ (Deactivating(store) \cup Deleting(store))
                   => store'[c] = store[c]
             /\ store[c] = Absent => store'[c] = Absent
    <2>1. CASE store'[c] = store[c]
        BY <2>1 DEF Activated, Deactivating, Deleting, Existing
    <2>2. CASE /\ c \in Deactivating(store)
               /\ store'[c] = [store[c] EXCEPT !.deactivate = FALSE,
                                               !.activated = FALSE]
        BY <1>1, <2>2 DEF Activated, Deactivating, Deleting, Existing, Object
    <2>3. CASE c \in Deleting(store) /\ store'[c] = Absent
        BY <2>3 DEF Activated, Deactivating, Deleting, Existing
    <2> QED BY <2>1, <2>2, <2>3 DEF Controlled
<1>5. MarksOnActive'
    BY <1>4 DEF MarksOnActive, Activated, Deactivating, Existing
<1>6. ActiveIsChosen' /\ ChosenKept'
    BY <1>2, <1>3 DEF ActiveIsChosen, ChosenKept
<1>7. RestDeleted'
    BY <1>3, <1>4, SeqTyped DEF RestDeleted, Activated, Deleting, Existing
<1>8. MasterChosen'
    BY <1>3, <1>4 DEF MasterChosen, Existing, PodSeq
<1>9. ASSUME NEW r \in Request, InFlight(r)
      PROVE  /\ CreatesAbsent(r)'
             /\ ActivatesIdle(r)'
             /\ MarksOne(r)'
             /\ DeletesAlong(r)'
    <2>1. target[r] \in Config /\ RequestInv(r)
        BY <1>9 DEF IInv, TypeOK
    <2>2. CreatesAbsent(r)'
        BY <1>3, <1>4, <1>9, <2>1 DEF RequestInv, CreatesAbsent
    <2>3. ActivatesIdle(r)'
        <3>1. op[r] = "activate" => store'[target[r]] = store[target[r]]
            BY <1>4, <1>9, <2>1 DEF RequestInv, ActivatesIdle, MarksOnActive
        <3>2. op[r] = "activate" => r \notin changed'
            BY <1>9, <2>1, <3>1 DEF RequestInv, ActivatesIdle, Controlled
        <3> QED
            BY <1>3, <1>9, <2>1, <3>1, <3>2
               DEF RequestInv, ActivatesIdle, Activated, Deleting, Existing
    <2>4. MarksOne(r)'
        <3> SUFFICES ASSUME pc[r] = "marking", op[r] # "delete"
                     PROVE  MarksOne(r)'
            BY <1>3 DEF MarksOne
        <3>1. PICK d \in SameSeq(target[r]) \ {target[r]} :
                  /\ todo[r] = {d}
                  /\ \/ d \notin Existing(store) \ Deleting(store)
                     \/ d \in Activated(store) \ Deactivating(store)
            BY <1>9, <2>1 DEF RequestInv, MarksOne
        <3>2. d \in Config
            BY DEF SameSeq
        <3>3. \/ d \notin (Existing(store) \ Deleting(store))'
              \/ d \in (Activated(store) \ Deactivating(store))'
            <4>1. CASE d \in Existing(store) \ Deleting(store)
                <5>1. store'[d] = store[d]
                    BY <1>4, <3>1, <3>2, <4>1
                <5> QED BY <3>1, <4>1, <5>1
                        DEF Activated, Deactivating, Existing
            <4> QED BY <1>4, <3>2, <4>1
        <3>4. op[r] # "create"
            BY <1>9, <2>1 DEF RequestInv, MarksOne
        <3> QED BY <1>3, <3>1, <3>3, <3>4 DEF MarksOne
    <2>5. DeletesAlong(r)'
        BY <1>2, <1>3, <1>4, <1>9, <2>1
           DEF RequestInv, DeletesAlong, Existing, SameSeq
    <2> QED BY <2>2, <2>3, <2>4, <2>5
<1> QED BY <1>3, <1>5, <1>6, <1>7, <1>8, <1>9 DEF RequestInv

(* A verdict changes nothing that is stored; what it accepts is as follows. *)
LEMMA VerdictChosen ==
    ASSUME IInv, InTurn, ChosenInv, NEW r \in Request, MaySend(r),
           NEW kind \in Op, NEW c \in Config, NEW accepted,
           NEW marks \in SUBSET Config,
           Verdict(r, kind, c, accepted, marks)
    PROVE  /\ StoreInv'
           /\ (InFlight(r)' => RequestInv(r)') => \A q \in Request : RequestInv(q)'
<1>1. /\ store' = store /\ chosen' = chosen
      /\ \A q \in Request : ~InFlight(q)
      /\ \A q \in Request : InFlight(q)' => q = r
    BY VerdictIs
<1>2. \A seq \in PodSeq : ~Replaced(seq)
    BY <1>1 DEF Replaced, Activating
<1>3. /\ Unmarked(store)' = Unmarked(store)
      /\ Activated(store)' = Activated(store)
      /\ Deactivating(store)' = Deactivating(store)
      /\ Deleting(store)' = Deleting(store)
      /\ Existing(store)' = Existing(store)
    BY <1>1 DEF Unmarked, Activated, Deactivating, Deleting, Existing
<1>4. MarksOnActive' /\ ActiveIsChosen' /\ ChosenKept'
    BY <1>1, <1>2, <1>3
       DEF ChosenInv, StoreInv, MarksOnActive, ActiveIsChosen, ChosenKept
<1>5. RestDeleted' /\ MasterChosen'
    BY <1>1, <1>2, <1>3, SeqTyped
       DEF ChosenInv, StoreInv, RestDeleted, MasterChosen, PodSeq, Activated,
           Existing
<1> QED BY <1>1, <1>4, <1>5 DEF StoreInv, RequestInv

(* At most one version has to give way: it is active and has not been told yet, *)
(* or it is being deleted, in which case it cannot be marked.                    *)
LEMMA GivesWayIs ==
    ASSUME IInv, InTurn, StoreInv, \A q \in Request : ~InFlight(q),
           NEW c \in Config, c \notin Activated(store), CanActivate(c),
           NEW d \in GivesWay(c)
    PROVE  /\ d \in SameSeq(c) \ {c}
           /\ GivesWay(c) = {d}
           /\ \/ d \notin Existing(store) \ Deleting(store)
              \/ d \in Activated(store) \ Deactivating(store)
<1>1. /\ d \in Activated(store) /\ d \in Config /\ SeqOf(d) = SeqOf(c) /\ d # c
      /\ d \in SameSeq(c)
    BY SeenIsStored DEF GivesWay, SameSeq
<1>2. GivesWay(c) = {d}
    <2>1. GivesWay(c) \subseteq Config /\ IsFiniteSet(Config)
        BY SeenTyped, ConstantsAssumption DEF IInv
    <2>2. IsFiniteSet(GivesWay(c)) /\ Cardinality(GivesWay(c)) \in Nat
        BY <2>1, FS_Subset, FS_CardinalityType
    <2>3. Cardinality(GivesWay(c)) = 0 \/ Cardinality(GivesWay(c)) = 1
        BY <2>2 DEF CanActivate
    <2>4. Cardinality(GivesWay(c)) # 0
        BY <2>2, FS_EmptySet
    <2>5. PICK x : GivesWay(c) = {x}
        BY <2>2, <2>3, <2>4, FS_Singleton
    <2> QED BY <2>5
<1>3. ASSUME d \in Deactivating(store), d \notin Deleting(store)
      PROVE  FALSE
    <2> DEFINE e == chosen[SeqOf(c)]
    <2>1. e # None /\ SeqOf(c) \in PodSeq /\ ~Replaced(SeqOf(c))
        BY <1>1, <1>3, SeqTyped DEF StoreInv, RestDeleted, Replaced, Activating
    <2>2. e \in Unmarked(store) /\ SeqOf(e) = SeqOf(c)
        BY <2>1 DEF StoreInv, ChosenKept
    <2>3. e \in Activated(store) /\ e \in Config /\ e # d /\ e # c
        BY <1>3, <2>2 DEF Unmarked, Activated, Existing
    <2>4. e \in GivesWay(c)
        BY <2>2, <2>3, SeenIsStored DEF GivesWay, SameSeq
    <2> QED BY <1>2, <2>3, <2>4
<1> QED BY <1>1, <1>2, <1>3

(* A master that is active is the one that was chosen. *)
LEMMA MasterIsChosen ==
    ASSUME IInv, InTurn, StoreInv, NEW c \in Config, HasMaster(c)
    PROVE  c \in Master \/ chosen["m"] # None
<1> SUFFICES ASSUME NEW d \in Unmarked(store) \cap Master
             PROVE  chosen["m"] # None
    BY SeenIsStored DEF HasMaster
<1>1. chosen[SeqOf(d)] = d /\ SeqOf(d) = "m"
    BY DEF StoreInv, ActiveIsChosen, SeqOf
<1>2. d \in Config /\ None \notin Config
    BY ConstantsAssumption DEF Unmarked, Activated, Existing
<1> QED BY <1>1, <1>2

(* What the webhook accepts. *)
LEMMA SendChosen ==
    ASSUME IInv, InTurn, Kept, ChosenInv, NEW r \in Request, NEW c \in Config,
           SendCreate(r, c) \/ SendActivate(r, c) \/ SendDelete(r, c)
    PROVE  StoreInv' /\ \A q \in Request : RequestInv(q)'
<1> USE DEF ChosenInv
<1>1. /\ {"create", "createActive", "activate", "delete"} \subseteq Op
      /\ {} \in SUBSET Config
      /\ GivesWay(c) \in SUBSET Config /\ GoesAlong(c) \in SUBSET Config
    BY SeenTyped DEF Op, IInv
<1>2. ASSUME NEW kind \in Op, NEW accepted, NEW marks \in SUBSET Config,
             MaySend(r), Verdict(r, kind, c, accepted, marks),
             InFlight(r)' =>
                 /\ CreatesAbsent(r)' /\ ActivatesIdle(r)'
                 /\ MarksOne(r)' /\ DeletesAlong(r)'
      PROVE  StoreInv' /\ \A q \in Request : RequestInv(q)'
    BY <1>2, VerdictChosen DEF RequestInv
<1>3. ASSUME NEW kind \in {"createActive", "activate"}, NEW accepted,
             MaySend(r), Verdict(r, kind, c, accepted, GivesWay(c)),
             c \notin Activated(store), accepted => CanActivate(c),
             InFlight(r)'
      PROVE  MarksOne(r)'
    <2>1. /\ store' = store /\ op'[r] = kind /\ target'[r] = c
          /\ accepted /\ todo'[r] = GivesWay(c)
          /\ pc'[r] = IF GivesWay(c) = {} THEN "admitted" ELSE "marking"
          /\ \A q \in Request : ~InFlight(q)
        BY <1>1, <1>3, VerdictIs
    <2> SUFFICES ASSUME NEW d \in GivesWay(c)
                 PROVE  MarksOne(r)'
        BY <2>1 DEF MarksOne
    <2>2. /\ d \in SameSeq(c) \ {c} /\ GivesWay(c) = {d}
          /\ \/ d \notin Existing(store) \ Deleting(store)
             \/ d \in Activated(store) \ Deactivating(store)
        BY <1>3, <2>1, GivesWayIs
    <2> HIDE DEF ChosenInv
    <2> QED BY <2>1, <2>2, <1>3
            DEF MarksOne, Existing, Activated, Deleting, Deactivating
<1>4. CASE SendCreate(r, c)
    <2>1. MaySend(r) /\ store[c] = Absent
        BY <1>4 DEF SendCreate, Kept
    <2>2. CASE Verdict(r, "create", c, HasMaster(c), {})
        <3>1. /\ store' = store /\ chosen' = chosen
              /\ op'[r] = "create" /\ target'[r] = c
              /\ InFlight(r)' => HasMaster(c) /\ pc'[r] = "admitted"
            BY <1>1, <2>1, <2>2, VerdictIs
        <3>2. InFlight(r)' =>
                 /\ CreatesAbsent(r)' /\ ActivatesIdle(r)'
                 /\ MarksOne(r)' /\ DeletesAlong(r)'
            BY <2>1, <3>1, MasterIsChosen
               DEF CreatesAbsent, ActivatesIdle, MarksOne, DeletesAlong
        <3> QED BY <1>1, <1>2, <2>1, <2>2, <3>2
    <2>3. CASE Verdict(r, "createActive", c, HasMaster(c) /\ CanActivate(c),
                       GivesWay(c))
        <3>1. /\ store' = store /\ chosen' = chosen
              /\ op'[r] = "createActive" /\ target'[r] = c
              /\ InFlight(r)' => HasMaster(c)
            BY <1>1, <2>1, <2>3, VerdictIs
        <3>2. InFlight(r)' => MarksOne(r)'
            BY <1>3, <2>1, <2>3 DEF Activated, Existing
        <3>3. InFlight(r)' =>
                 CreatesAbsent(r)' /\ ActivatesIdle(r)' /\ DeletesAlong(r)'
            BY <2>1, <3>1, MasterIsChosen
               DEF CreatesAbsent, ActivatesIdle, DeletesAlong
        <3> QED BY <1>1, <1>2, <2>1, <2>3, <3>2, <3>3
    <2> QED BY <1>4, <2>2, <2>3 DEF SendCreate
<1>5. CASE SendActivate(r, c)
    <2>1. /\ MaySend(r) /\ c \in Existing(store) \ Activated(store)
          /\ Verdict(r, "activate", c, c \notin Deleting(store) /\ CanActivate(c),
                     GivesWay(c))
        BY <1>5 DEF SendActivate
    <2>2. /\ store' = store /\ r \notin changed'
          /\ op'[r] = "activate" /\ target'[r] = c
          /\ InFlight(r)' => c \notin Deleting(store)
        BY <1>1, <2>1, VerdictIs
    <2>3. InFlight(r)' => MarksOne(r)'
        BY <1>3, <2>1
    <2>4. InFlight(r)' =>
             CreatesAbsent(r)' /\ ActivatesIdle(r)' /\ DeletesAlong(r)'
        BY <2>1, <2>2
           DEF CreatesAbsent, ActivatesIdle, DeletesAlong, Existing, Activated,
               Deleting
    <2> QED BY <1>1, <1>2, <2>1, <2>3, <2>4
<1>6. ASSUME MaySend(r), c \in Unmarked(store),
             Verdict(r, "delete", c, ~IsReferenced(c), GoesAlong(c))
      PROVE  StoreInv' /\ \A q \in Request : RequestInv(q)'
    <2>1. /\ store' = store /\ op'[r] = "delete" /\ target'[r] = c
          /\ InFlight(r)' => ~IsReferenced(c) /\ todo'[r] = GoesAlong(c)
        BY <1>1, <1>6, VerdictIs
    <2>2. InFlight(r)' => DeletesAlong(r)'
        BY <1>6, <2>1, SeenIsStored
           DEF DeletesAlong, IsReferenced, GoesAlong, Unmarked, Activated,
               Deactivating, Deleting, Existing
    <2>3. InFlight(r)' =>
             CreatesAbsent(r)' /\ ActivatesIdle(r)' /\ MarksOne(r)'
        BY <2>1 DEF CreatesAbsent, ActivatesIdle, MarksOne
    <2> QED BY <1>1, <1>2, <1>6, <2>2, <2>3
<1>7. ASSUME MaySend(r), c \notin Unmarked(store),
             Verdict(r, "delete", c, TRUE, {})
      PROVE  StoreInv' /\ \A q \in Request : RequestInv(q)'
    <2>1. /\ store' = store /\ op'[r] = "delete" /\ target'[r] = c
          /\ InFlight(r)' => pc'[r] = "admitted"
        BY <1>1, <1>7, VerdictIs
    <2>2. Unmarked(store)' = Unmarked(store)
        BY <2>1 DEF Unmarked, Activated, Deactivating, Deleting, Existing
    <2>3. InFlight(r)' =>
             /\ CreatesAbsent(r)' /\ ActivatesIdle(r)'
             /\ MarksOne(r)' /\ DeletesAlong(r)'
        BY <1>7, <2>1, <2>2
           DEF CreatesAbsent, ActivatesIdle, MarksOne, DeletesAlong
    <2> QED BY <1>1, <1>2, <1>7, <2>3
<1> QED BY <1>4, <1>5, <1>6, <1>7 DEF SendDelete

(* Of the versions that go along with c, none is the active one. *)
LEMMA MarkAlong ==
    ASSUME IInv, ChosenInv, NEW r \in Request, NEW d \in Config, Mark(r, d),
           op[r] = "delete", d \in Existing(store) \ Deleting(store),
           \A c \in Config : store'[c] = IF c = d THEN Marked(r, d) ELSE store[c],
           todo'[r] = todo[r] \ {d}
    PROVE  StoreInv' /\ \A q \in Request : RequestInv(q)'
<1> USE DEF ChosenInv, OneActiveInv, StoreInv
<1>1. /\ pc[r] = "marking" /\ d \in todo[r] /\ InFlight(r)
      /\ op' = op /\ target' = target /\ chosen' = chosen
      /\ \A q \in Request : InFlight(q)' => q = r
      /\ \A q \in Request : InFlight(q) => q = r
    BY MarkIs DEF Alone, InFlight
<1>2. /\ target[r] \in Unmarked(store) /\ target[r] \in Config
      /\ d \in SameSeq(target[r]) \ {target[r]}
      /\ (Existing(store) \cap SameSeq(target[r])) \ Deleting(store)
            \subseteq todo[r] \cup {target[r]}
      /\ todo[r] \subseteq SameSeq(target[r]) \ {target[r]}
      /\ target[r] \in Master => Existing(store) \subseteq Master
    BY <1>1 DEF RequestInv, DeletesAlong, Unmarked, Activated, Existing
<1>3. store[d] \in Object /\ Marked(r, d) = [store[d] EXCEPT !.deleting = TRUE]
    BY ObjectsTyped DEF IInv, Marked
<1>4. /\ Existing(store)' = Existing(store)
      /\ Activated(store)' = Activated(store)
      /\ Deactivating(store)' = Deactivating(store)
      /\ Deleting(store)' = Deleting(store) \cup {d}
    <2>1. store[d] # Absent /\ Marked(r, d) # Absent
        BY <1>3, AbsentAssumption DEF Object
    <2>2. \A c \in Config : store'[c] # Absent <=> store[c] # Absent
        BY <2>1
    <2>3. Existing(store)' = Existing(store)
        BY <2>2 DEF Existing
    <2>4. ASSUME NEW c \in Existing(store)
          PROVE  /\ store'[c].activated <=> store[c].activated
                 /\ store'[c].deactivate <=> store[c].deactivate
                 /\ store'[c].deleting <=> store[c].deleting \/ c = d
        <3>1. CASE c = d
            <4>1. store'[c] = [store[d] EXCEPT !.deleting = TRUE]
                BY <1>3, <3>1
            <4> QED BY <1>3, <3>1, <4>1 DEF Object
        <3>2. CASE c # d
            BY <3>2 DEF Existing
        <3> QED BY <3>1, <3>2
    <2> QED BY <2>3, <2>4 DEF Activated, Deactivating, Deleting
<1>5. d \notin Unmarked(store)
    <2>1. SeqOf(d) = SeqOf(target[r]) /\ d # target[r]
        BY <1>2 DEF SameSeq
    <2> QED BY <1>2, <2>1 DEF ActiveIsChosen
<1>6. Unmarked(store)' = Unmarked(store)
    BY <1>4, <1>5 DEF Unmarked
<1>7. /\ \A seq \in PodSeq : ~Replaced(seq)
      /\ \A seq \in PodSeq : ~Replaced(seq)'
    BY <1>1 DEF Replaced, Activating, InFlight
<1>8. MarksOnActive' /\ ActiveIsChosen' /\ ChosenKept'
    BY <1>1, <1>4, <1>6, <1>7 DEF MarksOnActive, ActiveIsChosen, ChosenKept
<1>9. RestDeleted' /\ MasterChosen'
    BY <1>1, <1>4, <1>7, SeqTyped
       DEF RestDeleted, MasterChosen, PodSeq, Activated, Existing
<1>10. /\ CreatesAbsent(r)' /\ ActivatesIdle(r)' /\ MarksOne(r)'
    BY <1>1 DEF CreatesAbsent, ActivatesIdle, MarksOne
<1>11. DeletesAlong(r)'
    BY <1>1, <1>2, <1>4, <1>6 DEF DeletesAlong, SameSeq
<1> QED BY <1>1, <1>8, <1>9, <1>10, <1>11 DEF RequestInv

(* The version that gives way is the one that was chosen. *)
LEMMA MarkRival ==
    ASSUME IInv, ChosenInv, NEW r \in Request, NEW d \in Config, Mark(r, d),
           op[r] # "delete", d \in Existing(store) \ Deleting(store),
           \A c \in Config : store'[c] = IF c = d THEN Marked(r, d) ELSE store[c],
           \A q \in Request \cap (changed' \ changed) : target[q] = d,
           pc'[r] = IF todo[r] = {d} THEN "admitted" ELSE "marking"
    PROVE  StoreInv' /\ \A q \in Request : RequestInv(q)'
<1> USE DEF ChosenInv, OneActiveInv, StoreInv
<1>1. /\ pc[r] = "marking" /\ d \in todo[r] /\ InFlight(r)
      /\ op' = op /\ target' = target /\ chosen' = chosen
      /\ \A q \in Request : InFlight(q)' => q = r
      /\ \A q \in Request : InFlight(q) => q = r
      /\ target[r] \in Config
    BY MarkIs DEF Alone, InFlight, IInv, TypeOK
<1>2. /\ d \in SameSeq(target[r]) \ {target[r]} /\ todo[r] = {d}
      /\ d \in Activated(store) \ Deactivating(store)
      /\ op[r] \in {"createActive", "activate"}
    BY <1>1 DEF RequestInv, MarksOne, IInv, TypeOK, Op
<1>3. store[d] \in Object /\ Marked(r, d) = [store[d] EXCEPT !.deactivate = TRUE]
    BY ObjectsTyped DEF IInv, Marked
<1>4. /\ Existing(store)' = Existing(store)
      /\ Activated(store)' = Activated(store)
      /\ Deactivating(store)' = Deactivating(store) \cup {d}
      /\ Deleting(store)' = Deleting(store)
    <2>1. store[d] # Absent /\ Marked(r, d) # Absent
        <3>1. Marked(r, d) \in Object
            BY <1>3, ObjectsTyped DEF IInv
        <3> QED BY <1>3, <3>1, AbsentAssumption
    <2>2. \A c \in Config : store'[c] # Absent <=> store[c] # Absent
        BY <2>1
    <2>3. Existing(store)' = Existing(store)
        BY <2>2 DEF Existing
    <2>4. ASSUME NEW c \in Existing(store)
          PROVE  /\ store'[c].activated <=> store[c].activated
                 /\ store'[c].deleting <=> store[c].deleting
                 /\ store'[c].deactivate <=> store[c].deactivate \/ c = d
        <3>1. CASE c = d
            <4>1. store'[c] = [store[d] EXCEPT !.deactivate = TRUE]
                BY <1>3, <3>1
            <4> QED BY <1>3, <3>1, <4>1 DEF Object
        <3>2. CASE c # d
            BY <3>2 DEF Existing
        <3> QED BY <3>1, <3>2
    <2> QED BY <2>3, <2>4 DEF Activated, Deactivating, Deleting
<1>5. Unmarked(store)' = Unmarked(store) \ {d}
    BY <1>4 DEF Unmarked
<1>6. /\ SeqOf(d) = SeqOf(target[r])
      /\ pc'[r] = "admitted" /\ Activating(r)'
    BY <1>1, <1>2 DEF SameSeq, Activating, InFlight
<1>7. /\ \A seq \in PodSeq : ~Replaced(seq)
      /\ Replaced(SeqOf(d))'
    BY <1>1, <1>6 DEF Replaced, InFlight
<1>8. MarksOnActive' /\ ActiveIsChosen'
    BY <1>1, <1>2, <1>4, <1>5 DEF MarksOnActive, ActiveIsChosen
<1>9. ChosenKept'
    BY <1>1, <1>5, <1>7 DEF ChosenKept
<1>10. RestDeleted' /\ MasterChosen'
    BY <1>1, <1>4, <1>7, SeqTyped
       DEF RestDeleted, MasterChosen, PodSeq, Activated, Existing
<1>11. CreatesAbsent(r)' /\ ActivatesIdle(r)'
    <2>1. /\ store'[target[r]] = store[target[r]]
          /\ r \in changed' => r \in changed
        BY <1>1, <1>2
    <2>2. CreatesAbsent(r) /\ ActivatesIdle(r)
        BY <1>1 DEF RequestInv
    <2> QED BY <1>1, <2>1, <2>2
            DEF CreatesAbsent, ActivatesIdle, Activated, Deleting, Existing
<1>12. MarksOne(r)' /\ DeletesAlong(r)'
    BY <1>1, <1>6 DEF MarksOne, DeletesAlong
<1> QED BY <1>1, <1>8, <1>9, <1>10, <1>11, <1>12 DEF RequestInv

(* When a request is refused that has replaced nothing, all is as before. *)
LEMMA RefusedChosen ==
    ASSUME IInv, ChosenInv, store' = store, chosen' = chosen,
           \A q \in Request : ~InFlight(q)',
           \A seq \in PodSeq : ~Replaced(seq)
    PROVE  StoreInv' /\ \A q \in Request : RequestInv(q)'
<1>1. /\ Unmarked(store)' = Unmarked(store)
      /\ Activated(store)' = Activated(store)
      /\ Deactivating(store)' = Deactivating(store)
      /\ Deleting(store)' = Deleting(store)
      /\ Existing(store)' = Existing(store)
    BY DEF Unmarked, Activated, Deactivating, Deleting, Existing
<1>2. MarksOnActive' /\ ActiveIsChosen' /\ ChosenKept'
    BY <1>1 DEF ChosenInv, StoreInv, MarksOnActive, ActiveIsChosen, ChosenKept
<1>3. RestDeleted' /\ MasterChosen'
    BY <1>1, SeqTyped
       DEF ChosenInv, StoreInv, RestDeleted, MasterChosen, PodSeq, Activated,
           Existing
<1> QED BY <1>2, <1>3 DEF StoreInv, RequestInv

LEMMA MarkChosen ==
    ASSUME IInv, ChosenInv, NEW r \in Request, NEW d \in Config, Mark(r, d)
    PROVE  StoreInv' /\ \A q \in Request : RequestInv(q)'
<1>1. Alone
    BY DEF ChosenInv, OneActiveInv
<1>2. CASE store' = store /\ ~InFlight(r)'
    <2>1. /\ chosen' = chosen
          /\ \A q \in Request : ~InFlight(q)'
        BY <1>1, <1>2, MarkIs
    <2>2. \A seq \in PodSeq : ~Replaced(seq)
        BY <1>1, MarkIs, NotReplaced DEF Alone, InFlight
    <2> QED BY <1>2, <2>1, <2>2, RefusedChosen
<1>3. CASE /\ d \in Existing(store) \ Deleting(store)
           /\ \A c \in Config :
                 store'[c] = IF c = d THEN Marked(r, d) ELSE store[c]
           /\ \A q \in Request \cap (changed' \ changed) : target[q] = d
           /\ todo'[r] = todo[r] \ {d}
           /\ pc'[r] = IF todo[r] = {d} THEN "admitted" ELSE "marking"
    BY <1>3, MarkAlong, MarkRival
<1> QED BY <1>1, <1>2, <1>3, MarkIs

(* A version that has become active is the chosen one from then on. *)
LEMMA StoredActive ==
    ASSUME IInv, ChosenInv, NEW r \in Request, NEW c \in Config, Persist(r),
           target[r] = c, op[r] \in {"createActive", "activate"},
           pc[r] = "admitted", Choose(r),
           \A d \in Config \ {c} : store'[d] = store[d],
           store'[c] = New(TRUE)
    PROVE  StoreInv'
<1> USE DEF ChosenInv, OneActiveInv, StoreInv
<1>1. /\ InFlight(r) /\ Activating(r) /\ SeqOf(c) \in PodSeq
      /\ \A q \in Request : InFlight(q) => q = r
      /\ \A q \in Request : ~InFlight(q)'
    BY AnswerIs, SeqTyped DEF InFlight, Activating
<1>2. /\ chosen'[SeqOf(c)] = c
      /\ \A seq \in PodSeq : seq # SeqOf(c) => chosen'[seq] = chosen[seq]
    BY <1>1 DEF Choose, IInv, TypeOK
<1>3. \A seq \in PodSeq : seq # SeqOf(c) => ~Replaced(seq)
    BY <1>1 DEF Replaced, InFlight
<1>4. /\ store'[c] # Absent /\ store'[c].activated
      /\ ~store'[c].deactivate /\ ~store'[c].deleting
    <2>1. New(TRUE) \in Object
        BY DEF New, Object
    <2>2. New(TRUE) # Absent
        BY <2>1, AbsentAssumption
    <2> QED BY <2>2 DEF New
<1>5. /\ Existing(store)' = Existing(store) \cup {c}
      /\ Activated(store)' = Activated(store) \cup {c}
      /\ Deactivating(store)' = Deactivating(store) \ {c}
      /\ Deleting(store)' = Deleting(store) \ {c}
    <2>1. Existing(store)' = Existing(store) \cup {c}
        BY <1>4 DEF Existing
    <2>2. Activated(store)' = Activated(store) \cup {c}
        BY <1>4, <2>1 DEF Activated, Existing
    <2>3. Deactivating(store)' = Deactivating(store) \ {c}
        BY <1>4, <2>1 DEF Deactivating, Existing
    <2>4. Deleting(store)' = Deleting(store) \ {c}
        BY <1>4, <2>1 DEF Deleting, Existing
    <2> QED BY <2>1, <2>2, <2>3, <2>4
<1>6. Unmarked(store)' = Unmarked(store) \cup {c}
    BY <1>5 DEF Unmarked
<1>7. \A d \in Unmarked(store) : SeqOf(d) = SeqOf(c) => d = c
    <2>1. Rivals(r) = {}
        BY <1>1 DEF RivalsInTodo
    <2> QED BY <2>1 DEF Rivals, SameSeq, Unmarked, Activated, Existing
<1>8. MarksOnActive' /\ ActiveIsChosen'
    BY <1>2, <1>5, <1>6, <1>7, SeqTyped
       DEF MarksOnActive, ActiveIsChosen, Unmarked, Activated, Existing
<1>9. ChosenKept'
    BY <1>1, <1>2, <1>3, <1>6 DEF ChosenKept
<1>10. c # None
    BY ConstantsAssumption
<1>11. RestDeleted'
    BY <1>2, <1>3, <1>5, <1>10, SeqTyped DEF RestDeleted, Activated, Existing
<1>12. MasterChosen'
    <2>1. CASE c \in Master
        BY <1>2, <1>10, <2>1 DEF MasterChosen, SeqOf
    <2>2. CASE c \notin Master
        <3>1. chosen'["m"] = chosen["m"] /\ ~Replaced("m")
            BY <1>2, <1>3, <2>2 DEF SeqOf, PodSeq
        <3>2. op[r] = "createActive" => chosen["m"] # None
            BY <1>1, <2>2 DEF RequestInv, CreatesAbsent
        <3>3. op[r] = "activate" => c \in Existing(store) \ Deleting(store)
            BY <1>1 DEF RequestInv, ActivatesIdle
        <3> QED BY <1>5, <2>2, <3>1, <3>2, <3>3 DEF MasterChosen
    <2> QED BY <2>1, <2>2
<1> QED BY <1>8, <1>9, <1>11, <1>12

(* A version that is only created comes with a master. *)
LEMMA StoredIdle ==
    ASSUME IInv, ChosenInv, NEW r \in Request, NEW c \in Config, Persist(r),
           target[r] = c, op[r] = "create", pc[r] = "admitted", Choose(r),
           store[c] = Absent,
           \A d \in Config \ {c} : store'[d] = store[d],
           store'[c] = New(FALSE)
    PROVE  StoreInv'
<1> USE DEF ChosenInv, OneActiveInv, StoreInv
<1>1. /\ InFlight(r)
      /\ \A q \in Request : InFlight(q) => q = r
    BY AnswerIs DEF InFlight
<1>2. chosen' = chosen
    BY DEF Choose, IInv, TypeOK
<1>3. \A seq \in PodSeq : ~Replaced(seq)
    BY <1>1, NotReplaced
<1>4. /\ store'[c] # Absent /\ ~store'[c].activated
      /\ ~store'[c].deactivate /\ ~store'[c].deleting
    <2>1. New(FALSE) \in Object
        BY DEF New, Object
    <2>2. New(FALSE) # Absent
        BY <2>1, AbsentAssumption
    <2> QED BY <2>2 DEF New
<1>5. /\ Existing(store)' = Existing(store) \cup {c}
      /\ Activated(store)' = Activated(store)
      /\ Deactivating(store)' = Deactivating(store)
      /\ Deleting(store)' = Deleting(store)
    <2>1. Existing(store)' = Existing(store) \cup {c} /\ c \notin Existing(store)
        BY <1>4 DEF Existing
    <2>2. Activated(store)' = Activated(store)
        BY <1>4, <2>1 DEF Activated, Existing
    <2>3. Deactivating(store)' = Deactivating(store)
        BY <1>4, <2>1 DEF Deactivating, Existing
    <2>4. Deleting(store)' = Deleting(store)
        BY <1>4, <2>1 DEF Deleting, Existing
    <2> QED BY <2>1, <2>2, <2>3, <2>4
<1>6. MarksOnActive' /\ ActiveIsChosen' /\ ChosenKept'
    BY <1>2, <1>3, <1>5
       DEF MarksOnActive, ActiveIsChosen, ChosenKept, Unmarked
<1>7. RestDeleted'
    BY <1>2, <1>3, <1>5, SeqTyped DEF RestDeleted, Activated, Existing
<1>8. MasterChosen'
    <2>1. c \in Master \/ chosen["m"] # None
        BY <1>1 DEF RequestInv, CreatesAbsent
    <2> QED BY <1>2, <1>3, <1>5, <2>1 DEF MasterChosen, PodSeq
<1> QED BY <1>6, <1>7, <1>8

(* With the active version go those that it could be replaced by. *)
LEMMA StoredAbsent ==
    ASSUME IInv, ChosenInv, NEW r \in Request, NEW c \in Config, Persist(r),
           target[r] = c, op[r] = "delete", pc[r] = "admitted", Choose(r),
           \A d \in Config \ {c} : store'[d] = store[d],
           store'[c] = Absent
    PROVE  StoreInv'
<1> USE DEF ChosenInv, OneActiveInv, StoreInv
<1>1. /\ InFlight(r) /\ SeqOf(c) \in PodSeq
      /\ \A q \in Request : InFlight(q) => q = r
    BY AnswerIs, SeqTyped DEF InFlight
<1>2. /\ chosen'[SeqOf(c)] = IF chosen[SeqOf(c)] = c THEN None
                                                     ELSE chosen[SeqOf(c)]
      /\ \A seq \in PodSeq : seq # SeqOf(c) => chosen'[seq] = chosen[seq]
    BY <1>1 DEF Choose, IInv, TypeOK
<1>3. \A seq \in PodSeq : ~Replaced(seq)
    BY <1>1, NotReplaced
<1>4. /\ Existing(store)' = Existing(store) \ {c}
      /\ Activated(store)' = Activated(store) \ {c}
      /\ Deactivating(store)' = Deactivating(store) \ {c}
      /\ Deleting(store)' = Deleting(store) \ {c}
    BY DEF Existing, Activated, Deactivating, Deleting
<1>5. Unmarked(store)' = Unmarked(store) \ {c}
    BY <1>4 DEF Unmarked
<1>6. MarksOnActive'
    BY <1>4 DEF MarksOnActive
<1>7. ChosenKept'
    BY <1>1, <1>2, <1>3, <1>5, SeqTyped DEF ChosenKept
<1>8. CASE c \in Unmarked(store)
    <2>1. chosen[SeqOf(c)] = c
        BY <1>8 DEF ActiveIsChosen
    <2>2. /\ (Existing(store) \cap SameSeq(c)) \ Deleting(store) \subseteq {c}
          /\ c \in Master => Existing(store) \subseteq Master
        BY <1>1, <1>8 DEF RequestInv, DeletesAlong, RivalsInTodo
    <2>3. ActiveIsChosen'
        BY <1>2, <1>5, <2>1, SeqTyped
           DEF ActiveIsChosen, Unmarked, Activated, Existing
    <2>4. RestDeleted'
        BY <1>2, <1>3, <1>4, <2>2, SeqTyped
           DEF RestDeleted, SameSeq, Activated, Existing
    <2>5. MasterChosen'
        BY <1>2, <1>3, <1>4, <2>2 DEF MasterChosen, PodSeq, SeqOf
    <2> QED BY <1>6, <1>7, <2>3, <2>4, <2>5
<1>9. CASE c \notin Unmarked(store)
    <2>1. chosen[SeqOf(c)] # c
        BY <1>1, <1>3, <1>9, ConstantsAssumption DEF ChosenKept
    <2>2. \A seq \in PodSeq : chosen'[seq] = chosen[seq]
        BY <1>2, <2>1
    <2>3. ActiveIsChosen'
        BY <1>5, <2>2, SeqTyped DEF ActiveIsChosen, Unmarked, Activated, Existing
    <2>4. RestDeleted' /\ MasterChosen'
        BY <1>3, <1>4, <2>2, SeqTyped
           DEF RestDeleted, MasterChosen, PodSeq, Activated, Existing
    <2> QED BY <1>6, <1>7, <2>3, <2>4
<1> QED BY <1>8, <1>9

LEMMA PersistChosen ==
    ASSUME IInv, ChosenInv, NEW r \in Request, Persist(r)
    PROVE  StoreInv' /\ \A q \in Request : RequestInv(q)'
<1> USE DEF ChosenInv, OneActiveInv
<1> DEFINE c == target[r]
<1>1. /\ pc[r] = "admitted" /\ InFlight(r) /\ c \in Config
      /\ \A q \in Request : ~InFlight(q)'
      /\ \A q \in Request : InFlight(q) => q = r
    BY AnswerIs
<1>2. CreatesAbsent(r) /\ ActivatesIdle(r)
    BY <1>1 DEF RequestInv
<1>3. SUFFICES StoreInv'
    BY <1>1 DEF RequestInv
<1>4. CASE /\ store' = store /\ chosen' = chosen
           /\ \/ op[r] \in {"create", "createActive"} /\ store[c] # Absent
              \/ op[r] \in {"activate", "delete"} /\ r \in changed
    <2>1. op[r] \notin {"createActive", "activate"}
        BY <1>2, <1>4 DEF CreatesAbsent, ActivatesIdle
    <2>2. \A seq \in PodSeq : ~Replaced(seq)
        BY <1>1, <2>1, NotReplaced
    <2> QED BY <1>1, <1>4, <2>2, RefusedChosen
<1>5. CASE /\ Choose(r) /\ op[r] \in {"create", "createActive"}
           /\ store[c] = Absent
           /\ \A d \in Config : store'[d] =
                 IF d = c THEN New(op[r] = "createActive") ELSE store[d]
    <2>1. CASE op[r] = "create"
        <3>1. store'[c] = New(FALSE)
            BY <1>1, <1>5, <2>1
        <3> QED BY <1>1, <1>5, <2>1, <3>1, StoredIdle
    <2>2. CASE op[r] = "createActive"
        <3>1. store'[c] = New(TRUE)
            BY <1>1, <1>5, <2>2
        <3> QED BY <1>1, <1>5, <2>2, <3>1, StoredActive
    <2> QED BY <1>5, <2>1, <2>2
<1>6. CASE /\ Choose(r) /\ op[r] = "activate"
           /\ c \in Existing(store) \ (Activated(store) \cup Deleting(store))
           /\ \A d \in Config : store'[d] =
                 IF d = c THEN [store[d] EXCEPT !.activated = TRUE] ELSE store[d]
    <2>1. c \notin Deactivating(store)
        BY <1>6 DEF StoreInv, MarksOnActive
    <2>2. store[c] \in Object /\ ~store[c].deactivate /\ ~store[c].deleting
        BY <1>6, <2>1, ObjectsTyped DEF IInv, Deactivating, Deleting
    <2>3. store'[c] = New(TRUE)
        BY <1>1, <1>6, <2>2 DEF New, Object
    <2> QED BY <1>1, <1>6, <2>3, StoredActive
<1>7. CASE /\ Choose(r) /\ op[r] = "delete"
           /\ \A d \in Config : store'[d] = IF d = c THEN Absent ELSE store[d]
    BY <1>1, <1>7, StoredAbsent
<1> QED BY <1>1, <1>4, <1>5, <1>6, <1>7, PersistIs

-----------------------------------------------------------------------------
(* The theorems about the chosen version. *)

LEMMA ChosenStep ==
    ASSUME InTurn, Kept, IInv, ChosenInv, [Next]_vars
    PROVE  ChosenInv'
<1>1. OneActiveInv'
    BY OneActiveStep DEF ChosenInv
<1>2. CASE Controlled
    BY <1>1, <1>2, ControlledChosen DEF ChosenInv
<1>3. ASSUME NEW r \in Request, NEW c \in Config,
             SendCreate(r, c) \/ SendActivate(r, c) \/ SendDelete(r, c)
      PROVE  ChosenInv'
    BY <1>1, <1>3, SendChosen DEF ChosenInv
<1>4. ASSUME NEW r \in Request, NEW c \in Config, Mark(r, c)
      PROVE  ChosenInv'
    BY <1>1, <1>4, MarkChosen DEF ChosenInv
<1>5. ASSUME NEW r \in Request, Persist(r)
      PROVE  ChosenInv'
    BY <1>1, <1>5, PersistChosen DEF ChosenInv
<1>6. \A r \in Request : ~Abort(r)
    BY DEF Kept, Abort, Fault
<1> QED BY <1>2, <1>3, <1>4, <1>5, <1>6, ControllerSteps DEF Next

LEMMA ChosenInit == Init => ChosenInv
<1> SUFFICES ASSUME Init PROVE ChosenInv
    OBVIOUS
<1>1. /\ \A r \in Request : pc[r] = "idle"
      /\ \A r \in Request : ~InFlight(r)
      /\ Orderly(store)
      /\ chosen = [seq \in PodSeq |-> ActiveFor(seq)]
    BY DEF Init, InFlight
<1>2. OneActiveInv
    BY <1>1 DEF OneActiveInv, Alone, RivalsInTodo, Activating, InFlight, Orderly,
                OneActive, Unmarked
<1>3. Deactivating(store) = {} /\ Deleting(store) = {}
    BY DEF Init, New, Deactivating, Deleting, Existing
<1>4. Unmarked(store) = Activated(store)
    BY <1>3 DEF Unmarked
<1>5. \A seq \in PodSeq : ~Replaced(seq)
    BY <1>1 DEF Replaced
<1>6. ASSUME NEW seq \in PodSeq
      PROVE  /\ \A c \in Activated(store) : SeqOf(c) = seq => chosen[seq] = c
             /\ chosen[seq] # None =>
                   chosen[seq] \in Activated(store) /\ SeqOf(chosen[seq]) = seq
    <2> DEFINE active == {c \in Activated(store) : SeqOf(c) = seq}
    <2>1. chosen[seq] = IF active = {} THEN None ELSE CHOOSE c \in active : TRUE
        BY <1>1 DEF ActiveFor
    <2>2. \A c, d \in active : c = d
        BY <1>1 DEF Orderly
    <2>3. /\ \A c \in active : chosen[seq] = c
          /\ chosen[seq] # None => chosen[seq] \in active
        <3> HIDE DEF active
        <3>1. CASE active = {}
            BY <2>1, <3>1
        <3>2. CASE active # {}
            <4>1. (CHOOSE c \in active : TRUE) \in active
                BY <3>2
            <4> QED BY <2>1, <2>2, <3>2, <4>1
        <3> QED BY <3>1, <3>2
    <2> QED BY <2>3
<1>7. MarksOnActive /\ ActiveIsChosen /\ ChosenKept
    BY <1>3, <1>4, <1>6, SeqTyped
       DEF MarksOnActive, ActiveIsChosen, ChosenKept, Activated, Existing
<1>8. RestDeleted
    BY <1>6, SeqTyped, ConstantsAssumption DEF RestDeleted, Activated, Existing
<1>9. MasterChosen
    <2>1. ASSUME NEW c \in Activated(store) \cap Master
          PROVE  chosen["m"] # None
        <3>1. SeqOf(c) = "m" /\ c \in Config
            BY DEF SeqOf, Activated, Existing
        <3> QED BY <1>6, <3>1, ConstantsAssumption DEF PodSeq
    <2> QED BY <1>1, <2>1 DEF Orderly, MasterChosen
<1> QED BY <1>1, <1>2, <1>7, <1>8, <1>9 DEF ChosenInv, StoreInv, RequestInv

LEMMA ChosenInvariance == ASSUME InTurn, Kept PROVE Spec => []ChosenInv
<1>1. IInv /\ ChosenInv /\ [Next]_vars => ChosenInv'
    BY ChosenStep
<1> QED BY <1>1, ChosenInit, Invariance, PTL DEF Spec

(* Between requests nothing is being replaced. *)
LEMMA SettledIs == Settled => \A seq \in PodSeq : ~Replaced(seq)
BY DEF Settled, Replaced, Activating

(* If requests come one after the other and what is accepted is stored, the  *)
(* version the users have activated last is active between requests: no      *)
(* request that was refused half-way has marked it, and no late patch of the *)
(* controller has deactivated it.                                            *)
THEOREM ChosenStaysActive == ASSUME InTurn, Kept PROVE Spec => []ChosenIsActive
<1>1. ChosenInv => ChosenIsActive
    BY SettledIs DEF ChosenInv, StoreInv, ChosenKept, ChosenIsActive
<1> QED BY <1>1, ChosenInvariance, PTL

(* Under the same conditions a node version has a master between requests. *)
THEOREM NodesHaveMaster == ASSUME InTurn, Kept PROVE Spec => []NodeHasMaster
<1>1. ChosenInv => NodeHasMaster
    <2> SUFFICES ASSUME ChosenInv, Settled,
                        ~(Existing(store) \ Deleting(store) \subseteq Master)
                 PROVE  Unmarked(store) \cap Master # {}
        BY DEF NodeHasMaster
    <2>1. "m" \in PodSeq /\ ~Replaced("m")
        BY SettledIs DEF PodSeq
    <2>2. chosen["m"] # None
        BY <2>1 DEF ChosenInv, StoreInv, MasterChosen
    <2>3. chosen["m"] \in Unmarked(store) /\ SeqOf(chosen["m"]) = "m"
        BY <2>1, <2>2 DEF ChosenInv, StoreInv, ChosenKept
    <2> QED BY <2>3 DEF SeqOf
<1> QED BY <1>1, ChosenInvariance, PTL
=============================================================================
