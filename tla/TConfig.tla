------------------------------- MODULE TConfig -------------------------------
(***************************************************************************)
(* The versions of one business configuration: the TConfig objects of one  *)
(* app, server and configName.  A master version (podSeq = m) serves every *)
(* pod, a node version one pod besides.  Users create, activate and delete *)
(* versions; the validating webhook of tarswebhook, before it lets such a  *)
(* request pass, marks the versions that have to give way; the controller  *)
(* later deactivates or deletes what is marked; tarsconfig serves what is  *)
(* active.  Only the marks connect the three.                              *)
(***************************************************************************)
EXTENDS Naturals, FiniteSets, Sequences

CONSTANTS
    Config,     \* the names of the versions: numbers, for their order
    Master,     \* those with podSeq = m; the others share another podSeq
    Request,    \* requests of users
    Absent,     \* no object
    None,       \* no version
    MaxHistory, \* recordLimit.tconfigHistory
    Faults,     \* what may go wrong, a subset of FaultKinds
    MaxFaults   \* bound on the faults of one behaviour

(***************************************************************************)
(* concurrent  a request is sent before the previous one has been answered *)
(* staleCache  the webhook's cache lags behind the API server              *)
(* aborted     a request the webhook accepted is refused after all: a name *)
(*             already taken, a dry run, another webhook                   *)
(* apiError    a request of the webhook or the controller fails            *)
(* restart     the controller process restarts                             *)
(***************************************************************************)
FaultKinds == {"concurrent", "staleCache", "aborted", "apiError", "restart"}

ASSUME ConstantsAssumption ==
    /\ Config \subseteq Nat
    /\ IsFiniteSet(Config)
    /\ Master \subseteq Config
    /\ None \notin Config
    /\ MaxHistory \in Nat
    /\ Faults \subseteq FaultKinds
    /\ MaxFaults \in Nat

Object == [activated : BOOLEAN, deactivate : BOOLEAN, deleting : BOOLEAN]

ASSUME AbsentAssumption == Absent \notin Object

VARIABLES
    store,      \* the objects in the API server
    pc,         \* where each request is
    op,         \* what it asks for
    target,     \* the version it is about
    todo,       \* versions the webhook has yet to mark for it
    changed,    \* requests whose target was written since their admission
    cache,      \* the webhook's informer cache
    known,      \* the controller's informer cache
    watched,    \* the later states of the objects, still on their way to it
    adds,       \* podSeqs in the controller's addQueue
    modifies,   \* whether the namespace is in its modifyQueue
    deletes,    \* whether the namespace is in its deleteQueue
    work,       \* versions reconcileModified has yet to patch
    chosen,     \* history: the version last activated for each podSeq
    faults      \* faults so far

requestVars == <<pc, op, target, todo>>
queueVars == <<adds, modifies, deletes>>
controllerVars == <<known, watched, queueVars, work>>
storeVars == <<store, watched, changed>>
vars == <<store, requestVars, changed, cache, controllerVars, chosen, faults>>

PodSeq == {"m", "0"}
SeqOf(c) == IF c \in Master THEN "m" ELSE "0"
SameSeq(c) == {d \in Config : SeqOf(d) = SeqOf(c)}

Op == {"create", "createActive", "activate", "delete"}

(* Label selectors, on a state of the objects. *)
Existing(objects) == {c \in Config : objects[c] # Absent}
Activated(objects) == {c \in Existing(objects) : objects[c].activated}
Deactivating(objects) == {c \in Existing(objects) : objects[c].deactivate}
Deleting(objects) == {c \in Existing(objects) : objects[c].deleting}
Unmarked(objects) ==
    Activated(objects) \ (Deactivating(objects) \cup Deleting(objects))

Fault(kind) ==
    /\ kind \in Faults
    /\ faults < MaxFaults
    /\ faults' = faults + 1

(* The objects become these.  A change is sent to the watching informer, and
   makes the admission of the other requests about the object obsolete. *)
Write(objects) ==
    /\ store' = objects
    /\ watched' = IF objects = store THEN watched ELSE Append(watched, objects)
    /\ changed' = changed \cup
          {r \in Request : \E c \in Config : target[r] = c /\ objects[c] # store[c]}

WriteObject(c, object) == Write([store EXCEPT ![c] = object])

-----------------------------------------------------------------------------
(* The validating webhook.                                                  *)

InFlight(r) == pc[r] \in {"marking", "admitted"}

(* What the webhook's listers list. *)
Seen == IF "staleCache" \in Faults THEN cache ELSE store

(* A request is sent, and the webhook decides at once by what it sees. *)
MaySend(r) ==
    /\ pc[r] = "idle"
    /\ "concurrent" \in Faults \/ \A q \in Request : ~InFlight(q)

(* The webhook's verdict: refused, or accepted once the versions in marks
   have been marked. *)
Verdict(r, kind, c, accepted, marks) ==
    /\ op' = [op EXCEPT ![r] = kind]
    /\ target' = [target EXCEPT ![r] = c]
    /\ todo' = [todo EXCEPT ![r] = IF accepted THEN marks ELSE {}]
    /\ pc' = [pc EXCEPT ![r] = CASE ~accepted -> "refused"
                                 [] accepted /\ marks # {} -> "marking"
                                 [] OTHER -> "admitted"]
    /\ changed' = changed \ {r}
    /\ UNCHANGED <<store, cache, controllerVars, chosen, faults>>

(* Mutant: the selector leaves out the podSeq of the version itself. *)
GivesWayMutant(c) == Activated(Seen) \ SameSeq(c)

(* prepareActiveTConfig: the version that is to give way to c. *)
GivesWay(c) == (Activated(Seen) \cap SameSeq(c)) \ {c}
CanActivate(c) == Cardinality(GivesWay(c)) <= 1

HasMaster(c) == c \in Master \/ Unmarked(Seen) \cap Master # {}

(* A name that is taken is found out only when the object is stored. *)
SendCreate(r, c) ==
    /\ MaySend(r)
    /\ store[c] = Absent \/ "aborted" \in Faults
    /\ \/ Verdict(r, "create", c, HasMaster(c), {})
       \/ Verdict(r, "createActive", c, HasMaster(c) /\ CanActivate(c),
                  GivesWay(c))

SendActivate(r, c) ==
    /\ MaySend(r)
    /\ c \in Existing(store) \ Activated(store)
    /\ Verdict(r, "activate", c, c \notin Deleting(store) /\ CanActivate(c),
               GivesWay(c))

(* prepareDeleteTConfig: what is deleted together with c, and whether it may. *)
GoesAlong(c) == (Existing(Seen) \cap SameSeq(c)) \ {c}

(* Mutant: the references of a master version are not looked up. *)
IsReferencedMutant(c) == FALSE
IsReferenced(c) == c \in Master /\ ~(Existing(Seen) \subseteq Master)

SendDelete(r, c) ==
    /\ MaySend(r)
    /\ store[c] # Absent
    /\ \/ /\ c \in Unmarked(store)
          /\ Verdict(r, "delete", c, ~IsReferenced(c), GoesAlong(c))
       \/ /\ c \notin Unmarked(store)
          /\ Verdict(r, "delete", c, TRUE, {})

Marked(r, d) ==
    IF op[r] = "delete" THEN [store[d] EXCEPT !.deleting = TRUE]
                        ELSE [store[d] EXCEPT !.deactivate = TRUE]

(* The webhook patches one of the versions; the first patch that fails makes
   it refuse the request.  Its own patches pass validUpdateTConfig. *)
Mark(r, d) ==
    /\ pc[r] = "marking"
    /\ d \in todo[r]
    /\ \/ /\ d \in Existing(store) \ Deleting(store)
          /\ WriteObject(d, Marked(r, d))
          /\ todo' = [todo EXCEPT ![r] = @ \ {d}]
          /\ pc' = [pc EXCEPT ![r] = IF todo[r] = {d} THEN "admitted" ELSE @]
          /\ UNCHANGED faults
       \/ /\ \/ /\ d \notin Existing(store) \ Deleting(store)
                /\ UNCHANGED faults
             \/ Fault("apiError")
          /\ pc' = [pc EXCEPT ![r] = "refused"]
          /\ todo' = [todo EXCEPT ![r] = {}]
          /\ UNCHANGED storeVars
    /\ UNCHANGED <<op, target, cache, known, queueVars, work, chosen>>

-----------------------------------------------------------------------------
(* The API server, after admission.                                         *)

(* Mutant: the labels of a new object are not all set. *)
NewMutant(active) == [activated |-> active, deactivate |-> FALSE]
New(active) == [activated |-> active, deactivate |-> FALSE, deleting |-> FALSE]

Choose(r) ==
    chosen' = [chosen EXCEPT ![SeqOf(target[r])] =
                  CASE op[r] \in {"createActive", "activate"} -> target[r]
                    [] op[r] = "delete" /\ @ = target[r] -> None
                    [] OTHER -> @]

Answer(r, answer) == pc' = [pc EXCEPT ![r] = answer]

Create(r) ==
    /\ op[r] \in {"create", "createActive"}
    /\ \/ /\ store[target[r]] = Absent
          /\ WriteObject(target[r], New(op[r] = "createActive"))
          /\ Answer(r, "done")
          /\ Choose(r)
       \/ /\ store[target[r]] # Absent
          /\ Answer(r, "refused")
          /\ UNCHANGED <<storeVars, chosen>>

(* Mutant: an object is written even if it has changed since the webhook saw it. *)
ModifyMutant(r) ==
    /\ op[r] = "activate"
    /\ store[target[r]] # Absent
    /\ WriteObject(target[r], [store[target[r]] EXCEPT !.activated = TRUE])
    /\ Answer(r, "done")
    /\ Choose(r)

(* An object that has changed since the webhook saw it is not written. *)
Modify(r) ==
    /\ op[r] \in {"activate", "delete"}
    /\ r \notin changed
    /\ WriteObject(target[r], IF op[r] = "delete" THEN Absent
                        ELSE [store[target[r]] EXCEPT !.activated = TRUE])
    /\ Answer(r, "done")
    /\ Choose(r)

(* Its request is refused; whoever sends it again sends another one. *)
Conflict(r) ==
    /\ op[r] \in {"activate", "delete"}
    /\ r \in changed
    /\ Answer(r, "refused")
    /\ UNCHANGED <<storeVars, chosen>>

Persist(r) ==
    /\ pc[r] = "admitted"
    /\ Create(r) \/ Modify(r) \/ Conflict(r)
    /\ UNCHANGED <<op, target, todo, cache, known, queueVars, work, faults>>

Abort(r) ==
    /\ pc[r] = "admitted"
    /\ Fault("aborted")
    /\ Answer(r, "refused")
    /\ UNCHANGED <<store, op, target, todo, changed, cache, controllerVars,
                   chosen>>

WebhookSync ==
    /\ "staleCache" \in Faults
    /\ cache # store
    /\ cache' = store
    /\ UNCHANGED <<store, requestVars, changed, controllerVars, chosen, faults>>

-----------------------------------------------------------------------------
(* The tconfig controller.                                                  *)

Latest == Head(watched)
Appeared == Existing(Latest) \ Existing(known)
Vanished == Existing(known) \ Existing(Latest)
Differs == {c \in Existing(Latest) \cap Existing(known) : Latest[c] # known[c]}

(* The next change reaches the informer, and its event fills the queues. *)
InformerSync ==
    /\ watched # <<>>
    /\ known' = Latest
    /\ watched' = Tail(watched)
    /\ adds' = adds \cup {SeqOf(c) : c \in Appeared}
    /\ modifies' = (modifies \/ Appeared \cup Differs # {})
    /\ deletes' = (deletes \/ Differs \cup Vanished # {})
    /\ UNCHANGED <<store, requestVars, changed, cache, work, chosen, faults>>

History(objects, seq) ==
    {c \in Existing(objects) : SeqOf(c) = seq}
        \ (Activated(objects) \cup Deleting(objects))

(* Past the limit it asks for the deletion of the object without a name, which
   the client library refuses, and retries. *)
ReconcileAdded(seq) ==
    /\ seq \in adds
    /\ Cardinality(History(known, seq)) <= MaxHistory
    /\ adds' = adds \ {seq}
    /\ UNCHANGED <<storeVars, requestVars, cache, known, modifies, deletes, work,
                   chosen, faults>>

ReconcileModified ==
    /\ modifies
    /\ work = {}
    /\ work' = Deactivating(known)
    /\ modifies' = FALSE
    /\ UNCHANGED <<storeVars, requestVars, cache, known, adds, deletes, chosen,
                   faults>>

(* Mutant: the patch does not remove the mark it acts upon. *)
MarkIsThereMutant(c) == c \in Existing(store)

(* Whether the patch that deactivates c, and removes the mark, applies. *)
MarkIsThere(c) == c \in Deactivating(store)

(* Mutant: one that fails is given up. *)
PatchInactiveMutant(c) ==
    /\ c \in work
    /\ work' = work \ {c}
    /\ \/ /\ MarkIsThere(c)
          /\ WriteObject(c, [store[c] EXCEPT !.deactivate = FALSE,
                                       !.activated = FALSE])
          /\ UNCHANGED faults
       \/ /\ \/ ~MarkIsThere(c) /\ UNCHANGED faults
             \/ Fault("apiError")
          /\ UNCHANGED storeVars
    /\ UNCHANGED <<requestVars, cache, known, queueVars, chosen>>

(* One patch of reconcileModified; one that fails makes it retry. *)
PatchInactive(c) ==
    /\ c \in work
    /\ work' = work \ {c}
    /\ \/ /\ MarkIsThere(c)
          /\ WriteObject(c, [store[c] EXCEPT !.deactivate = FALSE,
                                       !.activated = FALSE])
          /\ UNCHANGED <<modifies, faults>>
       \/ /\ \/ ~MarkIsThere(c) /\ UNCHANGED faults
             \/ Fault("apiError")
          /\ modifies' = TRUE
          /\ UNCHANGED storeVars
    /\ UNCHANGED <<requestVars, cache, known, adds, deletes, chosen>>

(* DeleteCollection selects on the API server, not in the cache. *)
ReconcileDeleted ==
    /\ deletes
    /\ \/ /\ Write([c \in Config |->
                      IF c \in Deleting(store) THEN Absent ELSE store[c]])
          /\ deletes' = FALSE
          /\ UNCHANGED faults
       \/ /\ Fault("apiError")
          /\ UNCHANGED <<storeVars, deletes>>
    /\ UNCHANGED <<requestVars, cache, known, adds, modifies, work, chosen>>

(* The queues are in memory; the new process lists the objects. *)
ControllerRestart ==
    /\ Fault("restart")
    /\ known' = store
    /\ watched' = <<>>
    /\ adds' = {SeqOf(c) : c \in Existing(store)}
    /\ modifies' = (Existing(store) # {})
    /\ deletes' = FALSE
    /\ work' = {}
    /\ UNCHANGED <<store, requestVars, changed, cache, chosen>>

-----------------------------------------------------------------------------
(* tarsconfig.                                                              *)

(* listConfig and loadConfig select the active versions that are not being
   deleted; the last of the list, which is in the order of the names, wins:
   the label in which loadConfig looks for the mark does not exist.  Without
   a master version nothing is loaded. *)
Served(seq) == {c \in Activated(store) \ Deleting(store) : SeqOf(c) = seq}

Loaded(seq) ==
    IF Served("m") = {} \/ Served(seq) = {} THEN None
    ELSE CHOOSE c \in Served(seq) : \A d \in Served(seq) : d <= c

-----------------------------------------------------------------------------
(* Versions as users leave them behind: for each podSeq one active version at
   most, and a master for the others. *)
Orderly(objects) ==
    /\ \A c, d \in Activated(objects) : SeqOf(c) = SeqOf(d) => c = d
    /\ Existing(objects) \subseteq Master \/ Activated(objects) \cap Master # {}

ActiveFor(seq) ==
    LET active == {c \in Activated(store) : SeqOf(c) = seq}
    IN IF active = {} THEN None ELSE CHOOSE c \in active : TRUE

Init ==
    /\ store \in {objects \in [Config -> {Absent, New(FALSE), New(TRUE)}] :
                     Orderly(objects)}
    /\ pc = [r \in Request |-> "idle"]
    /\ op = [r \in Request |-> "create"]
    /\ target = [r \in Request |-> None]
    /\ todo = [r \in Request |-> {}]
    /\ changed = {}
    /\ cache = store
    /\ known = store
    /\ watched = <<>>
    /\ adds = {}
    /\ modifies = FALSE
    /\ deletes = FALSE
    /\ work = {}
    /\ chosen = [seq \in PodSeq |-> ActiveFor(seq)]
    /\ faults = 0

Next ==
    \/ \E r \in Request :
          \/ \E c \in Config : \/ SendCreate(r, c) \/ SendActivate(r, c)
                               \/ SendDelete(r, c) \/ Mark(r, c)
          \/ Persist(r) \/ Abort(r)
    \/ WebhookSync \/ InformerSync
    \/ \E seq \in PodSeq : ReconcileAdded(seq)
    \/ ReconcileModified \/ \E c \in Config : PatchInactive(c)
    \/ ReconcileDeleted \/ ControllerRestart

Spec == Init /\ [][Next]_vars

(* The API server answers every request, and the informer and the workers of
   the modifyQueue and the deleteQueue keep running. *)
Fairness ==
    /\ \A r \in Request : WF_vars(Persist(r) \/ \E c \in Config : Mark(r, c))
    /\ WF_vars(InformerSync)
    /\ WF_vars(ReconcileModified \/ \E c \in Config : PatchInactive(c))
    /\ WF_vars(ReconcileDeleted)

FairSpec == Spec /\ Fairness

-----------------------------------------------------------------------------
(* Properties.                                                              *)

(* The values every variable may take. *)
TypeOK ==
    /\ store \in [Config -> Object \cup {Absent}]
    /\ pc \in [Request -> {"idle", "marking", "admitted", "done", "refused"}]
    /\ op \in [Request -> Op]
    /\ target \in [Request -> Config \cup {None}]
    /\ \A r \in Request : InFlight(r) => target[r] \in Config
    /\ todo \in [Request -> SUBSET Config]
    /\ changed \subseteq Request
    /\ cache \in [Config -> Object \cup {Absent}]
    /\ known \in [Config -> Object \cup {Absent}]
    /\ watched \in Seq([Config -> Object \cup {Absent}])
    /\ adds \subseteq PodSeq
    /\ modifies \in BOOLEAN
    /\ deletes \in BOOLEAN
    /\ work \subseteq Config
    /\ chosen \in [PodSeq -> Config \cup {None}]
    /\ faults \in 0 .. MaxFaults

(* A mark counts once: what makes a version inactive is a mark that is still
   on it, never one the controller's cache remembers from before the version
   was deactivated and activated again. *)
MarkCountsOnce ==
    [][\A c \in Config :
          /\ c \in Activated(store)
          /\ store'[c] # Absent
          /\ ~store'[c].activated
          => c \in Deactivating(store)]_vars

(* A version marked for deletion is not brought back: no request admitted
   before the mark activates it after the mark. *)
DeletingIsFinal ==
    [][\A c \in Deleting(store) :
          \/ store'[c] = Absent
          \/ /\ store'[c].deleting
             /\ store'[c].activated => store[c].activated]_vars

(* Of the versions for one podSeq, all but one give way. *)
OneActive ==
    \A c, d \in Unmarked(store) : SeqOf(c) = SeqOf(d) => c = d

Settled == \A r \in Request : ~InFlight(r)

(* Between requests, the version the users have activated last is active: no
   refused request has marked it, and no late mark has deactivated it. *)
ChosenIsActive ==
    Settled => \A seq \in PodSeq :
                  chosen[seq] # None => chosen[seq] \in Unmarked(store)

(* Between requests, a node version has a master version to belong to. *)
NodeHasMaster ==
    Settled /\ ~(Existing(store) \ Deleting(store) \subseteq Master)
        => Unmarked(store) \cap Master # {}

(* The controller gets round to every mark: what is marked is deactivated or
   deleted in the end. *)
MarksAreActedOn ==
    \A c \in Config :
        LET marked == c \in Deactivating(store) \cup Deleting(store)
        IN marked ~> ~marked

(* In the end tarsconfig serves the version the users have activated last. *)
ServesChosenAtLast ==
    <>[](\A seq \in PodSeq : chosen[seq] # None => Loaded(seq) = chosen[seq])
=============================================================================
