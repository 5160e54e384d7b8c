------------------------------- MODULE Pods -------------------------------
(***************************************************************************)
(* What tarscontroller tells of the pods of one server: the TEndpoint and  *)
(* the status of the TServer follow the pods there are, the TExitedRecord  *)
(* remembers those that have gone. The three reconcilers write nothing     *)
(* that another one reads, so one behaviour follows one of them: "kind" is *)
(* chosen at the start.                                                    *)
(*                                                                         *)
(* "object" is the object the reconciler writes: for kind "TServer" the    *)
(* TServer itself, as far as its status is concerned. A worker reads the   *)
(* informer caches ("seen", "known", "cached") and makes its call to the   *)
(* API server some time later; a call that ends without an answer may      *)
(* still be carried out, and is kept in "late".                            *)
(***************************************************************************)
EXTENDS Integers, Sequences, SequencesExt, FiniteSetsExt

CONSTANTS
    Kinds,          \* subset of {"TEndpoint", "TExitedRecord", "TServer"}
    Pods,           \* the pods of the server
    PodsOf,         \* [Kinds -> SUBSET Pods], bound: the pods there may be
    SpecsOf,        \* [Kinds -> sets of specs]: the TServer specs users write
    None,
    Limit,          \* recordLimit.tExitedPod
    CheckLen,       \* DefaultMaxCheckLen
    EditsOf,        \* [Kinds -> Nat], bound: writes of the TServer
    Faults,         \* kinds of fault that may happen
    MaxFaults       \* bound: faults of one behaviour

ASSUME KindAssumption ==
    /\ Kinds \subseteq {"TEndpoint", "TExitedRecord", "TServer"}
    /\ PodsOf \in [Kinds -> SUBSET Pods]
ASSUME LimitAssumption == Limit \in Nat /\ CheckLen \in Nat
ASSUME BoundAssumption == EditsOf \in [Kinds -> Nat] /\ MaxFaults \in Nat

VARIABLES
    kind,       \* whose reconciler this is; never changes
    tserver,    \* the TServer in the API server, or None
    seen,       \* the controller's copy of it
    object,     \* the object in the API server, or None
    known,      \* the controller's copy of it
    fresh,      \* which copies of the object have its resourceVersion
    pods,       \* the state of every pod
    cached,     \* the controller's copy of it
    queue,      \* the keys in the work queue
    work,       \* the worker: its key, what it has read, and how far it is
    late,       \* a call that ended without an answer
    edits,      \* writes of the TServer so far
    faults      \* how many faults have happened, and which of the Noted ones

vars == <<kind, tserver, seen, object, known, fresh, pods, cached, queue, work, late,
          edits, faults>>

userVars == <<kind, tserver, edits>>

Server == "server"                      \* the key of the server; a pod is its own key
Keys == Pods \cup {Server}

Copies == {"known", "work", "late"}     \* the copies of the object

Idle == [pc |-> "idle", key |-> None, tserver |-> None, object |-> None, status |-> None]

Init ==
    /\ kind \in Kinds
    /\ tserver = None /\ seen = None
    /\ object = None /\ known = None
    /\ fresh = {"known"}
    /\ pods = [p \in Pods |-> "none"] /\ cached = pods
    /\ queue = {}
    /\ work = Idle /\ late = Idle
    /\ edits = 0
    /\ faults = [count |-> 0, noted |-> {}]

(* What keeps the object from following the pods: that a deletion came as  *)
(* a tombstone or while no controller ran ("unheard"), that the TServer    *)
(* was not known yet ("early") or a status of it landed late ("late"), all *)
(* three until the key is taken again; that a record was deleted, and each *)
(* pod whose exit was not heard or came before the record was known.       *)
Note(what) == faults' = [faults EXCEPT !.noted = @ \cup what]

Fault(what) ==
    /\ what \in Faults
    /\ faults.count < MaxFaults
    /\ faults' = [faults EXCEPT !.count = @ + 1]

---------------------------------------------------------------------------
(* Pods *)

Present(ps) == {p \in Pods : ps[p] \notin {"none", "gone"}}

Ready(s) == s \in {"ready", "leaving"}          \* the condition Ready
Terminating(s) == s \in {"leaving", "going"}    \* a DeletionTimestamp
Over(s) == Terminating(s) \/ s = "gone"

(* buildPodStatus *)
PodStatus(s) ==
    IF Terminating(s) THEN "Terminating" ELSE IF Ready(s) THEN "Active" ELSE "Waiting"

(* The status as kind has it: a state for every pod, or two numbers. *)
Status(ps) ==
    IF kind = "TServer"
      THEN [current |-> Cardinality(Present(ps)),
            ready |-> Cardinality({p \in Present(ps) : Ready(ps[p])})]
      ELSE [p \in Present(ps) |-> PodStatus(ps[p])]

---------------------------------------------------------------------------
(* The verdict of reconcile upon what a worker has read *)

Wanted(t) == t # None /\ ~t.going

(* buildTEndpoint, buildTExitedRecord; a TServer begins without a status. *)
Build(t) ==
    IF kind = "TExitedRecord"
      THEN [owner |-> t.uid, pods |-> <<>>]
      ELSE [owner |-> t.uid, spec |-> t.spec, status |-> None]

(* equalTServerAndTEndpoint: servants and ports by their names, not by     *)
(* their numbers, which syncTEndpoint takes over all the same.             *)
Equal(t, o) == o.spec.names = t.spec.names

Sync(t, o) == [o EXCEPT !.owner = t.uid, !.spec = t.spec]

Unwanted(c) == kind # "TServer" /\ c.key = Server /\ ~Wanted(c.tserver)

Missing(c) == kind # "TServer" /\ c.key = Server /\ Wanted(c.tserver) /\ c.object = None

Found(c) == kind # "TServer" /\ c.key = Server /\ Wanted(c.tserver) /\ c.object # None

Foreign(c) == kind = "TEndpoint" /\ Found(c) /\ c.object.owner # c.tserver.uid

Outdated(c) ==
    /\ kind = "TEndpoint" /\ Found(c) /\ ~Foreign(c)
    /\ c.pc = "call" /\ ~Equal(c.tserver, c.object)

Reports(c) ==
    \/ kind = "TEndpoint" /\ Found(c) /\ ~Foreign(c) /\ ~Outdated(c)
    \/ kind = "TServer" /\ c.object # None

(* The first entries are searched for the pod. *)
Recorded(c) ==
    c.key \in ToSet(SubSeq(c.object.pods, 1, Min({CheckLen, Len(c.object.pods)})))

Exits(c) == c.key \in Pods /\ c.object # None /\ ~Recorded(c)

---------------------------------------------------------------------------
(* The calls to the API server. "c" is what the caller has read, "rest"    *)
(* the copies of others.                                                   *)

Write(o, rest) ==
    /\ object' = o
    /\ fresh' = IF o = object THEN fresh \cap rest ELSE {}

CallDelete(c, rest) ==
    /\ Unwanted(c) \/ Foreign(c)
    /\ Write(None, rest)

CallCreate(c, rest) ==
    /\ Missing(c)
    /\ Write(IF object = None THEN Build(c.tserver) ELSE object, rest)

CallUpdate(c, holder, rest) ==
    /\ Outdated(c)
    /\ Write(IF holder \in fresh THEN Sync(c.tserver, c.object) ELSE object, rest)

CallStatus(c, holder, rest) ==
    /\ Reports(c)
    /\ Write(IF holder \in fresh THEN [c.object EXCEPT !.status = c.status] ELSE object, rest)

(* The JSON patch of an exit: add the pod in front and, if the copy was    *)
(* full, remove what stood last in it. The copy may be behind.             *)
(* Mutant: the limit is reached one entry early. *)
FullMutant(c) == Len(c.object.pods) + 1 >= Limit

Full(c) == Len(c.object.pods) >= Limit

Fits(c) == object # None /\ (Full(c) => Len(c.object.pods) <= Len(object.pods))

(* Mutant: the place of the last entry is that before the new one came. *)
PatchedMutant(c) ==
    LET longer == <<c.key>> \o object.pods
    IN  IF Full(c) THEN RemoveAt(longer, Len(c.object.pods)) ELSE longer

Patched(c) ==
    LET longer == <<c.key>> \o object.pods
    IN  IF Full(c) THEN RemoveAt(longer, Len(c.object.pods) + 1) ELSE longer

CallPatch(c, rest) ==
    /\ Exits(c)
    /\ Write(IF Fits(c) THEN [object EXCEPT !.pods = Patched(c)] ELSE object, rest)

---------------------------------------------------------------------------
(* The worker *)

Others == Copies \ {"work"}

Finish(again) ==
    /\ work' = Idle
    /\ queue' = IF again THEN queue \cup {work.key} ELSE queue

Reads == work # Idle /\ UNCHANGED <<userVars, seen, known, pods, cached, late>>

Take(k) ==
    /\ work = Idle
    /\ k \in queue
    /\ queue' = queue \ {k}
    /\ LET c == [pc |-> "call", key |-> k, tserver |-> seen, object |-> known, status |-> None]
       IN  work' = IF Reports(c) THEN [c EXCEPT !.status = Status(cached)] ELSE c
    /\ fresh' = IF "known" \in fresh THEN fresh \cup {"work"} ELSE fresh
    /\ faults' = IF k = Server
                   THEN [faults EXCEPT !.noted = @ \ {"unheard", "early", "late"}]
                   ELSE faults
    /\ UNCHANGED <<userVars, seen, object, known, pods, cached, late>>

(* A record that goes takes its entries along. *)
Forget == Note(IF kind = "TExitedRecord" /\ object # None THEN {"deleted"} ELSE {})

Dismiss ==
    /\ Reads
    /\ Unwanted(work)
    /\ CallDelete(work, Others)
    /\ Forget
    /\ Finish(FALSE)

Create ==
    /\ Reads
    /\ CallCreate(work, Others)
    /\ Finish(FALSE)
    /\ UNCHANGED faults

(* The TEndpoint of an earlier TServer of that name goes first. *)
Replace ==
    /\ Reads
    /\ Foreign(work)
    /\ CallDelete(work, Others)
    /\ Finish(TRUE)
    /\ UNCHANGED faults

(* The pods are listed after the update; the copy of the TEndpoint is that *)
(* of before, so that the next call is a conflict.                         *)
Update ==
    /\ Reads
    /\ CallUpdate(work, "work", Copies)
    /\ IF "work" \in fresh
         THEN /\ work' = [work EXCEPT !.pc = "status", !.status = Status(cached)]
              /\ UNCHANGED queue
         ELSE Finish(TRUE)
    /\ UNCHANGED faults

(* Mutant: a conflict is not tried again. *)
ReportMutant ==
    /\ Reads
    /\ CallStatus(work, "work", Others)
    /\ Finish(FALSE)
    /\ UNCHANGED faults

Report ==
    /\ Reads
    /\ CallStatus(work, "work", Others)
    /\ Finish("work" \notin fresh)
    /\ UNCHANGED faults

Patch ==
    /\ Reads
    /\ CallPatch(work, Others)
    /\ Finish(~Fits(work))
    /\ UNCHANGED faults

(* Nothing to do: the record exists, the pod is in it already, there is no *)
(* record to put it in, or no TServer to report upon.                      *)
Settle ==
    /\ Reads
    /\ \/ kind = "TExitedRecord" /\ Found(work)
       \/ work.key \in Pods /\ ~Exits(work)
       \/ kind = "TServer" /\ work.object = None
    /\ Finish(FALSE)
    /\ fresh' = fresh \ {"work"}
    /\ Note(CASE kind = "TServer" -> {"early"}
              [] work.key \in Pods /\ work.object = None -> {work.key}
              [] OTHER -> {})
    /\ UNCHANGED object

(* The call gets no answer, or an error: it may still be carried out. *)
Calls(c) ==
    Unwanted(c) \/ Missing(c) \/ Foreign(c) \/ Outdated(c) \/ Reports(c) \/ Exits(c)

Pend(rest) ==
    /\ late' = work
    /\ fresh' = rest \cup (IF "work" \in fresh THEN {"late"} ELSE {})

Fail ==
    /\ Fault("fail")
    /\ Calls(work)
    /\ Pend(fresh \cap {"known"})
    /\ Finish(TRUE)
    /\ UNCHANGED <<userVars, seen, object, known, pods, cached>>

(* A call without an answer is carried out after all. *)
Land ==
    /\ late # Idle
    /\ LET rest == Copies \ {"late"} IN
           \/ CallDelete(late, rest)
           \/ CallCreate(late, rest)
           \/ CallUpdate(late, "late", rest)
           \/ CallStatus(late, "late", rest)
           \/ CallPatch(late, rest)
    /\ late' = Idle
    /\ CASE kind = "TServer" -> Note({"late"})
         [] kind # "TServer" /\ Unwanted(late) -> Forget
         [] OTHER -> UNCHANGED faults
    /\ UNCHANGED <<userVars, seen, known, pods, cached, queue, work>>

(* The keys that a controller puts into its queue for what it lists. *)
Listed(t, o, ps) ==
    CASE kind = "TEndpoint" ->
           IF t # None \/ o # None \/ Present(ps) # {} THEN {Server} ELSE {}
      [] kind = "TExitedRecord" ->
           {p \in Pods : Terminating(ps[p])} \cup IF t # None \/ o # None THEN {Server} ELSE {}
      [] kind = "TServer" -> IF Present(ps) # {} THEN {Server} ELSE {}

(* What was to be done, and what no event brings to the next controller.   *)
Undone(k, ps) ==
    \/ k \in queue \/ work.key = k
    \/ IF k = Server THEN cached # ps ELSE cached[k] # ps[k]

Unheard(ps, keys) ==
    CASE kind = "TEndpoint" -> {}
      [] kind = "TExitedRecord" ->
           {p \in Pods \ keys : ps[p] = "gone" /\ Undone(p, ps)}
      [] kind = "TServer" -> IF Server \notin keys /\ Undone(Server, ps) THEN {"unheard"} ELSE {}

(* Another controller leads; a call of this one may be on its way. *)
Lead(ps, keys) ==
    /\ "restart" \in Faults /\ faults.count < MaxFaults
    /\ faults' = [count |-> faults.count + 1, noted |-> faults.noted \cup Unheard(ps, keys)]
    /\ queue' = keys
    /\ work' = Idle
    /\ UNCHANGED <<userVars, object, pods>>

Leaves(rest) ==
    IF work # Idle /\ Calls(work)
      THEN Pend(rest)
      ELSE fresh' = rest \cup (fresh \cap {"late"}) /\ UNCHANGED late

(* It starts: what it lists are events, and what has gone meanwhile it     *)
(* never hears of.                                                         *)
Restart ==
    /\ Lead(pods, Listed(tserver, object, pods))
    /\ seen' = tserver /\ known' = object /\ cached' = pods
    /\ Leaves({"known"})

(* It has stood by for some time, and heard what this one has, however     *)
(* little that is: all of that time's keys are in its queue still.         *)
Takeover ==
    /\ \E past \in SUBSET ({Server} \cup {p \in Pods : cached[p] = "gone"}) :
           /\ kind # "TExitedRecord" => past \subseteq {Server}
           /\ Lead(cached, Listed(seen, known, cached) \cup past)
    /\ Leaves(fresh \cap {"known"})
    /\ UNCHANGED <<seen, known, cached>>

---------------------------------------------------------------------------
(* The informers *)

SyncTServer ==
    /\ kind # "TServer"
    /\ seen # tserver
    /\ seen' = tserver
    /\ queue' = queue \cup {Server}
    /\ UNCHANGED <<userVars, object, known, fresh, pods, cached, work, late, faults>>

(* Events of the TServer do not bring it to its own reconciler. *)
SyncObject ==
    /\ "known" \notin fresh
    /\ known' = object
    /\ fresh' = fresh \cup {"known"}
    /\ queue' = queue \cup (IF kind = "TServer" THEN {} ELSE {Server})
    /\ UNCHANGED <<userVars, seen, object, pods, cached, work, late, faults>>

(* The keys that the event of a pod puts into the queue. *)
Event(p) ==
    CASE kind # "TExitedRecord" -> {Server}
      [] kind = "TExitedRecord" /\ Over(pods[p]) -> {p}
      [] OTHER -> {}

SyncPod(p) ==
    /\ cached[p] # pods[p]
    /\ cached' = [cached EXCEPT ![p] = pods[p]]
    /\ queue' = queue \cup Event(p)
    /\ UNCHANGED <<userVars, seen, object, known, fresh, pods, work, late, faults>>

(* A watch that broke begins with a new list. What the list lacks arrives  *)
(* as a tombstone, which EnqueueResourceEvent does not know.               *)
Bury(what) ==
    /\ "relist" \in Faults /\ faults.count < MaxFaults
    /\ faults' = [count |-> faults.count + 1, noted |-> faults.noted \cup what]

RelistPods ==
    LET changed == {p \in Pods : cached[p] # pods[p]}
        buried == {p \in changed : pods[p] = "gone"}
    IN  /\ buried # {}
        /\ Bury(IF kind = "TExitedRecord" THEN {p \in buried : ~Over(cached[p])} ELSE {"unheard"})
        /\ cached' = pods
        /\ queue' = queue \cup UNION {Event(p) : p \in changed \ buried}
        /\ UNCHANGED <<userVars, seen, object, known, fresh, pods, work, late>>

RelistTServer ==
    /\ kind # "TServer"
    /\ seen # None /\ tserver = None
    /\ Bury({"unheard"})
    /\ seen' = None
    /\ UNCHANGED <<userVars, object, known, fresh, pods, cached, queue, work, late>>

RelistObject ==
    /\ kind # "TServer"
    /\ "relist" \in Faults
    /\ known # None /\ object = None
    /\ Note({"unheard"})
    /\ known' = None
    /\ fresh' = fresh \cup {"known"}
    /\ UNCHANGED <<userVars, seen, object, pods, cached, queue, work, late>>

---------------------------------------------------------------------------
(* Users, and the controllers of Kubernetes *)

Rest == UNCHANGED <<kind, known, cached, queue, work, late>>

(* The status belongs to the TServer that is written. *)
Edit(t) ==
    /\ edits < EditsOf[kind]
    /\ edits' = edits + 1
    /\ tserver' = t
    /\ IF kind # "TServer" THEN UNCHANGED <<object, fresh>>
       ELSE /\ object' = IF t = None THEN None ELSE IF object = None THEN Build(t) ELSE Sync(t, object)
            /\ fresh' = {}
    /\ Rest
    /\ UNCHANGED <<seen, pods, faults>>

CreateTServer(spec) ==
    /\ tserver = None
    /\ Edit([uid |-> edits, going |-> FALSE, spec |-> spec])

EditTServer(spec) ==
    /\ tserver # None /\ ~tserver.going
    /\ spec # tserver.spec
    /\ Edit([tserver EXCEPT !.spec = spec])

DeleteTServer ==
    /\ tserver # None /\ ~tserver.going
    /\ Edit(None) \/ Edit([tserver EXCEPT !.going = TRUE])

(* Foreground deletion waits for the object. *)
TServerGone ==
    /\ tserver # None /\ tserver.going
    /\ kind = "TServer" \/ object = None
    /\ tserver' = None
    /\ IF object = None THEN UNCHANGED <<object, fresh>> ELSE Write(None, Copies)
    /\ Rest
    /\ UNCHANGED <<seen, pods, edits, faults>>

(* Somebody else writes the TEndpoint. *)
EditObject ==
    /\ kind = "TEndpoint" /\ object # None
    /\ Fault("edit")
    /\ \/ Write([object EXCEPT !.spec.names = None, !.status = None], Copies)
       \/ Write([object EXCEPT !.owner = None], Copies)
    /\ Rest
    /\ UNCHANGED <<tserver, seen, pods, edits>>

Owned == object.owner = None \/ (IF tserver = None THEN FALSE ELSE object.owner = tserver.uid)

(* Somebody deletes the object, or the garbage collector does. *)
Deleted ==
    /\ kind # "TServer" /\ object # None
    /\ Write(None, Copies)
    /\ Rest
    /\ UNCHANGED <<tserver, seen, pods, edits>>

DeleteObject ==
    /\ Deleted
    /\ "delete" \in Faults /\ faults.count < MaxFaults
    /\ faults' = [count |-> faults.count + 1,
                  noted |-> faults.noted \cup
                      IF kind = "TExitedRecord" THEN {"deleted"} ELSE {}]

Collected == Deleted /\ ~Owned /\ Forget

(* A pod starts and becomes ready; it ends by being deleted, ready or not, *)
(* which takes a while. A TEndpoint does not ask whether a terminating pod *)
(* is still ready, a record not even what came before.                     *)
Lives == {<<"none", "starting">>, <<"starting", "ready">>, <<"starting", "going">>}

PodSteps ==
    {<<"going", "gone">>}
    \cup (CASE kind = "TExitedRecord" -> {<<"none", "going">>}
            [] kind = "TEndpoint" -> Lives \cup {<<"ready", "going">>}
            [] kind = "TServer" -> Lives \cup {<<"ready", "leaving">>, <<"leaving", "going">>})

PodStep(p) ==
    /\ p \in PodsOf[kind]
    /\ pods[p] = "none" => tserver # None
    /\ \E s \in PodSteps : s[1] = pods[p] /\ pods' = [pods EXCEPT ![p] = s[2]]
    /\ Rest
    /\ UNCHANGED <<tserver, seen, object, fresh, edits, faults>>

---------------------------------------------------------------------------
Worker == Dismiss \/ Create \/ Replace \/ Update \/ Report \/ Patch \/ Settle

Next ==
    \/ \E k \in Keys : Take(k)
    \/ Worker
    \/ SyncTServer \/ SyncObject
    \/ \E p \in Pods : SyncPod(p) \/ PodStep(p)
    \/ Fail \/ Restart \/ Takeover \/ Land
    \/ RelistPods \/ RelistTServer \/ RelistObject
    \/ \E spec \in SpecsOf[kind] : CreateTServer(spec) \/ EditTServer(spec)
    \/ DeleteTServer \/ TServerGone
    \/ EditObject \/ DeleteObject \/ Collected

Spec == Init /\ [][Next]_vars

(* The queue is served in turn, the worker and the watches run on, and so  *)
(* do the controllers of Kubernetes; users, faults, late calls and the     *)
(* pods owe nothing.                                                       *)
Fairness ==
    /\ \A k \in Keys : SF_vars(Take(k))
    /\ WF_vars(Worker)
    /\ WF_vars(SyncTServer) /\ WF_vars(SyncObject)
    /\ \A p \in Pods : WF_vars(SyncPod(p))
    /\ WF_vars(TServerGone) /\ WF_vars(Collected)

FairSpec == Spec /\ Fairness

---------------------------------------------------------------------------
(* Properties *)

Followed ==
    /\ kind = "TEndpoint" => Equal(tserver, object) /\ object.owner = tserver.uid
    /\ object.status = Status(pods) \/ (object.status = None /\ Present(pods) = {})

(* In the end the TEndpoint exists exactly if the TServer does, agrees     *)
(* with it and shows every pod as it is, and the status of the TServer     *)
(* counts its pods, through failures, restarts and writes by others;       *)
(* unless, since the key was last taken, a deletion has come as a          *)
(* tombstone or while no controller ran, the TServer was not known yet, or *)
(* a status of the TServer has landed late.                                *)
StatusFollows ==
    <>[](/\ kind # "TExitedRecord"
         /\ faults.noted = {}
         => IF Wanted(tserver) THEN object # None /\ Followed
            ELSE kind = "TEndpoint" => object = None)

(* An entry leaves the record only for newer ones: as many as the limit    *)
(* allows stay in front, although the patch names the place of the last    *)
(* entry in a copy that may be shorter or longer than the record.          *)
NewestKept ==
    [][kind = "TExitedRecord" /\ object # None /\ object' # None
         => \A i \in DOMAIN object.pods :
                i < Limit => \E j \in DOMAIN object'.pods :
                                 j <= i + 1 /\ object'.pods[j] = object.pods[i]]_vars

(* In the end there is a record exactly if there is a TServer, unless a    *)
(* deletion came as a tombstone since the key was last taken; and every    *)
(* pod that has gone is in it, or it is full: through failures, repeated   *)
(* entries, restarts and takeovers, unless the record was once deleted, or *)
(* the exit of that pod came as a tombstone, while no controller ran, or   *)
(* before the record was known.                                            *)
ExitRecorded ==
    <>[](kind = "TExitedRecord"
         => /\ "unheard" \notin faults.noted => (Wanted(tserver) <=> object # None)
            /\ object # None /\ "deleted" \notin faults.noted
               => \A p \in Pods \ faults.noted : pods[p] = "gone" =>
                      p \in ToSet(object.pods) \/ Len(object.pods) >= Limit)
=============================================================================
