------------------------------ MODULE Workload ------------------------------
(***************************************************************************)
(* One TServer and the object that tarscontroller derives from it: the     *)
(* StatefulSet, the DaemonSet or the Service of its name. The three        *)
(* reconcilers share a skeleton and write nothing that another one reads,  *)
(* so one behaviour follows one of them: "kind" is chosen at the start.    *)
(*                                                                         *)
(* A worker takes the key, reads the TServer and the object from informer  *)
(* caches that may be behind ("seen", "known"), and makes its call to the  *)
(* API server some time later. A call that ends without an answer, because *)
(* it timed out or its controller died or lost the lease, may still be     *)
(* carried out: it is kept in "late". The controller that leads next has   *)
(* informers of its own that run already; it may have fallen behind        *)
(* ("standby"). An informer that catches up skips what was in between.     *)
(*                                                                         *)
(* The translator's fields are classes of fields it treats alike. No other *)
(* init container than tarsnode is ever added to a template.               *)
(***************************************************************************)
EXTENDS Naturals, Sequences, SequencesExt

CONSTANTS
    Kinds,          \* subset of {"StatefulSet", "DaemonSet", "Service"}
    SpecsOf,        \* [Kinds -> sets of specs]: the TServer specs users write, see SpecType
    None,
    MaxEdits,       \* bound: creations, edits and deletions of the TServer
    Faults,         \* kinds of fault that may happen
    MaxFaults       \* bound: faults of one behaviour

Volume == {"none", "rw", "ro"}      \* a claim mounted as a volume: absent, writable, read-only

(* image stands for every template field that is compared as it is, node   *)
(* for the image of tarsnode. A claim template is local (TLocalVolume) or  *)
(* of another storage class.                                               *)
SpecType(s) ==
    /\ s.daemon \in BOOLEAN
    /\ s.replicas \in Nat
    /\ s.volume \in Volume
    /\ DOMAIN s = {"daemon", "replicas", "strategy", "policy", "image", "node",
                   "volume", "ports", "claims"}
    /\ s.daemon => s.claims = <<>>      \* validTServer

Specs == UNION {SpecsOf[k] : k \in Kinds}

ASSUME SpecAssumption == \A s \in Specs : SpecType(s)
ASSUME KindAssumption == Kinds \subseteq {"StatefulSet", "DaemonSet", "Service"}
ASSUME BoundAssumption == MaxEdits \in Nat /\ MaxFaults \in Nat

VARIABLES
    kind,       \* whose reconciler this is; never changes
    tserver,    \* the TServer in the API server, or None
    seen,       \* the controller's copy of it
    object,     \* the object in the API server, or None
    known,      \* the controller's copy of it
    fresh,      \* which copies of the object have its resourceVersion
    deleted,    \* the informers that a Deleted event of the object is on its way to
    queued,     \* the key is in the work queue
    work,       \* the worker: what it has read, and how far it is
    late,       \* a call that ended without an answer
    standby,    \* the copies of the controller that leads next, or None if it keeps up
    volumes,    \* the local claims made for the pods
    edits,      \* writes of the TServer so far
    faults      \* how many faults have happened, and which of the Noted ones

vars == <<kind, tserver, seen, object, known, fresh, deleted, queued, work, late, standby,
          volumes, edits, faults>>

apiVars == <<tserver, seen, edits>>
cacheVars == <<known, deleted>>

Caches == {"known", "standby", "work", "late"}      \* the copies of the object

Informers == IF standby = None THEN {"known"} ELSE {"known", "standby"}

Idle == [pc |-> "idle", tserver |-> None, object |-> None]

Init ==
    /\ kind \in Kinds
    /\ tserver = None /\ seen = None
    /\ object = None /\ known = None
    /\ fresh = {"known"}
    /\ deleted = {} /\ queued = FALSE
    /\ work = Idle /\ late = Idle
    /\ standby = None
    /\ volumes = {}
    /\ edits = 0
    /\ faults = [count |-> 0, noted |-> {}]

(* What has happened since the worker was last done with the key, and no   *)
(* event tells it of: an edit past the TServer, a late call that landed, a *)
(* deletion that was not heard, the nil dereference; and that the worker   *)
(* was content with a copy that is behind ("stale"). Noted for good: that  *)
(* a controller took over behind the TServer.                              *)
Note(what) == faults' = [faults EXCEPT !.noted = @ \cup what]

Done(missed) == faults' = [faults EXCEPT !.noted = (@ \cap {"behind"}) \cup missed]

Fault(what) ==
    /\ what \in Faults
    /\ faults.count < MaxFaults
    /\ faults' = [faults EXCEPT !.count = @ + 1]

---------------------------------------------------------------------------
(* The translator *)

(* Ports and servants are collected in Go maps and come in any order. *)
ContainerPorts(spec) == SetToSeqs(ToSet(spec.ports))

BuildPodTemplate(spec, ports) ==
    [image |-> spec.image, node |-> spec.node, volume |-> spec.volume,
     ports |-> ports, sidecar |-> FALSE]

BuildStatefulSet(t, ports) ==
    [owner |-> t.uid, version |-> t.version, going |-> FALSE,
     replicas |-> t.spec.replicas, strategy |-> t.spec.strategy, policy |-> t.spec.policy,
     claims |-> t.spec.claims, template |-> BuildPodTemplate(t.spec, ports)]

BuildDaemonSet(t, ports) ==
    [owner |-> t.uid, version |-> t.version, going |-> FALSE,
     strategy |-> t.spec.strategy, template |-> BuildPodTemplate(t.spec, ports)]

BuildService(t) ==
    [owner |-> t.uid, version |-> t.version, going |-> FALSE, ports |-> t.spec.ports]

Build(t, ports) ==
    CASE kind = "StatefulSet" -> BuildStatefulSet(t, ports)
      [] kind = "DaemonSet" -> BuildDaemonSet(t, ports)
      [] kind = "Service" -> BuildService(t)

(* Containers of others stay in the template. *)
SyncTemplate(t, o, ports) ==
    [BuildPodTemplate(t.spec, ports) EXCEPT !.sidecar = o.template.sidecar]

SyncStatefulSet(t, o, ports) ==
    [o EXCEPT !.version = t.version, !.replicas = t.spec.replicas,
              !.strategy = t.spec.strategy, !.template = SyncTemplate(t, o, ports)]

SyncDaemonSet(t, o, ports) ==
    [o EXCEPT !.version = t.version, !.template = SyncTemplate(t, o, ports)]

SyncService(t, o) == [o EXCEPT !.version = t.version, !.ports = t.spec.ports]

Sync(t, o, ports) ==
    CASE kind = "StatefulSet" -> SyncStatefulSet(t, o, ports)
      [] kind = "DaemonSet" -> SyncDaemonSet(t, o, ports)
      [] kind = "Service" -> SyncService(t, o)

(* equalVolumesPVC: two claims are "equal" when ReadOnly differs. *)
EqualVolumes(l, r) ==
    IF "none" \in {l, r} THEN l = r ELSE l # r

(* "container" points to the last container, which is another's if there   *)
(* is one. The order of the ports counts.                                  *)
EqualTemplate(spec, template, ports) ==
    /\ ~template.sidecar
    /\ template.image = spec.image
    /\ EqualVolumes(spec.volume, template.volume)
    /\ template.ports = ports

EqualStatefulSet(spec, o, ports) ==
    /\ o.replicas = spec.replicas
    /\ o.strategy = spec.strategy
    /\ o.template.node = spec.node
    /\ EqualTemplate(spec, o.template, ports)

EqualDaemonSet(spec, o, ports) ==
    /\ o.strategy = spec.strategy
    /\ EqualTemplate(spec, o.template, ports)

EqualService(spec, o) == o.ports = spec.ports

Equal(spec, o, ports) ==
    CASE kind = "StatefulSet" -> EqualStatefulSet(spec, o, ports)
      [] kind = "DaemonSet" -> EqualDaemonSet(spec, o, ports)
      [] kind = "Service" -> EqualService(spec, o)

(* diffVolumeClaimTemplate: the claims the spec no longer has, the local   *)
(* ones among them, and whether the loop meets one of the others while it  *)
(* still takes the templates for equal, and dereferences nil.              *)
Lacks(spec, claim) == \A c \in ToSet(spec.claims) : c.name # claim.name

Dropped(spec, o) == {c.name : c \in {d \in ToSet(o.claims) : d.local /\ Lacks(spec, d)}}

Altered(spec, claim) ==
    \E c \in ToSet(spec.claims) : c.name = claim.name /\ c.meta # claim.meta

DiffClaims(spec, o) ==
    \/ o.claims = <<>> /\ spec.claims # <<>>
    \/ Dropped(spec, o) # {}
    \/ \E c \in ToSet(o.claims) : Altered(spec, c)

NilClaim(spec, o) ==
    \E i \in DOMAIN o.claims :
        /\ Lacks(spec, o.claims[i]) /\ ~o.claims[i].local
        /\ \A j \in 1..(i - 1) : ~Lacks(spec, o.claims[j]) /\ ~Altered(spec, o.claims[j])

(* What of the spec the reconcilers carry over, whatever else changes: not *)
(* the policy, an added claim, a lone change of volume, or the DaemonSet's *)
(* strategy and node.                                                      *)
Follows(spec, o) ==
    CASE kind = "StatefulSet" ->
           /\ o.replicas = spec.replicas /\ o.strategy = spec.strategy
           /\ o.template.image = spec.image /\ o.template.node = spec.node
           /\ ToSet(o.template.ports) = ToSet(spec.ports)
           /\ Dropped(spec, o) = {}
      [] kind = "DaemonSet" ->
           /\ o.template.image = spec.image
           /\ ToSet(o.template.ports) = ToSet(spec.ports)
      [] kind = "Service" -> o.ports = spec.ports

---------------------------------------------------------------------------
(* The verdict of reconcile upon a TServer and an object it has read *)

Wanted(t) == t # None /\ ~t.going /\ t.spec.daemon = (kind = "DaemonSet")

Missing(c) == Wanted(c.tserver) /\ c.object = None

Held(c) ==
    /\ Wanted(c.tserver) /\ c.object # None
    /\ c.object.going \/ c.object.owner # c.tserver.uid

Kept(c) ==
    /\ Wanted(c.tserver) /\ c.object # None
    /\ ~c.object.going /\ c.object.owner = c.tserver.uid

Panics(c) == kind = "StatefulSet" /\ Kept(c) /\ NilClaim(c.tserver.spec, c.object)

Rebuilds(c) ==
    /\ kind = "StatefulSet" /\ Kept(c)
    /\ ~Panics(c)
    /\ DiffClaims(c.tserver.spec, c.object)

Synced(c) == Kept(c) /\ ~Panics(c) /\ ~Rebuilds(c)

---------------------------------------------------------------------------
(* The calls to the API server. "c" is what the caller has read, "rest"    *)
(* the copies of others.                                                   *)

(* A write of the object leaves older copies behind; one that changes      *)
(* nothing is none, so "version" is that of the last change.               *)
Alike(o, p) ==
    IF None \in {o, p} THEN o = p ELSE [o EXCEPT !.version = p.version] = p

(* Mutant: a copy keeps its resourceVersion when the object changes. *)
WriteMutant(o, rest) ==
    /\ object' = IF Alike(o, object) THEN object ELSE o
    /\ fresh' = fresh \cap rest
    /\ deleted' = IF object # None /\ o = None THEN Informers ELSE deleted

Write(o, rest) ==
    /\ object' = IF Alike(o, object) THEN object ELSE o
    /\ fresh' = IF Alike(o, object) THEN fresh \cap rest ELSE {}
    /\ deleted' = IF object # None /\ o = None THEN Informers ELSE deleted

CallDelete(c, rest) ==
    /\ ~Wanted(c.tserver) \/ Rebuilds(c)
    /\ Write(None, rest)
    /\ UNCHANGED volumes

CallCreate(c, rest) ==
    /\ Missing(c)
    /\ \E ports \in ContainerPorts(c.tserver.spec) :
           Write(IF object = None THEN Build(c.tserver, ports) ELSE object, rest)
    /\ UNCHANGED volumes

(* Mutant: the update does not carry the resourceVersion of the copy. *)
CallUpdateMutant(c, holder, rest) ==
    /\ Synced(c)
    /\ \E found, ports \in ContainerPorts(c.tserver.spec) :
           /\ ~Equal(c.tserver.spec, c.object, found)
           /\ Write(IF object # None THEN Sync(c.tserver, c.object, ports) ELSE object, rest)
    /\ UNCHANGED volumes

CallUpdate(c, holder, rest) ==
    /\ Synced(c)
    /\ \E found, ports \in ContainerPorts(c.tserver.spec) :
           /\ ~Equal(c.tserver.spec, c.object, found)
           /\ Write(IF holder \in fresh THEN Sync(c.tserver, c.object, ports) ELSE object, rest)
    /\ UNCHANGED volumes

(* DeleteCollection of the local claims the spec no longer has. *)
CallCollect(c, rest) ==
    /\ volumes' = volumes \ Dropped(c.tserver.spec, c.object)
    /\ fresh' = fresh \cap rest
    /\ UNCHANGED <<object, deleted>>
---------------------------------------------------------------------------
(* The worker *)

Finish(again) ==
    /\ work' = Idle
    /\ queued' = (queued \/ again)

Reads(pc) == work.pc = pc /\ UNCHANGED <<kind, apiVars, known, late, standby>>

Take ==
    /\ work = Idle
    /\ queued' = FALSE
    /\ work' = [pc |-> "call", tserver |-> seen, object |-> known]
    /\ fresh' = IF "known" \in fresh THEN fresh \cup {"work"} ELSE fresh
    /\ UNCHANGED <<kind, apiVars, object, cacheVars, late, standby, volumes, faults>>

Begin == queued /\ Take

(* The TServer's status changes with its pods, and the worker takes the    *)
(* key of that event.                                                      *)
Touch == ~queued /\ seen # None /\ Take

Dismiss ==
    /\ Reads("call")
    /\ ~Wanted(work.tserver)
    /\ CallDelete(work, Caches \ {"work"})
    /\ Finish(FALSE)
    /\ Done({})

(* The worker is done with an object that is not as the TServer asks, or   *)
(* that has gone, and nothing will bring the key back.                     *)
Overlooked ==
    IF object = None THEN ~queued /\ "known" \notin deleted
    ELSE /\ ~object.going /\ object.owner = work.tserver.uid
         /\ ~Follows(work.tserver.spec, object)

Missed == IF Overlooked THEN {"stale"} ELSE {}

(* AlreadyExists counts as success, whatever it is that exists. *)
Create ==
    /\ Reads("call")
    /\ CallCreate(work, Caches \ {"work"})
    /\ Finish(FALSE)
    /\ Done(IF object = None THEN {} ELSE Missed)

(* The object is being deleted, or belongs to another: look again later. *)
Wait ==
    /\ Reads("call")
    /\ Held(work)
    /\ Finish(TRUE)
    /\ Done({})
    /\ fresh' = fresh \ {"work"}
    /\ UNCHANGED <<object, deleted, volumes>>

(* Mutant: the claims first, then the StatefulSet at the next reconcile. *)
RebuildMutant ==
    /\ Reads("call")
    /\ Rebuilds(work)
    /\ work' = [work EXCEPT !.pc = "claims"]
    /\ UNCHANGED <<object, fresh, deleted, queued, volumes, faults>>

(* rebuildStatefulset: the StatefulSet first, then the claims, then again. *)
Rebuild ==
    /\ Reads("call")
    /\ Rebuilds(work)
    /\ CallDelete(work, Caches)
    /\ work' = [work EXCEPT !.pc = "claims"]
    /\ UNCHANGED <<queued, faults>>

DropClaims ==
    /\ Reads("claims")
    /\ CallCollect(work, Caches \ {"work"})
    /\ Finish(TRUE)
    /\ Done({})

Update ==
    /\ Reads("call")
    /\ CallUpdate(work, "work", Caches \ {"work"})
    /\ Finish("work" \notin fresh)      \* a conflict is tried again
    /\ Done({})

Agree ==
    /\ Reads("call")
    /\ Synced(work)
    /\ \E found \in ContainerPorts(work.tserver.spec) : Equal(work.tserver.spec, work.object, found)
    /\ Finish(FALSE)
    /\ fresh' = fresh \ {"work"}
    /\ Done(IF "work" \in fresh THEN {} ELSE Missed)
    /\ UNCHANGED <<object, deleted, volumes>>

Calls(c) ==
    \/ c.pc = "claims"
    \/ c.pc = "call" /\ ~Held(c) /\ ~Panics(c)

(* The call gets no answer, or an error: it may still be carried out. A    *)
(* failed deletion of claims is logged and forgotten.                      *)
Pend ==
    /\ late' = work
    /\ fresh' = (fresh \ {"work", "late"}) \cup (IF "work" \in fresh THEN {"late"} ELSE {})

Fail ==
    /\ Fault("fail")
    /\ Calls(work)
    /\ Pend
    /\ Finish(TRUE)
    /\ UNCHANGED <<kind, apiVars, object, cacheVars, standby, volumes>>

(* The controller that stands by falls behind: this is what it knows when  *)
(* it takes over.                                                          *)
Lag ==
    /\ Fault("lag")
    /\ standby = None
    /\ standby' = [tserver |-> tserver, heard |-> edits, object |-> object]
    /\ fresh' = fresh \cup {"standby"}
    /\ UNCHANGED <<kind, apiVars, object, cacheVars, queued, work, late, volumes>>

(* Another controller leads, or this one again. Its informers were started *)
(* before it sought the lease, every TServer they have heard of is in its  *)
(* queue, and it begins with what they have heard.                         *)
Lead ==
    /\ seen' = IF standby = None THEN tserver ELSE standby.tserver
    /\ known' = IF standby = None THEN object ELSE standby.object
    /\ deleted' = IF "standby" \in deleted THEN {"known"} ELSE {}
    /\ work' = Idle
    /\ queued' \in {TRUE, seen' # None}
    /\ standby' = None
    /\ UNCHANGED <<kind, tserver, object, volumes, edits>>

Heir == IF standby = None \/ "standby" \in fresh THEN {"known"} ELSE {}

Behind ==
    IF standby = None THEN {} ELSE IF standby.heard = edits THEN {} ELSE {"behind"}

(* Its takeover is part of the fault that began when it fell behind.       *)
Restart ==
    /\ standby = None => "restart" \in Faults /\ faults.count < MaxFaults
    /\ faults' = [count |-> IF standby = None THEN faults.count + 1 ELSE faults.count,
                  noted |-> faults.noted \cup Behind]
    /\ Lead
    /\ \/ /\ Calls(work)
          /\ late' = work
          /\ fresh' = Heir \cup (IF "work" \in fresh THEN {"late"} ELSE {})
       \/ /\ ~Calls(work)
          /\ fresh' = Heir \cup (fresh \cap {"late"})
          /\ UNCHANGED late

(* The nil dereference ends the process. *)
Panic ==
    /\ work.pc = "call" /\ Panics(work)
    /\ Note({"panic"} \cup Behind)
    /\ Lead
    /\ fresh' = Heir \cup (fresh \cap {"late"})
    /\ UNCHANGED late

(* A call without an answer is carried out after all. *)
Land ==
    /\ late # Idle
    /\ \/ late.pc = "call" /\ CallDelete(late, Caches \ {"late"})
       \/ late.pc = "call" /\ CallCreate(late, Caches \ {"late"})
       \/ late.pc = "call" /\ CallUpdate(late, "late", Caches \ {"late"})
       \/ late.pc = "claims" /\ CallCollect(late, Caches \ {"late"})
    /\ late' = Idle
    /\ Note({"late"})
    /\ UNCHANGED <<kind, apiVars, known, queued, work, standby>>

---------------------------------------------------------------------------
(* The informers *)

SyncTServer ==
    /\ seen # tserver
    /\ seen' = tserver
    /\ queued' = TRUE
    /\ UNCHANGED <<kind, tserver, edits, object, cacheVars, fresh, work, late, standby, volumes,
                   faults>>

HearObject ==
    /\ "known" \notin fresh
    /\ known' = object
    /\ fresh' = fresh \cup {"known"}
    /\ deleted' = deleted \ {"known"}
    /\ UNCHANGED <<kind, apiVars, object, work, late, standby, volumes>>

(* Mutant: nor does Deleted. *)
SyncObjectMutant == HearObject /\ UNCHANGED <<queued, faults>>

(* Of the object's events only Deleted counts. *)
SyncObject ==
    /\ HearObject
    /\ queued' = (queued \/ "known" \in deleted)
    /\ UNCHANGED faults

(* A watch that broke begins with a new list. What the list lacks arrives  *)
(* as a tombstone, which EnqueueResourceEvent does not know.               *)
RelistTServer ==
    /\ Fault("relist")
    /\ seen # None /\ tserver = None
    /\ seen' = None
    /\ UNCHANGED <<kind, tserver, edits, object, cacheVars, fresh, queued, work, late, standby,
                   volumes>>

RelistObject ==
    /\ "relist" \in Faults /\ faults.count < MaxFaults
    /\ "known" \in deleted
    /\ HearObject
    /\ faults' = [count |-> faults.count + 1, noted |-> faults.noted \cup {"unheard"}]
    /\ UNCHANGED queued

---------------------------------------------------------------------------
(* Users, and the controllers of Kubernetes *)

Rest == UNCHANGED <<kind, known, queued, work, late, standby>>

Edit(t) ==
    /\ edits < MaxEdits
    /\ edits' = edits + 1
    /\ tserver' = t
    /\ Rest
    /\ UNCHANGED <<seen, object, fresh, deleted, volumes, faults>>

CreateTServer(spec) ==
    /\ tserver = None
    /\ Edit([uid |-> edits, version |-> edits, going |-> FALSE, spec |-> spec])

EditTServer(spec) ==
    /\ tserver # None /\ ~tserver.going
    /\ spec # tserver.spec
    /\ Edit([tserver EXCEPT !.version = edits, !.spec = spec])

DeleteTServer ==
    /\ tserver # None /\ ~tserver.going
    /\ \/ Edit(None)
       \/ Edit([tserver EXCEPT !.version = edits, !.going = TRUE])

(* Foreground deletion waits for the object. *)
TServerGone ==
    /\ tserver # None /\ tserver.going /\ object = None
    /\ tserver' = None
    /\ Rest
    /\ UNCHANGED <<seen, edits, object, fresh, deleted, volumes, faults>>

(* Somebody else writes the object. validUpdateStatefulSet and its like    *)
(* admit what "equal" does not: DryRunSync returns whether to update.      *)
Admitted(o) ==
    /\ tserver # None
    /\ \E ports \in ContainerPorts(tserver.spec) : ~Equal(tserver.spec, o, ports)

Drifted ==
    IF kind = "Service"
      THEN {[object EXCEPT !.ports = <<>>]}
      ELSE {[object EXCEPT !.template.image = None], [object EXCEPT !.template.sidecar = TRUE]}

EditObject ==
    /\ object # None
    /\ "edit" \in Faults /\ faults.count < MaxFaults
    /\ faults' = [count |-> faults.count + 1, noted |-> faults.noted \cup {"edit"}]
    /\ \E o \in Drifted : o # object /\ Admitted(o) /\ Write(o, Caches)
    /\ Rest
    /\ UNCHANGED <<apiVars, volumes>>

DeleteObject ==
    /\ object # None /\ ~object.going
    /\ Fault("delete")
    /\ Write(None, Caches) \/ Write([object EXCEPT !.going = TRUE], Caches)
    /\ Rest
    /\ UNCHANGED <<apiVars, volumes>>

(* The same while the watch of the controller that leads is broken.        *)
BuryObject ==
    /\ object # None
    /\ {"delete", "relist"} \subseteq Faults /\ faults.count < MaxFaults
    /\ faults' = [count |-> faults.count + 1, noted |-> faults.noted \cup {"unheard"}]
    /\ object' = None /\ fresh' = {} /\ deleted' = Informers \ {"known"}
    /\ Rest
    /\ UNCHANGED <<apiVars, volumes>>

(* The end of a foreground deletion, and the garbage collector. *)
Owned == IF tserver = None THEN FALSE ELSE object.owner = tserver.uid

Collected ==
    /\ object # None
    /\ object.going \/ ~Owned
    /\ Write(None, Caches)
    /\ Rest
    /\ UNCHANGED <<apiVars, volumes, faults>>

(* The claims of the pods of a StatefulSet; they belong to the TServer. *)
Claimed ==
    IF tserver = None THEN {}
    ELSE IF kind = "StatefulSet" /\ object # None /\ object.replicas > 0
      THEN volumes \cup {c.name : c \in {d \in ToSet(object.claims) : d.local}}
      ELSE volumes

MakeClaims ==
    /\ volumes' = Claimed /\ volumes' # volumes
    /\ Rest
    /\ UNCHANGED <<apiVars, object, fresh, deleted, faults>>

---------------------------------------------------------------------------
Worker == Dismiss \/ Create \/ Wait \/ Rebuild \/ DropClaims \/ Update \/ Agree \/ Panic

Informer == SyncTServer \/ SyncObject

Next ==
    \/ Begin \/ Worker \/ Informer
    \/ Fail \/ Lag \/ Restart \/ Land \/ RelistTServer \/ RelistObject
    \/ Touch
    \/ \E spec \in SpecsOf[kind] : CreateTServer(spec) \/ EditTServer(spec)
    \/ DeleteTServer \/ TServerGone
    \/ EditObject \/ DeleteObject \/ BuryObject \/ Collected \/ MakeClaims

Spec == Init /\ [][Next]_vars

(* The worker's loop, the watches and the controllers of Kubernetes run on; *)
(* users, faults, late calls and events of the status owe nothing.         *)
Fairness ==
    /\ WF_vars(Begin) /\ WF_vars(Worker)
    /\ WF_vars(SyncTServer) /\ WF_vars(SyncObject)
    /\ WF_vars(TServerGone) /\ WF_vars(Collected) /\ WF_vars(MakeClaims)

FairSpec == Spec /\ Fairness

---------------------------------------------------------------------------
(* Properties *)

(* The variables keep their shape: a copy is what the object or the        *)
(* TServer once was, and only a worker or a lost call that has read        *)
(* something is under way.                                                 *)
TypeOK ==
    /\ kind \in Kinds
    /\ \A t \in {tserver, seen, work.tserver, late.tserver} \ {None} :
           t.uid \in 0..t.version /\ t.version < edits /\ t.spec \in Specs
    /\ \A o \in {object, known, work.object, late.object} \ {None} :
           o.owner \in 0..o.version /\ o.version < edits
    /\ fresh \subseteq Caches
    /\ "known" \in fresh => known = object
    /\ deleted \subseteq Informers /\ queued \in BOOLEAN
    /\ {work.pc, late.pc} \subseteq {"idle", "call", "claims"}
    /\ edits \in 0..MaxEdits
    /\ faults.count \in 0..MaxFaults
    /\ faults.noted \subseteq {"stale", "edit", "late", "unheard", "panic", "behind"}

(* An object is never overwritten with an older TServer than it was built  *)
(* from, whatever the caches, dead controllers and lost calls hold; unless *)
(* a controller has taken over that had not heard of an edit yet.          *)
NeverGoesBack ==
    [][object # None /\ object' # None /\ "behind" \notin faults.noted
         => object'.version >= object.version]_vars

(* A local claim is only deleted once its StatefulSet is gone: the pods    *)
(* that write to it go first. A call without an answer may do so later, or *)
(* make the StatefulSet again in between.                                  *)
ClaimsAfterSet ==
    [][tserver # None /\ object # None /\ "late" \notin faults.noted \cup faults'.noted
         => \A c \in volumes \ volumes' : c \notin {d.name : d \in ToSet(object.claims)}]_vars

(* In the end the object exists exactly if the TServer asks for this kind, *)
(* and follows it, through restarts, takeovers by a controller that is     *)
(* behind, failures and deletions by others that are heard of; unless,     *)
(* since the worker was last done with the key, somebody has edited the    *)
(* object, a call without an answer has landed or a deletion came as a     *)
(* tombstone, or the worker was done with an old copy, or it panics.       *)
RollsOut ==
    <>[](faults.noted \subseteq {"behind"} =>
           IF Wanted(tserver) THEN object # None /\ Follows(tserver.spec, object)
           ELSE object = None)
=============================================================================
