--------------------------- MODULE WorkloadProofs ---------------------------
(***************************************************************************)
(* Theorems about Workload, for any TServer specs, faults and bounds.      *)
(*                                                                         *)
(* Nothing is known of the fields that users fill in, and an update of an  *)
(* object is an EXCEPT: the invariant says which fields there are.         *)
(***************************************************************************)
EXTENDS Workload, TLAPS

TServers == [uid : Nat, version : Nat, going : BOOLEAN, spec : Specs]

(* The fields of an object that the reconcilers judge it by. *)
Meta == {"owner", "version", "going"}

(* A controller has taken over that had not heard of an edit. *)
TookOverBehind == "behind" \in faults.noted

(* A version there has been, no later than the TServer that the controller *)
(* reads.                                                                  *)
Bounded(v) ==
    /\ v \in Nat /\ v < edits
    /\ ~TookOverBehind /\ seen # None => v <= seen.version

IsTServer(t) ==
    t # None => t \in TServers /\ t.uid <= t.version /\ t.version < edits

TServerOK(t) == IsTServer(t) /\ (t # None => Bounded(t.version))

(* The TServer there is bears the last edit. *)
Present(t) == IsTServer(t) /\ (t # None => t.version = edits - 1)

ObjectOK(o) ==
    o # None => Meta \subseteq DOMAIN o /\ o.owner \in 0..o.version /\ Bounded(o.version)

(* What a caller has read: both copies at a time, and the object is not    *)
(* ahead of the TServer.                                                   *)
CallOK(c) ==
    /\ DOMAIN c = {"pc", "tserver", "object"}
    /\ c.pc \in {"idle", "call", "claims"}
    /\ TServerOK(c.tserver) /\ ObjectOK(c.object)
    /\ ~TookOverBehind /\ c.tserver # None /\ c.object # None
         => c.object.version <= c.tserver.version

(* What the next controller knows: the last edit, if it has heard of it.   *)
StandbyOK ==
    standby # None =>
        /\ standby.heard \in 0..edits
        /\ IsTServer(standby.tserver) /\ ObjectOK(standby.object)
        /\ standby.heard = edits => Present(standby.tserver)

(* A copy with the object's resourceVersion is the object, and an idle     *)
(* worker has none.                                                        *)
FreshIsSame ==
    /\ fresh \subseteq Caches
    /\ "known" \in fresh => known = object
    /\ "standby" \in fresh /\ standby # None => standby.object = object
    /\ "work" \in fresh => work.object = object
    /\ "late" \in fresh => late.object = object
    /\ work.pc = "idle" => "work" \notin fresh

Noted == {"stale", "edit", "late", "unheard", "panic", "behind"}
FaultCounts == [count : 0..MaxFaults, noted : SUBSET Noted]

Counted ==
    /\ kind \in Kinds
    /\ deleted \subseteq Informers /\ queued \in BOOLEAN
    /\ edits \in 0..MaxEdits
    /\ faults \in FaultCounts

VersionInv ==
    /\ Present(tserver) /\ TServerOK(seen)
    /\ ObjectOK(object) /\ ObjectOK(known)
    /\ CallOK(work) /\ CallOK(late)
    /\ StandbyOK
    /\ FreshIsSame
    /\ Counted

LEMMA VersionInvTypes == VersionInv => TypeOK
BY DEF VersionInv, Present, TServerOK, IsTServer, ObjectOK, CallOK, FreshIsSame, Counted,
       FaultCounts, Noted, Bounded, TServers, Caches, TypeOK

-----------------------------------------------------------------------------
(* The translator *)

LEMMA KindCases == Counted => kind \in {"StatefulSet", "DaemonSet", "Service"}
BY KindAssumption DEF Counted, FaultCounts

(* An object is built with the uid and the version of its TServer. *)
LEMMA BuildMeta ==
    ASSUME Counted, NEW t, NEW ports
    PROVE  /\ Meta \subseteq DOMAIN Build(t, ports)
           /\ Build(t, ports).owner = t.uid
           /\ Build(t, ports).version = t.version
BY KindCases DEF Build, BuildStatefulSet, BuildDaemonSet, BuildService, Meta

(* An update leaves its owner, and takes the TServer's version over. *)
LEMMA SyncMeta ==
    ASSUME Counted, NEW t, NEW o, Meta \subseteq DOMAIN o, NEW ports
    PROVE  /\ Meta \subseteq DOMAIN Sync(t, o, ports)
           /\ Sync(t, o, ports).owner = o.owner
           /\ Sync(t, o, ports).version = t.version
BY KindCases DEF Sync, SyncStatefulSet, SyncDaemonSet, SyncService, Meta

(* So does somebody else's edit, which leaves the version too. *)
LEMMA DriftMeta ==
    ASSUME Meta \subseteq DOMAIN object, NEW o \in Drifted
    PROVE  /\ Meta \subseteq DOMAIN o
           /\ o.owner = object.owner
           /\ o.version = object.version
BY DEF Drifted, Meta

LEMMA GoingMeta ==
    ASSUME Meta \subseteq DOMAIN object, NEW o, o = [object EXCEPT !.going = TRUE]
    PROVE  /\ Meta \subseteq DOMAIN o
           /\ o.owner = object.owner
           /\ o.version = object.version
BY DEF Meta

-----------------------------------------------------------------------------
(* The calls *)

(* A write changes the object, and then every copy is stale, or nothing.   *)
LEMMA WriteStep ==
    ASSUME NEW o, NEW rest, Write(o, rest)
    PROVE  /\ \/ object' = object /\ fresh' \subseteq fresh
              \/ object' = o /\ fresh' = {}
           /\ fresh' \subseteq rest
           /\ deleted' \in {deleted, Informers}
BY DEF Write

(* What a step may make of the object: nothing else but one that is as it  *)
(* should be and no older, and then every copy is stale.                   *)
Forward ==
    \/ object' = object /\ fresh' \subseteq fresh
    \/ object' = None /\ fresh' = {}
    \/ /\ object' # None /\ fresh' = {}
       /\ Meta \subseteq DOMAIN object' /\ object'.owner \in 0..object'.version
       /\ Bounded(object'.version)
       /\ ~TookOverBehind /\ object # None => object'.version >= object.version

(* A caller's calls, made at once or late. An update is refused unless the *)
(* caller's copy is the object, which then was read together with a        *)
(* TServer at least as new as the one it was made from.                    *)
LEMMA CallStep ==
    ASSUME VersionInv, NEW c, CallOK(c), NEW holder, holder \in fresh => c.object = object,
           NEW rest,
           \/ CallDelete(c, rest) \/ CallCreate(c, rest) \/ CallUpdate(c, holder, rest)
           \/ CallCollect(c, rest)
    PROVE  Forward /\ fresh' \subseteq rest /\ (deleted' \in {deleted, Informers})
<1>1. Counted /\ ObjectOK(object)
    BY DEF VersionInv
<1>2. CASE CallDelete(c, rest)
    BY <1>2, WriteStep DEF CallDelete, Forward
<1>3. CASE CallCreate(c, rest)
    <2>1. PICK ports \in ContainerPorts(c.tserver.spec) :
                Write(IF object = None THEN Build(c.tserver, ports) ELSE object, rest)
        BY <1>3 DEF CallCreate
    <2>2. CASE object # None
        <3>1. Write(object, rest)
            BY <2>1, <2>2
        <3> QED BY <2>2, <3>1, <1>1, WriteStep DEF Forward, ObjectOK, Bounded
    <2>3. CASE object = None
        <3> DEFINE new == Build(c.tserver, ports)
        <3> HIDE DEF new
        <3>1. Write(new, rest)
            BY <2>1, <2>3 DEF new
        <3>2. c.tserver # None /\ TServerOK(c.tserver)
            BY <1>3 DEF CallCreate, Missing, Wanted, CallOK
        <3>3. /\ c.tserver \in TServers /\ c.tserver.uid <= c.tserver.version
              /\ Bounded(c.tserver.version)
            BY <3>2 DEF TServerOK, IsTServer
        <3>4. Meta \subseteq DOMAIN new /\ new.owner = c.tserver.uid /\ new.version = c.tserver.version
            BY <1>1, BuildMeta DEF new
        <3>5. new.owner \in 0..new.version /\ Bounded(new.version)
            BY <3>3, <3>4 DEF TServers
        <3> QED BY <2>3, <3>1, <3>4, <3>5, WriteStep DEF Forward
    <2> QED BY <2>2, <2>3
<1>4. CASE CallUpdate(c, holder, rest)
    <2>1. PICK ports \in ContainerPorts(c.tserver.spec) :
                Write(IF holder \in fresh THEN Sync(c.tserver, c.object, ports) ELSE object, rest)
        BY <1>4 DEF CallUpdate
    <2>2. CASE holder \notin fresh
        <3>1. Write(object, rest)
            BY <2>1, <2>2
        <3> QED BY <3>1, <1>1, WriteStep DEF Forward, ObjectOK, Bounded
    <2>3. CASE holder \in fresh
        <3> DEFINE new == Sync(c.tserver, c.object, ports)
        <3> HIDE DEF new
        <3>1. Write(new, rest) /\ c.object = object
            BY <2>1, <2>3 DEF new
        <3>2. /\ c.tserver # None /\ TServerOK(c.tserver)
              /\ c.object # None /\ ObjectOK(c.object) /\ c.object.owner = c.tserver.uid
              /\ ~TookOverBehind => c.object.version <= c.tserver.version
            BY <1>4 DEF CallUpdate, Synced, Kept, Wanted, CallOK
        <3>3. /\ c.tserver \in TServers /\ c.tserver.uid <= c.tserver.version
              /\ Bounded(c.tserver.version)
            BY <3>2 DEF TServerOK, IsTServer
        <3>4. Meta \subseteq DOMAIN c.object
            BY <3>2 DEF ObjectOK
        <3>5. Meta \subseteq DOMAIN new /\ new.owner = c.tserver.uid /\ new.version = c.tserver.version
            BY <1>1, <3>2, <3>4, SyncMeta DEF new
        <3>6. new.owner \in 0..new.version /\ Bounded(new.version)
            BY <3>3, <3>5 DEF TServers
        <3>7. ~TookOverBehind /\ object # None => new.version >= object.version
            BY <3>1, <3>2, <3>3, <3>5 DEF TServers, ObjectOK, Bounded
        <3> QED BY <3>1, <3>5, <3>6, <3>7, WriteStep DEF Forward
    <2> QED BY <2>2, <2>3
<1>5. CASE CallCollect(c, rest)
    BY <1>5 DEF CallCollect, Forward
<1> QED BY <1>2, <1>3, <1>4, <1>5

(* What users and the controllers of Kubernetes do to the object. *)
LEMMA OthersStep ==
    ASSUME VersionInv, EditObject \/ DeleteObject \/ BuryObject \/ Collected
    PROVE  Forward /\ deleted' \in {deleted, Informers, Informers \ {"known"}}
<1>1. object # None /\ ObjectOK(object)
    BY DEF VersionInv, EditObject, DeleteObject, BuryObject, Collected
<1>2. /\ Meta \subseteq DOMAIN object /\ object.owner \in 0..object.version
      /\ Bounded(object.version) /\ object.version \in Nat
    BY <1>1 DEF ObjectOK, Bounded
<1>3. ASSUME NEW o, Write(o, Caches), Meta \subseteq DOMAIN o, o.owner = object.owner,
             o.version = object.version
      PROVE  Forward
    BY <1>2, <1>3, WriteStep DEF Forward
<1>4. CASE EditObject
    <2>1. PICK o \in Drifted : Write(o, Caches)
        BY <1>4 DEF EditObject
    <2> QED BY <1>2, <1>3, <2>1, DriftMeta, WriteStep
<1>5. CASE Write(None, Caches)
    BY <1>5, WriteStep DEF Forward
<1>6. ASSUME NEW o, o = [object EXCEPT !.going = TRUE], Write(o, Caches)
      PROVE  Forward /\ (deleted' \in {deleted, Informers})
    BY <1>2, <1>3, <1>6, GoingMeta, WriteStep
<1>7. CASE BuryObject
    BY <1>7 DEF BuryObject, Forward
<1> QED BY <1>4, <1>5, <1>6, <1>7, WriteStep DEF DeleteObject, Collected

-----------------------------------------------------------------------------
(* The invariant, step by step *)

(* What is noted of a takeover stays. *)
FaultsGo == faults' \in FaultCounts /\ (TookOverBehind => TookOverBehind')

LEMMA FaultTyped ==
    ASSUME Counted, NEW what, Fault(what)
    PROVE  FaultsGo
BY BoundAssumption DEF Counted, FaultCounts, Fault, FaultsGo, TookOverBehind

LEMMA NoteTyped ==
    ASSUME Counted, NEW what \in SUBSET Noted, Note(what)
    PROVE  FaultsGo
BY DEF Counted, FaultCounts, Note, FaultsGo, TookOverBehind

LEMMA DoneTyped ==
    ASSUME Counted, NEW missed \in SUBSET Noted, Done(missed)
    PROVE  FaultsGo
BY DEF Counted, FaultCounts, Done, FaultsGo, TookOverBehind

LEMMA MissedTyped == Missed \in SUBSET Noted
BY DEF Missed, Noted

LEMMA UnchangedFaults ==
    ASSUME Counted, UNCHANGED faults
    PROVE  FaultsGo
BY DEF Counted, FaultsGo, TookOverBehind

(* The bound of a version stands while TServers are neither written nor    *)
(* read.                                                                   *)
LEMMA ObjectForward ==
    ASSUME VersionInv, UNCHANGED apiVars, FaultsGo
    PROVE  /\ Present(tserver)' /\ TServerOK(seen)'
           /\ Forward => ObjectOK(object)'
           /\ known' \in {known, object} => ObjectOK(known)'
           /\ UNCHANGED standby => StandbyOK'
BY DEF VersionInv, apiVars, Present, TServerOK, IsTServer, ObjectOK, Bounded, Forward, FaultsGo,
       StandbyOK

(* A call that goes on has read what it has read. *)
Stays(new, c) ==
    /\ DOMAIN new = DOMAIN c
    /\ new.pc \in {c.pc, "claims"}
    /\ new.tserver = c.tserver /\ new.object = c.object

LEMMA CallsKept ==
    ASSUME VersionInv, UNCHANGED apiVars, FaultsGo
    PROVE  /\ work' = Idle \/ Stays(work', work) => CallOK(work)'
           /\ late' = Idle \/ late' = late \/ late' = work => CallOK(late)'
<1>1. CallOK(work) /\ CallOK(late)
    BY DEF VersionInv
<1>2. ASSUME work' = Idle PROVE CallOK(work)'
    BY <1>2 DEF Idle, CallOK, TServerOK, IsTServer, ObjectOK
<1>3. ASSUME late' = Idle PROVE CallOK(late)'
    BY <1>3 DEF Idle, CallOK, TServerOK, IsTServer, ObjectOK
<1>4. ASSUME Stays(work', work) PROVE CallOK(work)'
    BY <1>1, <1>4 DEF Stays, CallOK, TServerOK, IsTServer, ObjectOK, Bounded, apiVars, FaultsGo
<1>5. ASSUME late' = late \/ late' = work PROVE CallOK(late)'
    BY <1>1, <1>5 DEF CallOK, TServerOK, IsTServer, ObjectOK, Bounded, apiVars, FaultsGo
<1> QED BY <1>2, <1>3, <1>4, <1>5

(* A step that writes the object, and lets the callers go on or be idle.   *)
LEMMA ObjectWritten ==
    ASSUME VersionInv, Forward, UNCHANGED <<kind, apiVars, known, standby>>,
           deleted' \in {deleted, Informers, Informers \ {"known"}}, queued' \in BOOLEAN,
           FaultsGo,
           Stays(work', work) \/ (work' = Idle /\ "work" \notin fresh'),
           late' = late \/ (late' = Idle /\ "late" \notin fresh')
    PROVE  VersionInv'
<1>1. UNCHANGED apiVars /\ known' = known /\ standby' = standby
    OBVIOUS
<1>2. Counted /\ FreshIsSame
    BY DEF VersionInv
<1>3. Counted'
    BY <1>2 DEF Counted, Informers, FaultsGo, apiVars
<1>4. FreshIsSame'
    BY <1>2 DEF FreshIsSame, Forward, Stays
<1> QED BY <1>1, <1>3, <1>4, ObjectForward, CallsKept DEF VersionInv

LEMMA WorkerStep ==
    ASSUME VersionInv, Worker, ~Panic
    PROVE  VersionInv' /\ Forward
<1>1. /\ CallOK(work) /\ ("work" \in fresh => work.object = object)
      /\ FreshIsSame /\ Counted /\ queued \in BOOLEAN
    BY DEF VersionInv, FreshIsSame, Counted
<1>2. /\ UNCHANGED <<kind, apiVars, known, late, standby>>
      /\ work.pc \in {"call", "claims"}
    BY DEF Worker, Dismiss, Create, Wait, Rebuild, DropClaims, Update, Agree, Reads
<1>3. FaultsGo
    BY <1>1, MissedTyped, DoneTyped, UnchangedFaults
       DEF Worker, Dismiss, Create, Wait, Rebuild, DropClaims, Update, Agree
<1>4. ASSUME NEW rest,
             \/ CallDelete(work, rest) \/ CallCreate(work, rest)
             \/ CallUpdate(work, "work", rest) \/ CallCollect(work, rest)
      PROVE  Forward /\ fresh' \subseteq rest /\ deleted' \in {deleted, Informers}
    BY <1>1, <1>4, CallStep
<1>5. ASSUME NEW again \in BOOLEAN, Finish(again)
      PROVE  work' = Idle /\ queued' \in BOOLEAN
    BY <1>1, <1>5 DEF Finish
<1>6. CASE Dismiss \/ Create \/ DropClaims \/ Update
    <2>1. \/ CallDelete(work, Caches \ {"work"}) \/ CallCollect(work, Caches \ {"work"})
          \/ CallCreate(work, Caches \ {"work"})
          \/ CallUpdate(work, "work", Caches \ {"work"})
        BY <1>6 DEF Dismiss, Create, DropClaims, Update
    <2>2. Forward /\ "work" \notin fresh' /\ deleted' \in {deleted, Informers}
        BY <1>4, <2>1
    <2>3. work' = Idle /\ queued' \in BOOLEAN
        BY <1>5, <1>6 DEF Dismiss, Create, DropClaims, Update
    <2> QED BY <1>2, <1>3, <2>2, <2>3, ObjectWritten
<1>7. CASE Wait \/ Agree
    <2>1. Forward /\ "work" \notin fresh' /\ deleted' = deleted
        BY <1>7 DEF Wait, Agree, Forward
    <2>2. work' = Idle /\ queued' \in BOOLEAN
        BY <1>5, <1>7 DEF Wait, Agree
    <2> QED BY <1>2, <1>3, <2>1, <2>2, ObjectWritten
<1>8. CASE Rebuild
    <2>1. Forward /\ deleted' \in {deleted, Informers}
        BY <1>4, <1>8 DEF Rebuild
    <2>2. Stays(work', work)
        BY <1>1, <1>8 DEF Rebuild, Stays, CallOK
    <2>3. queued' = queued
        BY <1>8 DEF Rebuild
    <2> QED BY <1>1, <1>2, <1>3, <2>1, <2>2, <2>3, ObjectWritten
<1> QED BY <1>6, <1>7, <1>8 DEF Worker

(* The caches are read: the object that the worker reads is not ahead of   *)
(* the TServer that it reads.                                              *)
LEMMA TakeStep ==
    ASSUME VersionInv, Take
    PROVE  VersionInv'
<1>1. /\ TServerOK(seen) /\ ObjectOK(known) /\ FreshIsSame /\ Counted
    BY DEF VersionInv
<1>2. /\ UNCHANGED <<kind, apiVars, object, known, deleted, late, standby, faults>>
      /\ queued' = FALSE
      /\ work' = [pc |-> "call", tserver |-> seen, object |-> known]
      /\ fresh' = IF "known" \in fresh THEN fresh \cup {"work"} ELSE fresh
      /\ work = Idle
    BY DEF Take, cacheVars
<1>3. ~TookOverBehind /\ seen # None /\ known # None => known.version <= seen.version
    BY <1>1 DEF ObjectOK, Bounded
<1>4. CallOK(work)'
    BY <1>1, <1>2, <1>3 DEF CallOK, TServerOK, IsTServer, ObjectOK, Bounded, TookOverBehind, apiVars
<1>5. Counted' /\ FaultsGo
    BY <1>1, <1>2, UnchangedFaults DEF Counted, Informers, apiVars
<1>6. UNCHANGED apiVars /\ known' = known /\ late' = late /\ standby' = standby
    BY <1>2
<1>7. ObjectOK(object)'
    BY <1>2, <1>6 DEF VersionInv, ObjectOK, Bounded, TookOverBehind, apiVars
<1>8. FreshIsSame'
    BY <1>1, <1>2 DEF FreshIsSame, Idle, Caches
<1> QED BY <1>4, <1>5, <1>6, <1>7, <1>8, ObjectForward, CallsKept DEF VersionInv

(* What bounds a version bounds it still.                                  *)
LEMMA CopiesBounded ==
    ASSUME VersionInv, \A v \in Nat : Bounded(v) => Bounded(v)', FaultsGo,
           UNCHANGED <<object, known, work, late>>
    PROVE  ObjectOK(object)' /\ ObjectOK(known)' /\ CallOK(work)' /\ CallOK(late)'
BY DEF VersionInv, CallOK, TServerOK, IsTServer, ObjectOK, Bounded, TServers, FaultsGo

LEMMA StandbyBounded ==
    ASSUME VersionInv, \A v \in Nat : Bounded(v) => Bounded(v)', UNCHANGED <<edits, standby>>
    PROVE  StandbyOK'
BY DEF VersionInv, StandbyOK, Present, IsTServer, ObjectOK, Bounded

(* Every version there is, is no later than the last edit: it is bounded   *)
(* by whoever reads that.                                                  *)
LEMMA SeenBounded ==
    ASSUME VersionInv, IsTServer(seen'), UNCHANGED edits, FaultsGo,
           TookOverBehind' \/ Present(seen')
    PROVE  /\ \A v \in Nat : Bounded(v) => Bounded(v)'
           /\ TServerOK(seen)'
<1>1. edits \in Nat
    BY BoundAssumption DEF VersionInv, Counted
<1> QED BY <1>1 DEF VersionInv, Bounded, TServerOK, Present, IsTServer, TServers, FaultsGo

(* A controller takes over: with the last edit, or behind; the worker is   *)
(* idle.                                                                   *)
LEMMA LeadStep ==
    ASSUME VersionInv, Lead, FaultsGo, faults'.noted = faults.noted \cup Behind
                                       \/ faults'.noted = faults.noted \cup ({"panic"} \cup Behind),
           fresh' \subseteq Heir \cup {"late"},
           "late" \in fresh' => late'.object = object,
           late' = late \/ late' = work
    PROVE  VersionInv'
<1>1. /\ work' = Idle /\ queued' \in BOOLEAN /\ standby' = None /\ deleted' \subseteq {"known"}
      /\ UNCHANGED <<kind, tserver, object, edits>>
    BY DEF Lead
<1>2. Present(tserver) /\ StandbyOK /\ FreshIsSame /\ ObjectOK(object) /\ Counted
    BY DEF VersionInv
<1>3. IsTServer(seen') /\ (TookOverBehind' \/ Present(seen'))
    <2>1. CASE standby = None
        BY <1>2, <2>1 DEF Lead, Present
    <2>2. CASE standby # None
        <3>1. seen' = standby.tserver /\ IsTServer(standby.tserver)
            BY <1>2, <2>2 DEF Lead, StandbyOK
        <3>2. CASE standby.heard = edits
            BY <1>2, <2>2, <3>1, <3>2 DEF StandbyOK
        <3>3. CASE standby.heard # edits
            BY <2>2, <3>1, <3>3 DEF Behind, TookOverBehind
        <3> QED BY <3>2, <3>3
    <2> QED BY <2>1, <2>2
<1>4. /\ \A v \in Nat : Bounded(v) => Bounded(v)'
      /\ TServerOK(seen)'
    BY <1>1, <1>3, SeenBounded
<1>5. Present(tserver)'
    BY <1>1, <1>2 DEF Present, IsTServer
<1>6. ObjectOK(object)' /\ ObjectOK(known)'
    <2>1. known' = object \/ (standby # None /\ known' = standby.object)
        BY DEF Lead
    <2>2. ObjectOK(known')
        BY <1>2, <2>1 DEF StandbyOK
    <2> QED BY <1>1, <1>2, <1>4, <2>2 DEF ObjectOK, Bounded
<1>7. CallOK(work)'
    BY <1>1 DEF Idle, CallOK, TServerOK, IsTServer, ObjectOK
<1>8. CallOK(late)'
    <2>1. CallOK(late) /\ CallOK(work)
        BY DEF VersionInv
    <2> QED
        BY <1>1, <1>4, <2>1 DEF CallOK, TServerOK, IsTServer, ObjectOK, Bounded, TServers,
                                FaultsGo
<1>9. FreshIsSame'
    <2>1. "known" \in Heir => known' = object
        BY <1>2 DEF Heir, Lead, FreshIsSame
    <2>2. Heir \subseteq {"known"}
        BY DEF Heir
    <2> QED BY <1>1, <2>1, <2>2 DEF FreshIsSame, Caches
<1>10. Counted' /\ StandbyOK'
    BY <1>1, <1>2 DEF Counted, Informers, FaultsGo, StandbyOK
<1> QED BY <1>4, <1>5, <1>6, <1>7, <1>8, <1>9, <1>10 DEF VersionInv

(* A call without an answer is kept, with what it has read. *)
LEMMA UnansweredStep ==
    ASSUME VersionInv, Fail \/ Restart \/ Panic
    PROVE  VersionInv'
<1>1. Counted /\ FreshIsSame
    BY DEF VersionInv
<1>2. CASE Fail
    <2>1. /\ UNCHANGED <<kind, tserver, seen, edits, object, known, deleted, standby>>
          /\ work' = Idle /\ queued' \in BOOLEAN /\ late' = work
          /\ fresh' = (fresh \ {"work", "late"})
                         \cup (IF "work" \in fresh THEN {"late"} ELSE {})
        BY <1>1, <1>2 DEF Fail, Pend, Finish, apiVars, cacheVars, Counted
    <2>2. FaultsGo
        BY <1>1, <1>2, FaultTyped DEF Fail
    <2>3. FreshIsSame'
        BY <1>1, <2>1 DEF FreshIsSame, Caches
    <2>4. Counted'
        BY <1>1, <2>1, <2>2 DEF Counted, Informers, FaultsGo
    <2>5. UNCHANGED apiVars /\ object' = object /\ standby' = standby
        BY <2>1 DEF apiVars
    <2>6. ObjectOK(object)'
        BY <2>1, <2>2 DEF VersionInv, ObjectOK, Bounded, FaultsGo
    <2> QED BY <2>1, <2>2, <2>3, <2>4, <2>5, <2>6, ObjectForward, CallsKept DEF VersionInv
<1>3. CASE Restart
    <2>1. FaultsGo /\ faults'.noted = faults.noted \cup Behind
        BY <1>1, <1>3, BoundAssumption
           DEF Restart, Counted, FaultCounts, FaultsGo, Noted, Behind, TookOverBehind
    <2>2. /\ fresh' \subseteq Heir \cup {"late"}
          /\ "late" \in fresh' => late'.object = object
          /\ late' = late \/ late' = work
        BY <1>1, <1>3 DEF Restart, FreshIsSame, Heir
    <2> QED BY <1>3, <2>1, <2>2, LeadStep DEF Restart
<1>4. CASE Panic
    <2>1. FaultsGo /\ faults'.noted = faults.noted \cup ({"panic"} \cup Behind)
        <3>1. {"panic"} \cup Behind \in SUBSET Noted
            BY DEF Behind, Noted
        <3> QED BY <1>1, <1>4, <3>1, NoteTyped DEF Panic, Note, Counted, FaultCounts
    <2>2. /\ fresh' \subseteq Heir \cup {"late"}
          /\ "late" \in fresh' => late'.object = object
          /\ late' = late
        BY <1>1, <1>4 DEF Panic, FreshIsSame, Heir
    <2> QED BY <1>4, <2>1, <2>2, LeadStep DEF Panic
<1> QED BY <1>2, <1>3, <1>4

(* The next controller falls behind: it knows the last edit, so far. *)
LEMMA LagStep ==
    ASSUME VersionInv, Lag
    PROVE  VersionInv'
<1>1. Counted /\ FreshIsSame /\ Present(tserver) /\ ObjectOK(object) /\ edits \in Nat
    BY BoundAssumption DEF VersionInv, Counted
<1>2. /\ standby' = [tserver |-> tserver, heard |-> edits, object |-> object]
      /\ fresh' = fresh \cup {"standby"} /\ standby = None
      /\ UNCHANGED <<kind, apiVars, object, known, deleted, queued, work, late>>
    BY DEF Lag, cacheVars
<1>3. FaultsGo
    BY <1>1, FaultTyped DEF Lag
<1>4. ObjectOK(object)'
    BY <1>1, <1>2, <1>3 DEF ObjectOK, Bounded, FaultsGo, apiVars
<1>5. standby' # None => StandbyOK'
    BY <1>1, <1>2, <1>4 DEF StandbyOK, Present, IsTServer, ObjectOK, apiVars
<1>6. StandbyOK'
    BY <1>5 DEF StandbyOK
<1>7. FreshIsSame'
    BY <1>1, <1>2 DEF FreshIsSame, Caches
<1>8. Counted'
    BY <1>1, <1>2, <1>3 DEF Counted, Informers, FaultsGo, apiVars
<1>9. UNCHANGED apiVars /\ known' = known /\ late' = late /\ Stays(work', work)
    BY <1>2 DEF Stays
<1> QED BY <1>3, <1>4, <1>6, <1>7, <1>8, <1>9, ObjectForward, CallsKept DEF VersionInv

LEMMA LandStep ==
    ASSUME VersionInv, Land
    PROVE  VersionInv' /\ Forward
<1>1. /\ CallOK(late) /\ ("late" \in fresh => late.object = object)
      /\ Counted /\ queued \in BOOLEAN
    BY DEF VersionInv, FreshIsSame, Counted
<1>2. \/ CallDelete(late, Caches \ {"late"}) \/ CallCollect(late, Caches \ {"late"})
      \/ CallCreate(late, Caches \ {"late"}) \/ CallUpdate(late, "late", Caches \ {"late"})
    BY DEF Land
<1>3. Forward /\ "late" \notin fresh' /\ (deleted' \in {deleted, Informers})
    BY <1>1, <1>2, CallStep
<1>4. FaultsGo
    BY <1>1, NoteTyped DEF Land, Noted
<1>5. /\ UNCHANGED <<kind, apiVars, known, queued, work, standby>> /\ late' = Idle
    BY DEF Land
<1>6. Stays(work', work)
    BY <1>5 DEF Stays
<1> QED BY <1>1, <1>3, <1>4, <1>5, <1>6, ObjectWritten

(* The informers: the controller's copies catch up, with or without an     *)
(* event.                                                                  *)
LEMMA InformerStep ==
    ASSUME VersionInv, Informer \/ RelistTServer \/ RelistObject
    PROVE  VersionInv'
<1>1. Counted /\ FreshIsSame /\ ObjectOK(object) /\ Present(tserver)
    BY DEF VersionInv
<1>2. FaultsGo
    <2>1. CASE Informer
        BY <1>1, <2>1, UnchangedFaults DEF Informer, SyncTServer, SyncObject
    <2>2. CASE RelistTServer
        BY <1>1, <2>2, FaultTyped DEF RelistTServer
    <2>3. CASE RelistObject
        BY <1>1, <2>3, BoundAssumption
           DEF RelistObject, Counted, FaultCounts, FaultsGo, Noted, TookOverBehind
    <2> QED BY <2>1, <2>2, <2>3
<1>3. CASE SyncTServer \/ RelistTServer
    <2>1. /\ seen' = tserver /\ queued' \in BOOLEAN
          /\ UNCHANGED <<kind, tserver, edits, object, known, deleted, fresh, work, late, standby>>
        BY <1>1, <1>3 DEF SyncTServer, RelistTServer, cacheVars, Counted
    <2>2. Counted' /\ FreshIsSame' /\ Present(tserver)'
        BY <1>1, <1>2, <2>1 DEF Counted, Informers, FaultsGo, FreshIsSame, Present, IsTServer
    <2>3. IsTServer(seen') /\ Present(seen')
        BY <1>1, <2>1 DEF Present
    <2>4. (\A v \in Nat : Bounded(v) => Bounded(v)') /\ TServerOK(seen)'
        BY <1>2, <2>1, <2>3, SeenBounded
    <2> QED BY <1>2, <2>1, <2>2, <2>4, CopiesBounded, StandbyBounded DEF VersionInv
<1>4. CASE SyncObject \/ RelistObject
    <2>1. /\ known' = object /\ fresh' = fresh \cup {"known"}
          /\ queued' \in BOOLEAN /\ deleted' = deleted \ {"known"}
          /\ UNCHANGED <<kind, apiVars, object, work, late, standby>>
        BY <1>1, <1>4 DEF SyncObject, RelistObject, HearObject, Counted
    <2>2. Counted' /\ FreshIsSame'
        BY <1>1, <1>2, <2>1 DEF Counted, Informers, FaultsGo, FreshIsSame, Caches, apiVars
    <2>3. UNCHANGED apiVars /\ ObjectOK(object)'
        BY <1>1, <1>2, <2>1 DEF apiVars, ObjectOK, Bounded, FaultsGo
    <2>4. Stays(work', work)
        BY <2>1 DEF Stays
    <2> QED BY <1>2, <2>1, <2>2, <2>3, <2>4, ObjectForward, CallsKept DEF VersionInv
<1> QED BY <1>3, <1>4 DEF Informer

(* Users write a TServer that is newer than all there is. *)
LEMMA EditStep ==
    ASSUME VersionInv, NEW t, Edit(t),
           t # None => t \in TServers /\ t.uid <= t.version /\ t.version = edits
    PROVE  VersionInv'
<1>1. /\ edits < MaxEdits /\ edits' = edits + 1 /\ tserver' = t
      /\ UNCHANGED <<kind, known, queued, work, late, standby, seen, object, fresh, deleted,
                     faults>>
    BY DEF Edit, Rest
<1>2. /\ Counted /\ FreshIsSame /\ TServerOK(seen) /\ StandbyOK /\ edits \in Nat
    BY BoundAssumption DEF VersionInv, Counted
<1>3. \A v \in Nat : Bounded(v) => Bounded(v)'
    BY <1>1, <1>2 DEF Bounded, TookOverBehind
<1>4. TServerOK(seen)'
    BY <1>1, <1>2, <1>3 DEF TServerOK, IsTServer, TServers
<1>5. Present(tserver)'
    BY <1>1, <1>2 DEF Present, IsTServer, TServers
<1>6. Counted' /\ FreshIsSame' /\ FaultsGo
    BY <1>1, <1>2, BoundAssumption, UnchangedFaults DEF Counted, Informers, FreshIsSame
<1>7. StandbyOK'
    BY <1>1, <1>2, <1>3 DEF StandbyOK, IsTServer, TServers, ObjectOK, Bounded
<1> QED BY <1>1, <1>3, <1>4, <1>5, <1>6, <1>7, CopiesBounded DEF VersionInv

LEMMA TServerStep ==
    ASSUME VersionInv,
           \/ \E spec \in SpecsOf[kind] : CreateTServer(spec) \/ EditTServer(spec)
           \/ DeleteTServer \/ TServerGone
    PROVE  VersionInv'
<1>1. /\ edits \in Nat /\ Present(tserver) /\ IsTServer(tserver) /\ Counted /\ FreshIsSame
    BY BoundAssumption DEF VersionInv, Counted, Present
<1>2. ASSUME NEW spec \in Specs, CreateTServer(spec)
      PROVE  VersionInv'
    <2> DEFINE t == [uid |-> edits, version |-> edits, going |-> FALSE, spec |-> spec]
    <2>1. Edit(t)
        BY <1>2 DEF CreateTServer
    <2>2. t \in TServers /\ t.uid = edits /\ t.version = edits
        BY <1>1 DEF TServers
    <2> HIDE DEF t
    <2> QED BY <1>1, <2>1, <2>2, EditStep
<1>3. ASSUME NEW spec \in Specs, EditTServer(spec)
      PROVE  VersionInv'
    <2> DEFINE t == [tserver EXCEPT !.version = edits, !.spec = spec]
    <2>1. /\ Edit(t) /\ tserver \in TServers /\ tserver.uid <= tserver.version
          /\ tserver.version < edits
        BY <1>1, <1>3 DEF EditTServer, IsTServer
    <2>2. t \in TServers /\ t.uid = tserver.uid /\ t.version = edits
        BY <1>1, <2>1 DEF TServers
    <2>3. t.uid <= t.version
        BY <1>1, <2>1, <2>2 DEF TServers
    <2> HIDE DEF t
    <2> QED BY <2>1, <2>2, <2>3, EditStep
<1>4. CASE DeleteTServer
    <2> DEFINE t == [tserver EXCEPT !.version = edits, !.going = TRUE]
    <2>1. /\ Edit(None) \/ Edit(t)
          /\ tserver \in TServers /\ tserver.uid <= tserver.version /\ tserver.version < edits
        BY <1>1, <1>4 DEF DeleteTServer, IsTServer
    <2>2. t \in TServers /\ t.uid = tserver.uid /\ t.version = edits
        BY <1>1, <2>1 DEF TServers
    <2>3. t.uid <= t.version
        BY <1>1, <2>1, <2>2 DEF TServers
    <2> HIDE DEF t
    <2> QED BY <2>1, <2>2, <2>3, EditStep
<1>5. CASE TServerGone
    <2>1. /\ tserver' = None
          /\ UNCHANGED <<kind, known, queued, work, late, standby, seen, edits, object, fresh,
                         deleted, faults>>
        BY <1>5 DEF TServerGone, Rest
    <2>2. \A v \in Nat : Bounded(v) => Bounded(v)'
        BY <2>1 DEF Bounded, TookOverBehind
    <2>3. Present(tserver)' /\ TServerOK(seen)'
        BY <2>1, <2>2 DEF VersionInv, Present, TServerOK, IsTServer, TServers
    <2>4. Counted' /\ FreshIsSame' /\ FaultsGo
        BY <1>1, <2>1, UnchangedFaults DEF Counted, Informers, FreshIsSame
    <2> QED BY <2>1, <2>2, <2>3, <2>4, CopiesBounded, StandbyBounded DEF VersionInv
<1>6. \A spec \in SpecsOf[kind] : spec \in Specs
    BY <1>1 DEF Counted, Specs
<1> QED BY <1>2, <1>3, <1>4, <1>5, <1>6

LEMMA OthersTyped ==
    ASSUME VersionInv, EditObject \/ DeleteObject \/ BuryObject \/ Collected \/ MakeClaims
    PROVE  VersionInv' /\ Forward
<1>1. Counted /\ queued \in BOOLEAN
    BY DEF VersionInv, Counted
<1>2. /\ UNCHANGED <<kind, apiVars, known, queued, work, late, standby>>
      /\ Forward /\ deleted' \in {deleted, Informers, Informers \ {"known"}}
    BY OthersStep DEF EditObject, DeleteObject, BuryObject, Collected, MakeClaims, Rest, Forward
<1>3. FaultsGo
    <2>1. CASE EditObject \/ BuryObject
        BY <1>1, <2>1, BoundAssumption
           DEF EditObject, BuryObject, Counted, FaultCounts, FaultsGo, Noted, TookOverBehind
    <2>2. CASE DeleteObject
        BY <1>1, <2>2, FaultTyped DEF DeleteObject
    <2>3. CASE Collected \/ MakeClaims
        BY <1>1, <2>3, UnchangedFaults DEF Collected, MakeClaims
    <2> QED BY <2>1, <2>2, <2>3
<1>4. Stays(work', work)
    BY <1>2 DEF Stays
<1> QED BY <1>1, <1>2, <1>3, <1>4, ObjectWritten

LEMMA VersionInit == Init => VersionInv
<1> SUFFICES ASSUME Init PROVE VersionInv
    OBVIOUS
<1>1. Counted
    <2>1. deleted \subseteq Informers /\ queued \in BOOLEAN /\ kind \in Kinds
        BY DEF Init
    <2>2. edits \in 0..MaxEdits /\ 0 \in 0..MaxFaults
        BY BoundAssumption DEF Init
    <2> QED BY <2>1, <2>2 DEF Init, Counted, FaultCounts
<1>2. FreshIsSame
    BY DEF Init, FreshIsSame, Caches
<1>3. CallOK(work) /\ CallOK(late)
    BY DEF Init, Idle, CallOK, TServerOK, IsTServer, ObjectOK
<1>4. StandbyOK
    BY DEF Init, StandbyOK
<1> QED BY <1>1, <1>2, <1>3, <1>4 DEF Init, VersionInv, Present, IsTServer, TServerOK, ObjectOK

(* Every step keeps the invariant, and leaves the object, or one no older. *)
LEMMA VersionStep ==
    ASSUME VersionInv, [Next]_vars
    PROVE  VersionInv' /\ (object' = object \/ Forward)
<1>1. CASE Begin \/ Touch
    BY <1>1, TakeStep DEF Begin, Touch, Take
<1>2. CASE Worker /\ ~Panic
    BY <1>2, WorkerStep
<1>3. CASE Fail \/ Restart \/ Panic \/ Lag
    BY <1>3, UnansweredStep, LagStep DEF Fail, Restart, Panic, Lead, Lag
<1>4. CASE Informer \/ RelistTServer \/ RelistObject
    BY <1>4, InformerStep
       DEF Informer, SyncTServer, SyncObject, RelistTServer, RelistObject, HearObject
<1>5. CASE Land
    BY <1>5, LandStep
<1>6. CASE \/ \E spec \in SpecsOf[kind] : CreateTServer(spec) \/ EditTServer(spec)
           \/ DeleteTServer \/ TServerGone
    BY <1>6, TServerStep DEF CreateTServer, EditTServer, DeleteTServer, TServerGone, Edit
<1>7. CASE EditObject \/ DeleteObject \/ BuryObject \/ Collected \/ MakeClaims
    BY <1>7, OthersTyped
<1>8. CASE UNCHANGED vars
    <2>1. UNCHANGED <<kind, tserver, seen, object, known, fresh, deleted, queued, work, late,
                      standby, edits, faults>>
        BY <1>8 DEF vars
    <2>2. FaultsGo /\ UNCHANGED apiVars /\ Stays(work', work)
        BY <2>1, UnchangedFaults DEF VersionInv, apiVars, Stays
    <2>3. ObjectOK(object)'
        BY <2>1 DEF VersionInv, ObjectOK, Bounded, TookOverBehind
    <2>4. FreshIsSame' /\ Counted'
        BY <2>1 DEF VersionInv, FreshIsSame, Counted, Informers
    <2> QED BY <2>1, <2>2, <2>3, <2>4, ObjectForward, CallsKept DEF VersionInv
<1> QED BY <1>1, <1>2, <1>3, <1>4, <1>5, <1>6, <1>7, <1>8 DEF Next, Worker

LEMMA VersionInvariance == Spec => []VersionInv
<1>1. VersionInv /\ [Next]_vars => VersionInv'
    BY VersionStep
<1> QED BY <1>1, VersionInit, PTL DEF Spec

(* The variables keep their shape, and every copy, however old, is one of  *)
(* a version there has been, owned by a TServer no newer than itself.      *)
THEOREM TypeCorrect == Spec => []TypeOK
BY VersionInvariance, VersionInvTypes, PTL

(* No write makes an object older than it was: not with a cache that is    *)
(* behind, nor after a restart, nor by a call that lands late; until a     *)
(* controller takes over that has not heard of an edit.                    *)
THEOREM NeverGoesBackHolds == Spec => NeverGoesBack
<1>1. VersionInv /\ [Next]_vars =>
          [object # None /\ object' # None /\ "behind" \notin faults.noted
             => object'.version >= object.version]_vars
    <2> SUFFICES ASSUME VersionInv, [Next]_vars, object # None, object' # None, ~TookOverBehind
                 PROVE  object'.version >= object.version
        BY DEF TookOverBehind
    <2>1. object.version \in Nat
        BY DEF VersionInv, ObjectOK, Bounded
    <2> QED BY <2>1, VersionStep DEF Forward
<1> QED BY <1>1, VersionInvariance, PTL DEF Spec, NeverGoesBack

-----------------------------------------------------------------------------
(* Local claims.                                                           *)
(*                                                                         *)
(* Between the deletion of the StatefulSet and that of its claims nobody   *)
(* else makes one: there is one worker, and only a late call could.        *)

GoneBeforeClaims == work.pc = "claims" /\ "late" \notin faults.noted => object = None

LEMMA GoneStep ==
    ASSUME VersionInv, GoneBeforeClaims, [Next]_vars
    PROVE  GoneBeforeClaims'
<1>1. /\ CallOK(work) /\ Counted
    BY DEF VersionInv
<1>2. CASE Begin \/ Touch
    BY <1>2 DEF Begin, Touch, Take, GoneBeforeClaims
<1>3. CASE Dismiss \/ Create \/ Wait \/ DropClaims \/ Update \/ Agree \/ Panic \/ Fail \/ Restart
    <2>1. work' = Idle
        BY <1>3 DEF Dismiss, Create, Wait, DropClaims, Update, Agree, Panic, Fail, Restart,
                    Finish, Lead
    <2> QED BY <2>1 DEF Idle, GoneBeforeClaims
<1>4. CASE Rebuild
    <2>1. object' = None
        BY <1>4 DEF Rebuild, CallDelete, Write, Alike
    <2> QED BY <2>1 DEF GoneBeforeClaims
<1>5. CASE Land
    BY <1>1, <1>5 DEF Land, Note, Counted, FaultCounts, GoneBeforeClaims
<1>6. CASE \/ Informer \/ RelistTServer \/ RelistObject \/ Lag
           \/ DeleteTServer \/ TServerGone \/ MakeClaims \/ UNCHANGED vars
           \/ \E spec \in SpecsOf[kind] : CreateTServer(spec) \/ EditTServer(spec)
    <2>1. UNCHANGED <<object, work>>
        BY <1>6 DEF Informer, SyncTServer, SyncObject, RelistTServer, RelistObject, HearObject,
                    Lag, DeleteTServer, TServerGone, MakeClaims, CreateTServer, EditTServer, Edit,
                    Rest, vars
    <2>2. faults.noted \subseteq faults'.noted
        <3>1. CASE RelistTServer \/ RelistObject \/ Lag
            BY <1>1, <3>1 DEF RelistTServer, RelistObject, Lag, Fault, Counted, FaultCounts
        <3>2. CASE ~(RelistTServer \/ RelistObject \/ Lag)
            BY <1>6, <3>2 DEF Informer, SyncTServer, SyncObject, DeleteTServer, TServerGone,
                              MakeClaims, CreateTServer, EditTServer, Edit, vars
        <3> QED BY <3>1, <3>2
    <2> QED BY <2>1, <2>2 DEF GoneBeforeClaims
<1>7. CASE EditObject \/ DeleteObject \/ BuryObject \/ Collected
    <2>1. object # None /\ work' = work /\ faults.noted \subseteq faults'.noted
        BY <1>1, <1>7
           DEF EditObject, DeleteObject, BuryObject, Collected, Rest, Fault, Counted, FaultCounts
    <2> QED BY <2>1 DEF GoneBeforeClaims
<1> QED BY <1>2, <1>3, <1>4, <1>5, <1>6, <1>7 DEF Next, Worker

(* A claim is only deleted by a worker that found its StatefulSet gone,    *)
(* and it is gone still, unless a call without an answer has landed.       *)
THEOREM ClaimsAfterSetHolds == Spec => ClaimsAfterSet
<1>1. Init => GoneBeforeClaims
    BY DEF Init, Idle, GoneBeforeClaims
<1>2. VersionInv /\ GoneBeforeClaims /\ [Next]_vars => GoneBeforeClaims'
    BY GoneStep
<1>3. VersionInv /\ GoneBeforeClaims /\ [Next]_vars =>
          [tserver # None /\ object # None /\ "late" \notin faults.noted \cup faults'.noted
             => \A c \in volumes \ volumes' : c \notin {d.name : d \in ToSet(object.claims)}]_vars
    <2> SUFFICES ASSUME VersionInv, GoneBeforeClaims, [Next]_vars, tserver # None,
                        object # None, "late" \notin faults.noted, "late" \notin faults'.noted
                 PROVE  volumes \subseteq volumes'
        OBVIOUS
    <2>1. CASE DropClaims
        BY <2>1 DEF DropClaims, Reads, GoneBeforeClaims
    <2>2. CASE Land
        BY <2>2 DEF Land, Note, VersionInv, Counted, FaultCounts
    <2>3. CASE MakeClaims
        BY <2>3 DEF MakeClaims, Claimed
    <2>4. CASE \/ Begin \/ Touch \/ Dismiss \/ Create \/ Wait \/ Rebuild \/ Update \/ Agree
               \/ Panic \/ Fail \/ Restart \/ Lag
        BY <2>4 DEF Begin, Touch, Take, Dismiss, Create, Wait, Rebuild, Update, Agree, Panic, Fail,
                    Restart, CallDelete, CallCreate, CallUpdate, Lead, Lag
    <2>5. CASE \/ Informer \/ RelistTServer \/ RelistObject \/ TServerGone \/ DeleteTServer
               \/ EditObject \/ DeleteObject \/ BuryObject \/ Collected \/ UNCHANGED vars
               \/ \E spec \in SpecsOf[kind] : CreateTServer(spec) \/ EditTServer(spec)
        BY <2>5 DEF Informer, SyncTServer, SyncObject, RelistTServer, RelistObject, HearObject,
                    TServerGone, DeleteTServer, EditObject, DeleteObject, BuryObject, Collected,
                    CreateTServer, EditTServer, Edit, vars
    <2> QED BY <2>1, <2>2, <2>3, <2>4, <2>5 DEF Next, Worker
<1> QED BY <1>1, <1>2, <1>3, VersionInvariance, PTL DEF Spec, ClaimsAfterSet
=============================================================================
