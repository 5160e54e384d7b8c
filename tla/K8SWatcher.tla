------------------------------ MODULE K8SWatcher ------------------------------
(***************************************************************************)
(* The list-and-watch client of the C++ servers (LibK8SClient/K8SWatcher)  *)
(* with the maps the servers keep from it (Storage) and the start of a     *)
(* server, which waits for the watches to be in sync.                      *)
(*                                                                         *)
(* The API server is external: `history` is the sequence of its states,    *)
(* one for each resource version; version v is the write that turned       *)
(* history[v-1] into history[v], and an object holds the version of its    *)
(* last write (Absent: no such object).  Versions before `compacted` are   *)
(* no longer known to it.                                                  *)
(*                                                                         *)
(* All sessions run on one thread (ioContext_.run), so that a completion   *)
(* handler is one step; a watch response is handled event by event, since  *)
(* a reader may take the read lock between two of them.                    *)
(***************************************************************************)
EXTENDS Integers, Sequences, FiniteSets

CONSTANTS Watches,      \* the addWatch calls of the server
          Names,        \* objects of each watched resource
          Limit,        \* limit_: objects on a page of a list
          Servers,      \* which servers' main functions are looked at
          Faults,       \* {"broken", "restart", "overtime"} that may happen
          MaxVersion, MaxFaults

ASSUME WatcherAssumption ==
    /\ Limit \in Nat \ {0} /\ MaxVersion \in Nat \ {0} /\ MaxFaults \in Nat
    /\ Servers \subseteq {"registry", "config", "notify"}
    /\ IsFiniteSet(Watches) /\ IsFiniteSet(Names)

Absent == 0
NoObject == [n \in Names |-> Absent]

VARIABLES
    history, compacted, \* the API server
    server,             \* whose process this is
    main,               \* its main thread: "waiting", "serving"
    waitSyncCount,      \* K8SWatcher::waitSyncCount_
    phase,              \* per session: the handler it waits for
    continue,           \* continue_: the snapshot and what it has left
    newestVersion,      \* newestVersion_
    stream,             \* the watch response being read
    cache, served,      \* Storage: cacheTEs_ and tes_
    resumed,            \* history: the list began in the middle
    faults

api == <<history, compacted>>
session == <<phase, continue, newestVersion, stream, cache, served, resumed>>
vars == <<api, server, main, waitSyncCount, session, faults>>

-----------------------------------------------------------------------------
(* The API server. *)

Version == Len(history)

Changed(v, w) == {n \in Names : history[v][w][n] # history[v - 1][w][n]}

(* The versions of the events of w that turn version `from` into `to`. *)
EventsOf(w, from, to) == {v \in from + 1 .. to : Changed(v, w) # {}}

(* Create, update or delete an object of w. *)
Write(w, n) ==
    /\ Version < MaxVersion
    /\ \E value \in {Absent, Version + 1} :
         /\ value # history[Version][w][n]
         /\ history' = Append(history, [history[Version] EXCEPT ![w][n] = value])
    /\ UNCHANGED <<compacted, server, main, waitSyncCount, session, faults>>

(* A write elsewhere: a version without an event for any watch here. *)
WriteElsewhere ==
    /\ Version < MaxVersion
    /\ history' = Append(history, history[Version])
    /\ UNCHANGED <<compacted, server, main, waitSyncCount, session, faults>>

Compact ==
    /\ compacted < Version
    /\ compacted' = Version
    /\ UNCHANGED <<history, server, main, waitSyncCount, session, faults>>

-----------------------------------------------------------------------------
(* Sessions. *)

NoContinue == [at |-> 0, left |-> {}]

(* A response: up to where events were sent, the versions of those in the  *)
(* body, of those left to dispatch, and the 410 that ends the body.        *)
NoStream == [sent |-> 0, body |-> {}, left |-> {}, gone |-> "no", done |-> FALSE]

(* onError of the registry answers false, that of the others true. *)
Again == server # "registry"

Fault(kind) ==
    /\ kind \in Faults
    /\ faults < MaxFaults
    /\ faults' = faults + 1

Goto(w, p) == phase' = [phase EXCEPT ![w] = p]

(* afterError: counted as synced, then started again if onError says so. *)
AfterError(w) ==
    /\ waitSyncCount' = waitSyncCount - 1
    /\ Goto(w, IF Again THEN "erred" ELSE "failed")

(* addWatch(callback_): a new session with the setting as it is now. *)
AddWatch(w) ==
    /\ phase[w] = "erred"
    /\ waitSyncCount' = waitSyncCount + 1
    /\ Goto(w, "connecting")
    /\ stream' = [stream EXCEPT ![w] = NoStream]
    /\ UNCHANGED <<api, server, main, continue, newestVersion, cache, served,
                   resumed, faults>>

PreList(w) == cache' = [cache EXCEPT ![w] = NoObject]

(* Connected and shaken hands: preList, then the first list request. *)
Connect(w) ==
    /\ phase[w] = "connecting"
    /\ PreList(w)
    /\ resumed' = [resumed EXCEPT ![w] = continue[w].left # {}]
    /\ Goto(w, "listing")
    /\ UNCHANGED <<api, server, main, waitSyncCount, continue, newestVersion,
                   stream, served, faults>>

(* The 410 is in the body, and is still to dispatch: for the first time,   *)
(* or "again".                                                             *)
GoneAhead(w) == stream[w].gone \in {"ahead", "again"}

(* async_read_some is waited for: what was read before is dispatched.      *)
Reading(w) == phase[w] = "watching" /\ stream[w].left = {} /\ ~ GoneAhead(w)

(* The connection fails, or a response is not what was asked for.          *)
Broken(w) ==
    /\ phase[w] \in {"connecting", "listing", "watching"}
    /\ phase[w] = "watching" => Reading(w)
    /\ Fault("broken")
    /\ AfterError(w)
    /\ UNCHANGED <<api, server, main, continue, newestVersion, stream, cache,
                   served, resumed>>

(* Mutant: a list may be answered from a cache of the API server's past. *)
SnapshotMutant(w) ==
    IF continue[w].left # {} THEN continue[w]
    ELSE [at |-> compacted,
          left |-> {n \in Names : history[compacted][w][n] # Absent}]

(* What a list request is answered from: the present state, or for a       *)
(* request with a continue token the snapshot the list began with.         *)
Snapshot(w) ==
    IF continue[w].left # {} THEN continue[w]
    ELSE [at |-> Version,
          left |-> {n \in Names : history[Version][w][n] # Absent}]

(* Which objects a page holds depends on their keys: any Limit of them.    *)
Pages(left) ==
    {page \in SUBSET left :
        Cardinality(page) = IF Cardinality(left) < Limit THEN Cardinality(left) ELSE Limit}

Listed(w, snap, page) ==
    [n \in Names |-> IF n \in page THEN history[snap.at][w][n] ELSE cache[w][n]]

(* watchUri asks for what came after newestVersion_. *)
WatchFrom(w) == newestVersion'[w]

StartWatch(w) ==
    stream' = [stream EXCEPT ![w] = [NoStream EXCEPT !.sent = WatchFrom(w)]]

(* A page: onAdded for each item into the cache, the version, the token.   *)
ReadPage(w, snap, page) ==
    /\ newestVersion' = [newestVersion EXCEPT ![w] = snap.at]
    /\ LET left == snap.left \ page IN
         continue' = [continue EXCEPT ![w] =
                         IF left = {} THEN NoContinue ELSE [at |-> snap.at, left |-> left]]

MorePages(w) ==
    /\ phase[w] = "listing"
    /\ Snapshot(w).at >= compacted
    /\ \E page \in Pages(Snapshot(w).left) :
         /\ page # Snapshot(w).left
         /\ ReadPage(w, Snapshot(w), page)
         /\ cache' = [cache EXCEPT ![w] = Listed(w, Snapshot(w), page)]
    /\ UNCHANGED <<api, server, main, waitSyncCount, phase, stream, served,
                   resumed, faults>>

(* The last page: postList swaps the maps, the session counts as synced    *)
(* and asks for the watch.                                                 *)
LastPage(w) ==
    /\ phase[w] = "listing"
    /\ Snapshot(w).at >= compacted
    /\ Snapshot(w).left \in Pages(Snapshot(w).left)
    /\ ReadPage(w, Snapshot(w), Snapshot(w).left)
    /\ served' = [served EXCEPT ![w] = Listed(w, Snapshot(w), Snapshot(w).left)]
    /\ cache' = [cache EXCEPT ![w] = NoObject]
    /\ waitSyncCount' = waitSyncCount - 1
    /\ StartWatch(w)
    /\ Goto(w, "watching")
    /\ UNCHANGED <<api, server, main, resumed, faults>>

(* The snapshot is compacted: the answer has no /items.                    *)
ListExpired(w) ==
    /\ phase[w] = "listing"
    /\ Snapshot(w).at < compacted
    /\ AfterError(w)
    /\ UNCHANGED <<api, server, main, continue, newestVersion, stream, cache,
                   served, resumed, faults>>

-----------------------------------------------------------------------------
(* The watch response. *)

(* Body left behind by a 410 that came before the end of the response. *)
Kept(w) == stream[w].gone = "met"

(* A read: some of the events the server has for this request, maybe a     *)
(* bookmark of a version without an event, maybe the end of the response   *)
(* (timeoutSeconds).  An empty last read asks for the next watch at once.  *)
Receive(w, to, bookmark, end) ==
    LET items == EventsOf(w, stream[w].sent, to) \cup (IF bookmark THEN {to} ELSE {})
    IN  /\ Reading(w) /\ ~ Kept(w)
        /\ stream[w].sent >= compacted
        /\ items # {} \/ end
        /\ bookmark => to > stream[w].sent /\ Changed(to, w) = {}
        /\ stream' = [stream EXCEPT ![w] =
              IF items = {} THEN [NoStream EXCEPT !.sent = newestVersion[w]]
              ELSE [sent |-> to, body |-> items, left |-> items, gone |-> "no", done |-> end]]
        /\ UNCHANGED <<api, server, main, waitSyncCount, phase, continue,
                       newestVersion, cache, served, resumed, faults>>

(* What follows is compacted: an ERROR event with code 410, perhaps read   *)
(* together with events sent before, and perhaps before the response ends. *)
ReceiveGone(w, to, end) ==
    LET items == EventsOf(w, stream[w].sent, to)
    IN  /\ Reading(w) /\ ~ Kept(w)
        /\ stream[w].sent < compacted /\ to < compacted
        /\ stream' = [stream EXCEPT ![w] =
              [sent |-> to, body |-> items, left |-> items, gone |-> "ahead", done |-> end]]
        /\ UNCHANGED <<api, server, main, waitSyncCount, phase, continue,
                       newestVersion, cache, served, resumed, faults>>

(* The response ends after the 410: the body was not cleared and is        *)
(* dispatched once more from its first event.                              *)
ReceiveEnd(w) ==
    /\ Reading(w) /\ Kept(w)
    /\ stream' = [stream EXCEPT ![w].left = stream[w].body, ![w].gone = "again",
                                ![w].done = TRUE]
    /\ UNCHANGED <<api, server, main, waitSyncCount, phase, continue,
                   newestVersion, cache, served, resumed, faults>>

(* Mutant: an erased object stays in the map. *)
ApplyMutant(w, v) ==
    [n \in Names |-> IF n \in Changed(v, w) /\ history[v][w][n] # Absent
                     THEN history[v][w][n] ELSE served[w][n]]

(* onAdded, onModified and onDeleted, under the write lock.  A bookmark is *)
(* of a version that changed nothing.                                      *)
Apply(w, v) ==
    [n \in Names |-> IF n \in Changed(v, w) THEN history[v][w][n] ELSE served[w][n]]

(* Event v is the next one of the body. *)
Item(w, v) ==
    /\ phase[w] = "watching"
    /\ v \in stream[w].left /\ \A u \in stream[w].left : v <= u

(* dispatchEvent; after the last event of the body it is cleared, and the  *)
(* next watch is asked for when the response is done.                      *)
DispatchEvent(w, v) ==
    /\ Item(w, v)
    /\ newestVersion' = [newestVersion EXCEPT ![w] = v]
    /\ served' = [served EXCEPT ![w] = Apply(w, v)]
    /\ IF stream[w].left # {v} \/ GoneAhead(w)
       THEN stream' = [stream EXCEPT ![w].left = @ \ {v}]
       ELSE IF stream[w].done
       THEN StartWatch(w)
       ELSE stream' = [stream EXCEPT ![w].body = {}, ![w].left = {}]
    /\ UNCHANGED <<api, server, main, waitSyncCount, phase, continue, cache,
                   resumed, faults>>

Dispatch(w) == \E v \in stream[w].left : DispatchEvent(w, v)

DispatchingGone(w) == phase[w] = "watching" /\ stream[w].left = {} /\ GoneAhead(w)

(* Mutant: after a 410 the watch is asked for again, with the version it had. *)
DispatchGoneMutant(w) ==
    /\ DispatchingGone(w)
    /\ IF stream[w].done
       THEN stream' = [stream EXCEPT ![w] = [NoStream EXCEPT !.sent = newestVersion[w]]]
       ELSE stream' = [stream EXCEPT ![w].gone = "met"]
    /\ UNCHANGED <<api, server, main, waitSyncCount, phase, continue, newestVersion,
                   cache, served, resumed, faults>>

(* ERROR 410: list again, or read on when the response is not done yet. *)
DispatchGone(w) ==
    /\ DispatchingGone(w)
    /\ IF stream[w].done
       THEN /\ PreList(w)
            /\ resumed' = [resumed EXCEPT ![w] = FALSE]
            /\ Goto(w, "listing")
            /\ stream' = [stream EXCEPT ![w] = NoStream]
       ELSE /\ stream' = [stream EXCEPT ![w].gone = "met"]
            /\ UNCHANGED <<cache, resumed, phase>>
    /\ UNCHANGED <<api, server, main, waitSyncCount, continue, newestVersion,
                   served, faults>>

-----------------------------------------------------------------------------
(* The main thread. *)

(* The process starts: addWatch for each watch, then waitSync (the notify  *)
(* server does not wait).                                                  *)
Start ==
    /\ main' = IF server = "notify" THEN "serving" ELSE "waiting"
    /\ waitSyncCount' = Cardinality(Watches)
    /\ phase' = [w \in Watches |-> "connecting"]
    /\ continue' = [w \in Watches |-> NoContinue]
    /\ newestVersion' = [w \in Watches |-> 0]
    /\ stream' = [w \in Watches |-> NoStream]
    /\ cache' = [w \in Watches |-> NoObject]
    /\ served' = [w \in Watches |-> NoObject]
    /\ resumed' = [w \in Watches |-> FALSE]

WaitSync ==
    /\ main = "waiting"
    /\ waitSyncCount = 0
    /\ main' = "serving"
    /\ UNCHANGED <<api, server, waitSyncCount, session, faults>>

(* waitSync gives up: the config server serves all the same. *)
ServeUnsynced ==
    /\ main = "waiting" /\ waitSyncCount # 0
    /\ server = "config"
    /\ Fault("overtime")
    /\ main' = "serving"
    /\ UNCHANGED <<api, server, waitSyncCount, session>>

(* The registry exits and is started again; any process may be.            *)
Restart ==
    /\ \/ main = "waiting" /\ waitSyncCount # 0 /\ server = "registry" /\ Fault("overtime")
       \/ Fault("restart")
    /\ Start
    /\ UNCHANGED <<api, server>>

-----------------------------------------------------------------------------
Init ==
    /\ history \in {<<s>> : s \in [Watches -> [Names -> {Absent, 1}]]}
    /\ compacted = 1
    /\ server \in Servers
    /\ main = IF server = "notify" THEN "serving" ELSE "waiting"
    /\ waitSyncCount = Cardinality(Watches)
    /\ phase = [w \in Watches |-> "connecting"]
    /\ continue = [w \in Watches |-> NoContinue]
    /\ newestVersion = [w \in Watches |-> 0]
    /\ stream = [w \in Watches |-> NoStream]
    /\ cache = [w \in Watches |-> NoObject]
    /\ served = [w \in Watches |-> NoObject]
    /\ resumed = [w \in Watches |-> FALSE]
    /\ faults = 0

Session(w) ==
    \/ AddWatch(w) \/ Connect(w) \/ MorePages(w) \/ LastPage(w) \/ ListExpired(w)
    \/ Dispatch(w) \/ DispatchGone(w) \/ ReceiveEnd(w)
    \/ \E to \in stream[w].sent .. Version, end \in BOOLEAN :
         \/ \E bookmark \in BOOLEAN : Receive(w, to, bookmark, end)
         \/ ReceiveGone(w, to, end)

Next ==
    \/ \E w \in Watches, n \in Names : Write(w, n)
    \/ WriteElsewhere \/ Compact
    \/ \E w \in Watches : Session(w) \/ Broken(w)
    \/ WaitSync \/ ServeUnsynced \/ Restart

Spec == Init /\ [][Next]_vars

(* The io thread runs, the API server answers and sends what it has. *)
Fairness ==
    \A w \in Watches :
        /\ WF_vars(AddWatch(w)) /\ WF_vars(Connect(w))
        /\ WF_vars(MorePages(w) \/ LastPage(w) \/ ListExpired(w))
        /\ WF_vars(Dispatch(w) \/ DispatchGone(w))
        /\ SF_vars(ReceiveEnd(w) \/ Receive(w, Version, FALSE, FALSE)
                                \/ ReceiveGone(w, stream[w].sent, FALSE))

FairSpec == Spec /\ Fairness

-----------------------------------------------------------------------------
(* Properties. *)

States == [Names -> 0 .. MaxVersion]

(* Every variable keeps its shape: the counters of the API server and of   *)
(* the sessions stay in range, a token names existing objects only.        *)
TypeOK ==
    /\ history \in Seq([Watches -> States]) /\ Version \in 1 .. MaxVersion
    /\ compacted \in 1 .. Version
    /\ server \in Servers /\ main \in {"waiting", "serving"}
    /\ waitSyncCount \in Int /\ faults \in 0 .. MaxFaults
    /\ phase \in [Watches -> {"connecting", "listing", "watching", "erred", "failed"}]
    /\ continue \in [Watches -> [at : 0 .. MaxVersion, left : SUBSET Names]]
    /\ newestVersion \in [Watches -> 0 .. MaxVersion]
    /\ stream \in [Watches -> [sent : 0 .. MaxVersion, body : SUBSET (1 .. MaxVersion),
                               left : SUBSET (1 .. MaxVersion),
                               gone : {"no", "ahead", "met", "again"}, done : BOOLEAN]]
    /\ cache \in [Watches -> States] /\ served \in [Watches -> States]
    /\ resumed \in [Watches -> BOOLEAN]

(* The body is dispatched a second time after a 410 (see ReceiveEnd). *)
Redelivering(w) == stream[w].gone = "again"

(* While a session watches, the map its server answers from is exactly     *)
(* what the API server held at newestVersion_, the version the next watch  *)
(* will be asked from: no event is missed between a list and its watch, or *)
(* between two watches, none is applied to the wrong map, and no list is   *)
(* served in part.  Two cases are left out, in which the code does not     *)
(* keep it: a list resumed by a new session from a token whose first pages *)
(* went with the cache of the old one, and a body that a 410 left behind.  *)
ServedInStep ==
    \A w \in Watches :
        phase[w] = "watching" /\ ~ resumed[w] /\ ~ Redelivering(w)
            => served[w] = history[newestVersion[w]][w]

(* Within a process the version a map is at never goes back, through lists *)
(* after a 410, new sessions and ends of a response, but for a body that   *)
(* is dispatched twice.                                                    *)
NeverGoesBack ==
    [][\A w \in Watches :
           newestVersion'[w] < newestVersion[w]
               => Redelivering(w) \/ phase'[w] = "connecting"]_vars

(* When the writes cease the map gets to be what the API server holds and  *)
(* stays so, whatever broke, was compacted or ended on the way; unless     *)
(* onError declined a new session, as the registry's does, or a list was   *)
(* resumed.                                                                *)
CatchesUp ==
    \A w \in Watches :
        <>[](\/ served[w] = history[Version][w]
             \/ phase[w] = "failed"
             \/ resumed[w])
=============================================================================
