-------------------------- MODULE K8SWatcherProofs --------------------------
(***************************************************************************)
(* Theorems about K8SWatcher, for any watches, objects, pages, servers,    *)
(* faults and bounds.                                                      *)
(***************************************************************************)
EXTENDS K8SWatcher, FiniteSetTheorems, TLAPS

(* A state of a watched resource lasts until a version changes it.         *)
QuietIsSame ==
    \A w \in Watches, from, to \in 1 .. Version :
        from <= to /\ (\A v \in from + 1 .. to : Changed(v, w) = {})
            => history[to][w] = history[from][w]

(* A token goes on with the snapshot whose version the session is at.      *)
TokenOK(w) ==
    /\ newestVersion[w] \in 0 .. Version
    /\ continue[w].left # {} => continue[w].at = newestVersion[w] /\ newestVersion[w] # 0
    /\ phase[w] = "watching" => continue[w].left = {}

(* What is read of a response comes after the version the session is at,   *)
(* and is all that changed.                                                *)
StreamOK(w) ==
    /\ stream[w].body \cup stream[w].left \subseteq 1 .. Version
    /\ Redelivering(w) => stream[w].done
    /\ phase[w] = "watching" => newestVersion[w] # 0 /\ stream[w].sent <= Version
    /\ phase[w] = "watching" /\ ~ Redelivering(w) =>
           /\ newestVersion[w] <= stream[w].sent
           /\ \A v \in stream[w].left : newestVersion[w] < v /\ v <= stream[w].sent
           /\ \A v \in newestVersion[w] + 1 .. stream[w].sent :
                  Changed(v, w) # {} => v \in stream[w].left

(* The map that is filled holds the pages read so far, and no others.      *)
CacheOK(w) ==
    phase[w] = "listing" /\ ~ resumed[w] =>
        \A n \in Names \ continue[w].left :
            cache[w][n] = IF continue[w].left = {} THEN Absent
                          ELSE history[continue[w].at][w][n]

ServedOK(w) ==
    phase[w] = "watching" /\ ~ resumed[w] /\ ~ Redelivering(w)
        => served[w] = history[newestVersion[w]][w]

SessionOK(w) == TokenOK(w) /\ StreamOK(w) /\ CacheOK(w) /\ ServedOK(w)

SessionInv == QuietIsSame /\ \A w \in Watches : SessionOK(w)

Inv == TypeOK /\ SessionInv

-----------------------------------------------------------------------------
(* The API server's past *)

AllStates == [Watches -> States]

LEMMA PastType ==
    ASSUME TypeOK, NEW v \in 1 .. Version
    PROVE  history[v] \in AllStates
BY DEF TypeOK, Version, AllStates

(* A write adds a state and leaves those before as they were. *)
LEMMA PastStays ==
    ASSUME TypeOK, NEW s \in AllStates, history' = Append(history, s)
    PROVE  /\ history' \in Seq(AllStates)
           /\ Version' = Version + 1
           /\ history'[Version + 1] = s
           /\ \A v \in 1 .. Version : history'[v] = history[v]
BY DEF TypeOK, Version, AllStates

(* Both writes: the new state, and nothing else changes. *)
Grows ==
    /\ Version < MaxVersion
    /\ \E s \in AllStates : history' = Append(history, s)
    /\ UNCHANGED <<compacted, server, main, waitSyncCount, session, faults>>

LEMMA WritesGrow ==
    ASSUME TypeOK, (\E w \in Watches, n \in Names : Write(w, n)) \/ WriteElsewhere
    PROVE  Grows
<1>1. history[Version] \in AllStates /\ Version \in 1 .. MaxVersion
    BY PastType DEF TypeOK
<1>2. CASE WriteElsewhere
    BY <1>1, <1>2 DEF WriteElsewhere, Grows
<1>3. ASSUME NEW w \in Watches, NEW n \in Names, Write(w, n)
      PROVE  Grows
    <2>1. PICK value \in {Absent, Version + 1} :
             history' = Append(history, [history[Version] EXCEPT ![w][n] = value])
        BY <1>3 DEF Write
    <2>2. Version < MaxVersion /\ value \in 0 .. MaxVersion
        BY <1>1, <1>3, WatcherAssumption DEF Write, Absent
    <2>3. [history[Version] EXCEPT ![w][n] = value] \in AllStates
        BY <1>1, <2>2 DEF AllStates, States
    <2> QED BY <1>3, <2>1, <2>2, <2>3 DEF Write, Grows
<1> QED BY <1>2, <1>3

LEMMA GrowsKeepsSame ==
    ASSUME TypeOK, QuietIsSame, Grows
    PROVE  QuietIsSame'
<1>1. PICK s \in AllStates : history' = Append(history, s)
    BY DEF Grows
<1>2. /\ Version' = Version + 1 /\ history'[Version + 1] = s
      /\ \A v \in 1 .. Version : history'[v] = history[v]
    BY <1>1, PastStays
<1>3. Version \in Nat
    BY DEF TypeOK
<1> SUFFICES ASSUME NEW w \in Watches, NEW from \in 1 .. Version + 1,
                    NEW to \in 1 .. Version + 1, from <= to,
                    \A v \in from + 1 .. to : Changed(v, w)' = {}
             PROVE  history'[to][w] = history'[from][w]
    BY <1>2 DEF QuietIsSame
<1>4. CASE to <= Version
    <2>1. \A v \in from + 1 .. to : Changed(v, w) = {}
        BY <1>2, <1>3, <1>4 DEF Changed
    <2>2. from \in 1 .. Version /\ to \in 1 .. Version
        BY <1>3, <1>4
    <2>3. history[to][w] = history[from][w]
        BY <2>1, <2>2 DEF QuietIsSame
    <2> QED BY <1>2, <2>2, <2>3
<1>5. CASE to = Version + 1 /\ from <= Version
    <2>1. \A v \in from + 1 .. Version : Changed(v, w) = {}
        BY <1>2, <1>3, <1>5 DEF Changed
    <2>2. Version \in 1 .. Version /\ from \in 1 .. Version
        BY <1>3, <1>5
    <2>3. history[Version][w] = history[from][w]
        BY <1>3, <2>1, <2>2 DEF QuietIsSame
    <2>4. {n \in Names : history'[Version + 1][w][n] # history'[Version + 1 - 1][w][n]} = {}
        BY <1>3, <1>5 DEF Changed
    <2>5. \A n \in Names : s[w][n] = history[Version][w][n]
        BY <1>2, <1>3, <2>2, <2>4
    <2>6. s[w] \in States /\ history[Version][w] \in States
        BY <2>2, PastType DEF AllStates
    <2>7. s[w] = history[Version][w]
        BY <2>5, <2>6 DEF States
    <2> QED BY <1>2, <1>5, <2>2, <2>3, <2>7
<1>6. CASE to = Version + 1 /\ from = Version + 1
    BY <1>6
<1> QED BY <1>3, <1>4, <1>5, <1>6

(* What comes after a version until another is all that changed between. *)
LEMMA QuietBefore ==
    ASSUME TypeOK, QuietIsSame, NEW w \in Watches, NEW from \in 1 .. Version,
           NEW to \in 1 .. Version, from < to,
           \A v \in from + 1 .. to - 1 : Changed(v, w) = {}
    PROVE  [n \in Names |-> IF n \in Changed(to, w) THEN history[to][w][n]
                            ELSE history[from][w][n]] = history[to][w]
<1>1. to - 1 \in 1 .. Version /\ from <= to - 1 /\ Version \in Nat
    BY DEF TypeOK
<1>2. history[to - 1][w] = history[from][w]
    BY <1>1 DEF QuietIsSame
<1>3. history[to][w] \in States
    BY PastType DEF AllStates
<1> QED BY <1>2, <1>3 DEF Changed, States

-----------------------------------------------------------------------------
(* Types *)

Tokens == [at : 0 .. MaxVersion, left : SUBSET Names]

Streams == [sent : 0 .. MaxVersion, body : SUBSET (1 .. MaxVersion),
            left : SUBSET (1 .. MaxVersion),
            gone : {"no", "ahead", "met", "again"}, done : BOOLEAN]

Phases == {"connecting", "listing", "watching", "erred", "failed"}

LEMMA SessionTypes ==
    ASSUME TypeOK, NEW w \in Watches
    PROVE  /\ phase[w] \in Phases
           /\ continue[w] \in Tokens
           /\ newestVersion[w] \in 0 .. MaxVersion
           /\ stream[w] \in Streams
           /\ cache[w] \in States /\ served[w] \in States
           /\ resumed[w] \in BOOLEAN
           /\ Version \in 1 .. MaxVersion
           /\ compacted \in 1 .. Version
BY DEF TypeOK, Tokens, Streams, Phases

LEMMA NoneTypes ==
    NoObject \in States /\ NoContinue \in Tokens /\ NoStream \in Streams
BY WatcherAssumption DEF NoObject, States, Absent, NoContinue, Tokens, NoStream, Streams

(* A list is answered from a state there has been. *)
LEMMA SnapshotType ==
    ASSUME Inv, NEW w \in Watches
    PROVE  /\ Snapshot(w) \in Tokens
           /\ Snapshot(w).at \in 1 .. Version
           /\ Snapshot(w).at >= newestVersion[w]
<1>1. continue[w] \in Tokens /\ Version \in 1 .. MaxVersion
    BY SessionTypes DEF Inv
<1>2. TokenOK(w)
    BY DEF Inv, SessionInv, SessionOK
<1> QED BY <1>1, <1>2, WatcherAssumption DEF TokenOK, Snapshot, Tokens

LEMMA ListedType ==
    ASSUME Inv, NEW w \in Watches, NEW page
    PROVE  Listed(w, Snapshot(w), page) \in States
<1>1. history[Snapshot(w).at] \in AllStates /\ cache[w] \in States
    BY SnapshotType, PastType, SessionTypes DEF Inv
<1> QED BY <1>1 DEF Listed, AllStates, States

LEMMA ApplyType ==
    ASSUME Inv, NEW w \in Watches, NEW v \in stream[w].left
    PROVE  v \in 1 .. Version /\ Apply(w, v) \in States
<1>1. v \in 1 .. Version
    BY DEF Inv, SessionInv, SessionOK, StreamOK
<1>2. history[v] \in AllStates /\ served[w] \in States
    BY <1>1, PastType, SessionTypes DEF Inv
<1> QED BY <1>1, <1>2 DEF Apply, AllStates, States

LEMMA EventsType ==
    ASSUME TypeOK, NEW w \in Watches, NEW to \in stream[w].sent .. Version
    PROVE  /\ EventsOf(w, stream[w].sent, to) \subseteq 1 .. Version
           /\ to \in 0 .. Version
           /\ to \in 0 .. MaxVersion
<1>1. stream[w].sent \in Nat /\ Version \in 1 .. MaxVersion
    BY SessionTypes DEF Streams
<1> QED BY <1>1, WatcherAssumption DEF EventsOf

(* A step of one session leaves alone the API server and the others.       *)
StepOf(w) ==
    /\ TypeOK' /\ UNCHANGED history
    /\ \A u \in Watches \ {w} :
          /\ phase'[u] = phase[u] /\ continue'[u] = continue[u]
          /\ newestVersion'[u] = newestVersion[u] /\ stream'[u] = stream[u]
          /\ cache'[u] = cache[u] /\ served'[u] = served[u] /\ resumed'[u] = resumed[u]

LEMMA OthersKept ==
    ASSUME Inv, NEW w \in Watches, StepOf(w), SessionOK(w)'
    PROVE  Inv'
<1>1. QuietIsSame'
    BY DEF Inv, SessionInv, StepOf, QuietIsSame, Version, Changed
<1>2. ASSUME NEW u \in Watches \ {w}
      PROVE  SessionOK(u)'
    <2>1. TokenOK(u) /\ StreamOK(u) /\ CacheOK(u) /\ ServedOK(u)
        BY DEF Inv, SessionInv, SessionOK
    <2>2. /\ phase'[u] = phase[u] /\ continue'[u] = continue[u]
          /\ newestVersion'[u] = newestVersion[u] /\ stream'[u] = stream[u]
          /\ cache'[u] = cache[u] /\ served'[u] = served[u] /\ resumed'[u] = resumed[u]
          /\ history' = history
        BY DEF StepOf
    <2>3. TokenOK(u)'
        BY <2>1, <2>2 DEF TokenOK, Version
    <2>4. StreamOK(u)'
        BY <2>1, <2>2 DEF StreamOK, Version, Redelivering, Changed
    <2>5. CacheOK(u)'
        BY <2>1, <2>2 DEF CacheOK
    <2>6. ServedOK(u)'
        BY <2>1, <2>2 DEF ServedOK, Redelivering
    <2> QED BY <2>3, <2>4, <2>5, <2>6 DEF SessionOK
<1> QED BY <1>1, <1>2 DEF Inv, SessionInv, StepOf

LEMMA AddWatchStep ==
    ASSUME Inv, NEW w \in Watches, AddWatch(w)
    PROVE  StepOf(w) /\ SessionOK(w)'
<1>1. TypeOK /\ TokenOK(w)
    BY DEF Inv, SessionInv, SessionOK
<1>2. TypeOK'
    BY <1>1, NoneTypes DEF AddWatch, Goto, TypeOK, api, Version, Streams
<1>3. StepOf(w)
    BY <1>1, <1>2 DEF AddWatch, Goto, TypeOK, StepOf, api
<1>4. phase'[w] = "connecting" /\ stream'[w] = NoStream
    BY <1>1 DEF AddWatch, Goto, TypeOK
<1>5. TokenOK(w)'
    BY <1>1, <1>4 DEF AddWatch, TokenOK, api, Version
<1> QED BY <1>1, <1>3, <1>4, <1>5 DEF SessionOK, StreamOK, CacheOK, ServedOK, NoStream, Redelivering

LEMMA ConnectStep ==
    ASSUME Inv, NEW w \in Watches, Connect(w)
    PROVE  StepOf(w) /\ SessionOK(w)'
<1>1. TypeOK /\ TokenOK(w) /\ StreamOK(w)
    BY DEF Inv, SessionInv, SessionOK
<1>2. TypeOK'
    BY <1>1, NoneTypes DEF Connect, PreList, Goto, TypeOK, api, Version
<1>3. StepOf(w)
    BY <1>1, <1>2 DEF Connect, PreList, Goto, TypeOK, StepOf, api
<1>4. /\ phase'[w] = "listing" /\ cache'[w] = NoObject
      /\ resumed'[w] = (continue[w].left # {})
    BY <1>1 DEF Connect, PreList, Goto, TypeOK
<1>5. TokenOK(w)' /\ StreamOK(w)'
    BY <1>1, <1>4 DEF Connect, TokenOK, StreamOK, Redelivering, api, Version
<1>6. CacheOK(w)'
    BY <1>4 DEF Connect, CacheOK, NoObject
<1> QED BY <1>3, <1>4, <1>5, <1>6 DEF SessionOK, ServedOK

(* The session ends in an error. *)
LEMMA ErrorStep ==
    ASSUME Inv, NEW w \in Watches, AfterError(w), faults' \in 0 .. MaxFaults,
           UNCHANGED <<api, server, main, continue, newestVersion, stream, cache, served, resumed>>
    PROVE  StepOf(w) /\ SessionOK(w)'
<1>1. TypeOK /\ TokenOK(w) /\ StreamOK(w)
    BY DEF Inv, SessionInv, SessionOK
<1>2. TypeOK'
    BY <1>1 DEF AfterError, Goto, TypeOK, api, Version
<1>3. StepOf(w)
    BY <1>1, <1>2 DEF AfterError, Goto, TypeOK, StepOf, api
<1>4. phase'[w] \in {"erred", "failed"}
    BY <1>1 DEF AfterError, Goto, TypeOK
<1>5. TokenOK(w)' /\ StreamOK(w)'
    BY <1>1, <1>4 DEF TokenOK, StreamOK, Redelivering, api, Version
<1> QED BY <1>3, <1>4, <1>5 DEF SessionOK, CacheOK, ServedOK

LEMMA MorePagesStep ==
    ASSUME Inv, NEW w \in Watches, MorePages(w)
    PROVE  StepOf(w) /\ SessionOK(w)'
<1> DEFINE snap == Snapshot(w)
<1>1. TypeOK /\ TokenOK(w) /\ StreamOK(w) /\ CacheOK(w)
    BY DEF Inv, SessionInv, SessionOK
<1>2. snap \in Tokens /\ snap.at \in 1 .. Version /\ Version \in 1 .. MaxVersion
    BY SnapshotType, SessionTypes DEF Inv
<1>3. PICK page \in SUBSET snap.left :
         /\ page # snap.left
         /\ ReadPage(w, snap, page)
         /\ cache' = [cache EXCEPT ![w] = Listed(w, snap, page)]
    BY DEF MorePages, Pages
<1> DEFINE token == [at |-> snap.at, left |-> snap.left \ page]
<1>4. snap.left \ page # {}
    BY <1>3
<1>5. /\ newestVersion' = [newestVersion EXCEPT ![w] = snap.at]
      /\ continue' = [continue EXCEPT ![w] = token]
    BY <1>3, <1>4 DEF ReadPage
<1>6. token \in Tokens /\ Listed(w, snap, page) \in States /\ snap.at \in 0 .. MaxVersion
    BY <1>2, ListedType DEF Tokens
<1>7. UNCHANGED <<api, server, main, waitSyncCount, phase, stream, served, resumed, faults>>
    BY DEF MorePages
<1>8. phase[w] = "listing"
    BY DEF MorePages
<1> HIDE DEF snap, token
<1>9. TypeOK'
    BY <1>1, <1>3, <1>5, <1>6, <1>7 DEF TypeOK, api, Version, Tokens
<1>10. StepOf(w)
    BY <1>1, <1>3, <1>5, <1>7, <1>9 DEF TypeOK, StepOf, api
<1>11. /\ newestVersion'[w] = snap.at /\ continue'[w] = token
       /\ cache'[w] = Listed(w, snap, page) /\ phase'[w] = "listing"
    BY <1>1, <1>3, <1>5, <1>7, <1>8 DEF TypeOK
<1>12. token.at = snap.at /\ token.left = snap.left \ page
    BY DEF token
<1>13. TokenOK(w)'
    BY <1>2, <1>4, <1>7, <1>11, <1>12 DEF TokenOK, api, Version
<1>14. StreamOK(w)'
    BY <1>1, <1>7, <1>8 DEF StreamOK, Redelivering, api, Version
<1>15. CacheOK(w)'
    <2> SUFFICES ASSUME ~ resumed[w], NEW n \in Names, n \notin token.left
                 PROVE  cache'[w][n] = history[snap.at][w][n]
        BY <1>4, <1>7, <1>11, <1>12 DEF CacheOK, api
    <2>1. CASE n \in page
        BY <1>11, <2>1 DEF Listed
    <2>2. CASE n \notin page
        <3>1. n \notin snap.left /\ cache'[w][n] = cache[w][n]
            BY <1>11, <1>12, <2>2 DEF Listed
        <3>2. CASE continue[w].left = {}
            <4>1. snap.at = Version /\ history[Version][w][n] = Absent
                BY <3>1, <3>2 DEF snap, Snapshot
            <4> QED BY <1>1, <1>8, <3>1, <3>2, <4>1 DEF CacheOK
        <3>3. CASE continue[w].left # {}
            <4>1. snap = continue[w]
                BY <3>3 DEF snap, Snapshot
            <4> QED BY <1>1, <1>8, <3>1, <3>3, <4>1 DEF CacheOK
        <3> QED BY <3>2, <3>3
    <2> QED BY <2>1, <2>2
<1> QED BY <1>7, <1>8, <1>10, <1>13, <1>14, <1>15 DEF SessionOK, ServedOK

LEMMA LastPageStep ==
    ASSUME Inv, NEW w \in Watches, LastPage(w)
    PROVE  StepOf(w) /\ SessionOK(w)'
<1> DEFINE snap == Snapshot(w)
           list == Listed(w, snap, snap.left)
           new == [NoStream EXCEPT !.sent = snap.at]
<1>1. TypeOK /\ TokenOK(w) /\ StreamOK(w) /\ CacheOK(w)
    BY DEF Inv, SessionInv, SessionOK
<1>2. snap \in Tokens /\ snap.at \in 1 .. Version /\ Version \in 1 .. MaxVersion
    BY SnapshotType, SessionTypes DEF Inv
<1>3. /\ newestVersion' = [newestVersion EXCEPT ![w] = snap.at]
      /\ continue' = [continue EXCEPT ![w] = NoContinue]
    BY DEF LastPage, ReadPage
<1>4. newestVersion'[w] = snap.at
    BY <1>1, <1>3 DEF TypeOK
<1>5. /\ stream' = [stream EXCEPT ![w] = new]
      /\ served' = [served EXCEPT ![w] = list]
      /\ cache' = [cache EXCEPT ![w] = NoObject]
      /\ phase' = [phase EXCEPT ![w] = "watching"]
      /\ waitSyncCount' = waitSyncCount - 1
    BY <1>4 DEF LastPage, StartWatch, WatchFrom, Goto
<1>6. new \in Streams /\ list \in States /\ snap.at \in 0 .. MaxVersion
    <2>1. snap.at \in 0 .. MaxVersion
        BY <1>2 DEF Tokens
    <2>2. new \in Streams
        BY <2>1, NoneTypes DEF Streams
    <2>3. list \in States
        BY ListedType
    <2> QED BY <2>1, <2>2, <2>3
<1>7. UNCHANGED <<api, server, main, resumed, faults>> /\ phase[w] = "listing"
    BY DEF LastPage
<1>8. new.sent = snap.at /\ new.body = {} /\ new.left = {} /\ new.gone = "no"
    BY DEF NoStream
<1> HIDE DEF snap, list, new
<1>9. /\ newestVersion' \in [Watches -> 0 .. MaxVersion]
      /\ continue' \in [Watches -> Tokens] /\ stream' \in [Watches -> Streams]
      /\ cache' \in [Watches -> States] /\ served' \in [Watches -> States]
      /\ phase' \in [Watches -> Phases] /\ waitSyncCount' \in Int
    <2>1. /\ newestVersion \in [Watches -> 0 .. MaxVersion]
          /\ continue \in [Watches -> Tokens] /\ stream \in [Watches -> Streams]
          /\ cache \in [Watches -> States] /\ served \in [Watches -> States]
          /\ phase \in [Watches -> Phases] /\ waitSyncCount \in Int
        BY <1>1 DEF TypeOK, Streams, Tokens, Phases
    <2>2. "watching" \in Phases
        BY DEF Phases
    <2> QED BY <1>3, <1>5, <1>6, <2>1, <2>2, NoneTypes
<1>10. TypeOK'
    <2>1. /\ history' = history /\ compacted' = compacted /\ server' = server
          /\ main' = main /\ resumed' = resumed /\ faults' = faults
        BY <1>7 DEF api
    <2>2. TypeOK /\ Version' = Version
        BY <1>1, <2>1 DEF Version
    <2> QED BY <2>1, <2>2, <1>9 DEF TypeOK, Streams, Tokens, Phases
<1>11. StepOf(w)
    <2>1. ASSUME NEW u \in Watches \ {w}
          PROVE  /\ phase'[u] = phase[u] /\ continue'[u] = continue[u]
                 /\ newestVersion'[u] = newestVersion[u] /\ stream'[u] = stream[u]
                 /\ cache'[u] = cache[u] /\ served'[u] = served[u]
        BY <1>1, <1>3, <1>5 DEF TypeOK
    <2> QED BY <1>7, <1>10, <2>1 DEF StepOf, api
<1>12. /\ continue'[w] = NoContinue /\ stream'[w] = new
       /\ served'[w] = list /\ phase'[w] = "watching"
    BY <1>1, <1>3, <1>5 DEF TypeOK
<1>13. TokenOK(w)' /\ CacheOK(w)'
    BY <1>2, <1>4, <1>7, <1>12 DEF TokenOK, CacheOK, NoContinue, api, Version
<1>14. StreamOK(w)'
    BY <1>2, <1>4, <1>7, <1>8, <1>12 DEF StreamOK, Redelivering, api, Version
<1>15. ASSUME ~ resumed[w]
       PROVE  list = history[snap.at][w]
    <2>1. history[snap.at][w] \in States
        BY <1>1, <1>2, PastType DEF AllStates
    <2>2. ASSUME NEW n \in Names, n \notin snap.left
          PROVE  cache[w][n] = history[snap.at][w][n]
        <3>1. CASE continue[w].left = {}
            <4>1. snap.at = Version /\ history[Version][w][n] = Absent
                BY <2>2, <3>1 DEF snap, Snapshot
            <4> QED BY <1>1, <1>7, <1>15, <3>1, <4>1 DEF CacheOK
        <3>2. CASE continue[w].left # {}
            <4>1. snap = continue[w]
                BY <3>2 DEF snap, Snapshot
            <4> QED BY <1>1, <1>7, <1>15, <2>2, <3>2, <4>1 DEF CacheOK
        <3> QED BY <3>1, <3>2
    <2> QED BY <2>1, <2>2 DEF list, Listed, States
<1>16. ServedOK(w)'
    BY <1>4, <1>7, <1>12, <1>15 DEF ServedOK, api
<1> QED BY <1>11, <1>13, <1>14, <1>16 DEF SessionOK

(* A read leaves everything but the response as it is. *)
OnlyStream(w, new) ==
    /\ stream' = [stream EXCEPT ![w] = new]
    /\ UNCHANGED <<api, server, main, waitSyncCount, phase, continue,
                   newestVersion, cache, served, resumed, faults>>

LEMMA StreamStep ==
    ASSUME Inv, NEW w \in Watches, NEW new \in Streams, OnlyStream(w, new)
    PROVE  /\ StepOf(w) /\ stream'[w] = new
           /\ TokenOK(w)' /\ CacheOK(w)'
<1>1. TypeOK /\ TokenOK(w) /\ CacheOK(w)
    BY DEF Inv, SessionInv, SessionOK
<1>2. TypeOK'
    BY <1>1 DEF OnlyStream, TypeOK, api, Version, Streams
<1>3. StepOf(w) /\ stream'[w] = new
    BY <1>1, <1>2 DEF OnlyStream, TypeOK, StepOf, api
<1> QED BY <1>1, <1>3 DEF OnlyStream, TokenOK, CacheOK, api, Version

(* A read of events: they come after all that was sent before. *)
LEMMA ReadStep ==
    ASSUME Inv, NEW w \in Watches, Reading(w),
           NEW to \in stream[w].sent .. Version, NEW items \in SUBSET (stream[w].sent + 1 .. to),
           EventsOf(w, stream[w].sent, to) \subseteq items,
           NEW gone \in {"no", "ahead"}, NEW end \in BOOLEAN,
           OnlyStream(w, [sent |-> to, body |-> items, left |-> items,
                          gone |-> gone, done |-> end])
    PROVE  StepOf(w) /\ SessionOK(w)'
<1> DEFINE new == [sent |-> to, body |-> items, left |-> items, gone |-> gone, done |-> end]
<1>1. TokenOK(w) /\ StreamOK(w) /\ ServedOK(w)
    BY DEF Inv, SessionInv, SessionOK
<1>2. /\ stream[w] \in Streams /\ Version \in 1 .. MaxVersion
      /\ newestVersion[w] \in 0 .. MaxVersion
    BY SessionTypes DEF Inv
<1>3. to \in 0 .. MaxVersion /\ items \subseteq 1 .. MaxVersion /\ items \subseteq 1 .. Version
    BY <1>2, WatcherAssumption DEF Streams
<1>4. new \in Streams
    BY <1>3 DEF Streams
<1>5. /\ new.sent = to /\ new.body = items /\ new.left = items
      /\ new.gone \in {"no", "ahead"}
    OBVIOUS
<1> HIDE DEF new
<1>6. StepOf(w) /\ stream'[w] = new /\ TokenOK(w)' /\ CacheOK(w)'
    BY <1>4, StreamStep DEF new
<1>7. UNCHANGED <<history, phase, newestVersion, served, resumed>>
    BY DEF OnlyStream, api
<1>8. /\ phase[w] = "watching" /\ stream[w].left = {} /\ ~ Redelivering(w)
      /\ newestVersion[w] <= stream[w].sent
      /\ \A v \in newestVersion[w] + 1 .. stream[w].sent : Changed(v, w) = {}
    BY <1>1 DEF Reading, GoneAhead, Redelivering, StreamOK
<1>9. \A v \in newestVersion[w] + 1 .. to : Changed(v, w) # {} => v \in items
    BY <1>2, <1>8 DEF EventsOf, Streams
<1>10. StreamOK(w)'
    <2>1. \A v \in items : newestVersion[w] < v /\ v <= to
        BY <1>2, <1>8 DEF Streams
    <2>2. newestVersion[w] <= to /\ to <= Version
        BY <1>2, <1>8 DEF Streams
    <2>3. \A v \in newestVersion[w] + 1 .. to : Changed(v, w)' # {} => v \in items
        BY <1>7, <1>9 DEF Changed
    <2> QED BY <1>1, <1>3, <1>5, <1>6, <1>7, <2>1, <2>2, <2>3
            DEF StreamOK, Redelivering, Version
<1>11. ServedOK(w)'
    BY <1>1, <1>7, <1>8 DEF ServedOK
<1> QED BY <1>6, <1>10, <1>11 DEF SessionOK

LEMMA ReceiveStep ==
    ASSUME Inv, NEW w \in Watches, NEW to \in stream[w].sent .. Version,
           NEW bookmark \in BOOLEAN, NEW end \in BOOLEAN, Receive(w, to, bookmark, end)
    PROVE  StepOf(w) /\ SessionOK(w)'
<1> DEFINE items == EventsOf(w, stream[w].sent, to) \cup (IF bookmark THEN {to} ELSE {})
           next == [NoStream EXCEPT !.sent = newestVersion[w]]
<1>1. Reading(w) /\ (bookmark => to > stream[w].sent)
    BY DEF Receive
<1>2. /\ stream[w] \in Streams /\ Version \in 1 .. MaxVersion
      /\ newestVersion[w] \in 0 .. MaxVersion
    BY SessionTypes DEF Inv
<1>3. CASE items # {}
    <2>1. OnlyStream(w, [sent |-> to, body |-> items, left |-> items,
                         gone |-> "no", done |-> end])
        BY <1>3 DEF Receive, OnlyStream
    <2>2. items \in SUBSET (stream[w].sent + 1 .. to)
        BY <1>1, <1>2 DEF EventsOf, Streams
    <2> QED BY <1>1, <2>1, <2>2, ReadStep
<1>4. CASE items = {}
    <2>1. OnlyStream(w, next)
        BY <1>4 DEF Receive, OnlyStream
    <2>2. next \in Streams
        BY <1>2, NoneTypes DEF Streams
    <2>3. /\ next.sent = newestVersion[w] /\ next.body = {} /\ next.left = {}
          /\ next.gone = "no"
        BY DEF NoStream
    <2>4. TokenOK(w) /\ StreamOK(w) /\ ServedOK(w)
        BY DEF Inv, SessionInv, SessionOK
    <2> HIDE DEF next
    <2>5. StepOf(w) /\ stream'[w] = next /\ TokenOK(w)' /\ CacheOK(w)'
        BY <2>1, <2>2, StreamStep
    <2>6. UNCHANGED <<history, phase, newestVersion, served, resumed>>
        BY <2>1 DEF OnlyStream, api
    <2>7. ~ Redelivering(w) /\ phase[w] = "watching"
        BY <1>1 DEF Reading, GoneAhead, Redelivering
    <2>8. StreamOK(w)'
        BY <1>2, <2>3, <2>4, <2>5, <2>6, <2>7 DEF StreamOK, TokenOK, Redelivering, Version
    <2>9. ServedOK(w)'
        BY <2>4, <2>6, <2>7 DEF ServedOK
    <2> QED BY <2>5, <2>8, <2>9 DEF SessionOK
<1> QED BY <1>3, <1>4

LEMMA ReceiveGoneStep ==
    ASSUME Inv, NEW w \in Watches, NEW to \in stream[w].sent .. Version,
           NEW end \in BOOLEAN, ReceiveGone(w, to, end)
    PROVE  StepOf(w) /\ SessionOK(w)'
<1> DEFINE items == EventsOf(w, stream[w].sent, to)
<1>1. OnlyStream(w, [sent |-> to, body |-> items, left |-> items,
                     gone |-> "ahead", done |-> end])
    BY DEF ReceiveGone, OnlyStream
<1>2. items \in SUBSET (stream[w].sent + 1 .. to) /\ Reading(w)
    BY DEF EventsOf, ReceiveGone
<1> QED BY <1>1, <1>2, ReadStep

LEMMA ReceiveEndStep ==
    ASSUME Inv, NEW w \in Watches, ReceiveEnd(w)
    PROVE  StepOf(w) /\ SessionOK(w)'
<1> DEFINE new == [stream[w] EXCEPT !.left = stream[w].body, !.gone = "again", !.done = TRUE]
<1>1. TokenOK(w) /\ StreamOK(w)
    BY DEF Inv, SessionInv, SessionOK
<1>2. stream[w] \in Streams /\ TypeOK
    BY SessionTypes DEF Inv
<1>3. new \in Streams
    BY <1>2 DEF Streams
<1>4. /\ new.sent = stream[w].sent /\ new.body = stream[w].body /\ new.left = stream[w].body
      /\ new.gone = "again" /\ new.done = TRUE
    BY <1>2 DEF Streams
<1>5. OnlyStream(w, new)
    BY <1>2 DEF ReceiveEnd, OnlyStream, TypeOK
<1> HIDE DEF new
<1>6. StepOf(w) /\ stream'[w] = new /\ TokenOK(w)' /\ CacheOK(w)'
    BY <1>3, <1>5, StreamStep
<1>7. StreamOK(w)'
    BY <1>1, <1>4, <1>5, <1>6 DEF StreamOK, Redelivering, OnlyStream, api, Version
<1>8. ServedOK(w)'
    BY <1>4, <1>6 DEF ServedOK, Redelivering
<1> QED BY <1>6, <1>7, <1>8 DEF SessionOK

LEMMA DispatchStep ==
    ASSUME Inv, NEW w \in Watches, NEW v \in stream[w].left, DispatchEvent(w, v)
    PROVE  StepOf(w) /\ SessionOK(w)'
<1> DEFINE new == IF stream[w].left # {v} \/ GoneAhead(w)
                  THEN [stream[w] EXCEPT !.left = @ \ {v}]
                  ELSE IF stream[w].done THEN [NoStream EXCEPT !.sent = v]
                  ELSE [stream[w] EXCEPT !.body = {}, !.left = {}]
           map == Apply(w, v)
<1>1. TypeOK /\ QuietIsSame /\ TokenOK(w) /\ StreamOK(w) /\ CacheOK(w) /\ ServedOK(w)
    BY DEF Inv, SessionInv, SessionOK
<1>2. /\ stream[w] \in Streams /\ Version \in 1 .. MaxVersion
      /\ newestVersion[w] \in 0 .. MaxVersion
    BY SessionTypes DEF Inv
<1>3. v \in 1 .. Version /\ v \in 0 .. MaxVersion /\ map \in States
    <2>1. v \in 1 .. Version /\ map \in States
        BY ApplyType
    <2> HIDE DEF new, map
    <2> QED BY <1>2, <2>1, WatcherAssumption
<1>4. new \in Streams
    <2>1. CASE stream[w].left # {v} \/ GoneAhead(w)
        BY <1>2, <2>1 DEF Streams
    <2>2. CASE ~ (stream[w].left # {v} \/ GoneAhead(w)) /\ stream[w].done
        BY <1>3, <2>2, NoneTypes DEF Streams
    <2>3. CASE ~ (stream[w].left # {v} \/ GoneAhead(w)) /\ ~ stream[w].done
        BY <1>2, <2>3 DEF Streams
    <2> QED BY <2>1, <2>2, <2>3
<1>5. /\ phase[w] = "watching" /\ \A u \in stream[w].left : v <= u
      /\ newestVersion' = [newestVersion EXCEPT ![w] = v]
      /\ served' = [served EXCEPT ![w] = map]
      /\ UNCHANGED <<api, server, main, waitSyncCount, phase, continue, cache, resumed, faults>>
    BY DEF DispatchEvent, Item
<1>6. newestVersion'[w] = v /\ served'[w] = map
    BY <1>1, <1>5 DEF TypeOK
<1>7. stream' = [stream EXCEPT ![w] = new]
    BY <1>1, <1>6 DEF DispatchEvent, StartWatch, WatchFrom, TypeOK
<1>8. /\ new.left = stream[w].left \ {v} /\ new.body \subseteq stream[w].body
      /\ \/ new.sent = stream[w].sent
         \/ new.sent = v /\ new.left = {}
      /\ \/ new.gone = stream[w].gone /\ new.done = stream[w].done
         \/ new.gone = "no"
      /\ new.gone = "again" <=> stream[w].gone = "again"
    <2>1. CASE stream[w].left # {v} \/ GoneAhead(w)
        <3>1. new = [stream[w] EXCEPT !.left = stream[w].left \ {v}]
            BY <1>2, <2>1 DEF Streams
        <3> HIDE DEF new
        <3> QED BY <1>2, <3>1 DEF Streams
    <2>2. CASE ~ (stream[w].left # {v} \/ GoneAhead(w)) /\ stream[w].done
        BY <1>3, <2>2 DEF NoStream, GoneAhead
    <2>3. CASE ~ (stream[w].left # {v} \/ GoneAhead(w)) /\ ~ stream[w].done
        <3>1. new = [stream[w] EXCEPT !.body = {}, !.left = {}]
            BY <2>3
        <3> HIDE DEF new
        <3>2. /\ new.left = {} /\ new.body = {} /\ new.sent = stream[w].sent
              /\ new.gone = stream[w].gone /\ new.done = stream[w].done
            BY <1>2, <3>1 DEF Streams
        <3> QED BY <2>3, <3>2
    <2> QED BY <2>1, <2>2, <2>3
<1> HIDE DEF new, map
<1>9. TypeOK'
    BY <1>1, <1>3, <1>4, <1>5, <1>7 DEF TypeOK, api, Version, Streams
<1>10. StepOf(w)
    BY <1>1, <1>5, <1>7, <1>9 DEF TypeOK, StepOf, api
<1>11. stream'[w] = new /\ UNCHANGED <<history, phase, continue, cache, resumed>>
    BY <1>1, <1>5, <1>7 DEF TypeOK, api
<1>12. TokenOK(w)' /\ CacheOK(w)'
    BY <1>1, <1>3, <1>5, <1>6, <1>11 DEF TokenOK, CacheOK, Version
<1>13. StreamOK(w)'
    <2>1. (new.body \cup new.left) \subseteq 1 .. Version
        BY <1>1, <1>8 DEF StreamOK
    <2>2. v # 0 /\ new.sent <= Version
        BY <1>1, <1>3, <1>5, <1>8 DEF StreamOK
    <2>3. new.gone = "again" => new.done
        BY <1>1, <1>8 DEF StreamOK, Redelivering
    <2>4. ASSUME new.gone # "again"
          PROVE  /\ v <= new.sent
                 /\ \A u \in new.left : v < u /\ u <= new.sent
                 /\ \A u \in v + 1 .. new.sent : Changed(u, w) # {} => u \in new.left
        <3>1. /\ newestVersion[w] < v /\ v <= stream[w].sent
              /\ \A u \in stream[w].left : u <= stream[w].sent
              /\ \A u \in newestVersion[w] + 1 .. stream[w].sent :
                    Changed(u, w) # {} => u \in stream[w].left
            BY <1>1, <1>5, <1>8, <2>4 DEF StreamOK, Redelivering
        <3>2. \A u \in stream[w].left : u \in Int
            BY <1>2 DEF Streams
        <3>3. stream[w].sent \in Int
            BY <1>2 DEF Streams
        <3>4. CASE new.sent = stream[w].sent
            BY <1>2, <1>3, <1>5, <1>8, <3>1, <3>2, <3>3, <3>4
        <3>5. CASE new.sent = v /\ new.left = {}
            BY <1>3, <3>5
        <3> QED BY <1>8, <3>4, <3>5
    <2>5. \A u \in v + 1 .. new.sent : Changed(u, w)' = Changed(u, w)
        BY <1>11 DEF Changed
    <2>6. Version' = Version
        BY <1>11 DEF Version
    <2>7. new.gone # "again" =>
              \A u \in v + 1 .. new.sent : Changed(u, w)' # {} => u \in new.left
        BY <2>4, <2>5
    <2> QED BY <1>6, <1>11, <2>1, <2>2, <2>3, <2>4, <2>6, <2>7 DEF StreamOK, Redelivering
<1>14. ServedOK(w)'
    <2> SUFFICES ASSUME ~ resumed[w], stream[w].gone # "again"
                 PROVE  map = history[v][w]
        BY <1>6, <1>8, <1>11 DEF ServedOK, Redelivering
    <2>1. served[w] = history[newestVersion[w]][w]
        BY <1>1, <1>5 DEF ServedOK, Redelivering
    <2>2. /\ newestVersion[w] \in 1 .. Version /\ newestVersion[w] < v /\ v <= stream[w].sent
          /\ \A u \in newestVersion[w] + 1 .. stream[w].sent :
                    Changed(u, w) # {} => u \in stream[w].left
        BY <1>1, <1>2, <1>5 DEF StreamOK, Redelivering, TokenOK
    <2>3. \A u \in newestVersion[w] + 1 .. v - 1 : Changed(u, w) = {}
        BY <1>2, <1>3, <1>5, <2>2 DEF Streams
    <2>4. [n \in Names |-> IF n \in Changed(v, w) THEN history[v][w][n]
                           ELSE history[newestVersion[w]][w][n]] = history[v][w]
        BY <1>1, <1>3, <2>2, <2>3, QuietBefore
    <2> QED BY <2>1, <2>4 DEF map, Apply
<1> QED BY <1>10, <1>12, <1>13, <1>14 DEF SessionOK

LEMMA DispatchGoneStep ==
    ASSUME Inv, NEW w \in Watches, DispatchGone(w)
    PROVE  StepOf(w) /\ SessionOK(w)'
<1>1. TypeOK /\ TokenOK(w) /\ StreamOK(w) /\ CacheOK(w) /\ ServedOK(w)
    BY DEF Inv, SessionInv, SessionOK
<1>2. phase[w] = "watching" /\ stream[w].left = {} /\ stream[w] \in Streams
    BY SessionTypes DEF Inv, DispatchGone, DispatchingGone
<1>3. UNCHANGED <<api, server, main, waitSyncCount, continue, newestVersion, served, faults>>
    BY DEF DispatchGone
<1>4. CASE stream[w].done
    <2>1. /\ cache' = [cache EXCEPT ![w] = NoObject]
          /\ resumed' = [resumed EXCEPT ![w] = FALSE]
          /\ phase' = [phase EXCEPT ![w] = "listing"]
          /\ stream' = [stream EXCEPT ![w] = NoStream]
        BY <1>4 DEF DispatchGone, PreList, Goto
    <2>2. TypeOK'
        BY <1>1, <1>3, <2>1, NoneTypes DEF TypeOK, api, Version, Streams
    <2>3. StepOf(w)
        BY <1>1, <1>3, <2>1, <2>2 DEF TypeOK, StepOf, api
    <2>4. /\ phase'[w] = "listing" /\ cache'[w] = NoObject /\ stream'[w] = NoStream
        BY <1>1, <2>1 DEF TypeOK
    <2>5. TokenOK(w)' /\ CacheOK(w)'
        BY <1>1, <1>2, <1>3, <2>4 DEF TokenOK, CacheOK, NoObject, api, Version
    <2>6. StreamOK(w)' /\ ServedOK(w)'
        BY <2>4 DEF StreamOK, ServedOK, NoStream, Redelivering
    <2> QED BY <2>3, <2>5, <2>6 DEF SessionOK
<1>5. CASE ~ stream[w].done
    <2> DEFINE new == [stream[w] EXCEPT !.gone = "met"]
    <2>1. new \in Streams
        BY <1>2 DEF Streams
    <2>2. /\ new.sent = stream[w].sent /\ new.body = stream[w].body
          /\ new.left = stream[w].left /\ new.gone = "met"
        BY <1>2 DEF Streams
    <2>3. OnlyStream(w, new)
        BY <1>1, <1>5 DEF DispatchGone, OnlyStream, TypeOK
    <2> HIDE DEF new
    <2>4. StepOf(w) /\ stream'[w] = new /\ TokenOK(w)' /\ CacheOK(w)'
        BY <2>1, <2>3, StreamStep
    <2>5. ~ Redelivering(w) /\ ~ Redelivering(w)'
        BY <1>1, <1>5, <2>2, <2>4 DEF StreamOK, Redelivering
    <2>6. UNCHANGED <<history, phase, newestVersion, served, resumed>>
        BY <2>3 DEF OnlyStream, api
    <2>7. StreamOK(w)' /\ ServedOK(w)'
        BY <1>1, <1>2, <2>2, <2>4, <2>5, <2>6 DEF StreamOK, ServedOK, Version, Changed
    <2> QED BY <2>4, <2>7 DEF SessionOK
<1> QED BY <1>4, <1>5

-----------------------------------------------------------------------------
(* Every step *)

LEMMA SessionStep ==
    ASSUME Inv, NEW w \in Watches, Session(w) \/ Broken(w)
    PROVE  StepOf(w) /\ SessionOK(w)'
<1>1. CASE ListExpired(w)
    <2>1. faults' \in 0 .. MaxFaults
        BY <1>1 DEF ListExpired, Inv, TypeOK
    <2> QED BY <1>1, <2>1, ErrorStep DEF ListExpired
<1>2. CASE Broken(w)
    <2>1. faults' \in 0 .. MaxFaults
        BY <1>2, WatcherAssumption DEF Broken, Fault, Inv, TypeOK
    <2> QED BY <1>2, <2>1, ErrorStep DEF Broken
<1> QED BY <1>1, <1>2, AddWatchStep, ConnectStep, MorePagesStep, LastPageStep, DispatchStep,
           DispatchGoneStep, ReceiveStep, ReceiveGoneStep, ReceiveEndStep
        DEF Session, Dispatch

(* The versions before the new one are what they were. *)
LEMMA GrowsStep ==
    ASSUME Inv, Grows
    PROVE  Inv'
<1>1. TypeOK /\ QuietIsSame
    BY DEF Inv, SessionInv
<1>2. PICK s \in AllStates : history' = Append(history, s)
    BY DEF Grows
<1>3. /\ Version' = Version + 1 /\ history' \in Seq(AllStates)
      /\ \A v \in 1 .. Version : history'[v] = history[v]
    BY <1>1, <1>2, PastStays
<1>4. Version \in 1 .. MaxVersion /\ MaxVersion \in Nat /\ Version < MaxVersion
    BY <1>1, WatcherAssumption DEF TypeOK, Grows
<1>5. UNCHANGED <<compacted, server, main, waitSyncCount, session, faults>>
    BY DEF Grows
<1>6. TypeOK'
    BY <1>1, <1>3, <1>4, <1>5 DEF TypeOK, session, AllStates
<1>7. QuietIsSame'
    BY <1>1, GrowsKeepsSame
<1>8. ASSUME NEW w \in Watches
      PROVE  SessionOK(w)'
    <2>1. TokenOK(w) /\ StreamOK(w) /\ CacheOK(w) /\ ServedOK(w)
        BY DEF Inv, SessionInv, SessionOK
    <2>2. /\ stream[w] \in Streams /\ newestVersion[w] \in 0 .. MaxVersion
          /\ continue[w] \in Tokens
        BY <1>1, SessionTypes
    <2>3. UNCHANGED <<phase, continue, newestVersion, stream, cache, served, resumed>>
        BY <1>5 DEF session
    <2>4. TokenOK(w)'
        BY <1>3, <1>4, <2>1, <2>3 DEF TokenOK
    <2>5. ASSUME phase[w] = "watching"
          PROVE  \A v \in newestVersion[w] + 1 .. stream[w].sent : Changed(v, w)' = Changed(v, w)
        <3>1. newestVersion[w] \in 1 .. Version /\ stream[w].sent <= Version
            BY <1>4, <2>1, <2>5 DEF TokenOK, StreamOK
        <3>2. \A v \in newestVersion[w] + 1 .. stream[w].sent : v \in 1 .. Version /\ v - 1 \in 1 .. Version
            BY <1>4, <2>2, <3>1 DEF Streams
        <3> QED BY <1>3, <3>2 DEF Changed
    <2>6. StreamOK(w)'
        BY <1>3, <1>4, <2>1, <2>2, <2>3, <2>5 DEF StreamOK, Redelivering, Streams
    <2>7. CacheOK(w)'
        BY <1>3, <1>4, <2>1, <2>3 DEF CacheOK, TokenOK
    <2>8. ServedOK(w)'
        BY <1>3, <1>4, <2>1, <2>3 DEF ServedOK, TokenOK, StreamOK, Redelivering
    <2> QED BY <2>4, <2>6, <2>7, <2>8 DEF SessionOK
<1> QED BY <1>6, <1>7, <1>8 DEF Inv, SessionInv

LEMMA StartStep ==
    ASSUME Inv, Restart
    PROVE  Inv'
<1>1. UNCHANGED <<api, server>> /\ Start /\ TypeOK
    BY DEF Restart, Inv
<1>2. faults' \in 0 .. MaxFaults
    BY WatcherAssumption DEF Restart, Fault, Inv, TypeOK
<1>3. Cardinality(Watches) \in Int
    BY WatcherAssumption, FS_CardinalityType
<1>4. TypeOK'
    BY <1>1, <1>2, <1>3, NoneTypes, WatcherAssumption DEF Start, TypeOK, api, Version, Streams, Tokens
<1>5. QuietIsSame'
    BY <1>1 DEF Inv, SessionInv, QuietIsSame, Version, Changed, api
<1>6. ASSUME NEW w \in Watches
      PROVE  SessionOK(w)'
    <2>1. /\ phase'[w] = "connecting" /\ continue'[w] = NoContinue
          /\ newestVersion'[w] = 0 /\ stream'[w] = NoStream
        BY <1>1 DEF Start
    <2>2. Version' \in Nat
        BY <1>4 DEF TypeOK
    <2> QED BY <2>1, <2>2 DEF SessionOK, TokenOK, StreamOK, CacheOK, ServedOK, NoContinue,
                              NoStream, Redelivering
<1> QED BY <1>4, <1>5, <1>6 DEF Inv, SessionInv

LEMMA InitInv == Init => Inv
<1> SUFFICES ASSUME Init
             PROVE  Inv
    OBVIOUS
<1>1. PICK s \in [Watches -> [Names -> {Absent, 1}]] : history = <<s>>
    BY DEF Init
<1>2. s \in AllStates
    BY WatcherAssumption DEF AllStates, States, Absent
<1>3. history \in Seq(AllStates) /\ Version = 1
    BY <1>1, <1>2 DEF Version
<1>4. Cardinality(Watches) \in Int
    BY WatcherAssumption, FS_CardinalityType
<1>5. TypeOK
    BY <1>3, <1>4, NoneTypes, WatcherAssumption DEF Init, TypeOK, Streams, Tokens, AllStates
<1>6. QuietIsSame
    BY <1>3 DEF QuietIsSame
<1>7. ASSUME NEW w \in Watches
      PROVE  SessionOK(w)
    <2>1. /\ phase[w] = "connecting" /\ continue[w] = NoContinue
          /\ newestVersion[w] = 0 /\ stream[w] = NoStream
        BY DEF Init
    <2> QED BY <1>3, <2>1 DEF SessionOK, TokenOK, StreamOK, CacheOK, ServedOK, NoContinue,
                              NoStream, Redelivering
<1> QED BY <1>5, <1>6, <1>7 DEF Inv, SessionInv

(* Nothing a session's part of the invariant looks at changes. *)
LEMMA QuietStep ==
    ASSUME Inv, TypeOK', UNCHANGED <<history, session>>
    PROVE  Inv'
<1>1. QuietIsSame'
    BY DEF Inv, SessionInv, QuietIsSame, Version, Changed
<1>2. ASSUME NEW w \in Watches
      PROVE  SessionOK(w)'
    <2>1. TokenOK(w) /\ StreamOK(w) /\ CacheOK(w) /\ ServedOK(w)
        BY DEF Inv, SessionInv, SessionOK
    <2>2. TokenOK(w)' /\ CacheOK(w)' /\ ServedOK(w)'
        BY <2>1 DEF TokenOK, CacheOK, ServedOK, Redelivering, Version, session
    <2>3. StreamOK(w)'
        BY <2>1 DEF StreamOK, Redelivering, Version, Changed, session
    <2> QED BY <2>2, <2>3 DEF SessionOK
<1> QED BY <1>1, <1>2 DEF Inv, SessionInv

LEMMA InvNext == Inv /\ [Next]_vars => Inv'
<1> SUFFICES ASSUME Inv, [Next]_vars
             PROVE  Inv'
    OBVIOUS
<1>1. CASE (\E w \in Watches, n \in Names : Write(w, n)) \/ WriteElsewhere
    BY <1>1, WritesGrow, GrowsStep DEF Inv
<1>2. CASE \E w \in Watches : Session(w) \/ Broken(w)
    BY <1>2, SessionStep, OthersKept
<1>3. CASE Compact
    <2>1. TypeOK'
        BY <1>3 DEF Compact, Inv, TypeOK, session, Version
    <2> QED BY <1>3, <2>1, QuietStep DEF Compact
<1>4. CASE WaitSync
    <2>1. TypeOK'
        BY <1>4 DEF WaitSync, Inv, TypeOK, session, Version, api
    <2> QED BY <1>4, <2>1, QuietStep DEF WaitSync, api
<1>5. CASE ServeUnsynced
    <2>1. TypeOK'
        BY <1>5, WatcherAssumption DEF ServeUnsynced, Fault, Inv, TypeOK, session, Version, api
    <2> QED BY <1>5, <2>1, QuietStep DEF ServeUnsynced, api
<1>6. CASE Restart
    BY <1>6, StartStep
<1>7. CASE UNCHANGED vars
    <2>1. TypeOK'
        BY <1>7 DEF vars, Inv, TypeOK, session, Version, api
    <2> QED BY <1>7, <2>1, QuietStep DEF vars, api
<1> QED BY <1>1, <1>2, <1>3, <1>4, <1>5, <1>6, <1>7 DEF Next

THEOREM Invariance == Spec => []Inv
BY InitInv, InvNext, PTL DEF Spec

(* Every variable of the watcher keeps its shape; a token and a response   *)
(* name versions and objects there are (K8SWatcher.h, K8SWatcher.cpp).     *)
THEOREM TypeCorrect == Spec => []TypeOK
BY Invariance, PTL DEF Inv

(* While a session watches, the map a server answers from is what the API  *)
(* server held at newestVersion_ (afterReadListResponse, dispatchEvent).   *)
THEOREM ServedInStepHolds == Spec => []ServedInStep
<1>1. Inv => ServedInStep
    BY DEF Inv, SessionInv, SessionOK, ServedOK, ServedInStep
<1> QED BY <1>1, Invariance, PTL

(* What one session's step makes of its version. *)
LEMMA VersionStep ==
    ASSUME Inv, NEW w \in Watches, Session(w) \/ Broken(w)
    PROVE  newestVersion'[w] < newestVersion[w] => Redelivering(w)
<1>1. newestVersion[w] \in 0 .. MaxVersion /\ StreamOK(w) /\ TypeOK
    BY SessionTypes DEF Inv, SessionInv, SessionOK
<1>2. CASE MorePages(w) \/ LastPage(w)
    <2>1. newestVersion' = [newestVersion EXCEPT ![w] = Snapshot(w).at]
        BY <1>2 DEF MorePages, LastPage, ReadPage
    <2>2. newestVersion'[w] = Snapshot(w).at
        BY <1>1, <2>1 DEF TypeOK
    <2>3. Snapshot(w).at \in Int /\ Snapshot(w).at >= newestVersion[w]
        BY SnapshotType
    <2> QED BY <1>1, <2>2, <2>3
<1>3. ASSUME NEW v \in stream[w].left, DispatchEvent(w, v)
      PROVE  newestVersion'[w] < newestVersion[w] => Redelivering(w)
    <2>1. newestVersion'[w] = v /\ phase[w] = "watching" /\ v \in 1 .. Version
        BY <1>1, <1>3, ApplyType DEF DispatchEvent, Item, TypeOK
    <2> QED BY <1>1, <1>3, <2>1 DEF StreamOK
<1>4. CASE UNCHANGED newestVersion
    BY <1>1, <1>4
<1> QED BY <1>2, <1>3, <1>4
        DEF Session, Dispatch, Broken, AddWatch, Connect, ListExpired, DispatchGone,
            ReceiveEnd, Receive, ReceiveGone

(* The version a map is at never goes back within a process, but for a     *)
(* body that is dispatched twice (newestVersion_, clearWatchResponse).     *)
THEOREM NeverGoesBackHolds == Spec => NeverGoesBack
<1> DEFINE Forward(w) == newestVersion'[w] < newestVersion[w]
                             => Redelivering(w) \/ phase'[w] = "connecting"
<1>1. ASSUME Inv, [Next]_vars, NEW w \in Watches
      PROVE  Forward(w)
    <2>1. newestVersion[w] \in 0 .. MaxVersion
        BY <1>1, SessionTypes DEF Inv
    <2>2. CASE UNCHANGED newestVersion
        BY <2>1, <2>2
    <2>3. ASSUME NEW u \in Watches, Session(u) \/ Broken(u)
          PROVE  Forward(w)
        <3>1. CASE u = w
            BY <1>1, <2>3, <3>1, VersionStep
        <3>2. CASE u # w
            <4>1. newestVersion'[w] = newestVersion[w]
                BY <1>1, <2>3, <3>2, SessionStep DEF StepOf
            <4> QED BY <2>1, <4>1
        <3> QED BY <3>1, <3>2
    <2>4. CASE Restart
        BY <2>4 DEF Restart, Start
    <2> QED BY <1>1, <2>2, <2>3, <2>4
            DEF Next, Write, WriteElsewhere, Compact, WaitSync, ServeUnsynced, vars, session
<1>2. Inv /\ [Next]_vars => [\A w \in Watches : Forward(w)]_vars
    BY <1>1
<1> QED BY <1>2, Invariance, PTL DEF Spec, NeverGoesBack
=============================================================================
