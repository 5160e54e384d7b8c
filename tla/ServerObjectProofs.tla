------------------------- MODULE ServerObjectProofs -------------------------
(***************************************************************************)
(* Theorems about ServerObject, for any process ids, adapters, time limits,*)
(* faults and bounds.                                                      *)
(***************************************************************************)
EXTENDS ServerObject, TLAPS

Server == [target : {"Start", "Stop", "Restart"}, setting : {"Active", "Inactive"},
           present : State]
Runtime == [pid : Pid \cup {None}, launch : 0..LaunchInterval, term : Age(TermTime),
            kill : Age(KillTime), beats : [Adapter -> Age(HeartTimeout + 1)]]
Process == [life : {"gone", "loading", "serving", "stuck", "deaf", "killed"},
            asked : Age(TermTime)]
Condition == [setting : {"Active", "Inactive"}, present : State]
Counted == [count : 0..MaxFaults, noted : SUBSET Noted]

-----------------------------------------------------------------------------
(* What the operators that the handlers share do to the variables.         *)

(* A fault is counted up to the bound, and what was noted stays noted. *)
LEMMA FaultStep ==
    ASSUME TypeOK, NEW kind, Fault(kind)
    PROVE  /\ faults' \in Counted
           /\ faults.noted \subseteq faults'.noted
           /\ kind \in Noted => kind \in faults'.noted
<1>1. /\ faults \in Counted
      /\ faults' = [count |-> faults.count + 1, noted |-> faults.noted \cup ({kind} \cap Noted)]
      /\ faults.count < MaxFaults
    BY DEF TypeOK, Fault, Counted
<1>2. faults.count + 1 \in 0..MaxFaults
    BY <1>1, BoundAssumption DEF Counted
<1>3. faults.noted \cup ({kind} \cap Noted) \in SUBSET Noted
    BY <1>1 DEF Counted
<1>4. faults' \in Counted
    BY <1>1, <1>2, <1>3 DEF Counted
<1> QED BY <1>1, <1>4

(* A report leaves a condition of the pod, whether it arrives or not. *)
LEMMA ReportStep ==
    ASSUME TypeOK, NEW setting \in {"Active", "Inactive"}, NEW present \in State,
           Report(setting, present)
    PROVE  /\ {condition'} \cup late' \subseteq Condition
           /\ faults' \in Counted
           /\ faults.noted \subseteq faults'.noted
<1> DEFINE new == [setting |-> setting, present |-> present]
<1>1. new \in Condition /\ {condition} \cup late \subseteq Condition /\ faults \in Counted
    BY DEF TypeOK, Condition, Counted
<1>2. CASE condition' = new /\ UNCHANGED <<late, faults>>
    BY <1>1, <1>2
<1>3. CASE Fault("lost") /\ UNCHANGED <<condition, late>>
    BY <1>1, <1>3, FaultStep
<1>4. CASE Fault("overtime") /\ late' = {new} /\ condition' \in {new, condition}
    BY <1>1, <1>4, FaultStep
<1> QED BY <1>2, <1>3, <1>4 DEF Report

(* No report, or a fault without one. *)
LEMMA NoReportStep ==
    ASSUME TypeOK, NoReport
    PROVE  /\ {condition'} \cup late' \subseteq Condition
           /\ faults' \in Counted
           /\ faults.noted \subseteq faults'.noted
BY DEF TypeOK, NoReport, Condition, Counted

(* resetWithoutLaunchTime forgets the process and its times. *)
LEMMA ResetTyped ==
    ASSUME NEW r \in Runtime
    PROVE  /\ Reset(r) \in Runtime
           /\ Reset(r).pid = None /\ Reset(r).term = None
BY DEF Runtime, Reset, NoBeats, Age

(* DoStop asks the process it is about, which stays alive, or finds it     *)
(* gone. No process dies or is born.                                       *)
LEMMA DoStopStep ==
    ASSUME TypeOK, NEW s \in Server, NEW r \in Runtime, DoStop(s, r)
    PROVE  /\ server' \in Server /\ runtime' \in Runtime
           /\ procs' \in [Pid -> Process]
           /\ {condition'} \cup late' \subseteq Condition
           /\ faults' \in Counted /\ faults.noted \subseteq faults'.noted
           /\ \A p \in Pid : procs'[p].life = procs[p].life
           /\ server'.target = s.target
           /\ IF ProcessExist(r.pid)
              THEN /\ server'.present = "Deactivating"
                   /\ runtime' = [r EXCEPT !.term = 0]
                   /\ procs'[r.pid].asked \in Nat
              ELSE server'.present = "Inactive" /\ runtime' = Reset(r)
<1>1. procs \in [Pid -> Process] /\ 0 \in Age(TermTime)
    BY TimeAssumption DEF TypeOK, Process, Age
<1>2. CASE /\ ~ProcessExist(r.pid)
           /\ server' = [s EXCEPT !.present = "Inactive"]
           /\ runtime' = Reset(r)
           /\ Report(s.setting, "Inactive")
           /\ UNCHANGED procs
    <2>1. s.setting \in {"Active", "Inactive"} /\ "Inactive" \in State
        BY DEF Server, State
    <2>2. /\ {condition'} \cup late' \subseteq Condition
          /\ faults' \in Counted /\ faults.noted \subseteq faults'.noted
        BY <1>2, <2>1, ReportStep
    <2>3. server' \in Server /\ server'.target = s.target /\ server'.present = "Inactive"
        BY <1>2 DEF Server, State
    <2> QED BY <1>1, <1>2, <2>2, <2>3, ResetTyped
<1>3. CASE /\ ProcessExist(r.pid)
           /\ server' = [s EXCEPT !.present = "Deactivating"]
           /\ runtime' = [r EXCEPT !.term = 0]
           /\ procs' = [procs EXCEPT ![r.pid].asked = IF @ = None THEN 0 ELSE @]
           /\ Report(s.setting, "Deactivating")
    <2>1. s.setting \in {"Active", "Inactive"} /\ "Deactivating" \in State
        BY DEF Server, State
    <2>2. /\ {condition'} \cup late' \subseteq Condition
          /\ faults' \in Counted /\ faults.noted \subseteq faults'.noted
        BY <1>3, <2>1, ReportStep
    <2>3. server' \in Server /\ server'.target = s.target /\ server'.present = "Deactivating"
        BY <1>3 DEF Server, State
    <2>4. runtime' \in Runtime
        BY <1>1, <1>3 DEF Runtime
    <2>5. r.pid \in Pid
        BY <1>3 DEF ProcessExist, Runtime
    <2>6. /\ procs' \in [Pid -> Process]
          /\ \A p \in Pid : procs'[p].life = procs[p].life
          /\ procs'[r.pid].asked \in Nat
        BY <1>1, <1>3, <2>5, TimeAssumption DEF Process, Age
    <2> QED BY <1>3, <2>2, <2>3, <2>4, <2>6
<1> QED BY <1>2, <1>3 DEF DoStop

(* DoStart leaves everything as it is, or launches one process: the one    *)
(* that runtime_ then tells.                                               *)
LEMMA DoStartStep ==
    ASSUME TypeOK, NEW s \in Server, NEW r \in Runtime, DoStart(s, r)
    PROVE  /\ server' \in Server /\ runtime' \in Runtime
           /\ procs' \in [Pid -> Process]
           /\ {condition'} \cup late' \subseteq Condition
           /\ faults' \in Counted /\ faults.noted \subseteq faults'.noted
           /\ server'.target = s.target
           /\ \A p \in Pid : procs'[p].life # "killed" \/ procs'[p] = procs[p]
           /\ \/ UNCHANGED procs /\ runtime' = r
              \/ /\ runtime'.pid \in Pid /\ runtime'.term = None
                 /\ server'.present = "Activating"
                 /\ \A p \in Pid : p # runtime'.pid => procs'[p] = procs[p]
                 /\ ~Alive(runtime'.pid)
<1>1. procs \in [Pid -> Process] /\ faults \in Counted /\ {condition} \cup late \subseteq Condition
    BY DEF TypeOK, Process, Condition, Counted
<1>2. CASE /\ r.launch < LaunchInterval
           /\ server' = s /\ runtime' = r
           /\ NoReport /\ UNCHANGED procs
    BY <1>1, <1>2, NoReportStep
<1>3. CASE /\ r.launch = LaunchInterval
           /\ Fault("noTemplate")
           /\ server' = s /\ runtime' = r
           /\ UNCHANGED <<condition, late, procs>>
    BY <1>1, <1>3, FaultStep
<1>4. CASE /\ r.launch = LaunchInterval
           /\ Fault("noLaunch")
           /\ server' = [s EXCEPT !.present = "Inactive"] /\ runtime' = r
           /\ condition' = [setting |-> s.setting, present |-> "Inactive"]
           /\ UNCHANGED <<late, procs>>
    <2>1. condition' \in Condition /\ server' \in Server /\ server'.target = s.target
        BY <1>4 DEF Server, Condition, State
    <2> QED BY <1>1, <1>4, <2>1, FaultStep
<1>5. ASSUME /\ r.launch = LaunchInterval
             /\ \E p \in Fresh :
                  /\ \A q \in Fresh : p <= q
                  /\ runtime' = [Reset(r) EXCEPT !.pid = p, !.launch = 0,
                                                 !.beats = [a \in Adapter |-> 0]]
                  /\ procs' = [procs EXCEPT ![p] = [life |-> "loading", asked |-> None]]
             /\ server' = [s EXCEPT !.present = "Activating"]
             /\ Report(s.setting, "Activating")
      PROVE  /\ server' \in Server /\ runtime' \in Runtime
             /\ procs' \in [Pid -> Process]
             /\ {condition'} \cup late' \subseteq Condition
             /\ faults' \in Counted /\ faults.noted \subseteq faults'.noted
             /\ server'.target = s.target
             /\ \A p \in Pid : procs'[p].life # "killed" \/ procs'[p] = procs[p]
             /\ runtime'.pid \in Pid /\ runtime'.term = None
             /\ server'.present = "Activating"
             /\ \A p \in Pid : p # runtime'.pid => procs'[p] = procs[p]
             /\ ~Alive(runtime'.pid)
    <2>1. PICK p \in Fresh :
            /\ runtime' = [Reset(r) EXCEPT !.pid = p, !.launch = 0,
                                           !.beats = [a \in Adapter |-> 0]]
            /\ procs' = [procs EXCEPT ![p] = [life |-> "loading", asked |-> None]]
        BY <1>5
    <2>2. p \in Pid /\ ~Alive(p)
        BY DEF Fresh
    <2>3. 0 \in 0..LaunchInterval /\ 0 \in Age(HeartTimeout + 1) /\ None \in Age(TermTime)
        BY TimeAssumption DEF Age
    <2>4. [a \in Adapter |-> 0] \in [Adapter -> Age(HeartTimeout + 1)]
        BY <2>3
    <2>5. Reset(r) \in Runtime /\ Reset(r).term = None
        BY ResetTyped
    <2>6. runtime' \in Runtime /\ runtime'.pid = p /\ runtime'.term = None
        BY <2>1, <2>2, <2>3, <2>4, <2>5 DEF Runtime
    <2>7. /\ procs' \in [Pid -> Process]
          /\ \A q \in Pid : procs'[q].life # "killed" \/ procs'[q] = procs[q]
          /\ \A q \in Pid : q # p => procs'[q] = procs[q]
        BY <1>1, <2>1, <2>2, <2>3 DEF Process
    <2>8. s.setting \in {"Active", "Inactive"} /\ "Activating" \in State
        BY DEF Server, State
    <2>9. /\ {condition'} \cup late' \subseteq Condition
          /\ faults' \in Counted /\ faults.noted \subseteq faults'.noted
        BY <1>5, <2>8, ReportStep
    <2>10. server' \in Server /\ server'.target = s.target /\ server'.present = "Activating"
        BY <1>5, <2>8 DEF Server
    <2> QED BY <2>2, <2>6, <2>7, <2>9, <2>10
<1> QED BY <1>1, <1>2, <1>3, <1>4, <1>5 DEF DoStart

(* A process whose life goes on keeps the time it was asked at. *)
LEMMA LifeTyped ==
    ASSUME TypeOK, NEW p \in Pid,
           NEW life \in {"gone", "loading", "serving", "stuck", "deaf", "killed"}
    PROVE  [procs EXCEPT ![p].life = life] \in [Pid -> Process]
BY DEF TypeOK, Process

(* What tarsnode and its pod start with is well typed. *)
LEMMA NewTyped ==
    /\ NewServer \in Server /\ NewRuntime \in Runtime
    /\ NoProcess \in Process
    /\ FirstRead \in [pc : {"inactivate", "activate", "report"},
                      setting : {"Active", "Inactive", None}, present : State \cup {None}]
BY TimeAssumption DEF NewServer, NewRuntime, NoProcess, FirstRead, NoBeats, Server, Runtime,
   Process, State, Age

(* Ages that grow stay within their limits. *)
LEMMA OlderTyped ==
    ASSUME NEW limit \in Nat, NEW age \in Age(limit)
    PROVE  Older(age, limit) \in Age(limit)
BY TimeAssumption DEF Age, Older

(* A heartbeat is noted for one adapter, or for those that have one. *)
LEMMA BeatenTyped ==
    ASSUME NEW beats \in [Adapter -> Age(HeartTimeout + 1)], NEW a \in Adapter \cup {All}
    PROVE  Beaten(beats, a) \in [Adapter -> Age(HeartTimeout + 1)]
BY TimeAssumption DEF Beaten, Age, All

(* A handled heartbeat is about a process id, and either says what state   *)
(* the server is in, or is answered by a stop.                             *)
LEMMA KeepStep ==
    ASSUME TypeOK, NEW c \in calls, NEW from \in State, NEW to \in State, Keep(c, from, to)
    PROVE  /\ server' \in Server /\ runtime' \in Runtime
           /\ procs' \in [Pid -> Process]
           /\ {condition'} \cup late' \subseteq Condition
           /\ faults' \in Counted /\ faults.noted \subseteq faults'.noted
           /\ calls' \subseteq calls /\ c.pid \in Pid
           /\ \A p \in Pid : procs'[p].life = procs[p].life
           /\ server'.target = server.target
           /\ \/ server.target = "Start" /\ server'.present = to /\ runtime'.pid = c.pid
              \/ /\ server.target # "Start" /\ ~ProcessExist(c.pid)
                 /\ runtime'.pid = None /\ runtime'.term = None
                 /\ server'.present = "Inactive"
              \/ /\ server.target # "Start" /\ ProcessExist(c.pid)
                 /\ runtime'.pid = c.pid /\ runtime'.term = 0
                 /\ procs'[c.pid].asked \in Nat
                 /\ server'.present = "Deactivating"
<1> DEFINE r == [runtime EXCEPT !.pid = c.pid]
<1>1. /\ c.pid \in Pid /\ c.adapter \in Adapter \cup {All}
      /\ server \in Server /\ runtime \in Runtime /\ procs \in [Pid -> Process]
    BY DEF TypeOK, Server, Runtime, Process
<1>2. r \in Runtime /\ r.pid = c.pid
    BY <1>1 DEF Runtime
<1>3. CASE /\ server.target = "Start"
           /\ server' = [server EXCEPT !.present = to]
           /\ runtime' = [r EXCEPT !.beats = Beaten(@, c.adapter)]
           /\ IF server.present = from THEN Report(server.setting, to) ELSE NoReport
           /\ UNCHANGED procs
    <2>1. /\ {condition'} \cup late' \subseteq Condition
          /\ faults' \in Counted /\ faults.noted \subseteq faults'.noted
        BY <1>1, <1>3, ReportStep, NoReportStep DEF Server
    <2>2. server' \in Server /\ server'.target = server.target /\ server'.present = to
        BY <1>1, <1>3 DEF Server
    <2>3. Beaten(r.beats, c.adapter) \in [Adapter -> Age(HeartTimeout + 1)]
        BY <1>1, <1>2, BeatenTyped DEF Runtime
    <2>4. runtime' \in Runtime /\ runtime'.pid = c.pid
        BY <1>2, <1>3, <2>3 DEF Runtime
    <2> QED BY <1>1, <1>3, <2>1, <2>2, <2>4 DEF Keep
<1>4. CASE server.target # "Start" /\ DoStop(server, r)
    <2> HIDE DEF r
    <2>1. /\ server' \in Server /\ runtime' \in Runtime
          /\ procs' \in [Pid -> Process]
          /\ {condition'} \cup late' \subseteq Condition
          /\ faults' \in Counted /\ faults.noted \subseteq faults'.noted
          /\ \A p \in Pid : procs'[p].life = procs[p].life
          /\ server'.target = server.target
          /\ IF ProcessExist(c.pid)
             THEN /\ server'.present = "Deactivating"
                  /\ runtime' = [r EXCEPT !.term = 0]
                  /\ procs'[c.pid].asked \in Nat
             ELSE server'.present = "Inactive" /\ runtime' = Reset(r)
        BY <1>1, <1>2, <1>4, DoStopStep
    <2>2. ProcessExist(c.pid) => runtime'.pid = c.pid /\ runtime'.term = 0
        BY <1>2, <2>1 DEF Runtime
    <2>3. ~ProcessExist(c.pid) => runtime'.pid = None /\ runtime'.term = None
        BY <1>2, <2>1, ResetTyped
    <2> QED BY <1>1, <1>4, <2>1, <2>2, <2>3 DEF Keep
<1> QED BY <1>3, <1>4 DEF Keep

-----------------------------------------------------------------------------
(* Types. *)

Reading == [pc : {"inactivate", "activate", "report"},
            setting : {"Active", "Inactive", None}, present : State \cup {None}]
Beats == [op : {"keepAlive", "keepActiving"}, pid : Pid, adapter : Adapter \cup {All}]

(* TypeOK in terms of the record sets named here, before and after a step. *)
LEMMA TypeParts ==
    TypeOK <=> /\ server \in Server /\ runtime \in Runtime /\ patrol \in Reading
               /\ procs \in [Pid -> Process] /\ calls \subseteq Beats
               /\ {condition} \cup late \subseteq Condition
               /\ requests \in 0..MaxRequests /\ faults \in Counted
BY DEF TypeOK, Server, Runtime, Reading, Process, Beats, Condition, Counted

LEMMA TypePartsNext ==
    ASSUME server' \in Server, runtime' \in Runtime, patrol' \in Reading,
           procs' \in [Pid -> Process], calls' \subseteq Beats,
           {condition'} \cup late' \subseteq Condition,
           requests' \in 0..MaxRequests, faults' \in Counted
    PROVE  TypeOK'
BY DEF TypeOK, Server, Runtime, Reading, Process, Beats, Condition, Counted

LEMMA TypeInit == Init => TypeOK
<1> SUFFICES ASSUME Init PROVE TypeOK
    OBVIOUS
<1>1. procs \in [Pid -> Process] /\ server \in Server /\ runtime \in Runtime /\ patrol \in Reading
    BY NewTyped DEF Init, Reading
<1>2. condition \in Condition /\ late = {} /\ calls = {} /\ requests \in 0..MaxRequests
    BY BoundAssumption DEF Init, Condition, State
<1>3. faults \in Counted
    BY BoundAssumption DEF Init, Counted
<1> QED BY <1>1, <1>2, <1>3, TypeParts

LEMMA AdminTyped ==
    ASSUME TypeOK, Admin
    PROVE  TypeOK'
<1>1. /\ server \in Server /\ runtime \in Runtime /\ patrol \in Reading
      /\ procs \in [Pid -> Process] /\ calls \subseteq Beats
      /\ {condition} \cup late \subseteq Condition
      /\ requests \in 0..MaxRequests /\ faults \in Counted
    BY TypeParts
<1>2. requests' \in 0..MaxRequests
    BY <1>1, BoundAssumption DEF Admin, StartServer, RestartServer, StopServer, Request
<1>3. UNCHANGED <<patrol, calls>>
    BY DEF Admin, StartServer, RestartServer, StopServer
<1>4. [runtime EXCEPT !.launch = LaunchInterval] \in Runtime
    BY <1>1, TimeAssumption DEF Runtime
<1>5. CASE StartServer
    <2>1. server' \in Server
        BY <1>1, <1>5 DEF StartServer, Server
    <2>2. faults' \in Counted
        BY <1>1, <1>5, FaultStep DEF StartServer
    <2> QED BY <1>1, <1>2, <1>3, <1>4, <1>5, <2>1, <2>2, TypeParts, TypePartsNext DEF StartServer
<1>6. CASE RestartServer
    <2>1. [server EXCEPT !.target = "Restart", !.setting = "Active"] \in Server
        BY <1>1 DEF Server
    <2> QED BY <1>1, <1>2, <1>3, <1>4, <1>6, <2>1, DoStopStep, TypeParts, TypePartsNext DEF RestartServer
<1>7. CASE StopServer
    <2>1. [server EXCEPT !.target = "Stop", !.setting = "Inactive"] \in Server
        BY <1>1 DEF Server
    <2> QED BY <1>1, <1>2, <1>3, <1>7, <2>1, DoStopStep, TypeParts, TypePartsNext DEF StopServer
<1> QED BY <1>5, <1>6, <1>7 DEF Admin

LEMMA HeartbeatTyped ==
    ASSUME TypeOK, Heartbeat
    PROVE  TypeOK'
<1>1. PICK c \in calls : Keep(c, "Activating", "Active") \/ Keep(c, "Active", "Activating")
    BY DEF Heartbeat, KeepAlive, KeepActiving
<1>2. "Activating" \in State /\ "Active" \in State
    BY DEF State
<1>3. UNCHANGED <<patrol, requests>>
    BY <1>1 DEF Keep
<1> QED BY <1>1, <1>2, <1>3, KeepStep, TypeParts, TypePartsNext

(* A container that starts again is well typed. *)
LEMMA RebootTyped ==
    ASSUME TypeOK, Reboot
    PROVE  /\ server' \in Server /\ runtime' \in Runtime /\ patrol' \in Reading
           /\ procs' \in [Pid -> Process] /\ calls' \subseteq Beats
BY NewTyped DEF Reboot, Reading

LEMMA AfterStopTyped ==
    ASSUME NEW s \in Server
    PROVE  /\ AfterStop(s) \in Server
           /\ AfterStop(s).present = s.present
           /\ AfterStop(s).target # "Start" => s.target # "Start"
BY DEF AfterStop, Server

LEMMA InactivateTyped ==
    ASSUME TypeOK, InactivateCheck
    PROVE  TypeOK'
<1>1. /\ server \in Server /\ runtime \in Runtime /\ patrol \in Reading
      /\ procs \in [Pid -> Process] /\ calls \subseteq Beats
      /\ {condition} \cup late \subseteq Condition
      /\ requests \in 0..MaxRequests /\ faults \in Counted
    BY TypeParts
<1>2. [patrol EXCEPT !.pc = "activate"] \in Reading
    BY <1>1 DEF Reading
<1>3. UNCHANGED requests
    BY DEF InactivateCheck
<1>4. CASE /\ UNCHANGED server \/ server' = AfterStop(server)
           /\ patrol' = [patrol EXCEPT !.pc = "activate"]
           /\ NoReport /\ UNCHANGED <<runtime, procs, calls>>
    BY <1>1, <1>2, <1>3, <1>4, AfterStopTyped, NoReportStep, TypeParts, TypePartsNext
<1>5. CASE /\ server' = AfterStop([server EXCEPT !.present = "Inactive"])
           /\ runtime' = Reset(runtime)
           /\ patrol' = [patrol EXCEPT !.pc = "activate"]
           /\ Report(server.setting, "Inactive")
           /\ UNCHANGED <<procs, calls>>
    <2>1. [server EXCEPT !.present = "Inactive"] \in Server
        BY <1>1 DEF Server, State
    <2>2. server.setting \in {"Active", "Inactive"} /\ "Inactive" \in State
        BY <1>1 DEF Server, State
    <2> QED BY <1>1, <1>2, <1>3, <1>5, <2>1, <2>2, AfterStopTyped, ResetTyped, ReportStep, TypeParts, TypePartsNext
<1>6. CASE /\ ProcessExist(runtime.pid)
           /\ runtime' = [runtime EXCEPT !.kill = 0]
           /\ procs' = [procs EXCEPT ![runtime.pid].life = "killed"]
           /\ patrol' = [patrol EXCEPT !.pc = "activate"]
           /\ NoReport /\ UNCHANGED <<server, calls>>
    <2>1. runtime' \in Runtime
        BY <1>1, <1>6, TimeAssumption DEF Runtime, Age
    <2>2. runtime.pid \in Pid
        BY <1>1, <1>6 DEF ProcessExist, Runtime
    <2>3. procs' \in [Pid -> Process]
        BY <1>6, <2>2, LifeTyped
    <2> QED BY <1>1, <1>2, <1>3, <1>6, <2>1, <2>3, NoReportStep, TypeParts, TypePartsNext
<1>7. CASE Reboot /\ NoReport
    BY <1>1, <1>3, <1>7, RebootTyped, NoReportStep, TypeParts, TypePartsNext
<1> QED BY <1>4, <1>5, <1>6, <1>7 DEF InactivateCheck

LEMMA ActivateTyped ==
    ASSUME TypeOK, ActivateCheck
    PROVE  TypeOK'
<1>1. /\ server \in Server /\ runtime \in Runtime /\ patrol \in Reading
      /\ procs \in [Pid -> Process] /\ calls \subseteq Beats
      /\ {condition} \cup late \subseteq Condition
      /\ requests \in 0..MaxRequests /\ faults \in Counted
    BY TypeParts
<1>2. patrol' \in Reading
    BY <1>1 DEF ActivateCheck, Reading
<1>3. UNCHANGED <<calls, requests>>
    BY DEF ActivateCheck
<1>4. CASE NoReport /\ UNCHANGED <<server, runtime, procs>>
    BY <1>1, <1>2, <1>3, <1>4, NoReportStep, TypeParts, TypePartsNext
<1>5. CASE DoStop([server EXCEPT !.target = "Restart"], runtime)
    <2>1. [server EXCEPT !.target = "Restart"] \in Server
        BY <1>1 DEF Server
    <2> QED BY <1>1, <1>2, <1>3, <1>5, <2>1, DoStopStep, TypeParts, TypePartsNext
<1>6. CASE DoStart([server EXCEPT !.present = "Inactive"], Reset(runtime))
    <2>1. [server EXCEPT !.present = "Inactive"] \in Server
        BY <1>1 DEF Server, State
    <2>2. Reset(runtime) \in Runtime
        BY <1>1, ResetTyped
    <2> QED BY <1>1, <1>2, <1>3, <1>6, <2>1, <2>2, DoStartStep, TypeParts, TypePartsNext
<1> QED BY <1>4, <1>5, <1>6 DEF ActivateCheck

LEMMA ReportingTyped ==
    ASSUME TypeOK, SkipReport \/ ReadState \/ SendReport
    PROVE  TypeOK'
<1>1. /\ server \in Server /\ patrol \in Reading
      /\ {condition} \cup late \subseteq Condition /\ faults \in Counted
    BY TypeParts
<1>2. CASE SkipReport
    BY <1>2, NewTyped, TypeParts, TypePartsNext DEF SkipReport, Reading
<1>3. ASSUME NEW field \in {"setting", "present"}, Read(field)
      PROVE  TypeOK'
    <2>1. patrol' \in Reading
        BY <1>1, <1>3 DEF Read, Reading, Server
    <2> QED BY <1>3, <2>1, TypeParts, TypePartsNext DEF Read
<1>4. CASE SendReport
    <2>1. patrol.setting \in {"Active", "Inactive"} /\ patrol.present \in State
        BY <1>1, <1>4 DEF SendReport, Reading
    <2>2. Report(patrol.setting, patrol.present)
        BY <1>4 DEF SendReport
    <2>3. {condition'} \cup late' \subseteq Condition /\ faults' \in Counted
        BY <2>1, <2>2, ReportStep
    <2>4. patrol' \in Reading
        BY <1>4, NewTyped DEF SendReport, Reading
    <2> QED BY <1>4, <2>3, <2>4, TypeParts, TypePartsNext DEF SendReport
<1> QED BY <1>2, <1>3, <1>4 DEF ReadState

LEMMA ProcessTyped ==
    ASSUME TypeOK, NEW p \in Pid, Beat(p) \/ Serve(p) \/ GoWrong(p) \/ Crash(p) \/ Exit(p)
    PROVE  TypeOK'
<1>1. procs \in [Pid -> Process] /\ calls \subseteq Beats /\ faults \in Counted
    BY TypeParts
<1>2. CASE Beat(p)
    <2>1. calls' \subseteq Beats
        BY <1>2 DEF Beat, Beats
    <2> QED BY <1>2, <2>1, TypeParts, TypePartsNext DEF Beat
<1>3. CASE Serve(p)
    <2>1. procs' \in [Pid -> Process]
        BY <1>3, LifeTyped DEF Serve, Turn
    <2> QED BY <1>3, <2>1, TypeParts, TypePartsNext DEF Serve, Turn
<1>4. CASE GoWrong(p)
    <2>1. PICK kind \in {"stuck", "deaf"} : Turn(p, "serving", kind) /\ Fault(kind)
        BY <1>4 DEF GoWrong
    <2>2. procs' \in [Pid -> Process] /\ faults' \in Counted
        BY <2>1, LifeTyped, FaultStep DEF Turn
    <2> QED BY <2>1, <2>2, TypeParts, TypePartsNext DEF Turn
<1>5. ASSUME Die(p) PROVE procs' \in [Pid -> Process]
    BY <1>1, <1>5, NewTyped DEF Die
<1>6. CASE Crash(p)
    BY <1>1, <1>5, <1>6, FaultStep, TypeParts, TypePartsNext DEF Crash, Die
<1>7. CASE Exit(p)
    <2>1. calls' \subseteq Beats /\ faults' \in Counted
        BY <1>1, <1>7, FaultStep DEF Exit
    <2> QED BY <1>5, <1>7, <2>1, TypeParts, TypePartsNext DEF Exit, Die
<1> QED BY <1>2, <1>3, <1>4, <1>6, <1>7

LEMMA TickTyped ==
    ASSUME TypeOK, Tick
    PROVE  TypeOK'
<1>1. runtime \in Runtime /\ procs \in [Pid -> Process]
    BY TypeParts
<1>2. /\ LaunchInterval \in Nat /\ TermTime \in Nat /\ KillTime \in Nat
      /\ HeartTimeout + 1 \in Nat /\ None \notin Nat
    BY TimeAssumption
<1>3. Older(runtime.launch, LaunchInterval) \in 0..LaunchInterval
    BY <1>1, <1>2 DEF Runtime, Older
<1>4. /\ Older(runtime.term, TermTime) \in Age(TermTime)
      /\ Older(runtime.kill, KillTime) \in Age(KillTime)
    BY <1>1, <1>2, OlderTyped DEF Runtime
<1>5. \A a \in Adapter : Older(runtime.beats[a], HeartTimeout + 1) \in Age(HeartTimeout + 1)
    BY <1>1, <1>2, OlderTyped DEF Runtime
<1>6. runtime' \in Runtime
    <2>1. [a \in Adapter |-> Older(runtime.beats[a], HeartTimeout + 1)]
            \in [Adapter -> Age(HeartTimeout + 1)]
        BY <1>5
    <2>2. runtime.pid \in Pid \cup {None}
        BY <1>1 DEF Runtime
    <2> QED BY <1>3, <1>4, <2>1, <2>2 DEF Tick, Runtime
<1>7. procs' \in [Pid -> Process]
    <2>1. \A p \in Pid : [procs[p] EXCEPT !.asked = Older(@, TermTime)] \in Process
        BY <1>1, <1>2, OlderTyped DEF Process
    <2> QED BY <2>1 DEF Tick
<1> QED BY <1>6, <1>7, TypeParts, TypePartsNext DEF Tick

(* Every step keeps the types. *)
LEMMA TypeStep == TypeOK /\ [Next]_vars => TypeOK'
<1> SUFFICES ASSUME TypeOK, [Next]_vars PROVE TypeOK'
    OBVIOUS
<1>1. CASE Admin
    BY <1>1, AdminTyped
<1>2. CASE Heartbeat
    BY <1>2, HeartbeatTyped
<1>3. CASE Patrol
    BY <1>3, InactivateTyped, ActivateTyped, ReportingTyped DEF Patrol
<1>4. CASE \E p \in Pid : Beat(p) \/ Serve(p) \/ GoWrong(p) \/ Crash(p)
    BY <1>4, ProcessTyped
<1>5. CASE Ends
    BY <1>5, ProcessTyped DEF Ends
<1>6. CASE NodeCrash
    BY <1>6, RebootTyped, FaultStep, TypeParts, TypePartsNext DEF NodeCrash
<1>7. CASE Tick
    BY <1>7, TickTyped
<1>8. CASE LatePatch
    BY <1>8, TypeParts, TypePartsNext DEF LatePatch
<1>9. CASE UNCHANGED vars
    BY <1>9, TypeParts, TypePartsNext DEF vars
<1> QED BY <1>1, <1>2, <1>3, <1>4, <1>5, <1>6, <1>7, <1>8, <1>9 DEF Next

(* The variables keep their types, whatever ids, adapters and limits there *)
(* are: no time passes its limit, and a report is of a state there is.     *)
THEOREM TypeCorrect == Spec => []TypeOK
BY TypeInit, TypeStep, PTL DEF Spec

-----------------------------------------------------------------------------
(* One server at a time.                                                   *)
(*                                                                         *)
(* That at most one process lives is not inductive: runtime_ has to tell   *)
(* which one, so that the patrol finds it; a heartbeat that waits for the  *)
(* lock has to come from it, since it moves runtime_ to its own pid; and a *)
(* server that counts as inactive, which the patrol launches without a     *)
(* look at the process, must have none.                                    *)

Late == "late" \in faults.noted
LivesAsKnown == \A p \in Pid : Alive(p) => p = runtime.pid
BeatsOfTheLiving == \A c \in calls : Alive(c.pid)
InactiveIsGone == server.present = "Inactive" => \A p \in Pid : ~Alive(p)

KnownInv == ~Late => LivesAsKnown /\ BeatsOfTheLiving /\ InactiveIsGone

(* A step that leaves the processes alive or dead and runtime_'s pid as    *)
(* they are, brings no heartbeat and makes nothing inactive.               *)
LEMMA KnownKept ==
    ASSUME TypeOK, KnownInv,
           faults.noted \subseteq faults'.noted,
           \A p \in Pid : Alive(p)' => Alive(p),
           \A c \in calls' : c \in calls /\ (Alive(c.pid) => Alive(c.pid)'),
           runtime'.pid = runtime.pid \/ (\A p \in Pid : ~Alive(p)),
           server'.present = "Inactive" =>
               server.present = "Inactive" \/ (\A p \in Pid : ~Alive(p))
    PROVE  KnownInv'
BY DEF KnownInv, Late, LivesAsKnown, BeatsOfTheLiving, InactiveIsGone

(* Whoever lives is still alive when it has been asked to stop. *)
LEMMA LivesOn ==
    ASSUME TypeOK, \A p \in Pid : procs'[p].life = procs[p].life
    PROVE  /\ \A p \in Pid : Alive(p)' <=> Alive(p)
           /\ \A c \in calls : Alive(c.pid) => Alive(c.pid)'
BY DEF TypeOK, Alive

(* A stop of the server that runtime_ tells. *)
LEMMA KnownDoStop ==
    ASSUME TypeOK, KnownInv, NEW s \in Server, NEW r \in Runtime, r.pid = runtime.pid,
           DoStop(s, r), calls' = calls
    PROVE  KnownInv'
<1>1. /\ faults.noted \subseteq faults'.noted
      /\ \A p \in Pid : procs'[p].life = procs[p].life
      /\ IF ProcessExist(r.pid)
         THEN server'.present = "Deactivating" /\ runtime' = [r EXCEPT !.term = 0]
         ELSE server'.present = "Inactive" /\ runtime' = Reset(r)
    BY DoStopStep
<1>2. CASE Late
    BY <1>1, <1>2 DEF KnownInv, Late
<1>3. CASE ~Late /\ ProcessExist(r.pid)
    <2>1. runtime'.pid = runtime.pid /\ server'.present # "Inactive"
        BY <1>1, <1>3 DEF Runtime
    <2> QED BY <1>1, <2>1, LivesOn, KnownKept
<1>4. CASE ~Late /\ ~ProcessExist(r.pid)
    <2>1. \A p \in Pid : ~Alive(p)
        <3> SUFFICES ASSUME NEW p \in Pid, Alive(p) PROVE FALSE
            OBVIOUS
        <3>1. p = r.pid
            BY <1>4 DEF KnownInv, LivesAsKnown
        <3> QED BY <1>4, <3>1, PidAssumption DEF ProcessExist
    <2> QED BY <1>1, <2>1, LivesOn, KnownKept
<1> QED BY <1>2, <1>3, <1>4

LEMMA KnownAdmin ==
    ASSUME TypeOK, KnownInv, Admin
    PROVE  KnownInv'
<1>1. server \in Server /\ runtime \in Runtime
    BY TypeParts
<1>2. CASE StartServer
    <2>1. faults.noted \subseteq faults'.noted
        BY <1>2, FaultStep DEF StartServer
    <2>2. runtime'.pid = runtime.pid /\ server'.present = server.present
        BY <1>1, <1>2 DEF StartServer, Runtime, Server
    <2>3. \A p \in Pid : procs'[p].life = procs[p].life
        BY <1>2 DEF StartServer
    <2> QED BY <1>2, <2>1, <2>2, <2>3, LivesOn, KnownKept DEF StartServer
<1>3. CASE RestartServer
    <2>1. [server EXCEPT !.target = "Restart", !.setting = "Active"] \in Server
        BY <1>1 DEF Server
    <2>2. /\ [runtime EXCEPT !.launch = LaunchInterval] \in Runtime
          /\ [runtime EXCEPT !.launch = LaunchInterval].pid = runtime.pid
        BY <1>1, TimeAssumption DEF Runtime
    <2> QED BY <1>3, <2>1, <2>2, KnownDoStop DEF RestartServer
<1>4. CASE StopServer
    <2>1. [server EXCEPT !.target = "Stop", !.setting = "Inactive"] \in Server
        BY <1>1 DEF Server
    <2> QED BY <1>1, <1>4, <2>1, KnownDoStop DEF StopServer
<1> QED BY <1>2, <1>3, <1>4 DEF Admin

(* The heartbeat comes from the process that lives, which runtime_ already *)
(* tells.                                                                  *)
LEMMA KnownHeartbeat ==
    ASSUME TypeOK, KnownInv, Heartbeat
    PROVE  KnownInv'
<1>1. PICK c \in calls, from \in {"Activating", "Active"}, to \in {"Activating", "Active"} :
            Keep(c, from, to)
    BY DEF Heartbeat, KeepAlive, KeepActiving
<1>2. from \in State /\ to \in State
    BY DEF State
<1>3. /\ faults.noted \subseteq faults'.noted
      /\ calls' \subseteq calls /\ c.pid \in Pid
      /\ \A p \in Pid : procs'[p].life = procs[p].life
      /\ \/ server'.present = to /\ runtime'.pid = c.pid
         \/ ~ProcessExist(c.pid) /\ server'.present = "Inactive" /\ runtime'.pid = None
         \/ ProcessExist(c.pid) /\ server'.present = "Deactivating" /\ runtime'.pid = c.pid
    BY <1>1, <1>2, KeepStep
<1>4. CASE Late
    BY <1>3, <1>4 DEF KnownInv, Late
<1>5. CASE ~Late
    <2>1. Alive(c.pid) /\ c.pid = runtime.pid
        BY <1>3, <1>5 DEF KnownInv, LivesAsKnown, BeatsOfTheLiving
    <2>2. ProcessExist(c.pid)
        BY <1>3, <2>1, PidAssumption DEF ProcessExist
    <2>3. runtime'.pid = runtime.pid /\ server'.present # "Inactive"
        BY <1>3, <2>1, <2>2
    <2> QED BY <1>3, <2>3, LivesOn, KnownKept
<1> QED BY <1>4, <1>5

(* A container that starts again has neither processes nor heartbeats. *)
LEMMA KnownReboot ==
    ASSUME Reboot
    PROVE  KnownInv'
BY DEF Reboot, NewRuntime, NoProcess, KnownInv, LivesAsKnown, BeatsOfTheLiving, InactiveIsGone, Alive

LEMMA KnownInactivate ==
    ASSUME TypeOK, KnownInv, InactivateCheck
    PROVE  KnownInv'
<1>1. server \in Server /\ runtime \in Runtime /\ procs \in [Pid -> Process]
    BY TypeParts
<1>2. CASE Late
    <2>1. server.setting \in {"Active", "Inactive"} /\ "Inactive" \in State
        BY <1>1 DEF Server, State
    <2>2. faults.noted \subseteq faults'.noted
        BY <2>1, NoReportStep, ReportStep DEF InactivateCheck
    <2> QED BY <1>2, <2>2 DEF KnownInv, Late
<1>3. CASE /\ UNCHANGED server \/ server' = AfterStop(server)
           /\ NoReport /\ UNCHANGED <<runtime, procs, calls>>
    BY <1>1, <1>3, AfterStopTyped, NoReportStep, LivesOn, KnownKept
<1>4. CASE /\ ~Late
           /\ ~ProcessExist(runtime.pid)
           /\ Report(server.setting, "Inactive")
           /\ UNCHANGED <<procs, calls>>
    <2>1. server.setting \in {"Active", "Inactive"} /\ "Inactive" \in State
        BY <1>1 DEF Server, State
    <2>2. \A p \in Pid : ~Alive(p)
        BY <1>4, PidAssumption DEF KnownInv, LivesAsKnown, ProcessExist
    <2> QED BY <1>4, <2>1, <2>2, ReportStep, LivesOn, KnownKept
<1>5. CASE /\ ProcessExist(runtime.pid)
           /\ runtime' = [runtime EXCEPT !.kill = 0]
           /\ procs' = [procs EXCEPT ![runtime.pid].life = "killed"]
           /\ NoReport /\ UNCHANGED <<server, calls>>
    <2>1. runtime.pid \in Pid /\ runtime'.pid = runtime.pid
        BY <1>1, <1>5 DEF ProcessExist, Runtime
    <2>2. \A p \in Pid : Alive(p)' <=> Alive(p)
        BY <1>1, <1>5, <2>1 DEF ProcessExist, Alive, Process
    <2>3. \A c \in calls : c.pid \in Pid
        BY TypeParts DEF Beats
    <2> QED BY <1>5, <2>1, <2>2, <2>3, NoReportStep, KnownKept
<1>6. CASE Reboot
    BY <1>6, KnownReboot
<1> QED BY <1>2, <1>3, <1>4, <1>5, <1>6 DEF InactivateCheck

(* The launch: whoever may have been alive before, the patrol has looked   *)
(* at the process that runtime_ told, or the server was inactive.          *)
LEMMA KnownActivate ==
    ASSUME TypeOK, KnownInv, ActivateCheck
    PROVE  KnownInv'
<1>1. server \in Server /\ runtime \in Runtime /\ procs \in [Pid -> Process]
    BY TypeParts
<1>2. calls' = calls
    BY DEF ActivateCheck
<1>3. CASE NoReport /\ UNCHANGED <<server, runtime, procs>>
    BY <1>2, <1>3, NoReportStep, LivesOn, KnownKept
<1>4. CASE DoStop([server EXCEPT !.target = "Restart"], runtime)
    <2>1. [server EXCEPT !.target = "Restart"] \in Server
        BY <1>1 DEF Server
    <2> QED BY <1>1, <1>2, <1>4, <2>1, KnownDoStop
<1>5. CASE /\ server.present = "Inactive" \/ ~ProcessExist(runtime.pid)
           /\ DoStart([server EXCEPT !.present = "Inactive"], Reset(runtime))
    <2>1. [server EXCEPT !.present = "Inactive"] \in Server /\ Reset(runtime) \in Runtime
        BY <1>1, ResetTyped DEF Server, State
    <2>2. /\ faults.noted \subseteq faults'.noted
          /\ procs' \in [Pid -> Process]
          /\ \/ UNCHANGED procs
             \/ /\ runtime'.pid \in Pid
                /\ server'.present = "Activating"
                /\ \A p \in Pid : p # runtime'.pid => procs'[p] = procs[p]
        BY <1>5, <2>1, DoStartStep
    <2>3. CASE Late
        BY <2>2, <2>3 DEF KnownInv, Late
    <2>4. CASE ~Late
        <3>1. \A p \in Pid : ~Alive(p)
            BY <1>5, <2>4, PidAssumption
            DEF KnownInv, LivesAsKnown, InactiveIsGone, ProcessExist
        <3>2. calls = {}
            BY <2>4, <3>1, TypeParts DEF KnownInv, BeatsOfTheLiving, Beats
        <3>3. CASE UNCHANGED procs
            BY <1>2, <2>2, <3>1, <3>2, <3>3, LivesOn, KnownKept
        <3>4. CASE /\ server'.present = "Activating"
                   /\ \A p \in Pid : p # runtime'.pid => procs'[p] = procs[p]
            BY <1>2, <3>1, <3>2, <3>4
            DEF KnownInv, LivesAsKnown, BeatsOfTheLiving, InactiveIsGone, Alive
        <3> QED BY <2>2, <3>3, <3>4
    <2> QED BY <2>3, <2>4
<1> QED BY <1>3, <1>4, <1>5 DEF ActivateCheck

(* A heartbeat leaves a process that lives; one that goes takes what it    *)
(* has sent with it, unless that is the fault.                             *)
LEMMA KnownProcess ==
    ASSUME TypeOK, KnownInv, NEW p \in Pid,
           Beat(p) \/ Serve(p) \/ GoWrong(p) \/ Crash(p) \/ Exit(p)
    PROVE  KnownInv'
<1>1. procs \in [Pid -> Process] /\ \A c \in calls : c.pid \in Pid
    BY TypeParts DEF Beats
<1>2. CASE Beat(p)
    BY <1>2 DEF Beat, KnownInv, Late, LivesAsKnown, BeatsOfTheLiving, InactiveIsGone, Alive
<1>3. ASSUME NEW from \in {"loading", "serving"}, NEW to \in {"serving", "stuck", "deaf"},
             Turn(p, from, to), faults.noted \subseteq faults'.noted
      PROVE  KnownInv'
    <2>1. \A q \in Pid : Alive(q)' <=> Alive(q)
        BY <1>1, <1>3 DEF Turn, Alive, Process
    <2> QED BY <1>1, <1>3, <2>1, KnownKept DEF Turn
<1>4. CASE Serve(p)
    BY <1>3, <1>4 DEF Serve
<1>5. CASE GoWrong(p)
    BY <1>3, <1>5, FaultStep DEF GoWrong
<1>6. ASSUME Die(p)
      PROVE  /\ \A q \in Pid : Alive(q)' => Alive(q)
             /\ \A q \in Pid : q # p /\ Alive(q) => Alive(q)'
             /\ UNCHANGED <<server, runtime>>
    BY <1>1, <1>6 DEF Die, Alive, NoProcess, Process
<1>7. CASE Crash(p)
    BY <1>1, <1>6, <1>7, FaultStep, KnownKept DEF Crash
<1>8. CASE Exit(p)
    <2>1. CASE calls' = {c \in calls : c.pid # p} /\ UNCHANGED faults
        BY <1>1, <1>6, <1>8, <2>1, KnownKept DEF Exit
    <2>2. CASE Fault("late")
        BY <2>2, FaultStep DEF KnownInv, Late, Noted
    <2> QED BY <1>8, <2>1, <2>2 DEF Exit
<1> QED BY <1>2, <1>4, <1>5, <1>7, <1>8

LEMMA KnownTick ==
    ASSUME TypeOK, KnownInv, Tick
    PROVE  KnownInv'
<1>1. procs \in [Pid -> Process]
    BY TypeParts
<1>2. \A p \in Pid : procs'[p].life = procs[p].life
    BY <1>1 DEF Tick, Process
<1>3. runtime'.pid = runtime.pid
    BY DEF Tick
<1> QED BY <1>2, <1>3, LivesOn, KnownKept DEF Tick

LEMMA KnownInit == Init => KnownInv
BY DEF Init, NewServer, NoProcess, KnownInv, LivesAsKnown, BeatsOfTheLiving, InactiveIsGone, Alive

LEMMA KnownStep == TypeOK /\ KnownInv /\ [Next]_vars => KnownInv'
<1> SUFFICES ASSUME TypeOK, KnownInv, [Next]_vars PROVE KnownInv'
    OBVIOUS
<1>1. CASE Admin
    BY <1>1, KnownAdmin
<1>2. CASE Heartbeat
    BY <1>2, KnownHeartbeat
<1>3. CASE InactivateCheck
    BY <1>3, KnownInactivate
<1>4. CASE ActivateCheck
    BY <1>4, KnownActivate
<1>5. CASE SkipReport \/ ReadState
    <2>1. UNCHANGED <<server, runtime, procs, calls, faults>>
        BY <1>5 DEF SkipReport, ReadState, Read
    <2> QED BY <2>1, LivesOn, KnownKept
<1>6. CASE SendReport
    <2>1. patrol.setting \in {"Active", "Inactive"} /\ patrol.present \in State
        BY <1>6, TypeParts DEF SendReport, Reading
    <2> QED BY <1>6, <2>1, ReportStep, LivesOn, KnownKept DEF SendReport
<1>7. CASE \E p \in Pid : Beat(p) \/ Serve(p) \/ GoWrong(p) \/ Crash(p)
    BY <1>7, KnownProcess
<1>8. CASE Ends
    BY <1>8, KnownProcess DEF Ends
<1>9. CASE NodeCrash
    BY <1>9, KnownReboot DEF NodeCrash
<1>10. CASE Tick
    BY <1>10, KnownTick
<1>11. CASE LatePatch \/ UNCHANGED vars
    <2>1. UNCHANGED <<server, runtime, procs, calls, faults>>
        BY <1>11 DEF LatePatch, vars
    <2> QED BY <2>1, LivesOn, KnownKept
<1> QED BY <1>1, <1>2, <1>3, <1>4, <1>5, <1>6, <1>7, <1>8, <1>9, <1>10, <1>11 DEF Next, Patrol

(* Two server processes never live at a time, however requests, heartbeats *)
(* and the patrol interleave and whatever fails, as long as no heartbeat   *)
(* of a process that has gone waited for the lock.                         *)
THEOREM OneServerHolds == Spec => []OneServer
<1>1. TypeOK /\ KnownInv => OneServer
    BY DEF KnownInv, Late, LivesAsKnown, OneServer
<1> QED BY <1>1, TypeCorrect, KnownInit, KnownStep, PTL DEF Spec

-----------------------------------------------------------------------------
(* SIGKILL.                                                                *)
(*                                                                         *)
(* The patrol judges by the time of runtime_, the promise is about the     *)
(* process. While the server is to go, the process that runtime_ tells has *)
(* been asked to shut down at least as long ago as runtime_ says: a late   *)
(* heartbeat, which moves runtime_ to another pid, asks that one anew. A   *)
(* start in between may leave a time of another process behind, but every  *)
(* way back to a stop passes DoStop.                                       *)

AskedInv ==
    server.target # "Start" /\ runtime.term # None /\ ProcessExist(runtime.pid)
      => /\ procs[runtime.pid].asked \in Nat
         /\ runtime.term <= procs[runtime.pid].asked

(* Nothing is asked, or forgotten to have been. *)
LEMMA AskedKept ==
    ASSUME AskedInv,
           server'.target # "Start" => server.target # "Start",
           runtime'.pid = runtime.pid, runtime'.term = runtime.term,
           runtime.pid \in Pid \cup {None},
           \A p \in Pid : Alive(p)' => Alive(p) /\ procs'[p].asked = procs[p].asked
    PROVE  AskedInv'
BY PidAssumption DEF AskedInv, ProcessExist

LEMMA AskedDoStop ==
    ASSUME TypeOK, NEW s \in Server, NEW r \in Runtime, DoStop(s, r)
    PROVE  AskedInv'
<1>1. /\ runtime' \in Runtime
      /\ IF ProcessExist(r.pid)
         THEN runtime' = [r EXCEPT !.term = 0] /\ procs'[r.pid].asked \in Nat
         ELSE runtime' = Reset(r)
    BY DoStopStep
<1>2. CASE ProcessExist(r.pid)
    <2>1. runtime'.pid = r.pid /\ runtime'.term = 0
        BY <1>1, <1>2 DEF Runtime
    <2> QED BY <1>1, <1>2, <2>1 DEF AskedInv
<1>3. CASE ~ProcessExist(r.pid)
    BY <1>1, <1>3, ResetTyped DEF AskedInv
<1> QED BY <1>2, <1>3

LEMMA AskedAdmin ==
    ASSUME TypeOK, AskedInv, Admin
    PROVE  AskedInv'
<1>1. server \in Server /\ runtime \in Runtime
    BY TypeParts
<1>2. CASE StartServer
    BY <1>1, <1>2 DEF StartServer, Server, AskedInv
<1>3. CASE RestartServer
    <2>1. [server EXCEPT !.target = "Restart", !.setting = "Active"] \in Server
        BY <1>1 DEF Server
    <2>2. [runtime EXCEPT !.launch = LaunchInterval] \in Runtime
        BY <1>1, TimeAssumption DEF Runtime
    <2> QED BY <1>3, <2>1, <2>2, AskedDoStop DEF RestartServer
<1>4. CASE StopServer
    <2>1. [server EXCEPT !.target = "Stop", !.setting = "Inactive"] \in Server
        BY <1>1 DEF Server
    <2> QED BY <1>1, <1>4, <2>1, AskedDoStop DEF StopServer
<1> QED BY <1>2, <1>3, <1>4 DEF Admin

LEMMA AskedHeartbeat ==
    ASSUME TypeOK, AskedInv, Heartbeat
    PROVE  AskedInv'
<1>1. PICK c \in calls, from \in {"Activating", "Active"}, to \in {"Activating", "Active"} :
            Keep(c, from, to)
    BY DEF Heartbeat, KeepAlive, KeepActiving
<1>2. from \in State /\ to \in State
    BY DEF State
<1>3. /\ server'.target = server.target
      /\ \/ server.target = "Start"
         \/ runtime'.term = None
         \/ runtime'.pid = c.pid /\ runtime'.term = 0 /\ procs'[c.pid].asked \in Nat
    BY <1>1, <1>2, KeepStep
<1> QED BY <1>3 DEF AskedInv

LEMMA AskedReboot ==
    ASSUME Reboot
    PROVE  AskedInv'
BY DEF Reboot, NewServer, AskedInv

LEMMA AskedInactivate ==
    ASSUME TypeOK, AskedInv, InactivateCheck
    PROVE  AskedInv'
<1>1. server \in Server /\ runtime \in Runtime /\ procs \in [Pid -> Process]
    BY TypeParts
<1>2. CASE /\ UNCHANGED server \/ server' = AfterStop(server)
           /\ UNCHANGED <<runtime, procs>>
    <2>1. runtime.pid \in Pid \cup {None}
        BY <1>1 DEF Runtime
    <2> QED BY <1>1, <1>2, <2>1, AfterStopTyped, AskedKept DEF Alive
<1>3. CASE runtime' = Reset(runtime)
    BY <1>1, <1>3, ResetTyped DEF AskedInv
<1>4. CASE /\ ProcessExist(runtime.pid)
           /\ runtime' = [runtime EXCEPT !.kill = 0]
           /\ procs' = [procs EXCEPT ![runtime.pid].life = "killed"]
           /\ UNCHANGED server
    <2>1. runtime.pid \in Pid /\ runtime'.pid = runtime.pid /\ runtime'.term = runtime.term
        BY <1>1, <1>4 DEF ProcessExist, Runtime
    <2>2. \A p \in Pid : Alive(p)' => Alive(p) /\ procs'[p].asked = procs[p].asked
        BY <1>1, <1>4, <2>1 DEF ProcessExist, Alive, Process
    <2> QED BY <1>4, <2>1, <2>2, AskedKept
<1>5. CASE Reboot
    BY <1>5, AskedReboot
<1> QED BY <1>2, <1>3, <1>4, <1>5 DEF InactivateCheck

LEMMA AskedActivate ==
    ASSUME TypeOK, AskedInv, ActivateCheck
    PROVE  AskedInv'
<1>1. server \in Server /\ runtime \in Runtime
    BY TypeParts
<1>2. CASE UNCHANGED <<server, runtime, procs>>
    <2>1. runtime.pid \in Pid \cup {None}
        BY <1>1 DEF Runtime
    <2> QED BY <1>2, <2>1, AskedKept DEF Alive
<1>3. CASE DoStop([server EXCEPT !.target = "Restart"], runtime)
    <2>1. [server EXCEPT !.target = "Restart"] \in Server
        BY <1>1 DEF Server
    <2> QED BY <1>1, <1>3, <2>1, AskedDoStop
<1>4. CASE DoStart([server EXCEPT !.present = "Inactive"], Reset(runtime))
    <2>1. [server EXCEPT !.present = "Inactive"] \in Server
        BY <1>1 DEF Server, State
    <2>2. Reset(runtime) \in Runtime /\ Reset(runtime).term = None
        BY <1>1, ResetTyped
    <2>3. runtime'.term = None
        BY <1>4, <2>1, <2>2, DoStartStep
    <2> QED BY <2>3 DEF AskedInv
<1> QED BY <1>2, <1>3, <1>4 DEF ActivateCheck

LEMMA AskedProcess ==
    ASSUME TypeOK, AskedInv, NEW p \in Pid,
           Beat(p) \/ Serve(p) \/ GoWrong(p) \/ Crash(p) \/ Exit(p)
    PROVE  AskedInv'
<1>1. procs \in [Pid -> Process] /\ runtime.pid \in Pid \cup {None}
    BY TypeParts DEF Runtime
<1>2. UNCHANGED <<server, runtime>>
    BY DEF Beat, Serve, GoWrong, Crash, Exit, Turn, Die
<1>3. CASE UNCHANGED procs
    BY <1>1, <1>2, <1>3, AskedKept DEF Alive
<1>4. ASSUME NEW from \in {"loading", "serving"}, NEW to \in {"serving", "stuck", "deaf"},
             Turn(p, from, to)
      PROVE  AskedInv'
    <2>1. \A q \in Pid : Alive(q)' => Alive(q) /\ procs'[q].asked = procs[q].asked
        BY <1>1, <1>4 DEF Turn, Alive, Process
    <2> QED BY <1>1, <1>2, <2>1, AskedKept
<1>5. CASE Die(p)
    <2>1. \A q \in Pid : Alive(q)' => Alive(q) /\ procs'[q].asked = procs[q].asked
        BY <1>1, <1>5 DEF Die, Alive, NoProcess, Process
    <2> QED BY <1>1, <1>2, <2>1, AskedKept
<1> QED BY <1>3, <1>4, <1>5 DEF Beat, Serve, GoWrong, Crash, Exit

(* Both times grow alike, up to the same limit. *)
LEMMA AskedTick ==
    ASSUME TypeOK, AskedInv, Tick
    PROVE  AskedInv'
<1>1. runtime \in Runtime /\ procs \in [Pid -> Process]
    BY TypeParts
<1>2. /\ runtime'.pid = runtime.pid /\ server' = server
      /\ runtime'.term = Older(runtime.term, TermTime)
    BY DEF Tick
<1>3. \A p \in Pid : /\ procs'[p].life = procs[p].life
                     /\ procs'[p].asked = Older(procs[p].asked, TermTime)
    BY <1>1 DEF Tick, Process
<1> SUFFICES ASSUME server'.target # "Start", runtime'.term # None, ProcessExist(runtime.pid)'
             PROVE  /\ procs'[runtime'.pid].asked \in Nat
                    /\ runtime'.term <= procs'[runtime'.pid].asked
    BY DEF AskedInv
<1>4. runtime.pid \in Pid /\ ProcessExist(runtime.pid)
    BY <1>1, <1>2, <1>3 DEF ProcessExist, Alive, Runtime
<1>5. runtime.term \in Age(TermTime) /\ procs[runtime.pid].asked \in Age(TermTime)
    BY <1>1, <1>4 DEF Runtime, Process
<1>6. runtime.term # None
    BY <1>2, <1>5, TimeAssumption DEF Older, Age
<1>7. procs[runtime.pid].asked \in Nat /\ runtime.term <= procs[runtime.pid].asked
    BY <1>2, <1>4, <1>6 DEF AskedInv
<1> QED BY <1>2, <1>3, <1>4, <1>5, <1>6, <1>7, TimeAssumption DEF Older, Age

LEMMA AskedInit == Init => AskedInv
BY DEF Init, NewServer, AskedInv

LEMMA AskedStep == TypeOK /\ AskedInv /\ [Next]_vars => AskedInv'
<1> SUFFICES ASSUME TypeOK, AskedInv, [Next]_vars PROVE AskedInv'
    OBVIOUS
<1>1. CASE Admin
    BY <1>1, AskedAdmin
<1>2. CASE Heartbeat
    BY <1>2, AskedHeartbeat
<1>3. CASE InactivateCheck
    BY <1>3, AskedInactivate
<1>4. CASE ActivateCheck
    BY <1>4, AskedActivate
<1>5. CASE SkipReport \/ ReadState \/ SendReport \/ LatePatch \/ UNCHANGED vars
    <2>1. UNCHANGED <<server, runtime, procs>>
        BY <1>5 DEF SkipReport, ReadState, Read, SendReport, LatePatch, vars
    <2> QED BY <2>1 DEF AskedInv, ProcessExist, Alive
<1>6. CASE \E p \in Pid : Beat(p) \/ Serve(p) \/ GoWrong(p) \/ Crash(p)
    BY <1>6, AskedProcess
<1>7. CASE Ends
    BY <1>7, AskedProcess DEF Ends
<1>8. CASE NodeCrash
    BY <1>8, AskedReboot DEF NodeCrash
<1>9. CASE Tick
    BY <1>9, AskedTick
<1> QED BY <1>1, <1>2, <1>3, <1>4, <1>5, <1>6, <1>7, <1>8, <1>9 DEF Next, Patrol

(* Only the patrol kills, and only what it takes for overdue. *)
LEMMA KilledStep ==
    ASSUME TypeOK, AskedInv, [Next]_vars, NEW p \in Pid,
           procs[p].life # "killed", procs'[p].life = "killed"
    PROVE  procs[p].asked = TermTime
<1>1. /\ server \in Server /\ runtime \in Runtime /\ procs \in [Pid -> Process]
      /\ TermTime \in Nat
    BY TypeParts, TimeAssumption
<1>2. CASE Admin
    <2>1. /\ [server EXCEPT !.target = "Restart", !.setting = "Active"] \in Server
          /\ [server EXCEPT !.target = "Stop", !.setting = "Inactive"] \in Server
        BY <1>1 DEF Server
    <2>2. [runtime EXCEPT !.launch = LaunchInterval] \in Runtime
        BY <1>1, TimeAssumption DEF Runtime
    <2> QED BY <1>1, <1>2, <2>1, <2>2, DoStopStep DEF Admin, StartServer, RestartServer, StopServer
<1>3. CASE Heartbeat
    <2>1. PICK c \in calls, from \in {"Activating", "Active"}, to \in {"Activating", "Active"} :
                Keep(c, from, to)
        BY <1>3 DEF Heartbeat, KeepAlive, KeepActiving
    <2>2. from \in State /\ to \in State
        BY DEF State
    <2> QED BY <2>1, <2>2, KeepStep
<1>4. CASE InactivateCheck
    <2>1. CASE UNCHANGED procs \/ Reboot
        BY <2>1 DEF Reboot, NoProcess
    <2>2. CASE /\ server.target # "Start" /\ ProcessExist(runtime.pid)
               /\ runtime.term = TermTime
               /\ procs' = [procs EXCEPT ![runtime.pid].life = "killed"]
        <3>1. runtime.pid \in Pid /\ runtime.term # None
            BY <1>1, <2>2, TimeAssumption DEF ProcessExist, Runtime
        <3>2. p = runtime.pid
            BY <1>1, <2>2, <3>1
        <3>3. procs[p].asked \in Nat /\ TermTime <= procs[p].asked
            BY <2>2, <3>1, <3>2 DEF AskedInv
        <3>4. procs[p].asked \in Age(TermTime)
            BY <1>1 DEF Process
        <3> QED BY <1>1, <3>3, <3>4, TimeAssumption DEF Age
    <2> QED BY <1>4, <2>1, <2>2 DEF InactivateCheck
<1>5. CASE ActivateCheck
    <2>1. /\ [server EXCEPT !.target = "Restart"] \in Server
          /\ [server EXCEPT !.present = "Inactive"] \in Server
        BY <1>1 DEF Server, State
    <2>2. Reset(runtime) \in Runtime
        BY <1>1, ResetTyped
    <2>3. procs'[p].life = procs[p].life \/ procs'[p].life # "killed"
        BY <1>1, <1>5, <2>1, <2>2, DoStopStep, DoStartStep DEF ActivateCheck
    <2> QED BY <2>3
<1>6. CASE SkipReport \/ ReadState \/ SendReport \/ LatePatch \/ UNCHANGED vars
    BY <1>6 DEF SkipReport, ReadState, Read, SendReport, LatePatch, vars
<1>7. ASSUME NEW q \in Pid, Beat(q) \/ Serve(q) \/ GoWrong(q) \/ Crash(q) \/ Exit(q)
      PROVE  FALSE
    BY <1>1, <1>7
    DEF Beat, Serve, GoWrong, Crash, Exit, Turn, Die, NoProcess, Process
<1>8. CASE NodeCrash
    BY <1>8 DEF NodeCrash, Reboot, NoProcess
<1>9. CASE Tick
    BY <1>1, <1>9 DEF Tick, Process
<1> QED BY <1>2, <1>3, <1>4, <1>5, <1>6, <1>7, <1>8, <1>9 DEF Next, Patrol, Ends

(* SIGKILL only hits a process that was asked to shut down and has had its *)
(* time for it, whatever late heartbeats, restarts and faults there are.   *)
THEOREM AskedFirstHolds == Spec => AskedFirst
<1>1. TypeOK /\ AskedInv /\ [Next]_vars =>
          [\A p \in Pid : procs[p].life # "killed" /\ procs'[p].life = "killed"
                          => procs[p].asked = TermTime]_vars
    BY KilledStep
<1> QED BY <1>1, TypeCorrect, AskedInit, AskedStep, PTL DEF Spec, AskedFirst
=============================================================================
