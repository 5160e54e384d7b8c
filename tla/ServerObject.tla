---------------------------- MODULE ServerObject ----------------------------
(***************************************************************************)
(* tarsnode as the first process of a pod ("background"): it launches the  *)
(* server, judges it by its heartbeats, stops and restarts it on demand,   *)
(* and reports its state to tarsregistry, which patches the pod's          *)
(* condition tars.io/active.                                               *)
(*                                                                         *)
(* Every handler and both checks of the patrol hold mutex_ and are one     *)
(* step; the patrol's periodic report reads without it, field by field.    *)
(* Times are ages, in ticks, that stop growing at the limit they are       *)
(* compared with; a time that is not set (VERY_BIG_TIME_VALUE) is None.    *)
(***************************************************************************)
EXTENDS Naturals

CONSTANTS
    Pid,            \* process ids, reused once nothing refers to them
    Adapter,        \* the adapters of the server, AdminAdapter one of them
    AdminAdapter,
    None,
    LaunchInterval, \* LAUNCH_SERVER_INTERVAL_TIME
    TermTime,       \* MAX_TERM_TIME
    KillTime,       \* MAX_KILL_TIME
    HeartTimeout,   \* hearttimeout of the template
    MaxRequests,    \* bound: requests of the administrator
    Faults,         \* kinds of fault that may happen
    MaxFaults       \* bound: faults of one behaviour

ASSUME PidAssumption == Pid \subseteq Nat /\ None \notin Pid
ASSUME AdapterAssumption == AdminAdapter \in Adapter /\ None \notin Adapter
ASSUME TimeAssumption ==
    /\ {LaunchInterval, TermTime, KillTime, HeartTimeout} \subseteq Nat
    /\ None \notin Nat
ASSUME BoundAssumption == MaxRequests \in Nat /\ MaxFaults \in Nat

VARIABLES
    server,     \* target, setting and present state
    runtime,    \* ServerRuntime: pid, ages of launch, SIGTERM and SIGKILL, heartbeats
    patrol,     \* where the patrol thread is, and what its report has read
    procs,      \* the server processes of the pod
    calls,      \* a heartbeat on its way: at most one
    condition,  \* the pod's condition tars.io/active
    late,       \* a patch that overran its time and is still on its way
    requests,   \* requests of the administrator so far
    faults      \* how many faults have happened, and which of the Noted ones

vars == <<server, runtime, patrol, procs, calls, condition, late, requests, faults>>

State == {"Inactive", "Activating", "Active", "Deactivating"}
All == None     \* a heartbeat without an adapter stands for every adapter

NoBeats == [a \in Adapter |-> None]
NoProcess == [life |-> "gone", asked |-> None]
FirstRead == [pc |-> "inactivate", setting |-> None, present |-> None]
NewServer == [target |-> "Start", setting |-> "Active", present |-> "Inactive"]
NewRuntime == [pid |-> None, launch |-> LaunchInterval, term |-> None, kill |-> None,
               beats |-> NoBeats]

Init ==
    /\ server = NewServer
    /\ runtime = NewRuntime
    /\ patrol = FirstRead
    /\ procs = [p \in Pid |-> NoProcess]
    /\ calls = {}
    /\ condition = [setting |-> "Inactive", present |-> "Inactive"]
    /\ late = {}
    /\ requests = 0
    /\ faults = [count |-> 0, noted |-> {}]

(* The faults after which some property no longer holds. *)
Noted == {"hurry", "late", "deaf"}

Fault(kind) ==
    /\ kind \in Faults
    /\ faults.count < MaxFaults
    /\ faults' = [count |-> faults.count + 1, noted |-> faults.noted \cup ({kind} \cap Noted)]

(* resetWithoutLaunchTime *)
Reset(r) == [r EXCEPT !.pid = None, !.term = None, !.kill = None, !.beats = NoBeats]

Alive(p) == procs[p].life # "gone"

(* Mutant: a process that was asked to stop counts as gone. *)
ProcessExistMutant(p) == p # None /\ Alive(p) /\ procs[p].asked = None

(* waitpid: of a pid that is no child any more nothing is known. *)
ProcessExist(p) == p # None /\ Alive(p)

(* The registry tries up to five times; a try that overran may still be
   applied, whether or not the next one was. *)
Report(setting, present) ==
    LET new == [setting |-> setting, present |-> present] IN
    \/ condition' = new /\ UNCHANGED <<late, faults>>
    \/ Fault("lost") /\ UNCHANGED <<condition, late>>
    \/ Fault("overtime") /\ late' = {new} /\ condition' \in {new, condition}

NoReport == UNCHANGED <<condition, late, faults>>

(* Mutant: the time of the request is not kept. *)
DoStopMutant(s, r) ==
    /\ server' = [s EXCEPT !.present = IF ProcessExist(r.pid) THEN "Deactivating" ELSE "Inactive"]
    /\ runtime' = IF ProcessExist(r.pid) THEN r ELSE Reset(r)
    /\ procs' = IF ProcessExist(r.pid) THEN [procs EXCEPT ![r.pid].asked = 0] ELSE procs
    /\ Report(s.setting, server'.present)

(* The server is asked to shut down, or found to have gone already. *)
DoStop(s, r) ==
    \/ /\ ~ProcessExist(r.pid)
       /\ server' = [s EXCEPT !.present = "Inactive"]
       /\ runtime' = Reset(r)
       /\ Report(s.setting, "Inactive")
       /\ UNCHANGED procs
    \/ /\ ProcessExist(r.pid)
       /\ server' = [s EXCEPT !.present = "Deactivating"]
       /\ runtime' = [r EXCEPT !.term = 0]
       /\ procs' = [procs EXCEPT ![r.pid].asked = IF @ = None THEN 0 ELSE @]
       /\ Report(s.setting, "Deactivating")

(* A pid is new when nothing refers to it. *)
Fresh == {p \in Pid : ~Alive(p) /\ p # runtime.pid /\ \A c \in calls : c.pid # p}

DoStart(s, r) ==
    \/ /\ r.launch < LaunchInterval
       /\ server' = s /\ runtime' = r
       /\ NoReport /\ UNCHANGED procs
    \/ /\ r.launch = LaunchInterval
       /\ Fault("noTemplate")
       /\ server' = s /\ runtime' = r
       /\ UNCHANGED <<condition, late, procs>>
    \/ /\ r.launch = LaunchInterval
       /\ Fault("noLaunch")
       /\ server' = [s EXCEPT !.present = "Inactive"] /\ runtime' = r
       /\ condition' = [setting |-> s.setting, present |-> "Inactive"]
       /\ UNCHANGED <<late, procs>>
    \/ /\ r.launch = LaunchInterval
       /\ \E p \in Fresh :
            /\ \A q \in Fresh : p <= q
            /\ runtime' = [Reset(r) EXCEPT !.pid = p, !.launch = 0,
                                           !.beats = [a \in Adapter |-> 0]]
            /\ procs' = [procs EXCEPT ![p] = [life |-> "loading", asked |-> None]]
       /\ server' = [s EXCEPT !.present = "Activating"]
       /\ Report(s.setting, "Activating")

-----------------------------------------------------------------------------
(* Requests of the administrator. *)

Request == requests < MaxRequests /\ requests' = requests + 1

(* A start while the old process still shuts down is marked as a fault. *)
StartServer ==
    /\ Request
    /\ server' = [server EXCEPT !.target = "Start", !.setting = "Active"]
    /\ runtime' = [runtime EXCEPT !.launch = LaunchInterval]
    /\ IF server.present = "Deactivating" THEN Fault("hurry") ELSE UNCHANGED faults
    /\ UNCHANGED <<patrol, procs, calls, condition, late>>

RestartServer ==
    /\ Request
    /\ DoStop([server EXCEPT !.target = "Restart", !.setting = "Active"],
              [runtime EXCEPT !.launch = LaunchInterval])
    /\ UNCHANGED <<patrol, calls>>

StopServer ==
    /\ Request
    /\ DoStop([server EXCEPT !.target = "Stop", !.setting = "Inactive"], runtime)
    /\ UNCHANGED <<patrol, calls>>

-----------------------------------------------------------------------------
(* Heartbeats. *)

Beaten(beats, a) ==
    IF a = All THEN [x \in Adapter |-> IF beats[x] = None THEN None ELSE 0]
               ELSE [beats EXCEPT ![a] = 0]

(* Mutant: a heartbeat during a stop only leaves its pid. *)
KeepMutant(c, from, to) ==
    LET r == [runtime EXCEPT !.pid = c.pid] IN
    /\ calls' = calls \ {c}
    /\ \/ /\ server.target = "Start"
          /\ server' = [server EXCEPT !.present = to]
          /\ runtime' = [r EXCEPT !.beats = Beaten(@, c.adapter)]
          /\ IF server.present = from THEN Report(server.setting, to) ELSE NoReport
       \/ server.target # "Start" /\ runtime' = r /\ NoReport /\ UNCHANGED server
    /\ UNCHANGED <<patrol, procs, requests>>

(* A heartbeat that says the server is in state "to"; only the step from
   state "from" is reported. *)
Keep(c, from, to) ==
    LET r == [runtime EXCEPT !.pid = c.pid] IN
    /\ calls' = calls \ {c}
    /\ \/ /\ server.target = "Start"
          /\ server' = [server EXCEPT !.present = to]
          /\ runtime' = [r EXCEPT !.beats = Beaten(@, c.adapter)]
          /\ IF server.present = from THEN Report(server.setting, to) ELSE NoReport
          /\ UNCHANGED procs
       \/ server.target # "Start" /\ DoStop(server, r)
    /\ UNCHANGED <<patrol, requests>>

KeepAlive == \E c \in calls : c.op = "keepAlive" /\ Keep(c, "Activating", "Active")
KeepActiving == \E c \in calls : c.op = "keepActiving" /\ Keep(c, "Active", "Activating")

-----------------------------------------------------------------------------
(* The patrol thread. *)

(* The container starts again, with a tarsnode that knows nothing. *)
Reboot ==
    /\ server' = NewServer
    /\ runtime' = NewRuntime
    /\ patrol' = FirstRead
    /\ procs' = [p \in Pid |-> NoProcess]
    /\ calls' = {}

(* Mutant: a restart ends as a stop. *)
AfterStopMutant(s) == s

AfterStop(s) == IF s.target = "Restart" THEN [s EXCEPT !.target = "Start"] ELSE s

InactivateCheck ==
    /\ patrol.pc = "inactivate"
    /\ \/ /\ \/ server.target = "Start" /\ UNCHANGED server
             \/ /\ server.target # "Start" /\ server.present = "Inactive"
                /\ runtime.pid = None
                /\ server' = AfterStop(server)
             \/ /\ server.target # "Start" /\ ProcessExist(runtime.pid)
                /\ runtime.kill # KillTime /\ runtime.term # TermTime
                /\ UNCHANGED server
          /\ patrol' = [patrol EXCEPT !.pc = "activate"]
          /\ NoReport /\ UNCHANGED <<runtime, procs, calls>>
       \/ /\ server.target # "Start" /\ ~ProcessExist(runtime.pid)
          /\ server.present # "Inactive" \/ runtime.pid # None
          /\ server' = AfterStop([server EXCEPT !.present = "Inactive"])
          /\ runtime' = Reset(runtime)
          /\ patrol' = [patrol EXCEPT !.pc = "activate"]
          /\ Report(server.setting, "Inactive")
          /\ UNCHANGED <<procs, calls>>
       \/ /\ server.target # "Start" /\ ProcessExist(runtime.pid)
          /\ runtime.kill # KillTime /\ runtime.term = TermTime
          /\ runtime' = [runtime EXCEPT !.kill = 0]
          /\ procs' = [procs EXCEPT ![runtime.pid].life = "killed"]
          /\ patrol' = [patrol EXCEPT !.pc = "activate"]
          /\ NoReport /\ UNCHANGED <<server, calls>>
       \/ /\ server.target # "Start" /\ ProcessExist(runtime.pid)
          /\ runtime.kill = KillTime
          /\ Reboot /\ NoReport
    /\ UNCHANGED requests

(* Mutant: every adapter has to be silent. *)
OvertimeMutant == \A a \in Adapter : runtime.beats[a] = HeartTimeout + 1

Overtime == \E a \in Adapter : runtime.beats[a] = HeartTimeout + 1

ActivateCheck ==
    /\ patrol.pc = "activate"
    /\ patrol' = [patrol EXCEPT !.pc = "report"]
    /\ \/ /\ \/ server.target # "Start"
             \/ server.present = "Deactivating"
             \/ /\ server.present \in {"Activating", "Active"}
                /\ ProcessExist(runtime.pid) /\ ~Overtime
          /\ NoReport /\ UNCHANGED <<server, runtime, procs>>
       \/ /\ server.target = "Start"
          /\ server.present \in {"Activating", "Active"}
          /\ ProcessExist(runtime.pid) /\ Overtime
          /\ DoStop([server EXCEPT !.target = "Restart"], runtime)
       \/ /\ server.target = "Start"
          /\ \/ server.present = "Inactive"
             \/ server.present \in {"Activating", "Active"} /\ ~ProcessExist(runtime.pid)
          /\ DoStart([server EXCEPT !.present = "Inactive"], Reset(runtime))
    /\ UNCHANGED <<calls, requests>>

(* Most rounds end without a report. *)
SkipReport ==
    /\ patrol = [FirstRead EXCEPT !.pc = "report"]
    /\ patrol' = FirstRead
    /\ UNCHANGED <<server, runtime, procs, calls, condition, late, requests, faults>>

(* The periodic report reads setting_ and present_ without the lock, in
   whichever order they were compiled to. *)
Read(field) ==
    /\ patrol.pc = "report" /\ patrol[field] = None
    /\ patrol' = [patrol EXCEPT ![field] = server[field]]
    /\ UNCHANGED <<server, runtime, procs, calls, condition, late, requests, faults>>

ReadState == \E field \in {"setting", "present"} : Read(field)

(* Mutant: no periodic report. *)
SendReportMutant ==
    /\ patrol.setting # None /\ patrol.present # None
    /\ patrol' = FirstRead
    /\ UNCHANGED <<server, runtime, procs, calls, condition, late, requests, faults>>

SendReport ==
    /\ patrol.setting # None /\ patrol.present # None
    /\ patrol' = FirstRead
    /\ Report(patrol.setting, patrol.present)
    /\ UNCHANGED <<server, runtime, procs, calls, requests>>

-----------------------------------------------------------------------------
(* The world around: processes, time, the registry's late patches. *)

(* Once asked to stop, a server no longer sends heartbeats, unless it is
   deaf; one that is stuck has only its AdminAdapter left. *)
Beat(p) ==
    /\ calls = {}
    /\ procs[p].life \in {"loading", "serving", "stuck", "deaf"}
    /\ procs[p].asked = None \/ procs[p].life = "deaf"
    /\ \E a \in Adapter \cup {All} :
         /\ procs[p].life = "loading" => a = All
         /\ procs[p].life = "stuck" => a = AdminAdapter
         /\ calls' = {[op |-> IF procs[p].life = "loading" THEN "keepActiving" ELSE "keepAlive",
                       pid |-> p, adapter |-> a]}
    /\ UNCHANGED <<server, runtime, patrol, procs, condition, late, requests, faults>>

Turn(p, from, to) ==
    /\ procs[p].life = from
    /\ procs' = [procs EXCEPT ![p].life = to]
    /\ UNCHANGED <<server, runtime, patrol, calls, condition, late, requests>>

Serve(p) == Turn(p, "loading", "serving") /\ UNCHANGED faults
GoWrong(p) == \E kind \in {"stuck", "deaf"} : Turn(p, "serving", kind) /\ Fault(kind)

(* What a process sent before it went may still be waiting for the lock. *)
Die(p) ==
    /\ procs' = [procs EXCEPT ![p] = NoProcess]
    /\ UNCHANGED <<server, runtime, patrol, condition, late, requests>>

Exit(p) ==
    /\ \/ procs[p].life = "killed"
       \/ procs[p].life \in {"loading", "serving"} /\ procs[p].asked # None
    /\ Die(p)
    /\ \/ calls' = {c \in calls : c.pid # p} /\ UNCHANGED faults
       \/ \E c \in calls : c.pid = p /\ Fault("late") /\ UNCHANGED calls

Crash(p) ==
    /\ Alive(p) /\ Fault("crash") /\ Die(p)
    /\ calls' = {c \in calls : c.pid # p}

NodeCrash == Fault("nodeCrash") /\ Reboot /\ UNCHANGED <<condition, late, requests>>

(* Mutant: one tick too many. *)
OlderMutant(age, limit) == IF age \in 0..limit THEN age + 1 ELSE age

Older(age, limit) == IF age \in 0..(limit - 1) THEN age + 1 ELSE age

Tick ==
    /\ runtime' = [pid |-> runtime.pid,
                   launch |-> Older(runtime.launch, LaunchInterval),
                   term |-> Older(runtime.term, TermTime),
                   kill |-> Older(runtime.kill, KillTime),
                   beats |-> [a \in Adapter |-> Older(runtime.beats[a], HeartTimeout + 1)]]
    /\ procs' = [p \in Pid |-> [procs[p] EXCEPT !.asked = Older(@, TermTime)]]
    /\ UNCHANGED <<server, patrol, calls, condition, late, requests, faults>>

LatePatch ==
    /\ \E new \in late : condition' = new
    /\ late' = {}
    /\ UNCHANGED <<server, runtime, patrol, procs, calls, requests, faults>>

Heartbeat == KeepAlive \/ KeepActiving
Patrol == InactivateCheck \/ ActivateCheck \/ SkipReport \/ ReadState \/ SendReport
Admin == StartServer \/ RestartServer \/ StopServer
Ends == \E p \in Pid : Exit(p)

Next ==
    \/ Admin \/ Heartbeat \/ Patrol
    \/ \E p \in Pid : Beat(p) \/ Serve(p) \/ GoWrong(p) \/ Crash(p)
    \/ Ends \/ NodeCrash \/ Tick \/ LatePatch

Spec == Init /\ [][Next]_vars

(* The patrol thread runs for ever and comes to its report every 420th
   round; a request is handled, a process that was asked or killed ends,
   time passes, and what is on its way arrives. *)
Fairness ==
    /\ WF_vars(Patrol) /\ SF_vars(ReadState)
    /\ WF_vars(Heartbeat) /\ WF_vars(Ends) /\ WF_vars(Tick) /\ WF_vars(LatePatch)

FairSpec == Spec /\ Fairness

-----------------------------------------------------------------------------
Age(limit) == 0..limit \cup {None}

TypeOK ==
    /\ server \in [target : {"Start", "Stop", "Restart"}, setting : {"Active", "Inactive"},
                   present : State]
    /\ runtime \in [pid : Pid \cup {None}, launch : 0..LaunchInterval, term : Age(TermTime),
                    kill : Age(KillTime), beats : [Adapter -> Age(HeartTimeout + 1)]]
    /\ patrol \in [pc : {"inactivate", "activate", "report"},
                   setting : {"Active", "Inactive", None}, present : State \cup {None}]
    /\ procs \in [Pid -> [life : {"gone", "loading", "serving", "stuck", "deaf", "killed"},
                          asked : Age(TermTime)]]
    /\ calls \subseteq [op : {"keepAlive", "keepActiving"}, pid : Pid,
                        adapter : Adapter \cup {All}]
    /\ {condition} \cup late \subseteq [setting : {"Active", "Inactive"}, present : State]
    /\ requests \in 0..MaxRequests
    /\ faults \in [count : 0..MaxFaults, noted : SUBSET Noted]

(* Unless the heartbeat of a process that has already gone was still
   waiting for the lock, no server is launched beside one that lives. *)
OneServer ==
    "late" \notin faults.noted => \A p, q \in Pid : Alive(p) /\ Alive(q) => p = q

(* Whatever happens - late heartbeats, another pid, restarts in between -
   SIGKILL only hits a process that has had its time to shut down. *)
AskedFirst ==
    [][\A p \in Pid : procs[p].life # "killed" /\ procs'[p].life = "killed"
                        => procs[p].asked = TermTime]_vars

(* A server that is to be active is launched, sooner or later, unless it
   was started while it was still shutting down. *)
StartEnds ==
    server.setting = "Active" /\ (\A p \in Pid : ~Alive(p))
      ~> \/ server.setting = "Inactive" \/ \E p \in Pid : Alive(p)
         \/ "hurry" \in faults.noted

(* A process does not outlive a stop, unless it goes on sending heartbeats
   (each one starts the wait for SIGKILL again) or an old heartbeat made
   tarsnode forget its pid. *)
StopEnds ==
    server.setting = "Inactive" /\ (\E p \in Pid : Alive(p))
      ~> \/ server.setting = "Active" \/ \A p \in Pid : ~Alive(p)
         \/ faults.noted \cap {"deaf", "late"} # {}

(* A process with one silent adapter is replaced, though another adapter
   goes on sending heartbeats. *)
StuckIsReplaced ==
    (\E p \in Pid : procs[p].life = "stuck")
      ~> \/ \A p \in Pid : procs[p].life # "stuck"
         \/ faults.noted \cap {"hurry", "late"} # {}

(* Reports get lost, come late, are read without the lock or are not made
   at all (a crash soon after the launch): still the pod's condition agrees
   with the server's state again and again. *)
ConditionFollows ==
    []<>(condition = [setting |-> server.setting, present |-> server.present])
=============================================================================
