---------------------------- MODULE MCProcesses -----------------------------
(***************************************************************************)
(* The processes of an installation: runtime tenure, the application's     *)
(* start and stop, the daemon's loop and its supervision.  These parts     *)
(* share no state, so a property of one holds of all of them side by side  *)
(* if it holds of the one alone: a behaviour moves one part and leaves the *)
(* others as they start.                                                   *)
(***************************************************************************)
EXTENDS RuntimeTenure, Naturals, TLC

VARIABLES
    part,   \* the part that moves
    intent, sock, meta, controlLock, app, asked, launch, stop, others, port,
    absent,
    main, why, worker, task, monitorLock, guard, monitorRow, tool, tripped,
    daily, day, runs,
    daemon, tenure, maint, failing, beat, newer, menu, status, owns, report,
    left, watch, faults

\* Two generations of the application, a daemon and a maintenance tool.
ProcRoles == [p \in {"a1", "a2", "d1", "m1"} |->
                CASE p \in {"a1", "a2"} -> "app" [] p = "d1" -> "daemon" [] OTHER -> "maintenance"]

\* The second manual start gets the process id of the first again.
ProcessId == "m1" :> "p1" @@ "m2" :> "p1" @@ "d1" :> "p2"

Control == INSTANCE AppControl WITH
    Apps <- {"m1", "m2", "d1"}, Manual <- {"m1", "m2"}, Pids <- {"p1", "p2"},
    Pid <- ProcessId, Stoppers <- {"s1"}, lock <- controlLock

Monitor == INSTANCE MonitorCycle WITH
    MaxRuns <- 2, MaxDay <- 2, Slots <- {"core1", "core2"},
    lock <- monitorLock, row <- monitorRow

Daemon == INSTANCE DaemonSupervision WITH
    Stale <- 2, PostureAge <- 1, Deadline <- 1, Boot <- 2, Interval <- 1,
    Checks <- {"breaker", "budget_exhausted", "quarantine_present"}, MaxFaults <- 1

ASSUME Constants ==
    /\ TenureAssumption
    /\ Control!ControlAssumption
    /\ Monitor!MonitorAssumption
    /\ Daemon!SupervisionAssumption

controlVars == <<intent, sock, meta, controlLock, app, asked, launch, stop,
                others, port, absent>>
monitorVars == <<main, why, worker, task, monitorLock, guard, monitorRow, tool,
                tripped, daily, day, runs>>
daemonVars == <<daemon, tenure, maint, failing, beat, newer, menu, status,
               owns, report, left, watch, faults>>
allVars == <<part, vars, controlVars, monitorVars, daemonVars>>

MCInit ==
    /\ part \in {"tenure", "control", "monitor", "daemon"}
    /\ Init
    /\ Control!Init
    /\ Monitor!Init
    /\ Daemon!Init

OnlyTenure ==
    part = "tenure" /\ UNCHANGED <<part, controlVars, monitorVars, daemonVars>>
OnlyControl ==
    part = "control" /\ UNCHANGED <<part, vars, monitorVars, daemonVars>>
OnlyMonitor ==
    part = "monitor" /\ UNCHANGED <<part, vars, controlVars, daemonVars>>
OnlyDaemon ==
    part = "daemon" /\ UNCHANGED <<part, vars, controlVars, monitorVars>>

MCNext ==
    \/ OnlyTenure /\ Next
    \/ OnlyControl /\ Control!Next
    \/ OnlyMonitor /\ Monitor!Next
    \/ OnlyDaemon /\ Daemon!Next
    \/ /\ part \in {"tenure", "control"}   \* may come to an end
       /\ UNCHANGED allVars

MCSpec == MCInit /\ [][MCNext]_allVars

-----------------------------------------------------------------------------
(* The part that moves keeps its types. *)
Types ==
    /\ TypeOK
    /\ part = "control" => Control!TypeOK
    /\ part = "monitor" => Monitor!TypeOK
    /\ part = "daemon" => Daemon!TypeOK

(* Nothing runs unseen: an application that serves can be found and asked to
   stop, and what the next start cannot clear away was left by a process that
   ended between its socket and its metadata or could not unlink the socket;
   one thread of the daemon evaluates, after a reconciliation without
   differences, its failures are latched unless the tenure is lost or the store
   refuses, and its heartbeat says that no cycle is stuck; and a supervisor keeps a
   child that has not ended and ends with success only without one. *)
ProcessesAreKnown ==
    /\ Types
    /\ part = "control" => Control!ServingIsReachable
    /\ part = "control" => Control!ResidueIsKnown
    /\ part = "monitor" => Monitor!OneEvaluator
    /\ part = "monitor" => Monitor!FailureLatches
    /\ part = "monitor" => Monitor!CyclesAreReconciled
    /\ part = "monitor" => Monitor!HeartbeatIsHonest
    /\ part = "daemon" => Daemon!ChildIsKept
    /\ part = "daemon" => Daemon!ExitIsClean

(* Control acts on processes as they are: a stop reaches the instance that was
   validated, no other instance gets up while a start is announced, absence is
   said only when no application is up, starting or announced, and a daemon is
   reported running only with its child alive, the daemon's tenure held and a
   heartbeat written since the operator confirmed, whichever daemon holds the
   one and wrote the other. *)
ControlActsOnTruth ==
    [][/\ part = "control" => Control!StopHitsItsTargetStep
       /\ part = "control" => Control!AnnouncedStartIsAloneStep
       /\ part = "control" => Control!AbsenceIsTrueStep
       /\ part = "daemon" => Daemon!RunningIsConfirmedStep]_allVars

=============================================================================
