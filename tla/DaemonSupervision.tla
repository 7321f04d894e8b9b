--------------------------- MODULE DaemonSupervision ---------------------------
(***************************************************************************)
(* Who runs the monitoring daemon: the operator's menu, which starts and   *)
(* stops a child of its own (ops/operator_daemon.py, ops/operator_         *)
(* terminal.py), and launchd, which keeps a daemon of its own alive and    *)
(* whose watchdog (ops/watchdog.py) restarts it when the heartbeat is      *)
(* stale. Both daemons want the same runtime tenure and write the same     *)
(* heartbeat; the menu sees them only through posture reports.             *)
(* Time is kept as ages and delays in ticks, so behaviours have no end.    *)
(***************************************************************************)
EXTENDS Integers

CONSTANTS Stale,      \* age after which a heartbeat is stale
          PostureAge, \* age up to which a posture report may be used
          Deadline,   \* how long the menu waits for a heartbeat
          Boot,       \* a daemon that is well writes a heartbeat within this time
          Interval,   \* between two runs of the watchdog
          Checks,     \* what a posture check may report
          MaxFaults   \* how often something goes wrong

SupervisionAssumption ==
    /\ Checks \subseteq {"structure", "reconciliation", "unsafe_order", "unsafe_rule", "breaker",
                        "quarantine_failed", "quarantine_present", "budget_malformed",
                        "budget_exhausted"}
    /\ {Stale, PostureAge, Deadline, Boot, Interval, MaxFaults} \subseteq Nat \ {0}

VARIABLES daemon,   \* the menu's child and launchd's daemon
          tenure,   \* the daemon's tenure: its owner, "lapsing" (the owner is dead), or "free"
          maint,    \* maintenance holds the database
          failing,  \* the posture check that fails, or "none"
          beat,     \* age of the heartbeat
          newer,    \* the heartbeat was written after the report the menu started from
          menu,     \* where the menu is
          status,   \* the supervisor's status
          owns,     \* the supervisor has the handle of its child
          report,   \* the posture report at hand
          left,     \* time left to the menu's deadline
          watch,    \* time left to the next run of the watchdog
          faults

vars == <<daemon, tenure, maint, failing, beat, newer, menu, status, owns, report, left, watch,
          faults>>

Daemons == {"child", "launchd"}
States == {"off", "starting", "running", "exited", "start_blocked", "stop_unconfirmed"}
Report == [age : 0 .. PostureAge + 1, failing : Checks \cup {"none"}, maint : BOOLEAN,
           held : BOOLEAN, fresh : BOOLEAN, newer : BOOLEAN]
NoReport == [age |-> PostureAge + 1, failing |-> "none", maint |-> FALSE, held |-> FALSE,
             fresh |-> FALSE, newer |-> FALSE]

TypeOK ==
    /\ daemon \in [Daemons -> [at : {"off", "new", "up", "hung", "stopping"}, age : 0 .. Boot]]
    /\ tenure \in Daemons \cup {"lapsing", "free"}
    /\ {maint, newer, owns} \subseteq BOOLEAN /\ failing \in Checks \cup {"none"}
    /\ beat \in 0 .. Stale + 1
    /\ menu \in {"menu", "confirm", "poll", "load", "judge", "verify", "abort", "stop", "cleanup",
                 "ended", "failed"}
    /\ status \in States
    /\ report \in Report
    /\ left \in 0 .. Deadline /\ watch \in 0 .. Interval /\ faults \in 0 .. MaxFaults

Init ==
    /\ daemon = [d \in Daemons |-> [at |-> "off", age |-> 0]]
    /\ tenure = "free" /\ maint = FALSE /\ failing = "none"
    /\ beat = Stale + 1 /\ newer = FALSE
    /\ menu = "menu" /\ status = "off" /\ owns = FALSE /\ report = NoReport
    /\ left = 0 /\ watch = Interval /\ faults = 0

System == <<daemon, tenure, maint, failing, beat, watch, faults>>
Menu == <<menu, status, owns, report, left, newer>>

Alive(d) == daemon[d].at # "off"

-----------------------------------------------------------------------------
(* The daemons *)

Set(d, at) == daemon' = [daemon EXCEPT ![d] = [at |-> at, age |-> 0]]
Lapse(d) == tenure' = IF tenure = d THEN "lapsing" ELSE tenure

(* A daemon takes the tenure or ends at once. *)
Acquire(d) ==
    /\ daemon[d].at = "new"
    /\ IF tenure = "free" /\ ~maint
       THEN daemon' = [daemon EXCEPT ![d].at = "up"] /\ tenure' = d
       ELSE Set(d, "off") /\ UNCHANGED tenure
    /\ UNCHANGED <<maint, failing, beat, watch, faults, Menu>>

(* A completed cycle: the heartbeat is the same row for both daemons. *)
Heartbeat(d) ==
    /\ daemon[d].at = "up" /\ Set(d, "up")
    /\ beat' = 0 /\ newer' = TRUE
    /\ UNCHANGED <<tenure, maint, failing, watch, faults, menu, status, owns, report, left>>

(* A daemon that was asked to stop, or that fails, releases its tenure and ends. *)
Stops(d) ==
    /\ \/ daemon[d].at = "stopping" /\ UNCHANGED faults
       \/ daemon[d].at \in {"new", "up"} /\ faults < MaxFaults /\ faults' = faults + 1
    /\ Set(d, "off")
    /\ tenure' = IF tenure = d THEN "free" ELSE tenure
    /\ UNCHANGED <<maint, failing, beat, watch, Menu>>

Hangs(d) ==
    /\ daemon[d].at \in {"up", "stopping"} /\ faults < MaxFaults
    /\ Set(d, "hung") /\ faults' = faults + 1
    /\ UNCHANGED <<tenure, maint, failing, beat, watch, Menu>>

(* launchd keeps its daemon alive. *)
Launchd ==
    /\ daemon["launchd"].at = "off"
    /\ Set("launchd", "new")
    /\ UNCHANGED <<tenure, maint, failing, beat, watch, faults, Menu>>

-----------------------------------------------------------------------------
(* The watchdog *)

(* Also when the heartbeat cannot be read, or is not an age. *)
NeedsRestart(readable) == ~readable \/ beat > Stale

Kickstart ==
    /\ Set("launchd", "new")
    /\ Lapse("launchd")

Watchdog ==
    /\ watch = 0
    /\ watch' = Interval
    /\ \E readable \in BOOLEAN :
           /\ IF readable THEN UNCHANGED faults ELSE faults < MaxFaults /\ faults' = faults + 1
           /\ IF NeedsRestart(readable) THEN Kickstart ELSE UNCHANGED <<daemon, tenure>>
    /\ UNCHANGED <<maint, failing, beat, Menu>>

-----------------------------------------------------------------------------
(* Posture reports and what the supervisor makes of them *)

Observe ==
    [age |-> 0, failing |-> failing, maint |-> maint, held |-> tenure # "free",
     fresh |-> beat <= Stale, newer |-> newer]

ObservationIsCurrent(r) == r.age <= PostureAge

(* Exhausted budgets, and quarantined items that have not failed, do not keep a daemon from starting. *)
BudgetEvidenceSafe(r) == r.failing # "budget_malformed"
ScopedClear(r) == r.failing \notin {"breaker", "unsafe_rule"}
QuarantineSafe(r) == r.failing # "quarantine_failed"
CommonSafety(r) ==
    /\ r.failing \notin {"structure", "reconciliation", "unsafe_order"}
    /\ BudgetEvidenceSafe(r) /\ ScopedClear(r) /\ QuarantineSafe(r)
ValidatedCommon(r) == ObservationIsCurrent(r) /\ CommonSafety(r)

TenureBlock(r, poststart) == r.maint \/ (r.held /\ ~poststart)

PostureAllows(r) ==
    /\ ValidatedCommon(r)
    /\ ~TenureBlock(r, FALSE)
    /\ ~r.fresh

PoststartState(r) ==
    IF ~ValidatedCommon(r) \/ TenureBlock(r, TRUE) THEN "unsafe"
    ELSE IF r.fresh /\ r.newer /\ r.held THEN "confirmed"
    ELSE "pending"

-----------------------------------------------------------------------------
(* start *)

Ends(state, owned) == status' = state /\ owns' = owned /\ menu' = "menu"

(* The operator asks for monitoring; the posture is fetched before they confirm. *)
AskStart ==
    /\ menu = "menu"
    /\ report' = Observe /\ newer' = FALSE
    /\ menu' = "confirm"
    /\ UNCHANGED <<System, status, owns, left>>

StartBlocked ==
    /\ menu = "confirm" /\ (owns \/ ~PostureAllows(report))
    /\ Ends("start_blocked", owns)
    /\ UNCHANGED <<System, report, left, newer>>

Spawn ==
    /\ menu = "confirm" /\ ~owns /\ PostureAllows(report)
    /\ Set("child", "new")
    /\ menu' = "poll" /\ status' = "starting" /\ owns' = TRUE /\ left' = Deadline
    /\ UNCHANGED <<tenure, maint, failing, beat, watch, faults, report, newer>>

ChildExited ==
    /\ menu \in {"poll", "verify"} /\ ~Alive("child")
    /\ Ends("exited", FALSE)
    /\ UNCHANGED <<System, report, left, newer>>

StillAlive ==
    /\ menu = "poll" /\ Alive("child")
    /\ menu' = "load"
    /\ UNCHANGED <<System, status, owns, report, left, newer>>

LoadReport ==
    /\ menu = "load"
    /\ report' = Observe
    /\ menu' = "judge"
    /\ UNCHANGED <<System, status, owns, left, newer>>

Judge ==
    /\ menu = "judge"
    /\ menu' = CASE PoststartState(report) = "unsafe" -> "abort"
                 [] PoststartState(report) = "confirmed" -> "verify"
                 [] OTHER -> IF left = 0 THEN "abort" ELSE "poll"
    /\ UNCHANGED <<System, status, owns, report, left, newer>>

ReportRunning ==
    /\ menu = "verify" /\ Alive("child")
    /\ Ends("running", TRUE)
    /\ UNCHANGED <<System, report, left, newer>>

-----------------------------------------------------------------------------
(* stop, _abort_start and the menu's end *)

(* SIGINT, to the child and to nothing else *)
Signal ==
    /\ daemon' = [daemon EXCEPT !["child"].at = IF @ \in {"new", "up"} THEN "stopping" ELSE @]
    /\ UNCHANGED <<tenure, maint, failing, beat, watch, faults>>

Abort ==
    /\ menu = "abort" /\ Alive("child")
    /\ Signal
    /\ menu' = "stop" /\ left' = Deadline
    /\ UNCHANGED <<status, owns, report, newer>>

AskStop ==
    /\ menu = "menu" /\ Alive("child") /\ owns
    /\ Signal
    /\ menu' = "stop" /\ left' = Deadline
    /\ UNCHANGED <<status, owns, report, newer>>

(* The child has ended while it was waited for, or before. *)
Stopped ==
    /\ menu \in {"stop", "abort"} /\ ~Alive("child")
    /\ Ends(IF status = "starting" THEN "start_blocked" ELSE "off", FALSE)
    /\ UNCHANGED <<System, report, left, newer>>

StopNothing ==
    /\ menu = "menu" /\ (~owns \/ ~Alive("child"))
    /\ Ends(IF owns THEN "exited" ELSE "off", FALSE)
    /\ UNCHANGED <<System, report, left, newer>>

Unconfirmed ==
    /\ menu = "stop" /\ left = 0 /\ Alive("child")
    /\ Ends("stop_unconfirmed", TRUE)
    /\ UNCHANGED <<System, report, left, newer>>

(* Leaving the menu stops the child that it owns, once. *)
Leave ==
    /\ menu = "menu"
    /\ IF owns /\ Alive("child") THEN Signal ELSE UNCHANGED System
    /\ menu' = "cleanup" /\ left' = Deadline
    /\ UNCHANGED <<status, owns, report, newer>>

CleanupConfirmed ==
    /\ menu = "cleanup" /\ (~owns \/ ~Alive("child"))
    /\ menu' = "ended" /\ owns' = FALSE
    /\ UNCHANGED <<System, status, report, left, newer>>

CleanupUnconfirmed ==
    /\ menu = "cleanup" /\ owns /\ Alive("child") /\ left = 0
    /\ menu' = "failed"
    /\ UNCHANGED <<System, status, owns, report, left, newer>>

-----------------------------------------------------------------------------
(* Time and the rest of the system *)

Older(n, max) == IF n < max THEN n + 1 ELSE n
Less(n) == IF n = 0 THEN 0 ELSE n - 1

(* Daemons that are well are not late, launchd relaunches within a tick, and the watchdog and
   the menu's waits are on time. *)
Tick ==
    /\ \A d \in Daemons : daemon[d].at \in {"new", "up"} => daemon[d].age < Boot
    /\ daemon["launchd"].at = "off" => daemon["launchd"].age = 0
    /\ watch > 0
    /\ menu \in {"menu", "confirm", "poll", "stop", "cleanup", "ended", "failed"}
    /\ menu \in {"poll", "stop", "cleanup"} => left > 0
    /\ daemon' = [d \in Daemons |-> [daemon[d] EXCEPT !.age = Older(@, Boot)]]
    /\ beat' = Older(beat, Stale + 1)
    /\ report' = [report EXCEPT !.age = Older(@, PostureAge + 1)]
    /\ left' = Less(left) /\ watch' = Less(watch)
    /\ tenure' = IF tenure = "lapsing" THEN "free" ELSE tenure
    /\ UNCHANGED <<maint, failing, newer, menu, status, owns, faults>>

CheckFails ==
    /\ failing = "none" /\ faults < MaxFaults
    /\ failing' \in Checks /\ faults' = faults + 1
    /\ UNCHANGED <<daemon, tenure, maint, beat, watch, Menu>>

CheckClears ==
    /\ failing # "none" /\ failing' = "none"
    /\ UNCHANGED <<daemon, tenure, maint, beat, watch, faults, Menu>>

Maintenance ==
    /\ tenure = "free"
    /\ \/ ~maint /\ faults < MaxFaults /\ maint' = TRUE /\ faults' = faults + 1
       \/ maint /\ maint' = FALSE /\ UNCHANGED faults
    /\ UNCHANGED <<daemon, tenure, failing, beat, watch, Menu>>

Supervisor ==
    \/ AskStart \/ StartBlocked \/ Spawn \/ ChildExited \/ StillAlive \/ LoadReport \/ Judge
    \/ ReportRunning \/ Abort \/ AskStop \/ Stopped \/ StopNothing \/ Unconfirmed
    \/ Leave \/ CleanupConfirmed \/ CleanupUnconfirmed

Next ==
    \/ Supervisor
    \/ \E d \in Daemons : Acquire(d) \/ Heartbeat(d) \/ Stops(d) \/ Hangs(d)
    \/ Launchd \/ Watchdog \/ Tick
    \/ CheckFails \/ CheckClears \/ Maintenance

Spec == Init /\ [][Next]_vars

-----------------------------------------------------------------------------
(* Properties *)

(* The supervisor lets go of its child only when the child has ended, also after a stop or a start
   that it could not confirm: a later stop can then still reach it. *)
ChildIsKept == ~owns => ~Alive("child")

(* A menu that ends with success has no daemon left behind. *)
ExitIsClean == menu = "ended" => ~Alive("child")

(* A start is reported as running only when its child is alive, the daemon's tenure was held and a
   heartbeat was written, by this or by another daemon, after the report the operator confirmed,
   with no check failing but one that says that a budget is used up or that quarantined items wait
   to be looked at. *)
RunningIsConfirmedStep ==
    status' = "running" /\ status # "running" =>
       /\ Alive("child") /\ newer
       /\ report.held /\ ~report.maint
       /\ report.failing \in {"none", "budget_exhausted", "quarantine_present"}

=============================================================================
