----------------------------- MODULE MonitorCycle -----------------------------
(***************************************************************************)
(* The monitoring daemon (daemon/monitor.py): an event loop that runs its  *)
(* startup reconciliation, its safety cycles and its daily analysis in     *)
(* worker threads. A wait may time out, a thread cannot be stopped: what   *)
(* was started goes on until it ends by itself or the process is killed.   *)
(* The daemon writes under its runtime tenure (RuntimeTenure), of which    *)
(* this module keeps the guard's latch, the row and the fence on commits.  *)
(***************************************************************************)
EXTENDS Integers, FiniteSets

CONSTANTS MaxRuns,  \* times the daemon is started
          MaxDay,   \* days that pass
          Slots     \* worker threads that core cycles may occupy

MonitorAssumption ==
    /\ MaxRuns \in Nat \ {0} /\ MaxDay \in Nat \ {0}
    /\ IsFiniteSet(Slots) /\ "none" \notin Slots /\ "recon" \notin Slots

VARIABLES main,     \* where the event loop is
          why,      \* what ended it
          worker,   \* the stage of every worker thread
          task,     \* the thread of the retained core task, or "none"
          lock,     \* which thread is inside the writer barrier
          guard,    \* the tenure guard of the process
          row,      \* the daemon's tenure row is held
          tool,     \* a maintenance tool holds the database
          tripped,  \* the breakers that are tripped
          daily,    \* the daily analysis: its task, its threads, when it ran
          day, runs  \* the date, and how often the daemon was started

vars == <<main, why, worker, task, lock, guard, row, tool, tripped, daily, day, runs>>

ThreadIds == Slots \cup {"recon"}
Over == {"none", "done", "unsynced", "drift", "raised", "tripped"} \* of a thread that has ended
Stages == Over \cup {"orders", "positions", "positions_late", "loss", "rules", "trip"}

Scopes == {"operator", "drift", "loss"}

NoDaily == [task |-> "none", threads |-> {}, last |-> 0, ran |-> [d \in 1 .. MaxDay |-> 0]]

TypeOK ==
    /\ main \in {"off", "begin", "reconciling", "check", "cycle", "beat", "sleep", "failing",
                 "closing", "drain"}
    /\ why \in {"none", "interrupt", "startup", "unsynced", "drift", "lost", "cycle", "order_sync",
               "untripped"}
    /\ worker \in [ThreadIds -> Stages]
    /\ task \in Slots \cup {"none"} /\ lock \in ThreadIds \cup {"none"}
    /\ guard \in [lost : BOOLEAN, closed : BOOLEAN]
    /\ {row, tool} \subseteq BOOLEAN /\ tripped \subseteq Scopes
    /\ daily.task \in {"none", "running", "over"} /\ daily.threads \subseteq 1 .. MaxDay
    /\ daily.last \in 0 .. MaxDay /\ daily.ran \in [1 .. MaxDay -> 0 .. MaxRuns + MaxDay]
    /\ day \in 1 .. MaxDay /\ runs \in 0 .. MaxRuns

Init ==
    /\ main = "off" /\ why = "none"
    /\ worker = [t \in ThreadIds |-> "none"] /\ task = "none" /\ lock = "none"
    /\ guard = [lost |-> FALSE, closed |-> TRUE]
    /\ row = FALSE /\ tool = FALSE /\ tripped = {}
    /\ daily = NoDaily
    /\ day = 1 /\ runs = 0

Goto(pc) == main' = pc
End(reason) == main' = "closing" /\ why' = reason
Process == <<worker, task, lock, daily>>
Store == <<guard, row, tool, tripped>>
World == <<day, runs>>

-----------------------------------------------------------------------------
(* The tenure *)

EnsureOwned == ~guard.lost /\ ~guard.closed

MayCommit == guard.closed \/ (~guard.lost /\ row)

(* _build_monitor: the container takes the tenure before anything else is built. *)
Start ==
    /\ main = "off" /\ runs < MaxRuns
    /\ ~tool
    /\ Goto("begin") /\ why' = "none"
    /\ guard' = [lost |-> FALSE, closed |-> FALSE] /\ row' = TRUE
    /\ worker' = [t \in ThreadIds |-> "none"] /\ task' = "none" /\ lock' = "none"
    /\ daily' = NoDaily
    /\ runs' = runs + 1
    /\ UNCHANGED <<tool, tripped, day>>

(* The renewal thread finds that the tenure cannot be renewed. *)
RenewFails ==
    /\ main # "off" /\ EnsureOwned
    /\ guard' = [guard EXCEPT !.lost = TRUE]
    /\ UNCHANGED <<main, why, Process, row, tool, tripped, World>>

-----------------------------------------------------------------------------
(* Worker threads *)

(* Every stage is one or more writer intervals; the thread waits for the barrier. *)
EnterStage(t) ==
    /\ worker[t] \notin Over /\ lock = "none"
    /\ lock' = t
    /\ UNCHANGED <<main, why, worker, task, daily, Store, World>>

Leave(t, stage) ==
    /\ worker' = [worker EXCEPT ![t] = stage]
    /\ lock' = "none"
    /\ UNCHANGED <<main, why, task, daily, World>>

Trips(scopes) == tripped' = tripped \cup scopes
Commits(t, stage) ==
    /\ lock = t /\ worker[t] = stage /\ MayCommit
    /\ UNCHANGED <<guard, row, tool>>

(* sync_open_orders: all is reconciled, or a count of failures is reported; cancellations of a plan
   that remain open trip the drift breaker and count as failures. The cycle does not go on to its
   other stages after a failure. *)
OrderSync(t) ==
    /\ Commits(t, "orders")
    /\ \/ Leave(t, IF t = "recon" THEN "positions" ELSE "loss") /\ UNCHANGED tripped
       \/ \E scopes \in {{}, {"drift"}} :
              Leave(t, IF t = "recon" THEN "positions_late" ELSE "trip") /\ Trips(scopes)

PositionCheck ==
    /\ Commits("recon", worker["recon"])
    /\ worker["recon"] \in {"positions", "positions_late"}
    /\ \/ Leave("recon", IF worker["recon"] = "positions" THEN "done" ELSE "unsynced")
         /\ UNCHANGED tripped
       \/ Leave("recon", "drift") /\ Trips({"drift"})

(* enforce_daily_loss_limits: a breach trips the breaker of the asset class. *)
LossCheck(t) ==
    /\ Commits(t, "loss")
    /\ Leave(t, "rules")
    /\ \E scopes \in {{}, {"loss"}} : Trips(scopes)

(* RuleWorker.tick (RuleGroups) *)
RuleTick(t) ==
    /\ Commits(t, "rules")
    /\ Leave(t, "done") /\ UNCHANGED tripped

(* A cycle whose order sync failed trips the switches itself, before any rule is evaluated. *)
StageTrips(t) ==
    /\ Commits(t, "trip")
    /\ Leave(t, "tripped") /\ Trips({"operator"})

(* The broker fails, or the fence refuses the commit. *)
StageRaises(t) ==
    /\ lock = t
    /\ Leave(t, "raised")
    /\ guard' = [guard EXCEPT !.lost = @ \/ ~MayCommit]
    /\ UNCHANGED <<row, tool, tripped>>

-----------------------------------------------------------------------------
(* run: the startup reconciliation *)

Begin ==
    /\ main = "begin"
    /\ IF EnsureOwned
       THEN Goto("reconciling") /\ worker' = [worker EXCEPT !["recon"] = "orders"] /\ UNCHANGED why
       ELSE End("lost") /\ UNCHANGED worker
    /\ UNCHANGED <<task, lock, daily, Store, World>>

Reconciled ==
    /\ main = "reconciling" /\ worker["recon"] \in {"done", "unsynced", "drift"}
    /\ IF worker["recon"] = "done" THEN Goto("check") /\ UNCHANGED why
       ELSE Goto("failing") /\ why' = IF worker["recon"] = "drift" THEN "drift" ELSE "unsynced"
    /\ UNCHANGED <<Process, Store, World>>

(* The reconciliation raised, or its wait timed out with the thread still at work. *)
StartupFails ==
    /\ main = "reconciling" /\ worker["recon"] \notin {"done", "unsynced", "drift"}
    /\ End("startup")
    /\ UNCHANGED <<Process, Store, World>>

-----------------------------------------------------------------------------
(* run: the cycles *)

Running(t) == worker[t] \notin Over

(* _bounded_core_cycle: a task that is retained and still at work is never replaced. *)
BoundedCoreCycle ==
    /\ main = "check" /\ EnsureOwned
    /\ task # "none" => ~Running(task)
    /\ \E t \in Slots :
           /\ worker[t] \in Over
           /\ worker' = [worker EXCEPT ![t] = "orders"]
           /\ task' = t
    /\ Goto("cycle")
    /\ UNCHANGED <<why, lock, daily, Store, World>>

CheckLost ==
    /\ main = "check" /\ ~EnsureOwned
    /\ End("lost")
    /\ UNCHANGED <<Process, Store, World>>

CoreEnds ==
    /\ main = "cycle" /\ ~Running(task)
    /\ task' = "none"
    /\ CASE worker[task] = "done" -> Goto("beat") /\ UNCHANGED why
         [] worker[task] = "tripped" -> End("order_sync")
         [] OTHER -> Goto("failing") /\ why' = "cycle"
    /\ UNCHANGED <<worker, lock, daily, Store, World>>

CoreTimesOut ==
    /\ main = "cycle" /\ Running(task)
    /\ Goto("failing") /\ why' = "cycle"
    /\ UNCHANGED <<Process, Store, World>>

(* _schedule_daily_tasks: one task at a time; its wait ends without ending its thread. *)
Scheduled ==
    IF daily.task = "running" THEN daily ELSE [daily EXCEPT !.task = "running"]

(* write_heartbeat, under the fence. *)
Beat ==
    /\ main = "beat"
    /\ IF MayCommit
       THEN Goto("sleep") /\ daily' = Scheduled /\ UNCHANGED <<why, guard>>
       ELSE /\ Goto("failing") /\ why' = "cycle"
            /\ guard' = [guard EXCEPT !.lost = TRUE] /\ UNCHANGED daily
    /\ UNCHANGED <<worker, task, lock, row, tool, tripped, World>>

Wake ==
    /\ main = "sleep"
    /\ Goto("check")
    /\ UNCHANGED <<why, Process, Store, World>>

-----------------------------------------------------------------------------
(* run_daily_tasks *)

DailyStarts ==
    /\ daily.task = "running" /\ daily.last # day
    /\ daily' = [daily EXCEPT !.threads = @ \cup {day}, !.last = day, !.ran[day] = @ + 1]
    /\ UNCHANGED <<main, why, worker, task, lock, Store, World>>

(* The wait for the daily task ends: the work is done, was done before on this day, or takes too
   long; in the last case its thread goes on. *)
DailyWaitEnds ==
    /\ daily.task = "running" /\ main \notin {"off", "drain"} /\ daily.last = day
    /\ daily' = [daily EXCEPT !.task = "over"]
    /\ UNCHANGED <<main, why, worker, task, lock, Store, World>>

(* The analysis stores its reports under the fence of the process, and ends. *)
DailyEnds(d) ==
    /\ d \in daily.threads
    /\ daily' = [daily EXCEPT !.threads = @ \ {d}]
    /\ UNCHANGED <<main, why, worker, task, lock, guard, row, tool, tripped, World>>

-----------------------------------------------------------------------------
(* The end of the process *)

(* trip_all_killswitches waits for the writer barrier, in the event loop itself. *)
Trip ==
    /\ main = "failing" /\ lock = "none"
    /\ Trips(IF MayCommit THEN {"operator"} ELSE {})
    /\ guard' = [guard EXCEPT !.lost = @ \/ ~MayCommit]
    /\ Goto("closing")
    /\ UNCHANGED <<why, Process, row, tool, World>>

(* The store refuses the trip itself: what it raises leaves run in place of the failure. *)
TripRaises ==
    /\ main = "failing" /\ lock = "none"
    /\ End("untripped")
    /\ UNCHANGED <<Process, Store, World>>

(* SIGINT cancels what the loop waits for. *)
Interrupt ==
    /\ main \in {"reconciling", "cycle", "sleep"}
    /\ End("interrupt")
    /\ UNCHANGED <<Process, Store, World>>

(* guard.close: the row is released unless the tenure was lost or the store fails, and the fence
   is removed in either case. *)
Close ==
    /\ main = "closing"
    /\ \E fails \in BOOLEAN :
           LET released == ~guard.lost /\ ~fails
           IN  /\ row' = (row /\ ~released)
               /\ guard' = [lost |-> ~released, closed |-> TRUE]
    /\ daily' = [daily EXCEPT !.task = "over"]
    /\ Goto("drain")
    /\ UNCHANGED <<why, worker, task, lock, tool, tripped, World>>

(* asyncio.run returns when every worker thread has ended. *)
DrainWithLock == \* Mutant: the event loop keeps the writer barrier while it waits
    /\ main = "drain" /\ lock = "recon"
    /\ Goto("off")
    /\ UNCHANGED <<why, Process, Store, World>>
Drain ==
    /\ main = "drain"
    /\ \A t \in ThreadIds : ~Running(t)
    /\ daily.threads = {}
    /\ Goto("off")
    /\ UNCHANGED <<why, Process, Store, World>>

(* The watchdog's kickstart -k, or any crash. *)
Kill ==
    /\ main # "off"
    /\ Goto("off") /\ why' = "none"
    /\ worker' = [t \in ThreadIds |-> "none"] /\ task' = "none" /\ lock' = "none"
    /\ daily' = [daily EXCEPT !.task = "over", !.threads = {}]
    /\ UNCHANGED <<Store, World>>

(* A maintenance tool starts when no tenure is held, or its process is gone. *)
ToolStarts ==
    /\ ~tool /\ (~row \/ main = "off")
    /\ tool' = TRUE /\ row' = FALSE
    /\ UNCHANGED <<main, why, Process, guard, tripped, World>>

ToolEnds ==
    /\ tool /\ tool' = FALSE
    /\ UNCHANGED <<main, why, Process, guard, row, tripped, World>>

(* The operator resets a breaker between two runs of the daemon. *)
Reset ==
    /\ main = "off"
    /\ \E scope \in tripped : tripped' = tripped \ {scope}
    /\ UNCHANGED <<main, why, Process, guard, row, tool, World>>

NextDay ==
    /\ day < MaxDay /\ day' = day + 1
    /\ UNCHANGED <<main, why, Process, Store, runs>>

-----------------------------------------------------------------------------
Worker(t) ==
    \/ EnterStage(t) \/ OrderSync(t) \/ (t = "recon" /\ PositionCheck)
    \/ LossCheck(t) \/ RuleTick(t) \/ StageTrips(t) \/ StageRaises(t)

Loop ==
    \/ Begin \/ Reconciled \/ StartupFails
    \/ BoundedCoreCycle \/ CheckLost \/ CoreEnds \/ CoreTimesOut \/ Beat \/ Wake
    \/ Trip \/ TripRaises \/ Close \/ Drain

Next ==
    \/ Start \/ RenewFails \/ Loop \/ Interrupt \/ Kill
    \/ \E t \in ThreadIds : Worker(t)
    \/ DailyStarts \/ DailyWaitEnds \/ \E d \in 1 .. MaxDay : DailyEnds(d)
    \/ ToolStarts \/ ToolEnds \/ Reset \/ NextDay

Spec == Init /\ [][Next]_vars

(* The loop is scheduled, and every call a thread makes to the broker or the database ends. *)
Fairness ==
    /\ WF_vars(Loop)
    /\ \A t \in ThreadIds : WF_vars(Worker(t))
    /\ \A d \in 1 .. MaxDay : WF_vars(DailyEnds(d))

-----------------------------------------------------------------------------
(* Properties *)

(* At most one thread of the daemon reconciles or evaluates rules, timed-out waits included. *)
OneEvaluator ==
    \A t, u \in ThreadIds : Running(t) /\ Running(u) => t = u

(* A daemon that ended because a cycle failed, or because its startup found differences, leaves the
   operator-global breaker tripped, unless it had lost its tenure or the store refused the trip:
   then it ends with what the store raised, and no breaker is tripped. *)
FailureLatches ==
    main = "drain" /\ why \in {"cycle", "order_sync", "unsynced", "drift"} /\ ~guard.lost
        => "operator" \in tripped

(* Rules are evaluated only by a process whose own startup reconciliation ended without a
   difference: a failure that no breaker latched still keeps the next process from its cycles until
   orders and positions agree again. *)
CyclesAreReconciled ==
    main \in {"check", "cycle", "beat", "sleep"} => worker["recon"] = "done"

(* The heartbeat is written between cycles: whoever sees it fresh knows that no cycle is stuck. *)
HeartbeatIsHonest ==
    main \in {"beat", "sleep"} => \A t \in ThreadIds : ~Running(t)

(* A daemon that is going down ends, whatever its threads were doing. *)
GoesDown == main \in {"failing", "closing", "drain"} ~> main = "off"
=============================================================================
