---------------------------- MODULE SafetyProofs -----------------------------
(***************************************************************************)
(* What the safety of submissions rests on: the barrier that orders        *)
(* writers and submissions, for any number of threads, with its refinement *)
(* of OrderingBarrier; the daemon whose threads work under it and which    *)
(* writes the heartbeat (MonitorCycle); and the report that tells an       *)
(* operator what the database says, the heartbeat included (SafetyTruth).  *)
(* The last two are instances, over constants and variables of their own.  *)
(***************************************************************************)
EXTENDS SubmissionBarrier, Naturals, Sequences, TLAPS

(* The inductive invariant: lock ownership follows the program counters    *)
(* and the intent lock is never shared and exclusive at once.  Snapshot    *)
(* currency is inductive relative to both.                                 *)
IInv == TypeOK /\ LockDiscipline /\ IntentExclusive /\ SnapshotCurrent

(* The initial state, with every lock free, satisfies the invariant. *)
LEMMA InitEstablishesIInv == Init => IInv
  BY NobodyAssumption
  DEF Init, IInv, TypeOK, LockDiscipline, IntentExclusive, SnapshotCurrent,
      Deciding, WriterStates, SubmissionStates

(* Every step of hold_writer, of hold_submission, and every process exit   *)
(* preserves the invariant.                                                *)
LEMMA StepPreservesIInv == IInv /\ [Next]_vars => IInv'
<1> USE NobodyAssumption
        DEF IInv, TypeOK, LockDiscipline, IntentExclusive, SnapshotCurrent,
            Deciding, WriterStates, SubmissionStates, Goto, IntentFree
<1> SUFFICES ASSUME IInv, [Next]_vars PROVE IInv'
  OBVIOUS
<1>1. ASSUME NEW t \in Threads, TakeGateShared(t) PROVE IInv'
  BY <1>1 DEF TakeGateShared
<1>2. ASSUME NEW t \in Threads, AnnounceIntent(t) PROVE IInv'
  BY <1>2 DEF AnnounceIntent
<1>3. ASSUME NEW t \in Threads, EnterWriter(t) PROVE IInv'
  BY <1>3 DEF EnterWriter
<1>4. ASSUME NEW t \in Threads, ReleaseWriterMain(t) PROVE IInv'
  BY <1>4 DEF ReleaseWriterMain
<1>5. ASSUME NEW t \in Threads, ReleaseIntent(t) PROVE IInv'
  BY <1>5 DEF ReleaseIntent
<1>6. ASSUME NEW t \in Threads, ReleaseGateShared(t) PROVE IInv'
  BY <1>6 DEF ReleaseGateShared
<1>7. ASSUME NEW t \in Threads, StartSubmission(t) PROVE IInv'
  BY <1>7 DEF StartSubmission, locks
<1>8. ASSUME NEW t \in Threads, LockMain(t) PROVE IInv'
  BY <1>8 DEF LockMain
<1>9. ASSUME NEW t \in Threads, ProbeClear(t) PROVE IInv'
  BY <1>9 DEF ProbeClear
<1>10. ASSUME NEW t \in Threads, Admit(t) PROVE IInv'
  BY <1>10 DEF Admit
<1>11. ASSUME NEW t \in Threads, ProbeBlocked(t) PROVE IInv'
  BY <1>11 DEF ProbeBlocked
<1>12. ASSUME NEW t \in Threads, TakeGate(t) PROVE IInv'
  BY <1>12 DEF TakeGate
<1>13. ASSUME NEW t \in Threads, LeaveGate(t) PROVE IInv'
  BY <1>13 DEF LeaveGate
<1>14. ASSUME NEW t \in Threads, ClaimCurrent(t) PROVE IInv'
  BY <1>14 DEF ClaimCurrent
<1>15. ASSUME NEW t \in Threads, ClaimStale(t) PROVE IInv'
  BY <1>15 DEF ClaimStale
<1>16. ASSUME NEW t \in Threads, EndClaimInterval(t) PROVE IInv'
  BY <1>16 DEF EndClaimInterval
<1>17. ASSUME NEW t \in Threads, UnlockMain(t) PROVE IInv'
  BY <1>17 DEF UnlockMain
<1>18. ASSUME NEW t \in Threads, Crash(t) PROVE IInv'
  BY <1>18 DEF Crash, Without
<1>19. CASE UNCHANGED vars
  BY <1>19 DEF vars
<1> QED
  BY <1>1, <1>2, <1>3, <1>4, <1>5, <1>6, <1>7, <1>8, <1>9, <1>10, <1>11,
     <1>12, <1>13, <1>14, <1>15, <1>16, <1>17, <1>18, <1>19
  DEF Next, Writer, Submission

(* The inductive invariant holds in every reachable state. *)
LEMMA InvariantHolds == Spec => []IInv
  BY InitEstablishesIInv, StepPreservesIInv, PTL DEF Spec

(* Lock ownership follows the program counters, so every release in the    *)
(* finally clauses releases a lock the thread really owns.                 *)
THEOREM LocksFollowControl == Spec => []LockDiscipline
<1>1. IInv => LockDiscipline
  BY DEF IInv
<1> QED
  BY <1>1, InvariantHolds, PTL

(* No submission ever decides, claims or sends on a risk snapshot that a   *)
(* writer has changed since hold_submission admitted it.                   *)
THEOREM SnapshotStaysCurrent == Spec => []SnapshotCurrent
<1>1. IInv => SnapshotCurrent
  BY DEF IInv
<1> QED
  BY <1>1, InvariantHolds, PTL

(* No order is claimed or sent past a writer that has announced intent. *)
THEOREM QueuedWriterExcludesClaim == Spec => []QueuedWriterBlocksClaim
<1>1. IInv => QueuedWriterBlocksClaim
  BY NobodyAssumption
  DEF IInv, TypeOK, LockDiscipline, IntentExclusive, QueuedWriterBlocksClaim
<1> QED
  BY <1>1, InvariantHolds, PTL

(* The barrier's safety together, for any number of threads that may die   *)
(* at any point of hold_writer, hold_submission and claim_if_current.      *)
THEOREM BarrierIsSafe == Spec => []BarrierHolds
<1>1. IInv => TypeOK
  BY DEF IInv
<1> QED
  BY <1>1, InvariantHolds, LocksFollowControl, SnapshotStaysCurrent,
     QueuedWriterExcludesClaim, PTL
  DEF BarrierHolds

(* Every step of the three lock files is a step of the abstract barrier    *)
(* or leaves what it shows unchanged: in particular a submission begins,   *)
(* and claims, only while no writer is announced.                          *)
LEMMA StepSimulation == IInv /\ [Next]_vars => [Barrier!BarrierNext]_(Barrier!barrierVars)
<1> USE NobodyAssumption
        DEF IInv, TypeOK, LockDiscipline, IntentExclusive,
            Deciding, WriterStates, SubmissionStates, Goto, IntentFree,
            holderOf, claimantOf
<1> SUFFICES ASSUME IInv, [Next]_vars
             PROVE  [Barrier!BarrierNext]_(Barrier!barrierVars)
  OBVIOUS
<1>1. ASSUME NEW t \in Threads,
             \/ TakeGateShared(t) \/ ReleaseGateShared(t) \/ TakeGate(t)
             \/ LeaveGate(t) \/ StartSubmission(t)
      PROVE  UNCHANGED Barrier!barrierVars
  BY <1>1 DEF TakeGateShared, ReleaseGateShared, TakeGate, LeaveGate,
              StartSubmission, locks, Barrier!barrierVars
<1>2. ASSUME NEW t \in Threads,
             LockMain(t) \/ ProbeClear(t) \/ ProbeBlocked(t)
      PROVE  UNCHANGED Barrier!barrierVars
  BY <1>2 DEF LockMain, ProbeClear, ProbeBlocked, Barrier!barrierVars
<1>3. ASSUME NEW t \in Threads, AnnounceIntent(t) PROVE Barrier!Announce(t)
  BY <1>3 DEF AnnounceIntent, Barrier!Announce
<1>4. ASSUME NEW t \in Threads, EnterWriter(t) PROVE Barrier!BeginWrite(t)
  BY <1>4 DEF EnterWriter, Barrier!BeginWrite
<1>5. ASSUME NEW t \in Threads, ReleaseWriterMain(t) PROVE Barrier!EndWrite(t)
  BY <1>5 DEF ReleaseWriterMain, Barrier!EndWrite
<1>6. ASSUME NEW t \in Threads, ReleaseIntent(t) PROVE Barrier!Retire(t)
  BY <1>6 DEF ReleaseIntent, Barrier!Retire
<1>7. ASSUME NEW t \in Threads, Admit(t) PROVE Barrier!BeginSubmission(t)
  BY <1>7 DEF Admit, Barrier!BeginSubmission
<1>8. ASSUME NEW t \in Threads, ClaimCurrent(t) PROVE Barrier!BeginClaim(t)
  BY <1>8 DEF ClaimCurrent, Barrier!BeginClaim
<1>9. ASSUME NEW t \in Threads, EndClaimInterval(t) PROVE Barrier!EndClaim(t)
  BY <1>9 DEF EndClaimInterval, Barrier!EndClaim
<1>10. ASSUME NEW t \in Threads, UnlockMain(t) \/ ClaimStale(t)
       PROVE  Barrier!EndSubmission(t)
  BY <1>10 DEF UnlockMain, ClaimStale, Barrier!EndSubmission
<1>11. ASSUME NEW t \in Threads, Crash(t)
       PROVE  \/ Barrier!Abandon(t) \/ Barrier!Retire(t)
              \/ UNCHANGED Barrier!barrierVars
  <2>1. CASE holderOf = t
    BY <1>11, <2>1 DEF Crash, Without, Barrier!Abandon
  <2>2. CASE holderOf # t /\ t \in intentShared
    BY <1>11, <2>2 DEF Crash, Without, Barrier!Retire
  <2>3. CASE holderOf # t /\ t \notin intentShared
    BY <1>11, <2>3 DEF Crash, Without, Barrier!barrierVars
  <2> QED
    BY <2>1, <2>2, <2>3
<1>12. CASE UNCHANGED vars
  BY <1>12 DEF vars, Barrier!barrierVars
<1> QED
  BY <1>1, <1>2, <1>3, <1>4, <1>5, <1>6, <1>7, <1>8, <1>9, <1>10, <1>11, <1>12
  DEF Next, Writer, Submission, Barrier!BarrierNext

(* The lock files implement the ordering barrier for any set of threads. *)
THEOREM BarrierRefinement == Spec => ImplementsOrderingBarrier
<1>1. Init => Barrier!BarrierInit
  BY NobodyAssumption DEF Init, Barrier!BarrierInit, holderOf, claimantOf, Deciding
<1> QED
  BY <1>1, StepSimulation, InvariantHolds, PTL
  DEF Spec, ImplementsOrderingBarrier, Barrier!BarrierSpec

-----------------------------------------------------------------------------
(* The daemon's loop and its threads *)

CONSTANTS MaxRuns, MaxDay, Slots
VARIABLES main, why, worker, task, barrier, guard, row, tool, breakers,
          daily, day, runs

Monitor == INSTANCE MonitorCycle WITH lock <- barrier, tripped <- breakers

(* The daily analysis starts at most once on a day, since the day it last
   started on is never ahead of the date. *)
DailyOnce ==
    /\ daily \in [task : {"none", "running", "over"}, threads : SUBSET (1 .. MaxDay),
                  last : 0 .. MaxDay, ran : [1 .. MaxDay -> {0, 1}]]
    /\ daily.last <= day
    /\ \A d \in 1 .. MaxDay : d > daily.last => daily.ran[d] = 0

(* Where the event loop may be while a thread is still at work. *)
WhoWorks ==
    \A t \in Monitor!ThreadIds : Monitor!Running(t) =>
        \/ t = "recon" /\ main \in {"reconciling", "closing", "drain"}
        \/ t = task /\ main \in {"cycle", "failing", "closing", "drain"}

(* The barrier is with a thread that is at work, and no cycle begins before the
   reconciliation has ended without a difference. *)
ReconciledFirst ==
    /\ \A t \in Monitor!ThreadIds : barrier = t => Monitor!Running(t)
    /\ Monitor!CyclesAreReconciled

(* Whoever must leave the operator's breaker tripped has tripped it before
   the tenure is given up. *)
Latched ==
    /\ main = "cycle" => task \in Slots
    /\ main = "cycle" /\ worker[task] = "tripped" => "operator" \in breakers
    /\ main \in {"closing", "drain"} /\ why \in {"cycle", "order_sync", "unsynced", "drift"}
          /\ ~guard.lost => "operator" \in breakers

MonitorInv ==
    Monitor!TypeOK /\ DailyOnce /\ WhoWorks /\ Monitor!OneEvaluator /\ Latched /\ ReconciledFirst

(* The daemon is off at first. *)
LEMMA MonitorInit == ASSUME Monitor!MonitorAssumption, Monitor!Init PROVE MonitorInv
<1>1. /\ MaxRuns \in Nat \ {0} /\ MaxDay \in Nat \ {0}
  BY DEF Monitor!MonitorAssumption
<1>2. DailyOnce
  <2>1. daily = Monitor!NoDaily /\ day = 1
    BY DEF Monitor!Init
  <2> QED
    BY <1>1, <2>1 DEF DailyOnce, Monitor!NoDaily
<1>3. {row, tool} \subseteq BOOLEAN /\ guard \in [lost : BOOLEAN, closed : BOOLEAN]
  BY Zenon DEF Monitor!Init
<1>4. Monitor!TypeOK
  <2>1. /\ daily.task \in {"none", "running", "over"} /\ daily.threads \subseteq 1 .. MaxDay
        /\ daily.last \in 0 .. MaxDay /\ daily.ran \in [1 .. MaxDay -> 0 .. MaxRuns + MaxDay]
    BY <1>1, <1>2 DEF DailyOnce
  <2>2. worker \in [Monitor!ThreadIds -> Monitor!Stages] /\ day \in 1 .. MaxDay
           /\ runs \in 0 .. MaxRuns
    BY <1>1 DEF Monitor!Init, Monitor!Stages, Monitor!Over
  <2> QED
    BY <1>3, <2>1, <2>2 DEF Monitor!Init, Monitor!TypeOK
<1>5. WhoWorks /\ Monitor!OneEvaluator /\ Latched /\ ReconciledFirst
  <2>1. "none" \notin Monitor!ThreadIds
    BY DEF Monitor!ThreadIds, Monitor!MonitorAssumption
  <2> QED
    BY <2>1
    DEF Monitor!Init, WhoWorks, Monitor!OneEvaluator, Latched, ReconciledFirst,
        Monitor!CyclesAreReconciled, Monitor!Running, Monitor!Over
<1> QED
  BY <1>2, <1>4, <1>5 DEF MonitorInv

(* No step starts the daily analysis a second time on a day. *)
LEMMA MonitorDaily ==
    ASSUME Monitor!MonitorAssumption, Monitor!TypeOK, DailyOnce, [Monitor!Next]_Monitor!vars
    PROVE  DailyOnce'
<1>1. /\ MaxRuns \in Nat \ {0} /\ MaxDay \in Nat \ {0} /\ day \in 1 .. MaxDay
  BY DEF Monitor!MonitorAssumption, Monitor!TypeOK
<1> USE DEF Monitor!Next, Monitor!Start, Monitor!RenewFails, Monitor!Loop, Monitor!Interrupt,
            Monitor!Kill, Monitor!Worker, Monitor!DailyWaitEnds, Monitor!DailyEnds,
            Monitor!ToolStarts, Monitor!ToolEnds, Monitor!Reset, Monitor!NextDay,
            Monitor!EnterStage, Monitor!OrderSync, Monitor!PositionCheck, Monitor!LossCheck,
            Monitor!RuleTick, Monitor!StageTrips, Monitor!StageRaises, Monitor!Begin,
            Monitor!Reconciled, Monitor!StartupFails, Monitor!BoundedCoreCycle,
            Monitor!CheckLost, Monitor!CoreEnds, Monitor!CoreTimesOut, Monitor!Beat,
            Monitor!Wake, Monitor!Trip, Monitor!TripRaises, Monitor!Close, Monitor!Drain,
            Monitor!World, Monitor!Process, Monitor!Store, Monitor!Leave, Monitor!vars
<1>2. day' = day \/ (day < MaxDay /\ day' = day + 1 /\ daily' = daily)
  BY DEF Monitor!DailyStarts
<1>3. \/ daily' \in {daily, Monitor!NoDaily, [daily EXCEPT !.task = "over"],
                     [daily EXCEPT !.task = "running"],
                     [daily EXCEPT !.task = "over", !.threads = {}]}
      \/ \E d \in 1 .. MaxDay : daily' = [daily EXCEPT !.threads = @ \ {d}]
      \/ Monitor!DailyStarts
  BY DEF Monitor!Scheduled
<1> HIDE DEF Monitor!Next
<1>4. CASE daily' = daily
  BY <1>1, <1>2, <1>4 DEF DailyOnce
<1>5. CASE daily' = Monitor!NoDaily /\ day' = day
  BY <1>1, <1>5 DEF DailyOnce, Monitor!NoDaily
<1>6. ASSUME NEW to \in {"running", "over"}, NEW ths \in SUBSET (1 .. MaxDay), day' = day,
             \/ daily' = [daily EXCEPT !.task = to]
             \/ daily' = [daily EXCEPT !.task = to, !.threads = ths]
             \/ daily' = [daily EXCEPT !.threads = ths]
      PROVE  DailyOnce'
  BY <1>6 DEF DailyOnce
<1>7. CASE Monitor!DailyStarts
  <2> DEFINE ran == [daily.ran EXCEPT ![day] = 1]
  <2>1. /\ daily.last \in 0 .. MaxDay /\ daily.threads \subseteq 1 .. MaxDay
        /\ daily.ran \in [1 .. MaxDay -> {0, 1}] /\ daily.last <= day /\ daily.last # day
    BY <1>7 DEF DailyOnce, Monitor!DailyStarts
  <2>2. daily.last < day /\ daily.ran[day] = 0
    BY <1>1, <2>1 DEF DailyOnce
  <2>3. /\ daily' = [daily EXCEPT !.threads = daily.threads \cup {day}, !.last = day, !.ran = ran]
        /\ day' = day
    BY <1>7, <2>1, <2>2 DEF Monitor!DailyStarts
  <2>4. ran \in [1 .. MaxDay -> {0, 1}] /\ \A d \in 1 .. MaxDay : d > day => ran[d] = 0
    <3>1. \A d \in 1 .. MaxDay : d > day => daily.ran[d] = 0
      BY <1>1, <2>1, <2>2 DEF DailyOnce
    <3> QED
      BY <1>1, <2>1, <3>1
  <2> HIDE DEF ran
  <2>5. /\ daily' \in [task : {"none", "running", "over"}, threads : SUBSET (1 .. MaxDay),
                       last : 0 .. MaxDay, ran : [1 .. MaxDay -> {0, 1}]]
        /\ daily'.last = day /\ daily'.ran = ran
    <3>1. /\ daily \in [task : {"none", "running", "over"}, threads : SUBSET (1 .. MaxDay),
                        last : 0 .. MaxDay, ran : [1 .. MaxDay -> {0, 1}]]
          /\ daily.threads \cup {day} \in SUBSET (1 .. MaxDay) /\ day \in 0 .. MaxDay
      BY <1>1, <2>1 DEF DailyOnce
    <3> QED
      BY <2>3, <2>4, <3>1
  <2>6. daily'.last <= day' /\ \A d \in 1 .. MaxDay : d > daily'.last => daily'.ran[d] = 0
    BY <1>1, <2>3, <2>4, <2>5
  <2> QED
    BY <2>5, <2>6 DEF DailyOnce
<1>8. daily.threads \subseteq 1 .. MaxDay
  BY DEF DailyOnce
<1> QED
  BY <1>2, <1>3, <1>4, <1>5, <1>6, <1>7, <1>8

(* Every step keeps the types. *)
LEMMA MonitorTypes ==
    ASSUME Monitor!MonitorAssumption, Monitor!TypeOK, DailyOnce, [Monitor!Next]_Monitor!vars
    PROVE  Monitor!TypeOK'
<1>1. /\ MaxRuns \in Nat \ {0} /\ MaxDay \in Nat \ {0} /\ day \in 1 .. MaxDay
         /\ runs \in 0 .. MaxRuns
  BY DEF Monitor!MonitorAssumption, Monitor!TypeOK
<1>2. /\ daily'.task \in {"none", "running", "over"} /\ daily'.threads \subseteq 1 .. MaxDay
      /\ daily'.last \in 0 .. MaxDay /\ daily'.ran \in [1 .. MaxDay -> 0 .. MaxRuns + MaxDay]
  <2>1. daily' \in [task : {"none", "running", "over"}, threads : SUBSET (1 .. MaxDay),
                    last : 0 .. MaxDay, ran : [1 .. MaxDay -> {0, 1}]]
    BY MonitorDaily DEF DailyOnce
  <2>2. {0, 1} \subseteq 0 .. MaxRuns + MaxDay
    BY <1>1
  <2> QED
    BY <2>1, <2>2
<1>0. /\ worker \in [Monitor!ThreadIds -> Monitor!Stages] /\ task \in Slots \cup {"none"}
      /\ barrier \in Monitor!ThreadIds \cup {"none"} /\ breakers \subseteq Monitor!Scopes
      /\ guard \in [lost : BOOLEAN, closed : BOOLEAN] /\ row \in BOOLEAN /\ tool \in BOOLEAN
      /\ "recon" \in Monitor!ThreadIds /\ Slots \subseteq Monitor!ThreadIds
  BY Zenon DEF Monitor!TypeOK, Monitor!ThreadIds
<1> USE DEF Monitor!Next, Monitor!Start, Monitor!RenewFails, Monitor!Loop, Monitor!Interrupt,
            Monitor!Kill, Monitor!Worker, Monitor!DailyStarts, Monitor!DailyWaitEnds,
            Monitor!DailyEnds, Monitor!ToolStarts, Monitor!ToolEnds, Monitor!Reset,
            Monitor!NextDay, Monitor!EnterStage, Monitor!OrderSync, Monitor!PositionCheck,
            Monitor!LossCheck, Monitor!RuleTick, Monitor!StageTrips, Monitor!StageRaises,
            Monitor!Begin, Monitor!Reconciled, Monitor!StartupFails, Monitor!BoundedCoreCycle,
            Monitor!CheckLost, Monitor!CoreEnds, Monitor!CoreTimesOut, Monitor!Beat,
            Monitor!Wake, Monitor!Trip, Monitor!TripRaises, Monitor!Close, Monitor!Drain,
            Monitor!World, Monitor!Process, Monitor!Store, Monitor!Leave, Monitor!vars, Monitor!Goto,
            Monitor!End, Monitor!Commits, Monitor!Trips
<1>3. /\ main' \in {main, "off", "begin", "reconciling", "check", "cycle", "beat", "sleep",
                    "failing", "closing", "drain"}
      /\ why' \in {why, "none", "interrupt", "startup", "unsynced", "drift", "lost", "cycle",
                   "order_sync", "untripped"}
  OBVIOUS
<1>4. worker' \in [Monitor!ThreadIds -> Monitor!Stages]
  <2>1. ASSUME NEW t \in Monitor!ThreadIds, Monitor!Worker(t)
        PROVE  worker' \in [Monitor!ThreadIds -> Monitor!Stages]
    <3>1. worker' = worker \/ \E to \in Monitor!Stages : worker' = [worker EXCEPT ![t] = to]
      BY <2>1 DEF Monitor!Stages, Monitor!Over
    <3> HIDE DEF Monitor!Worker
    <3> QED
      BY <1>0, <3>1
  <2>2. CASE Monitor!Begin \/ Monitor!BoundedCoreCycle
    BY <1>0, <2>2 DEF Monitor!Stages
  <2>3. CASE worker' = [t \in Monitor!ThreadIds |-> "none"]
    BY <2>3 DEF Monitor!Stages, Monitor!Over
  <2>4. CASE worker' = worker
    BY <1>0, <2>4
  <2> HIDE DEF Monitor!Worker, Monitor!Begin, Monitor!BoundedCoreCycle
  <2> QED
    BY <2>1, <2>2, <2>3, <2>4
<1>5. task' \in Slots \cup {task, "none"} /\ barrier' \in Monitor!ThreadIds \cup {barrier, "none"}
  OBVIOUS
<1>6. breakers' \subseteq Monitor!Scopes
  BY <1>0 DEF Monitor!Scopes
<1>7. day' = day \/ (day < MaxDay /\ day' = day + 1)
  OBVIOUS
<1>8. runs' = runs \/ (runs < MaxRuns /\ runs' = runs + 1)
  OBVIOUS
<1>9. \/ guard' = guard \/ guard' = [lost |-> FALSE, closed |-> FALSE]
      \/ guard' = [guard EXCEPT !.lost = TRUE]
      \/ guard' = [guard EXCEPT !.lost = @ \/ ~Monitor!MayCommit]
      \/ \E b \in BOOLEAN : guard' = [lost |-> ~(~guard.lost /\ ~b), closed |-> TRUE]
  OBVIOUS
<1>10. /\ row' \in {row, TRUE, FALSE} \/ \E b : row' = (row /\ ~b)
       /\ tool' \in {tool, TRUE, FALSE}
  OBVIOUS
<1> HIDE DEF Monitor!Next
<1>11. guard' \in [lost : BOOLEAN, closed : BOOLEAN]
  <2>1. (guard.lost \/ ~Monitor!MayCommit) \in BOOLEAN /\ TRUE \in BOOLEAN /\ FALSE \in BOOLEAN
    BY <1>0, Zenon
  <2>2. ASSUME NEW b \in BOOLEAN, guard' = [guard EXCEPT !.lost = b]
        PROVE  guard' \in [lost : BOOLEAN, closed : BOOLEAN]
    BY <1>0, <2>2
  <2>3. ASSUME NEW b \in BOOLEAN, NEW c \in BOOLEAN, guard' = [lost |-> b, closed |-> c]
        PROVE  guard' \in [lost : BOOLEAN, closed : BOOLEAN]
    BY <2>3
  <2>4. ASSUME NEW b \in BOOLEAN PROVE (~(~guard.lost /\ ~b)) \in BOOLEAN
    BY Zenon
  <2> QED
    BY <1>0, <1>9, <2>1, <2>2, <2>3, <2>4
<1>12. {row, tool}' \subseteq BOOLEAN
  BY <1>0, <1>10, Zenon
<1>13. day' \in 1 .. MaxDay /\ runs' \in 0 .. MaxRuns
  BY <1>1, <1>7, <1>8
<1>14. main \in {"off", "begin", "reconciling", "check", "cycle", "beat", "sleep", "failing",
                 "closing", "drain"}
       /\ why \in {"none", "interrupt", "startup", "unsynced", "drift", "lost", "cycle",
          "order_sync", "untripped"}
  BY DEF Monitor!TypeOK
<1> QED
  BY <1>0, <1>2, <1>3, <1>4, <1>5, <1>6, <1>11, <1>12, <1>13, <1>14 DEF Monitor!TypeOK

(* A thread gives the barrier back when it ends a stage, and the one that
   reconciles is not started again in a process that has come to its cycles. *)
LEMMA MonitorReconciled ==
    ASSUME Monitor!MonitorAssumption, MonitorInv, [Monitor!Next]_Monitor!vars
    PROVE  ReconciledFirst'
<1>0. /\ ReconciledFirst /\ worker \in [Monitor!ThreadIds -> Monitor!Stages]
         /\ "recon" \in Monitor!ThreadIds
      /\ "none" \notin Monitor!ThreadIds /\ "recon" \notin Slots
         /\ Slots \subseteq Monitor!ThreadIds
  BY DEF MonitorInv, Monitor!TypeOK, Monitor!MonitorAssumption, Monitor!ThreadIds
<1> USE <1>0
        DEF Monitor!Goto, Monitor!End, Monitor!Running, Monitor!Over, ReconciledFirst,
            Monitor!CyclesAreReconciled
<1>1. ASSUME NEW t \in Monitor!ThreadIds, Monitor!Worker(t) PROVE ReconciledFirst'
  <2>1. CASE Monitor!EnterStage(t)
    BY <2>1 DEF Monitor!EnterStage
  <2>2. CASE ~Monitor!EnterStage(t)
    <3>1. PICK to \in Monitor!Stages : worker' = [worker EXCEPT ![t] = to]
      BY <1>1, <2>2
      DEF Monitor!Worker, Monitor!OrderSync, Monitor!PositionCheck, Monitor!LossCheck,
          Monitor!RuleTick, Monitor!StageTrips, Monitor!StageRaises, Monitor!Leave,
          Monitor!Stages
    <3>2. barrier = t /\ barrier' = "none" /\ main' = main
      BY <1>1, <2>2
      DEF Monitor!Worker, Monitor!OrderSync, Monitor!PositionCheck, Monitor!LossCheck,
          Monitor!RuleTick, Monitor!StageTrips, Monitor!StageRaises, Monitor!Leave,
          Monitor!Commits
    <3>3. worker[t] # "done"
      BY <3>2
    <3> QED
      BY <3>1, <3>2, <3>3
  <2> QED
    BY <2>1, <2>2
<1>2. CASE UNCHANGED <<main, worker, barrier>>
  BY <1>2
<1>3. ASSUME Monitor!RenewFails \/ Monitor!DailyStarts \/ Monitor!DailyWaitEnds
               \/ Monitor!ToolStarts \/ Monitor!ToolEnds \/ Monitor!NextDay
               \/ (\E d \in 1 .. MaxDay : Monitor!DailyEnds(d)) \/ UNCHANGED Monitor!vars
      PROVE  UNCHANGED <<main, worker, barrier>>
  BY <1>3
  DEF Monitor!RenewFails, Monitor!DailyStarts, Monitor!DailyWaitEnds, Monitor!DailyEnds,
      Monitor!ToolStarts, Monitor!ToolEnds, Monitor!NextDay, Monitor!Process, Monitor!vars
<1>4. CASE Monitor!Start \/ Monitor!Kill
  BY <1>4 DEF Monitor!Start, Monitor!Kill
<1>5. CASE Monitor!StartupFails \/ Monitor!Interrupt \/ Monitor!Reset \/ Monitor!CheckLost
              \/ Monitor!CoreTimesOut \/ Monitor!Trip \/ Monitor!TripRaises \/ Monitor!Drain
  BY <1>5
  DEF Monitor!StartupFails, Monitor!Interrupt, Monitor!Reset, Monitor!CheckLost,
      Monitor!CoreTimesOut, Monitor!Trip, Monitor!TripRaises, Monitor!Drain, Monitor!Process
<1>6. CASE Monitor!Begin
  BY <1>6 DEF Monitor!Begin
<1>7. CASE Monitor!Reconciled \/ Monitor!Wake
  BY <1>7 DEF Monitor!Reconciled, Monitor!Wake, Monitor!Process
<1>8. CASE Monitor!BoundedCoreCycle
  BY <1>8 DEF Monitor!BoundedCoreCycle
<1>9. CASE Monitor!CoreEnds \/ Monitor!Beat \/ Monitor!Close
  BY <1>9 DEF Monitor!CoreEnds, Monitor!Beat, Monitor!Close
<1> QED
  BY <1>1, <1>2, <1>3, <1>4, <1>5, <1>6, <1>7, <1>8, <1>9 DEF Monitor!Next, Monitor!Loop

(* Every step of the loop, of its threads, of the tenure and of the operator
   keeps the invariant. *)
LEMMA MonitorStep ==
    ASSUME Monitor!MonitorAssumption, MonitorInv, [Monitor!Next]_Monitor!vars
    PROVE  MonitorInv'
<1>0. /\ Monitor!TypeOK /\ DailyOnce /\ WhoWorks /\ Monitor!OneEvaluator /\ Latched
      /\ worker \in [Monitor!ThreadIds -> Monitor!Stages] /\ "recon" \in Monitor!ThreadIds
         /\ Slots \subseteq Monitor!ThreadIds
      /\ "none" \notin Monitor!ThreadIds /\ "recon" \notin Slots /\ task \in Slots \cup {"none"}
      /\ guard \in [lost : BOOLEAN, closed : BOOLEAN]
  BY DEF MonitorInv, Monitor!TypeOK, Monitor!MonitorAssumption, Monitor!ThreadIds
<1>1. Monitor!TypeOK' /\ DailyOnce' /\ ReconciledFirst'
  BY <1>0, MonitorDaily, MonitorTypes, MonitorReconciled
<1> SUFFICES WhoWorks' /\ Monitor!OneEvaluator' /\ Latched'
  BY <1>1 DEF MonitorInv
<1> USE <1>0 DEF Monitor!Goto, Monitor!End
<1>2. ASSUME NEW t \in Monitor!ThreadIds, NEW to \in Monitor!Stages,
             worker' = [worker EXCEPT ![t] = to],
             Monitor!Running(t) \/ to \in Monitor!Over, UNCHANGED <<main, why, task>>,
             breakers \subseteq breakers',
             guard'.lost = guard.lost \/ guard'.lost,
             to = "tripped" => "operator" \in breakers'
      PROVE  WhoWorks' /\ Monitor!OneEvaluator' /\ Latched'
  <2>1. \A u \in Monitor!ThreadIds : Monitor!Running(u)' => Monitor!Running(u)
    BY <1>2 DEF Monitor!Running
  <2>2. WhoWorks' /\ Monitor!OneEvaluator'
    BY <1>2, <2>1 DEF WhoWorks, Monitor!OneEvaluator
  <2>3. Latched'
    BY <1>2 DEF Latched
  <2> QED
    BY <2>2, <2>3
<1>3. ASSUME UNCHANGED <<main, why, worker, task>>, breakers \subseteq breakers',
             guard'.lost = guard.lost \/ guard'.lost
      PROVE  WhoWorks' /\ Monitor!OneEvaluator' /\ Latched'
  BY <1>3 DEF WhoWorks, Monitor!OneEvaluator, Latched, Monitor!Running
<1>4. ASSUME NEW t \in Monitor!ThreadIds, Monitor!Worker(t)
      PROVE  WhoWorks' /\ Monitor!OneEvaluator' /\ Latched'
  <2> USE DEF Monitor!Leave, Monitor!Commits, Monitor!Trips, Monitor!Running, Monitor!Over,
              Monitor!Stages
  <2>1. CASE Monitor!EnterStage(t)
    BY <1>3, <2>1 DEF Monitor!EnterStage, Monitor!Store
  <2>2. CASE Monitor!OrderSync(t)
    BY <1>2, <2>2 DEF Monitor!OrderSync
  <2>3. CASE t = "recon" /\ Monitor!PositionCheck
    BY <1>2, <2>3 DEF Monitor!PositionCheck
  <2>4. CASE Monitor!LossCheck(t) \/ Monitor!RuleTick(t)
    BY <1>2, <2>4 DEF Monitor!LossCheck, Monitor!RuleTick
  <2>5. CASE Monitor!StageTrips(t)
    BY <1>2, <2>5 DEF Monitor!StageTrips
  <2>6. CASE Monitor!StageRaises(t)
    <3>1. guard'.lost = guard.lost \/ guard'.lost
      BY <2>6 DEF Monitor!StageRaises
    <3> QED
      BY <1>2, <2>6, <3>1 DEF Monitor!StageRaises
  <2> QED
    BY <1>4, <2>1, <2>2, <2>3, <2>4, <2>5, <2>6 DEF Monitor!Worker
<1>5. CASE Monitor!RenewFails \/ Monitor!DailyStarts \/ Monitor!DailyWaitEnds
              \/ Monitor!ToolStarts \/ Monitor!ToolEnds \/ Monitor!NextDay
           \/ (\E d \in 1 .. MaxDay : Monitor!DailyEnds(d)) \/ UNCHANGED Monitor!vars
  <2>1. guard'.lost = guard.lost \/ guard'.lost
    BY <1>5
    DEF Monitor!RenewFails, Monitor!DailyStarts, Monitor!DailyWaitEnds, Monitor!DailyEnds,
        Monitor!ToolStarts, Monitor!ToolEnds, Monitor!NextDay, Monitor!Store, Monitor!vars
  <2> QED
    BY <1>3, <1>5, <2>1
    DEF Monitor!RenewFails, Monitor!DailyStarts, Monitor!DailyWaitEnds, Monitor!DailyEnds,
        Monitor!ToolStarts, Monitor!ToolEnds, Monitor!NextDay, Monitor!Process, Monitor!Store,
        Monitor!vars
<1>6. CASE Monitor!Start \/ Monitor!Kill
  BY <1>6
  DEF Monitor!Start, Monitor!Kill, WhoWorks, Monitor!OneEvaluator, Latched, Monitor!Running,
      Monitor!Over
<1> DEFINE Same == UNCHANGED <<worker, task>>
<1>s. ASSUME Same
      PROVE  /\ Monitor!OneEvaluator'
             /\ \A t \in Monitor!ThreadIds : Monitor!Running(t)' <=> Monitor!Running(t)
  BY <1>s DEF Monitor!OneEvaluator, Monitor!Running
<1>7. CASE Monitor!Reset \/ Monitor!Drain
  <2>1. main' = "off" /\ Same /\ \A t \in Monitor!ThreadIds : ~Monitor!Running(t)
    BY <1>7 DEF Monitor!Reset, Monitor!Drain, Monitor!Process, WhoWorks
  <2> QED
    BY <1>s, <2>1 DEF WhoWorks, Latched
<1>w. CASE Monitor!Wake \/ Monitor!CheckLost
  <2>1. Same /\ \A t \in Monitor!ThreadIds : ~Monitor!Running(t)
    BY <1>w DEF Monitor!Wake, Monitor!CheckLost, Monitor!Process, WhoWorks
  <2>2. main' = "check" \/ (main' = "closing" /\ why' = "lost")
    BY <1>w DEF Monitor!Wake, Monitor!CheckLost
  <2> QED
    BY <1>s, <2>1, <2>2 DEF WhoWorks, Latched
<1>8. CASE Monitor!Begin
  BY <1>8
  DEF Monitor!Begin, Monitor!Store, WhoWorks, Monitor!OneEvaluator, Latched, Monitor!Running,
      Monitor!Over
<1>9. CASE Monitor!Reconciled
  <2>1. Same /\ main' \in {"check", "failing"} /\ \A t \in Monitor!ThreadIds : ~Monitor!Running(t)
    BY <1>9 DEF Monitor!Reconciled, Monitor!Process, WhoWorks, Monitor!Running, Monitor!Over
  <2> QED
    BY <1>s, <2>1 DEF WhoWorks, Latched
<1>e. CASE Monitor!StartupFails \/ Monitor!Interrupt
  <2>1. Same /\ main' = "closing" /\ why' \in {"startup", "interrupt"}
    BY <1>e DEF Monitor!StartupFails, Monitor!Interrupt, Monitor!Process
  <2>2. main \in {"reconciling", "cycle", "sleep"}
    BY <1>e DEF Monitor!StartupFails, Monitor!Interrupt
  <2> QED
    BY <1>s, <2>1, <2>2 DEF WhoWorks, Latched
<1>t. CASE Monitor!CoreTimesOut
  BY <1>s, <1>t DEF Monitor!CoreTimesOut, Monitor!Process, Monitor!Store, WhoWorks, Latched
<1>10. CASE Monitor!BoundedCoreCycle
  BY <1>10
  DEF Monitor!BoundedCoreCycle, Monitor!Store, WhoWorks, Monitor!OneEvaluator, Latched,
      Monitor!Running, Monitor!Over
<1>11. CASE Monitor!CoreEnds
  BY <1>11
  DEF Monitor!CoreEnds, Monitor!Store, WhoWorks, Monitor!OneEvaluator, Latched, Monitor!Running,
      Monitor!Over
<1>12. CASE Monitor!Beat
  BY <1>12 DEF Monitor!Beat, WhoWorks, Monitor!OneEvaluator, Latched, Monitor!Running
<1>13. CASE Monitor!Trip
  <2>1. guard'.lost \/ "operator" \in breakers'
    BY <1>13 DEF Monitor!Trip, Monitor!Trips
  <2> QED
    BY <1>13, <2>1
    DEF Monitor!Trip, Monitor!Process, WhoWorks, Monitor!OneEvaluator, Latched, Monitor!Running
<1>u. CASE Monitor!TripRaises
  BY <1>s, <1>u
  DEF Monitor!TripRaises, Monitor!Process, Monitor!Store, WhoWorks, Latched
<1>14. CASE Monitor!Close
  <2>1. ~guard'.lost => ~guard.lost
    BY <1>14 DEF Monitor!Close
  <2> QED
    BY <1>14, <2>1 DEF Monitor!Close, WhoWorks, Monitor!OneEvaluator, Latched, Monitor!Running
<1> QED
  BY <1>4, <1>5, <1>6, <1>7, <1>w, <1>8, <1>9, <1>e, <1>t, <1>10, <1>11, <1>12, <1>13, <1>u,
     <1>14
  DEF Monitor!Next, Monitor!Loop

(* One thread of the daemon evaluates although waits for threads time out, and
   only in a process whose reconciliation found no difference; a failed cycle
   or startup leaves the operator's breaker tripped unless the tenure was lost
   or the store refused the trip; and a heartbeat says that no cycle is stuck:
   for any number of threads, runs and days. *)
THEOREM MonitoringHolds ==
    ASSUME Monitor!MonitorAssumption
    PROVE  Monitor!Spec => [](Monitor!TypeOK /\ Monitor!OneEvaluator /\ Monitor!FailureLatches
              /\ Monitor!CyclesAreReconciled /\ Monitor!HeartbeatIsHonest)
<1>1. Monitor!Init => MonitorInv
  BY MonitorInit
<1>2. MonitorInv /\ [Monitor!Next]_Monitor!vars => MonitorInv'
  BY MonitorStep
<1>3. MonitorInv => Monitor!TypeOK /\ Monitor!OneEvaluator /\ Monitor!FailureLatches
         /\ Monitor!CyclesAreReconciled /\ Monitor!HeartbeatIsHonest
  BY DEF MonitorInv, WhoWorks, Latched, ReconciledFirst, Monitor!FailureLatches, Monitor!HeartbeatIsHonest
<1> QED
  BY <1>1, <1>2, <1>3, PTL DEF Monitor!Spec

(* A daemon starts its daily analysis at most once on a day, although it is
   scheduled in every cycle and its wait may end long before its thread. *)
THEOREM DailyAtMostOnce ==
    ASSUME Monitor!MonitorAssumption
    PROVE  Monitor!Spec => [](\A d \in 1 .. MaxDay : daily.ran[d] \in {0, 1})
<1>1. Monitor!Init => MonitorInv
  BY MonitorInit
<1>2. MonitorInv /\ [Monitor!Next]_Monitor!vars => MonitorInv'
  BY MonitorStep
<1>3. MonitorInv => \A d \in 1 .. MaxDay : daily.ran[d] \in {0, 1}
  BY DEF MonitorInv, DailyOnce
<1> QED
  BY <1>1, <1>2, <1>3, PTL DEF Monitor!Spec

----------------------------------------------------------------------
(* The persisted-safety report.  What has been found and what could not be *)
(* read determine the report; the invariant ties both to the view of the   *)
(* read transaction, category by category (Reading).                       *)

CONSTANTS Items, Scopes, Parts, MaxTime, MaxFaults
VARIABLES item, held, tripped, garbled, beat, now, at, view, observed, found,
          unknown, report, faults

Truth == INSTANCE SafetyTruth

(* The bound of the transaction is not before the time it began. *)
LEMMA InTick ==
    ASSUME Truth!TruthAssumption, NEW t \in Nat
    PROVE  Truth!UpperBound(t) \in Nat /\ t <= Truth!UpperBound(t)
<1>1. Parts \in Nat /\ Parts > 0
  BY DEF Truth!TruthAssumption
<1>2. \A a, p \in Nat : p > 0 => a \div p \in Nat
  OBVIOUS
<1>3. \A a, p \in Nat : p > 0 => a <= (a \div p) * p + (p - 1)
  OBVIOUS
<1>4. \A q, p \in Nat : p > 0 => q * p + (p - 1) \in Nat
  OBVIOUS
<1> QED
  BY <1>1, <1>2, <1>3, <1>4, Zenon DEF Truth!UpperBound

(* The heartbeat is the last of seven categories. *)
LEMMA SevenCategories ==
    /\ Len(Truth!Categories) = 7
    /\ Truth!Range(Truth!Categories) = {"live_or_unknown_orders", "latched_orders", "unsafe_fills",
                            "active_rules", "unsafe_rule_groups", "active_breakers", "heartbeat"}
    /\ \A c \in Truth!Range(Truth!Categories) : c # "heartbeat"
       => \E k \in 1 .. 6 : c = Truth!Categories[k]
    /\ \A k \in 1 .. 6 : Truth!Categories[k] \in Truth!Range(Truth!Categories) \ {"heartbeat"}
<1>1. Len(Truth!Categories) = 7 /\ DOMAIN Truth!Categories = 1 .. 7
  BY DEF Truth!Categories
<1>2. /\ Truth!Categories[1] = "live_or_unknown_orders" /\ Truth!Categories[2] = "latched_orders"
      /\ Truth!Categories[3] = "unsafe_fills" /\ Truth!Categories[4] = "active_rules"
      /\ Truth!Categories[5] = "unsafe_rule_groups" /\ Truth!Categories[6] = "active_breakers"
      /\ Truth!Categories[7] = "heartbeat"
  BY DEF Truth!Categories
<1>3. \A k : k \in 1 .. 7 <=> k \in {1, 2, 3, 4, 5, 6, 7}
  OBVIOUS
<1>4. Truth!Range(Truth!Categories) = {Truth!Categories[k] : k \in {1, 2, 3, 4, 5, 6, 7}}
  BY <1>1, <1>3 DEF Truth!Range
<1>5. Truth!Range(Truth!Categories) = {"live_or_unknown_orders", "latched_orders", "unsafe_fills",
                           "active_rules", "unsafe_rule_groups", "active_breakers", "heartbeat"}
  BY <1>2, <1>4
<1>6. \A k \in 1 .. 6 : k \in {1, 2, 3, 4, 5, 6}
  OBVIOUS
<1>7. \A k \in {1, 2, 3, 4, 5, 6} : k \in 1 .. 6 /\ Truth!Categories[k] # "heartbeat"
  BY <1>2
<1>8. \A c \in Truth!Range(Truth!Categories) : c # "heartbeat"
         => \E k \in {1, 2, 3, 4, 5, 6} : c = Truth!Categories[k]
  BY <1>2, <1>5
<1> QED
  BY <1>1, <1>2, <1>4, <1>5, <1>6, <1>7, <1>8

(* The transaction's view is one moment's, and what is found is in it. *)
Reading ==
    at # 0 =>
        /\ view.beat <= observed /\ view.rows["heartbeat"] = {}
        /\ found => Truth!Unsafe(view)
        /\ ~found => \A k \in 1 .. (at - 1) :
              Truth!Categories[k] \in unknown \/ view.rows[Truth!Categories[k]] = {}
        /\ "heartbeat" \notin unknown
Clocks ==
    /\ now \in Nat /\ beat \in Nat /\ beat <= now /\ now <= MaxTime
    /\ at \in 0 .. 7 /\ faults \in 0 .. MaxFaults
Tables ==
    /\ item \in [Items -> Truth!Standings] /\ held \subseteq Items /\ tripped \subseteq Scopes
    /\ unknown \subseteq Truth!Range(Truth!Categories) /\ found \in BOOLEAN
Told ==
    /\ report.state \in {"none", "unsafe", "unknown", "locally_clear"}
    /\ report.unknown \subseteq Truth!Range(Truth!Categories)
    /\ Truth!ReportIsTrue /\ Truth!HeartbeatBelieved
TruthInv == Clocks /\ Tables /\ Reading /\ Told

(* The invariant holds at the start. *)
LEMMA TruthInit == ASSUME Truth!TruthAssumption, Truth!Init PROVE TruthInv
<1>1. Clocks
  BY DEF Truth!Init, Clocks, Truth!TruthAssumption
<1>2. Tables
  BY DEF Truth!Init, Tables, Truth!Standings
<1>3. Reading /\ Told
  BY DEF Truth!Init, Reading, Told, Truth!NoReport, Truth!ReportIsTrue,
         Truth!HeartbeatBelieved
<1> QED
  BY <1>1, <1>2, <1>3 DEF TruthInv

(* A write leaves the reader alone. *)
LEMMA WriteKeeps ==
    ASSUME Truth!TruthAssumption, TruthInv, UNCHANGED Truth!reader,
           \/ \E i \in Items : Truth!Write(i)
           \/ \E s \in Scopes : Truth!Trip(s)
           \/ Truth!Garble \/ Truth!write_heartbeat \/ Truth!Tick
    PROVE  TruthInv'
<1>1. Clocks'
  BY DEF Truth!Write, Truth!Trip, Truth!Garble, Truth!write_heartbeat, Truth!Tick,
         TruthInv, Clocks, Truth!reader, Truth!db, Truth!TruthAssumption
<1>2. item' \in [Items -> Truth!Standings] /\ held' \subseteq Items
  BY DEF Truth!Write, Truth!Trip, Truth!Garble, Truth!write_heartbeat, Truth!Tick,
         TruthInv, Tables, Truth!db, Truth!Moves, Truth!Standings
<1>3. tripped' \subseteq Scopes
  BY DEF Truth!Write, Truth!Trip, Truth!Garble, Truth!write_heartbeat, Truth!Tick,
         TruthInv, Tables, Truth!db
<1> QED
  BY <1>1, <1>2, <1>3
     DEF TruthInv, Tables, Reading, Told, Truth!ReportIsTrue, Truth!HeartbeatBelieved,
         Truth!reader, Truth!Unsafe

(* Beginning the read transaction and reading a category keep the invariant. *)
LEMMA ReadKeeps ==
    ASSUME Truth!TruthAssumption, TruthInv, Truth!BeginSnapshot \/ Truth!QueryCategory
              \/ Truth!QueryFails
    PROVE  TruthInv'
<1>1. UNCHANGED <<item, held, tripped, garbled, beat, now>>
  BY DEF Truth!BeginSnapshot, Truth!QueryCategory, Truth!QueryFails, Truth!db
<1>2. CASE Truth!BeginSnapshot
  <2>1. /\ at' = 1 /\ view' = Truth!Snapshot /\ observed' = Truth!UpperBound(now) /\ found' = FALSE
        /\ unknown' = {} /\ report' = Truth!NoReport /\ faults' = faults
    BY <1>2 DEF Truth!BeginSnapshot
  <2>a. Clocks'
    BY <1>1, <2>1 DEF TruthInv, Clocks
  <2>b. found' \in BOOLEAN
    BY <2>1, Zenon
  <2>2. Clocks' /\ Tables'
    BY <1>1, <2>1, <2>a, <2>b DEF TruthInv, Tables
  <2>3. Told'
    BY <2>1 DEF Told, Truth!NoReport, Truth!ReportIsTrue, Truth!HeartbeatBelieved
  <2>4. Truth!Snapshot.beat <= observed'
    <3>1. Truth!UpperBound(now) \in Nat /\ now <= Truth!UpperBound(now) /\ now \in Nat
             /\ beat \in Nat /\ beat <= now
      BY InTick DEF TruthInv, Clocks
    <3>2. Truth!Snapshot.beat = beat
      BY DEF Truth!Snapshot
    <3> QED
      BY <2>1, <3>1, <3>2
  <2>5. Truth!Snapshot.rows["heartbeat"] = {}
    BY SevenCategories DEF Truth!Snapshot, Truth!Rows
  <2>6. Reading'
    BY <2>1, <2>4, <2>5 DEF Reading
  <2> QED
    BY <2>2, <2>3, <2>6 DEF TruthInv
<1>3. CASE Truth!QueryCategory \/ Truth!QueryFails
  <2> DEFINE c == Truth!Categories[at]
  <2>1. /\ at \in 1 .. 6 /\ at' = at + 1 /\ UNCHANGED <<view, observed, report>>
        /\ \/ found' = (found \/ view.rows[c] # {}) /\ unknown' = unknown /\ faults' = faults
           \/ found' = found /\ unknown' = unknown \cup {c} /\ faults' = faults + 1
              /\ faults < MaxFaults
    BY <1>3 DEF Truth!QueryCategory, Truth!QueryFails, Truth!Seen
  <2>2. c \in Truth!Range(Truth!Categories) /\ c # "heartbeat"
    BY <2>1, SevenCategories
  <2>3. Clocks'
    BY <1>1, <2>1 DEF TruthInv, Clocks, Truth!TruthAssumption
  <2>4. found' \in BOOLEAN
    BY <2>1, Zenon DEF TruthInv, Tables
  <2>5. unknown' \subseteq Truth!Range(Truth!Categories)
    BY <2>1, <2>2 DEF TruthInv, Tables
  <2>m. found => found'
    <3> HIDE DEF c
    <3>1. CASE found' = (found \/ view.rows[c] # {})
      BY <3>1
    <3>2. CASE found' = found
      BY <3>2
    <3> QED
      BY <2>1, <3>1, <3>2, Zenon
  <2>6. found' => Truth!Unsafe(view)
    <3>1. (found => Truth!Unsafe(view)) /\ (view.rows[c] # {} => Truth!Unsafe(view))
      BY <2>1, <2>2 DEF TruthInv, Reading, Truth!Unsafe
    <3> HIDE DEF c
    <3> QED
      BY <2>1, <3>1, Zenon
  <2>7. ASSUME ~found', NEW k \in 1 .. (at' - 1)
        PROVE  Truth!Categories[k] \in unknown' \/ view.rows[Truth!Categories[k]] = {}
    <3>0. unknown \subseteq unknown'
      BY <2>1
    <3>1. ~found /\ unknown \subseteq unknown'
      <4> HIDE DEF c
      <4> QED
        BY <2>7, <2>m, <3>0, Zenon
    <3>2. CASE k = at
      BY <2>1, <2>7, <3>2, Zenon
    <3>3. CASE k \in 1 .. (at - 1)
      <4>1. at # 0
        BY <2>1
      <4> QED
        BY <3>1, <3>3, <4>1, Zenon DEF TruthInv, Reading
    <3> QED
      BY <2>1, <2>7, <3>2, <3>3 DEF TruthInv, Clocks
  <2>8. view.beat <= observed /\ view.rows["heartbeat"] = {} /\ "heartbeat" \notin unknown
    BY <2>1 DEF TruthInv, Reading
  <2>9. "heartbeat" \notin unknown'
    BY <2>1, <2>2, <2>8, Zenon
  <2> HIDE DEF c
  <2>10. Reading'
    BY <2>1, <2>6, <2>7, <2>8, <2>9, Zenon DEF Reading, Truth!Unsafe
  <2>11. Tables' /\ Told'
    BY <1>1, <2>1, <2>4, <2>5
       DEF TruthInv, Tables, Told, Truth!ReportIsTrue, Truth!HeartbeatBelieved
  <2> QED
    BY <2>3, <2>10, <2>11 DEF TruthInv
<1> QED
  BY <1>2, <1>3

(* Without a row found or a category unknown, nothing was there. *)
LEMMA ClearView ==
    ASSUME Reading, at = 7, ~found, unknown = {} PROVE ~Truth!Unsafe(view)
<1>1. \A k \in 1 .. 6 : view.rows[Truth!Categories[k]] = {}
  BY DEF Reading
<1>2. view.rows["heartbeat"] = {}
  BY DEF Reading
<1> QED
  BY <1>1, <1>2, SevenCategories, Zenon DEF Truth!Unsafe

(* So does concluding, or giving up on the whole read. *)
LEMMA ConcludeKeeps ==
    ASSUME Truth!TruthAssumption, TruthInv,
           Truth!ConcludeHeard \/ Truth!ConcludeUnheard \/ Truth!unknown_persisted_safety_truth
    PROVE  TruthInv'
<1>1. /\ UNCHANGED <<item, held, tripped, beat, now>> /\ at' = 0 /\ found' = FALSE /\ unknown' = {}
      /\ faults' = faults \/ (faults' = faults + 1 /\ faults < MaxFaults)
  BY DEF Truth!ConcludeHeard, Truth!ConcludeUnheard,
         Truth!unknown_persisted_safety_truth, Truth!Conclude, Truth!Finish, Truth!db
<1>c. Clocks'
  BY <1>1 DEF TruthInv, Clocks, Truth!TruthAssumption
<1>f. found' \in BOOLEAN
  BY <1>1, Zenon
<1>2. Clocks' /\ Tables' /\ Reading'
  BY <1>1, <1>c, <1>f DEF TruthInv, Tables, Reading
<1>3. Told'
  <2>1. CASE Truth!unknown_persisted_safety_truth
    <3>1. report'.state = "unknown" /\ report'.unknown = Truth!Range(Truth!Categories)
             /\ report'.failed = Truth!Range(Truth!Categories)
      BY <2>1 DEF Truth!unknown_persisted_safety_truth, Truth!Finish
    <3>2. "heartbeat" \in Truth!Range(Truth!Categories)
      BY SevenCategories
    <3> QED
      BY <3>1, <3>2 DEF Told, Truth!ReportIsTrue, Truth!HeartbeatBelieved
  <2>2. ASSUME NEW heard \in BOOLEAN, Truth!Conclude(heard) PROVE Told'
    <3> DEFINE missing == unknown
           \cup (IF heard /\ view.beat <= observed THEN {} ELSE {"heartbeat"})
           \cup (IF view.garbled THEN {"active_breakers"} ELSE {})
               state == CASE found -> "unsafe"
                         [] ~found /\ missing # {} -> "unknown"
                         [] ~found /\ missing = {} -> "locally_clear"
    <3>1. /\ at = 7
          /\ report' = [state |-> state, unknown |-> missing, wasUnsafe |-> Truth!Unsafe(view),
                        wasGarbled |-> view.garbled,
                        failed |-> unknown \cup (IF heard THEN {} ELSE {"heartbeat"})]
      BY <2>2 DEF Truth!Conclude, Truth!Finish, Truth!Seen
    <3>2. /\ report'.state = state /\ report'.unknown = missing
          /\ report'.wasUnsafe = Truth!Unsafe(view) /\ report'.wasGarbled = view.garbled
          /\ report'.failed = unknown \cup (IF heard THEN {} ELSE {"heartbeat"})
      BY <3>1
    <3>3. Reading /\ found \in BOOLEAN /\ unknown \subseteq Truth!Range(Truth!Categories)
      BY DEF TruthInv, Tables
    <3>4. missing \subseteq Truth!Range(Truth!Categories) /\
               (missing = {} => unknown = {} /\ ~view.garbled)
      BY <3>3, SevenCategories
    <3>5. "heartbeat" \in missing => ~heard
      BY <3>1, <3>3 DEF Reading
    <3>6. /\ state \in {"unsafe", "unknown", "locally_clear"}
          /\ state = "unsafe" => found
          /\ state = "locally_clear" => ~found /\ missing = {}
      <4> HIDE DEF missing
      <4>1. found => state = "unsafe"
        OBVIOUS
      <4>2. ~found /\ missing # {} => state = "unknown"
        OBVIOUS
      <4>3. ~found /\ missing = {} => state = "locally_clear"
        OBVIOUS
      <4> QED
        BY <4>1, <4>2, <4>3
    <3> HIDE DEF missing, state
    <3>7. Truth!ReportIsTrue'
      <4>1. report'.state = "locally_clear" => ~Truth!Unsafe(view) /\ ~view.garbled
        BY <3>1, <3>2, <3>3, <3>4, <3>6, ClearView
      <4>2. report'.state = "unsafe" => Truth!Unsafe(view)
        BY <3>1, <3>2, <3>3, <3>6 DEF Reading
      <4> QED
        BY <3>2, <4>1, <4>2, Zenon DEF Truth!ReportIsTrue
    <3>8. Truth!HeartbeatBelieved'
      BY <3>2, <3>5 DEF Truth!HeartbeatBelieved
    <3> QED
      BY <3>2, <3>4, <3>6, <3>7, <3>8 DEF Told
  <2> QED
    BY <2>1, <2>2 DEF Truth!ConcludeHeard, Truth!ConcludeUnheard
<1> QED
  BY <1>2, <1>3 DEF TruthInv

(* Every step keeps the invariant. *)
LEMMA TruthStep == ASSUME Truth!TruthAssumption, TruthInv, [Truth!Next]_Truth!vars PROVE TruthInv'
<1>1. CASE UNCHANGED Truth!vars
  BY <1>1
     DEF Truth!vars, Truth!db, TruthInv, Clocks, Tables, Reading, Told,
         Truth!ReportIsTrue, Truth!HeartbeatBelieved, Truth!Unsafe
<1>2. ASSUME \/ \E i \in Items : Truth!Write(i)
             \/ \E s \in Scopes : Truth!Trip(s)
             \/ Truth!Garble \/ Truth!write_heartbeat \/ Truth!Tick
      PROVE  UNCHANGED Truth!reader
  BY <1>2 DEF Truth!Write, Truth!Trip, Truth!Garble, Truth!write_heartbeat, Truth!Tick
<1> QED
  BY <1>1, <1>2, WriteKeeps, ReadKeeps, ConcludeKeeps DEF Truth!Next

(* A persisted-safety report is the truth of one moment: "locally_clear" is
   said only if no category held a row and no breaker row was garbled,
   "unsafe" only if some category did, and a heartbeat that is heard is not
   taken for one from the future; for any writes between the queries, any
   failed query, and any coarseness of the database clock. *)
THEOREM ReportsHold ==
    ASSUME Truth!TruthAssumption
    PROVE  Truth!Spec => [](Truth!TypeOK /\ Truth!ReportIsTrue /\ Truth!HeartbeatBelieved)
<1>1. ASSUME TruthInv PROVE Truth!TypeOK /\ Truth!ReportIsTrue /\ Truth!HeartbeatBelieved
  BY <1>1, SevenCategories DEF TruthInv, Clocks, Tables, Told, Truth!TypeOK
<1> QED
  BY <1>1, TruthInit, TruthStep, PTL DEF Truth!Spec
=============================================================================
