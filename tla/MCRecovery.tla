----------------------------- MODULE MCRecovery -----------------------------
(***************************************************************************)
(* What is put right after a failure: an order whose outcome is open, fills *)
(* that come late or are missed, an interrupted publication or migration,  *)
(* a session that failed and a monitor that stopped.  The parts share no   *)
(* state, so a behaviour moves one of them and leaves the others as they   *)
(* start; each property assumes the fairness of its own part.              *)
(***************************************************************************)
EXTENDS Integers, TLC

VARIABLES
    part,   \* the part that moves
    announced, holder, claimant, status, latched, known, ledger, expired,
    tripped, groupLatched, current, remote, filled, outboxPc, task, verdict,
    scan, approvals, sends,
    planDb, planBroker,
    fillsRows, order, cursor, drift, pass, fillsBroker, crashes, offered,
    backupPc, sealed, plain, name, left, dleft, links, dlinks, rec, drec,
    backupLock, slock, oldDir, oldRec, oldArt, jan, retired, powers, kills,
    movePc, had, moveAt, content, moveTenure, running, base, copied, marker,
    gone, tools, starts,
    st, fieldsRows, tool, app, cfg, fieldsTenure, faults,
    storeDb, tx, obj, storeAt, staged, active, granted, mode, storeLock

(* An execution of order a that an older version booked without trust, one *)
(* of order b that it made up a row for, and a trade of somebody else.     *)
PastOrder == 1 :> "a" @@ 2 :> "b" @@ 3 :> "foreign"
PastTime == 1 :> 1 @@ 2 :> 2 @@ 3 :> 3
PastRows == 11 :> [order |-> "b", qty |-> 1, state |-> "synthetic"]

Outbox == INSTANCE OrderOutbox WITH
    Nobody <- "nobody", Threads <- {"t1"}, Orders <- {"o1"},
    RuleOrders <- {"o1"},
    Scopes <- {"operator_global", "broker_drift", "data"}, Qty <- 1,
    Requests <- {"propose", "approve", "submit", "require", "sync", "startup", "reset"},
    Endings <- {"canceled", "rejected", "expired"}, pc <- outboxPc

Plan == INSTANCE PlanLifecycle WITH
    Entries <- {1}, Intermediate <- {}, Protective <- {2}, EntryQty <- 1,
    Percent <- 50, Other <- 1, Attempts <- 1, LateRules <- {1}, db <- planDb,
    broker <- planBroker

Fills == INSTANCE FillLedger WITH
    Orders <- {"a", "b"}, OrderQty <- 2, Executions <- 1..3,
    OrderOf <- PastOrder, QtyOf <- [e \in 1..3 |-> 1], TimeOf <- PastTime,
    Old <- {11}, OldRows <- PastRows, Past <- {1, 2}, Tagged <- {1},
    Foreign <- "foreign", NoOrder <- "none", Overlap <- 2, Distortions <- 0,
    Crashes <- 0, rows <- fillsRows, broker <- fillsBroker

Backup == INSTANCE BackupPublication WITH
    Janitors <- {"j1"}, WriteErrors <- FALSE, MaxPower <- 0, MaxKills <- 1,
    pc <- backupPc, lock <- backupLock

Move == INSTANCE Consolidation WITH
    MaxWrites <- 1, MaxStarts <- 1, MaxTools <- 2, pc <- movePc, at <- moveAt,
    tenure <- moveTenure

Fields == INSTANCE FieldMigration WITH
    Tools <- {"f1"}, Apps <- {"a1"}, Rows <- {"r1", "r2"},
    Keys <- {"k1", "k2"}, FirstKey <- "k1", BatchRows <- 1, MaxFaults <- 1,
    rows <- fieldsRows, tenure <- fieldsTenure

Store == INSTANCE SensitiveStore WITH
    Sessions <- {"s1", "s2"}, Rows <- {"r1"}, OldRow <- "r1",
    Nullable <- FALSE, db <- storeDb, at <- storeAt, lock <- storeLock

ASSUME Constants ==
    /\ Plan!PlanAssumption
    /\ Fills!LedgerAssumption
    /\ Backup!BackupAssumption
    /\ Move!ConsolidationAssumption
    /\ Fields!FieldAssumption
    /\ Store!StoreAssumption

outboxVars == <<announced, holder, claimant, status, latched, known, ledger,
               expired, tripped, groupLatched, current, remote, filled,
               outboxPc, task, verdict, scan, approvals, sends>>
planVars == <<planDb, planBroker>>
fillsVars == <<fillsRows, order, cursor, drift, pass, fillsBroker, crashes,
              offered>>
backupVars == <<backupPc, sealed, plain, name, left, dleft, links, dlinks, rec,
               drec, backupLock, slock, oldDir, oldRec, oldArt, jan, retired,
               powers, kills>>
moveVars == <<movePc, had, moveAt, content, moveTenure, running, base, copied,
             marker, gone, tools, starts>>
fieldsVars == <<st, fieldsRows, tool, app, cfg, fieldsTenure, faults>>
storeVars == <<storeDb, tx, obj, storeAt, staged, active, granted, mode,
              storeLock>>
vars == <<part, outboxVars, planVars, fillsVars, backupVars, moveVars,
          fieldsVars, storeVars>>

Init ==
    /\ part \in {"outbox", "plan", "fills", "backup", "move", "fields",
                       "store"}
    /\ Outbox!Init
    /\ Plan!Init
    /\ Fills!Init
    /\ Backup!Init
    /\ Move!Init
    /\ Fields!Init
    /\ Store!Init
    /\ part = "move" \/ had

OnlyOutbox ==
    part = "outbox" /\ UNCHANGED <<part, planVars, fillsVars, backupVars,
                                   moveVars, fieldsVars, storeVars>>
OnlyPlan ==
    part = "plan" /\ UNCHANGED <<part, outboxVars, fillsVars, backupVars,
                                 moveVars, fieldsVars, storeVars>>
OnlyFills ==
    part = "fills" /\ UNCHANGED <<part, outboxVars, planVars, backupVars,
                                  moveVars, fieldsVars, storeVars>>
OnlyBackup ==
    part = "backup" /\ UNCHANGED <<part, outboxVars, planVars, fillsVars,
                                   moveVars, fieldsVars, storeVars>>
OnlyMove ==
    part = "move" /\ UNCHANGED <<part, outboxVars, planVars, fillsVars,
                                 backupVars, fieldsVars, storeVars>>
OnlyFields ==
    part = "fields" /\ UNCHANGED <<part, outboxVars, planVars, fillsVars,
                                   backupVars, moveVars, storeVars>>
OnlyStore ==
    part = "store" /\ UNCHANGED <<part, outboxVars, planVars, fillsVars,
                                  backupVars, moveVars, fieldsVars>>

Next ==
    \/ OnlyOutbox /\ Outbox!Next
    \/ OnlyPlan /\ Plan!Next
    \/ OnlyFills /\ Fills!Next
    \/ OnlyBackup /\ Backup!Next
    \/ OnlyMove /\ Move!Next
    \/ OnlyFields /\ Fields!Next
    \/ OnlyStore /\ Store!Next
    \/ /\ part \in {"plan", "fills", "backup", "move"}   \* may come to an end
       /\ UNCHANGED vars

Spec == Init /\ [][Next]_vars

(* Consolidation's fairness while the move goes on. *)
FairSpec ==
    /\ Spec
    /\ WF_vars(OnlyMove /\ (Move!Tool \/ Move!Fail \/ Move!Kill))
    /\ \A f \in Move!Files : /\ WF_vars(OnlyMove /\ Move!Expire(f))
                             /\ WF_vars(OnlyMove /\ Move!MaintenancePass(f))

-----------------------------------------------------------------------------
(* An order that reached the broker but whose outcome was not recorded,
   because the answer was lost or the process died, is resolved by client
   order id once faults cease (_resolve_unknown). *)
SubmissionResolves == (part = "outbox" /\ Outbox!Fairness) => Outbox!SubmissionResolves

(* Shares that come late do not stay without consequence: those a plan comes
   to own after it was closed get protection again, and executions of an ended
   order that the ledger does not have are noticed, with the order latched and
   the drift breaker tripped. *)
FillsAreCaughtUp ==
    /\ (part = "plan" /\ Plan!Fairness) => Plan!LateSharesProtected
    /\ (part = "fills" /\ Fills!Fairness) => Fills!MissingIsNoticed

(* What an interrupted tool or session leaves is dealt with in the end:
   plaintext and orphans of a backup are swept, no tenure of a consolidation
   that is gone stays, an interrupted field migration that is resumed comes to
   its end, and a session that a failed write has blocked is usable again. *)
InterruptedWorkEnds ==
    /\ (part = "backup" /\ Backup!Fairness) => Backup!PlaintextRemoved
    /\ (part = "backup" /\ Backup!Fairness) => Backup!OrphansSwept
    /\ part = "move" => Move!TenuresEnd
    /\ (part = "fields" /\ Fields!Fairness) => Fields!InterruptedEnds
    /\ (part = "store" /\ Store!Fairness) => Store!BlockedIsFreed

=============================================================================
