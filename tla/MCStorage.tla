----------------------------- MODULE MCStorage ------------------------------
(***************************************************************************)
(* The tools and the store that look after the database: backups, the      *)
(* move to another checkout, sealing of sensitive columns, schema upgrades *)
(* and the import of paper history.  The parts share no state, so a        *)
(* behaviour moves one of them and leaves the others as they start.        *)
(***************************************************************************)
EXTENDS Integers, TLC

VARIABLES
    part,   \* the part that moves
    backupPc, sealed, plain, name, left, dleft, links, dlinks, rec, drec,
    backupLock, slock, oldDir, oldRec, oldArt, jan, retired, powers, kills,
    movePc, had, moveAt, content, moveTenure, running, base, copied, marker,
    gone, tools, starts,
    st, fieldsRows, tool, app, cfg, fieldsTenure, fieldsFaults,
    storeDb, tx, obj, storeAt, staged, active, granted, mode, storeLock,
    inherited, version, torn, schemaRows, holder, backups, cmd, schemaFaults,
    source, broker, historyDb, historyTenure, historyPc, seen, report, runs,
    committed, moment

\* A purchase and its sale.
Signs == [f \in {"buy", "sell"} |-> IF f = "sell" THEN -1 ELSE 1]

Backup == INSTANCE BackupPublication WITH
    Janitors <- {"j1", "j2"}, WriteErrors <- TRUE, MaxPower <- 1,
    MaxKills <- 1, pc <- backupPc, lock <- backupLock

Sound == INSTANCE BackupPublication WITH
    Janitors <- {"j1"}, WriteErrors <- FALSE, MaxPower <- 1, MaxKills <- 1,
    pc <- backupPc, lock <- backupLock

Move == INSTANCE Consolidation WITH
    MaxWrites <- 2, MaxStarts <- 2, MaxTools <- 3, pc <- movePc, at <- moveAt,
    tenure <- moveTenure

Fields == INSTANCE FieldMigration WITH
    Tools <- {"t1", "t2"}, Apps <- {"a1"}, Rows <- {"r1", "r2"},
    Keys <- {"k1", "k2"}, FirstKey <- "k1", BatchRows <- 1, MaxFaults <- 1,
    rows <- fieldsRows, tenure <- fieldsTenure, faults <- fieldsFaults

Store == INSTANCE SensitiveStore WITH
    Sessions <- {"s1", "s2"}, Rows <- {"r1", "r2"}, OldRow <- "r1",
    Nullable <- TRUE, db <- storeDb, at <- storeAt, lock <- storeLock

Schema == INSTANCE SchemaUpgrade WITH
    Commands <- {"p1", "p2"}, OldHead <- 1, Head <- 3, MaxRows <- 2,
    MaxFaults <- 2, rows <- schemaRows, faults <- schemaFaults

History == INSTANCE PaperHistory WITH
    Fills <- {"buy", "sell"}, Signed <- Signs, MaxGen <- 1, MaxRuns <- 2,
    MaxVersion <- 1, db <- historyDb, tenure <- historyTenure, pc <- historyPc

ASSUME Constants ==
    /\ Backup!BackupAssumption
    /\ Sound!BackupAssumption
    /\ Move!ConsolidationAssumption
    /\ Fields!FieldAssumption
    /\ Store!StoreAssumption
    /\ Schema!RevisionAssumption
    /\ History!HistoryAssumption

backupVars == <<backupPc, sealed, plain, name, left, dleft, links, dlinks, rec,
               drec, backupLock, slock, oldDir, oldRec, oldArt, jan, retired,
               powers, kills>>
moveVars == <<movePc, had, moveAt, content, moveTenure, running, base, copied,
             marker, gone, tools, starts>>
fieldsVars == <<st, fieldsRows, tool, app, cfg, fieldsTenure, fieldsFaults>>
storeVars == <<storeDb, tx, obj, storeAt, staged, active, granted, mode,
              storeLock>>
schemaVars == <<inherited, version, torn, schemaRows, holder, backups, cmd,
               schemaFaults>>
historyVars == <<source, broker, historyDb, historyTenure, historyPc, seen,
                report, runs, committed, moment>>
vars == <<part, backupVars, moveVars, fieldsVars, storeVars, schemaVars,
          historyVars>>

Init ==
    /\ part \in {"backup", "sound", "move", "fields", "store", "schema",
                       "history"}
    /\ CASE part = "sound" -> Sound!Init
           [] OTHER -> Backup!Init
    /\ Move!Init
    /\ Fields!Init
    /\ Store!Init
    /\ Schema!Init
    /\ History!Init
    /\ part = "move" \/ had
    /\ part = "schema" \/ inherited
    /\ part = "history" \/ source.fills \cup broker.fills = {}

OnlyBackup ==
    part = "backup" /\ UNCHANGED <<part, moveVars, fieldsVars, storeVars,
                                   schemaVars, historyVars>>
OnlySound ==
    part = "sound" /\ UNCHANGED <<part, moveVars, fieldsVars, storeVars,
                                  schemaVars, historyVars>>
OnlyMove ==
    part = "move" /\ UNCHANGED <<part, backupVars, fieldsVars, storeVars,
                                 schemaVars, historyVars>>
OnlyFields ==
    part = "fields" /\ UNCHANGED <<part, backupVars, moveVars, storeVars,
                                   schemaVars, historyVars>>
OnlyStore ==
    part = "store" /\ UNCHANGED <<part, backupVars, moveVars, fieldsVars,
                                  schemaVars, historyVars>>
OnlySchema ==
    part = "schema" /\ UNCHANGED <<part, backupVars, moveVars, fieldsVars,
                                   storeVars, historyVars>>
OnlyHistory ==
    part = "history" /\ UNCHANGED <<part, backupVars, moveVars, fieldsVars,
                                    storeVars, schemaVars>>

Next ==
    \/ OnlyBackup /\ Backup!Next
    \/ OnlySound /\ Sound!Next
    \/ OnlyMove /\ Move!Next
    \/ OnlyFields /\ Fields!Next
    \/ OnlyStore /\ Store!Next
    \/ OnlySchema /\ Schema!Next
    \/ OnlyHistory /\ History!Next
    \/ /\ part \in {"backup", "sound", "move", "schema", "history"}   \* may come to an end
       /\ UNCHANGED vars

Spec == Init /\ [][Next]_vars

-----------------------------------------------------------------------------
(* The part that moves keeps its types. *)
Types ==
    /\ part = "backup" => Backup!TypeOK
    /\ part = "sound" => Sound!TypeOK
    /\ part = "move" => Move!TypeOK
    /\ part = "fields" => Fields!TypeOK
    /\ part = "store" => Store!TypeOK
    /\ part = "schema" => Schema!TypeOK
    /\ part = "history" => History!TypeOK

(* What is stored is whole whenever a process may be killed: a listed backup
   was sealed and compared, one that was retired stays so, a creator at work
   is not disturbed and its receipt survives power losses; what is installed
   is the whole source, the old destination is kept until then, what a first
   run leaves half-done is marked unless it was interrupted before it had noted
   its change, and no runtime writes to a file that was unlinked; rows have two
   forms at most and committed values are sealed; and an import never joins
   other rows. *)
DataIsWhole ==
    /\ Types
    /\ part = "backup" => Backup!ListedIsWhole
    /\ part = "backup" => Backup!RetiredForGood
    /\ part = "backup" => Backup!CreatorUndisturbed
    /\ part = "sound" => Sound!ReceiptSurvives
    /\ part = "move" => Move!CopyIsWhole
    /\ part = "move" => Move!OldIsKept
    /\ part = "move" => Move!HalfDoneIsMarked
    /\ part = "move" => Move!NoWriteIsLost
    /\ part = "fields" => Fields!TwoForms
    /\ part = "store" => Store!CommittedIsSealed
    /\ part = "store" => Store!PlaceholderIsStaged
    /\ part = "store" => Store!NothingIsLeft
    /\ part = "history" => History!ImportIsAlone

(* What a tool reports is so: a backup that reports failure was not published,
   a failed consolidation has left the destination as it was, unless it was
   interrupted before it had noted its change, a migration
   called complete has every row sealed with the key it names and its progress
   is honest, an upgrade that reports success took every step itself, and an
   import is reported as it took place and is all that both sides had. *)
ReportsAreTrue ==
    /\ part = "backup" => Backup!FailureIsTrue
    /\ part = "move" => Move!FailureIsClean
    /\ part = "fields" => Fields!CompleteIsTrue
    /\ part = "fields" => Fields!ProgressIsHonest
    /\ part = "schema" => Schema!SuccessIsWhole
    /\ part = "history" => History!ReportIsTrue
    /\ part = "history" => History!ImportIsComplete

(* No step of a tool drops what it must keep: only retirement takes a listed
   backup away, stored values change only in the hands of a process whose
   tenure is good, and the schema never changes under rows that no backup
   holds. *)
NothingIsDropped ==
    [][/\ part = "sound" => Sound!ListedIsKeptStep
       /\ part = "fields" => Fields!RowsGuardedStep
       /\ part = "schema" => Schema!NothingUnsavedStep]_vars

=============================================================================
