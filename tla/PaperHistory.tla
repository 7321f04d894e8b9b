------------------------------ MODULE PaperHistory ------------------------------
(***************************************************************************)
(* Adopting the closed history of the paper account into a fresh database  *)
(* (ops/paper_history.py).  The tool compares an old database with the     *)
(* broker and, in one transaction under the maintenance tenure, imports    *)
(* the orders and fills that both of them have.  Between its steps the old *)
(* database may be written, somebody may trade in the account, the tool    *)
(* may lose its tenure to a runtime or be killed, and the answer to its    *)
(* commit may be an error although the commit is durable.                  *)
(* An order has one fill here, and is named by it.                         *)
(***************************************************************************)
EXTENDS Integers, FiniteSets, FiniteSetsExt

CONSTANTS Fills, Signed, \* the fills there may be, and their signed quantities
          MaxGen, MaxRuns, MaxVersion \* bounds: breaker trips, runs of the tool, source writes

HistoryAssumption ==
    /\ Signed \in [Fills -> Int]
    /\ {MaxGen, MaxRuns, MaxVersion} \subseteq Nat \ {0}

VARIABLES source, \* the old database: its fills, whether a process has it open, its version
          broker, \* the account's fills and open orders
          db,     \* the new database
          tenure, \* who may write to it
          pc,     \* of the tool
          seen,   \* what the tool has read
          report, \* what the tool printed
          runs,
          committed, \* history: the import of this run is durable
          moment \* history: the account at the second reading, the old database at the import

vars == <<source, broker, db, tenure, pc, seen, report, runs, committed, moment>>

NoFills == {}
Unread == [gen |-> 0, version |-> 0, history |-> NoFills, first |-> NoFills, orders |-> NoFills,
           second |-> NoFills]
Steps == {"quiescent", "target", "print", "load", "flat", "activities", "orders", "again",
          "flat again", "unchanged", "compare", "import", "commit", "durable"}
Reports == {"none", "refused", "imported", "reconciled", "unknown"}

TypeOK ==
    /\ source \in [fills : SUBSET Fills, open : BOOLEAN, version : 0 .. MaxVersion]
    /\ broker \in [fills : SUBSET Fills, open : SUBSET Fills]
    /\ db \in [imported : SUBSET Fills, alone : BOOLEAN, others : BOOLEAN, on : BOOLEAN,
               gen : 0 .. MaxGen]
    /\ tenure \in {"free", "tool", "runtime"}
    /\ pc \in Steps \cup {"off"}
    /\ seen \in [gen : 0 .. MaxGen, version : 0 .. MaxVersion, history : SUBSET Fills,
                 first : SUBSET Fills, orders : SUBSET Fills, second : SUBSET Fills]
    /\ report \in Reports /\ runs \in 0 .. MaxRuns /\ committed \in BOOLEAN
    /\ moment \in [broker : SUBSET Fills, source : SUBSET Fills]

(* Any old database and any account; a new database whose breaker may have tripped *)
Init ==
    /\ source \in [fills : SUBSET Fills, open : {FALSE}, version : {0}]
    /\ broker \in [fills : SUBSET Fills, open : {{}}]
    /\ db = [imported |-> NoFills, alone |-> TRUE, others |-> FALSE, on |-> FALSE, gen |-> 0]
    /\ tenure = "free" /\ pc = "off" /\ seen = Unread
    /\ report = "none" /\ runs = 0 /\ committed = FALSE
    /\ moment = [broker |-> NoFills, source |-> NoFills]

Outside == <<source, broker>>
Goto(step) == pc' = step

-----------------------------------------------------------------------------
(* Reading *)

Begin ==
    /\ pc = "off" /\ tenure = "free" /\ runs < MaxRuns
    /\ tenure' = "tool" /\ runs' = runs + 1
    /\ Goto("quiescent") /\ seen' = Unread /\ report' = "none" /\ committed' = FALSE
    /\ UNCHANGED <<Outside, db>>

(* The tool ends: it reports and gives its tenure back. *)
Ends(what) ==
    /\ pc' = "off" /\ report' = what /\ seen' = Unread
    /\ tenure' = IF tenure = "tool" THEN "free" ELSE tenure

Refuse == Ends("refused") /\ UNCHANGED <<Outside, db, runs, committed>>
Proceed(step) == Goto(step) /\ UNCHANGED <<Outside, db, tenure, report, runs, committed>>

Check(from, passes, to) ==
    /\ pc = from
    /\ IF passes THEN Proceed(to) /\ UNCHANGED seen ELSE Refuse

SourceIsQuiescent == ~source.open
CheckQuiescent == Check("quiescent", SourceIsQuiescent, "target")

DatabaseIsFresh == db.imported = NoFills /\ ~db.others
BreakerGeneration(gen) == db.on /\ db.gen > 0 /\ (gen # 0 => db.gen = gen)

CheckTarget ==
    /\ pc = "target"
    /\ IF DatabaseIsFresh /\ BreakerGeneration(0)
       THEN seen' = [seen EXCEPT !.gen = db.gen] /\ Proceed("print")
       ELSE Refuse

Fingerprint ==
    /\ pc = "print"
    /\ seen' = [seen EXCEPT !.version = source.version] /\ Proceed("load")

(* The old database must have something, and in order. *)
LoadLegacyHistory ==
    /\ pc = "load"
    /\ IF source.fills # NoFills
       THEN seen' = [seen EXCEPT !.history = source.fills] /\ Proceed("flat")
       ELSE Refuse

Position(fills) == FoldSet(LAMBDA f, sum : Signed[f] + sum, 0, fills)
AccountIsFlat == Position(broker.fills) = 0 /\ broker.open = {}

CheckFlat == Check("flat", AccountIsFlat, "activities")

ReadActivities ==
    /\ pc = "activities"
    /\ IF broker.fills # NoFills
       THEN seen' = [seen EXCEPT !.first = broker.fills] /\ Proceed("orders")
       ELSE Refuse

(* An order that is not filled has another status than the old database says. *)
ReadOrders ==
    /\ pc = "orders"
    /\ seen' = [seen EXCEPT !.orders = seen.first \cap broker.fills] /\ Proceed("again")

ReadActivitiesAgain ==
    /\ pc = "again"
    /\ seen' = [seen EXCEPT !.second = broker.fills] /\ Proceed("flat again")

CheckFlatAgain == Check("flat again", AccountIsFlat /\ seen.first = seen.second, "unchanged")

SourceUnchanged == seen.version = source.version
CheckUnchanged == Check("unchanged", SourceIsQuiescent /\ SourceUnchanged, "compare")

LegacyMatchesBroker ==
    /\ seen.history = seen.first /\ seen.orders = seen.history
    /\ Position(seen.first) = 0
Compare == Check("compare", LegacyMatchesBroker, "import")

(* The broker, or the source, cannot be read. *)
ReadFails ==
    /\ pc \in Steps \ {"import", "commit", "durable"}
    /\ Refuse

-----------------------------------------------------------------------------
(* One transaction *)

RenewInTransaction == tenure = "tool"

(* Everything is looked at again under the write lock, then written and read back. *)
MayImport ==
    /\ RenewInTransaction
    /\ DatabaseIsFresh /\ BreakerGeneration(seen.gen)
    /\ SourceUnchanged

Import == Check("import", MayImport, "commit")

Imported(d) == [d EXCEPT !.imported = seen.history, !.alone = ~d.others /\ d.imported = NoFills]

(* The transaction has held the write lock since it began. *)
CommitSucceeds ==
    /\ pc = "commit"
    /\ db' = Imported(db) /\ committed' = TRUE
    /\ Ends("imported")
    /\ UNCHANGED <<Outside, runs>>

(* The commit raises, whether or not it took place; or another statement does, and it did not. *)
CommitRaises ==
    /\ pc = "commit"
    /\ Goto("durable")
    /\ \/ db' = Imported(db) /\ committed' = TRUE
       \/ UNCHANGED <<db, committed>>
    /\ UNCHANGED <<Outside, tenure, seen, report, runs>>

StatementFails ==
    /\ pc = "commit"
    /\ Ends("refused")
    /\ UNCHANGED <<Outside, db, runs, committed>>

CommittedImportIsDurable ==
    db.imported = seen.history /\ committed /\ BreakerGeneration(seen.gen)

Reconciled ==
    /\ pc = "durable" /\ CommittedImportIsDurable
    /\ Ends("reconciled")
    /\ UNCHANGED <<Outside, db, runs, committed>>

(* The import is not there, or that it is cannot be read. *)
Uncertain ==
    /\ pc = "durable"
    /\ Ends("unknown")
    /\ UNCHANGED <<Outside, db, runs, committed>>

-----------------------------------------------------------------------------
(* Everything else *)

Killed ==
    /\ pc # "off"
    /\ pc' = "off" /\ seen' = Unread /\ report' = "none"
    /\ IF pc = "commit" THEN (db' = db /\ UNCHANGED committed)
                               \/ (db' = Imported(db) /\ committed' = TRUE)
       ELSE UNCHANGED <<db, committed>>
    /\ UNCHANGED <<Outside, tenure, runs>>

WriteSource ==
    /\ \/ source.open /\ source' = [source EXCEPT !.open = FALSE]
       \/ ~source.open /\ source.version < MaxVersion /\ source' = [source EXCEPT !.open = TRUE]
       \/ /\ source.open /\ source.version < MaxVersion
          /\ \E f \in Fills \ source.fills :
               source' = [source EXCEPT !.fills = @ \cup {f}, !.version = @ + 1]
    /\ UNCHANGED <<broker, db, tenure, pc, seen, report, runs, committed>>

Trade ==
    /\ \/ \E f \in Fills \ (broker.fills \cup broker.open) : broker' = [broker EXCEPT !.open = @ \cup {f}]
       \/ \E f \in broker.open : broker' = [fills |-> broker.fills \cup {f}, open |-> broker.open \ {f}]
    /\ UNCHANGED <<source, db, tenure, pc, seen, report, runs, committed>>

(* A tool that does not renew its tenure in time, or that was killed, loses it. No transaction is
   open then. *)
TenureExpires ==
    /\ tenure = "tool" /\ pc # "commit"
    /\ tenure' = "free"
    /\ UNCHANGED <<Outside, db, pc, seen, report, runs, committed>>

(* A runtime trips the breaker, for the account has what the database has not, and may write rows. *)
Runtime ==
    /\ pc # "commit"
    /\ \/ tenure = "free" /\ tenure' = "runtime" /\ UNCHANGED db
       \/ tenure = "runtime" /\ tenure' = "free" /\ UNCHANGED db
       \/ /\ tenure = "runtime" /\ UNCHANGED tenure
          /\ \/ db.gen < MaxGen /\ db' = [db EXCEPT !.on = TRUE, !.gen = @ + 1]
             \/ db.on /\ db' = [db EXCEPT !.on = FALSE]
             \/ db' = [db EXCEPT !.others = TRUE]
    /\ UNCHANGED <<Outside, pc, seen, report, runs, committed>>

Tool ==
    \/ Begin \/ CheckQuiescent \/ CheckTarget \/ Fingerprint \/ LoadLegacyHistory \/ CheckFlat
    \/ ReadActivities \/ ReadOrders \/ ReadActivitiesAgain \/ CheckFlatAgain \/ CheckUnchanged
    \/ Compare \/ ReadFails \/ Import \/ CommitSucceeds \/ CommitRaises \/ StatementFails
    \/ Reconciled \/ Uncertain

Remember ==
    moment' = [broker |-> IF pc = "again" THEN broker.fills ELSE moment.broker,
               source |-> IF pc = "import" THEN source.fills ELSE moment.source]

Next == (Tool \/ Killed \/ WriteSource \/ Trade \/ TenureExpires \/ Runtime) /\ Remember

Spec == Init /\ [][Next]_vars

-----------------------------------------------------------------------------
(* Properties *)

(* What the tool prints is true: an import it reports has taken place, one it refuses has not, and
   where it cannot tell it says so. *)
ReportIsTrue ==
    /\ report \in {"imported", "reconciled"} => committed
    /\ report = "refused" => ~committed

(* An import never joins rows of a runtime or of an earlier import, whatever happened since the
   tool first looked. *)
ImportIsAlone == db.alone

(* Although both move while the tool reads them, an import is all that the account had at one moment
   of the run and all that the old database had when the transaction looked at it last: no fill
   that came in between is missing from it, and together they leave no position. *)
ImportIsComplete ==
    db.imported # NoFills =>
        /\ db.imported = moment.broker /\ db.imported = moment.source
        /\ Position(db.imported) = 0

=============================================================================
