---------------------------- MODULE SchemaUpgrade ----------------------------
(***************************************************************************)
(* Upgrading the schema: the command of db/migrate.py and the single-use   *)
(* authority of db/migration_authority.py that goes with it through the    *)
(* migration tool.  An empty database is bootstrapped without a lease; an  *)
(* existing one is upgraded under the maintenance lease, after a backup.   *)
(* The migration tool (Alembic) reads the revision once, plans the steps   *)
(* from it and applies them one by one; each step reports itself to the    *)
(* authority after it has been applied.                                    *)
(*                                                                         *)
(* Revisions are 1..Head.  The release before this one had its head at     *)
(* OldHead, and its runtimes may be writing to an inherited database.      *)
(***************************************************************************)
EXTENDS Naturals, FiniteSets

CONSTANTS Commands,   \* processes running the upgrade command
          OldHead, Head,
          MaxRows, MaxFaults   \* bounds

RevisionAssumption ==
    /\ {OldHead, Head, MaxRows, MaxFaults} \subseteq Nat
    /\ 0 < OldHead /\ OldHead < Head

VARIABLES
    inherited,  \* the database was made by the release before
    version,    \* the revision in the version table; 0: no tables
    torn,       \* a step was cut short: its tables are there, its revision is not
    rows,       \* what runtimes have written
    holder,     \* who holds the runtime tenure
    backups,    \* [version, rows] of the backups published
    cmd,        \* the commands
    faults

db == <<version, torn, rows>>
vars == <<inherited, db, holder, backups, cmd, faults>>

Nobody == "nobody"
Runtime == "runtime"
Idle == [pc |-> "off", mode |-> "none", start |-> 0, next |-> 0, heads |-> 0, steps |-> 0]

PCs == {"off", "lease", "backup", "issue", "activate", "plan", "step", "observe",
        "finish", "release", "done"}

TypeOK ==
    /\ inherited \in BOOLEAN
    /\ version \in 0..Head
    /\ torn \in BOOLEAN
    /\ rows \in 0..MaxRows
    /\ holder \in Commands \cup {Nobody, Runtime}
    /\ backups \subseteq [version : 1..Head, rows : 0..MaxRows]
    /\ \A p \in Commands :
         /\ cmd[p].pc \in PCs
         /\ cmd[p].steps \in 0..Head
         /\ cmd[p].next \in 0..Head + 1
    /\ faults \in 0..MaxFaults

Init ==
    /\ inherited \in BOOLEAN
    /\ version = IF inherited THEN OldHead ELSE 0
    /\ torn = FALSE
    /\ rows = 0
    /\ holder = Nobody
    /\ backups = {}
    /\ cmd = [p \in Commands |-> Idle]
    /\ faults = 0

-----------------------------------------------------------------------------
(* Runtimes of the old release use an inherited database, those of this    *)
(* release one at its head.                                                *)
RuntimeTake ==
    /\ holder = Nobody
    /\ ~torn
    /\ version = Head \/ (inherited /\ version = OldHead)
    /\ holder' = Runtime
    /\ UNCHANGED <<inherited, db, backups, cmd, faults>>

RuntimeWrite ==
    /\ holder = Runtime
    /\ rows < MaxRows
    /\ rows' = rows + 1
    /\ UNCHANGED <<inherited, version, torn, holder, backups, cmd, faults>>

RuntimeLeave ==
    /\ holder = Runtime
    /\ holder' = Nobody
    /\ UNCHANGED <<inherited, db, backups, cmd, faults>>

(* A stalled command's lease runs out, and somebody else may take it. *)
Lapse(p) ==
    /\ faults < MaxFaults
    /\ faults' = faults + 1
    /\ holder = p
    /\ holder' = Nobody
    /\ UNCHANGED <<inherited, db, backups, cmd>>

-----------------------------------------------------------------------------
Goto(p, l) == cmd' = [cmd EXCEPT ![p].pc = l]

Drop(p) == holder' = IF holder = p THEN Nobody ELSE holder

(* A refusal, or any exception: the authority is retired, the lease given  *)
(* back, and the command fails.                                            *)
Refuse(p) ==
    /\ cmd' = [cmd EXCEPT ![p] = Idle]
    /\ Drop(p)
    /\ UNCHANGED <<inherited, db, backups, faults>>

(* schema_status, and which way to go. *)
upgrade(p) ==
    /\ cmd[p].pc = "off"
    /\ ~(torn /\ version = 0)
    /\ version < Head
    /\ cmd' = [cmd EXCEPT ![p] =
                 [Idle EXCEPT !.pc = IF version = 0 THEN "issue" ELSE "lease",
                              !.mode = IF version = 0 THEN "bootstrap" ELSE "maintenance"]]
    /\ UNCHANGED <<inherited, db, holder, backups, faults>>

acquire_maintenance(p) ==
    /\ cmd[p].pc = "lease"
    /\ \/ /\ holder = Nobody
          /\ holder' = p
          /\ Goto(p, "backup")
          /\ UNCHANGED <<inherited, db, backups, faults>>
       \/ holder # Nobody /\ Refuse(p)

(* A bootstrap needs no lease; a maintenance command proves it again in    *)
(* the transaction that relies on it.                                      *)
Owned(p) == cmd[p].mode = "bootstrap" \/ holder = p

PublishBackup(p) ==
    /\ cmd[p].pc = "backup"
    /\ \/ /\ Owned(p)
          /\ backups' = backups \cup {[version |-> version, rows |-> rows]}
          /\ Goto(p, "issue")
          /\ UNCHANGED <<inherited, db, holder, faults>>
       \/ ~Owned(p) /\ Refuse(p)

(* A bootstrap authority is issued for an empty database only. *)
issue_authority(p) ==
    /\ cmd[p].pc = "issue"
    /\ LET may == IF cmd[p].mode = "bootstrap" THEN version = 0 /\ ~torn ELSE Owned(p) IN
       \/ may /\ Goto(p, "activate") /\ UNCHANGED <<inherited, db, holder, backups, faults>>
       \/ ~may /\ Refuse(p)

(* The same is proved again when the tool starts, and the revision read. *)
activate_migration_authority(p) ==
    /\ cmd[p].pc = "activate"
    /\ LET may == IF cmd[p].mode = "bootstrap" THEN version = 0 /\ ~torn ELSE Owned(p) IN
       \/ /\ may
          /\ cmd' = [cmd EXCEPT ![p].pc = "plan", ![p].start = version]
          /\ UNCHANGED <<inherited, db, holder, backups, faults>>
       \/ ~may /\ Refuse(p)

(* The tool reads the revision by itself and plans the steps from there. *)
PlanSteps(p) ==
    /\ cmd[p].pc = "plan"
    /\ cmd' = [cmd EXCEPT ![p].pc = IF version < Head THEN "step" ELSE "finish",
                          ![p].next = version + 1]
    /\ UNCHANGED <<inherited, db, holder, backups, faults>>

(* A step is applied on the revision before it; on any other, or on torn   *)
(* tables, its statements fail.                                            *)
ApplyStep(p) ==
    /\ cmd[p].pc = "step"
    /\ LET may == Owned(p) /\ version + 1 = cmd[p].next /\ ~torn IN
       \/ /\ may
          /\ version' = cmd[p].next
          /\ Goto(p, "observe")
          /\ UNCHANGED <<inherited, torn, rows, holder, backups, faults>>
       \/ ~may /\ Refuse(p)

(* A step goes from the heads seen last to its own destination. *)
Consecutive(p) ==
    cmd[p].next - 1 = IF cmd[p].steps = 0 THEN cmd[p].start ELSE cmd[p].heads

observe_migration_step(p) ==
    /\ cmd[p].pc = "observe"
    /\ LET may == Owned(p) /\ Consecutive(p) IN
       \/ /\ may
          /\ cmd' = [cmd EXCEPT ![p].heads = cmd[p].next,
                                ![p].steps = @ + 1,
                                ![p].next = @ + 1,
                                ![p].pc = IF cmd[p].next < Head THEN "step" ELSE "finish"]
          /\ UNCHANGED <<inherited, db, holder, backups, faults>>
       \/ ~may /\ Refuse(p)

(* At least one step, ending at the destination the authority is bound to. *)
finish_migration_authority(p) ==
    /\ cmd[p].pc = "finish"
    /\ LET may == Owned(p) /\ cmd[p].steps > 0 /\ cmd[p].heads = Head /\ version = Head IN
       \/ may /\ Goto(p, "release") /\ UNCHANGED <<inherited, db, holder, backups, faults>>
       \/ ~may /\ Refuse(p)

(* The lease is proved a last time, the schema is required to be current,  *)
(* and only then is the lease given back and success reported.             *)
Release(p) ==
    /\ cmd[p].pc = "release"
    /\ \/ /\ Owned(p) /\ version = Head
          /\ Goto(p, "done")
          /\ Drop(p)
          /\ UNCHANGED <<inherited, db, backups, faults>>
       \/ ~(Owned(p) /\ version = Head) /\ Refuse(p)

(* The process is killed; a step under way may leave its tables behind. *)
Kill(p) ==
    /\ faults < MaxFaults
    /\ faults' = faults + 1
    /\ cmd[p].pc \notin {"off", "done"}
    /\ cmd' = [cmd EXCEPT ![p] = Idle]
    /\ Drop(p)
    /\ torn' \in {torn, torn \/ (cmd[p].pc = "step" /\ Owned(p) /\ version + 1 = cmd[p].next)}
    /\ UNCHANGED <<inherited, version, rows, backups>>

Command(p) ==
    \/ upgrade(p) \/ acquire_maintenance(p) \/ PublishBackup(p) \/ issue_authority(p)
    \/ activate_migration_authority(p) \/ PlanSteps(p) \/ ApplyStep(p)
    \/ observe_migration_step(p) \/ finish_migration_authority(p) \/ Release(p)

Next ==
    \/ RuntimeTake \/ RuntimeWrite \/ RuntimeLeave
    \/ \E p \in Commands : Command(p) \/ Lapse(p) \/ Kill(p)

Spec == Init /\ [][Next]_vars

-----------------------------------------------------------------------------
(* The schema never changes under rows that no backup holds: whenever a    *)
(* step is applied to a database runtimes have written to, a backup taken  *)
(* at the revision the runtimes used has every one of those rows.          *)
NothingUnsavedStep ==
    version' # version /\ rows > 0 =>
      [version |-> OldHead, rows |-> rows] \in backups

(* A command that reports success has itself applied, one after the other, *)
(* all the steps from the revision it was authorised on to the head: with  *)
(* two commands at once, none takes the other's steps for its own.         *)
SuccessIsWhole ==
    \A p \in Commands :
      cmd[p].pc = "done" => version = Head /\ cmd[p].start + cmd[p].steps = Head

=============================================================================
