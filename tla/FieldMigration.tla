----------------------------- MODULE FieldMigration -----------------------------
(***************************************************************************)
(* Encryption of the sensitive columns in place (ops/encrypt_sensitive.py) *)
(* and the start of the application against it (ops/serve.py, preflight.py,*)
(* bootstrap.py).  A migration seals plaintext rows with the active key, a *)
(* rotation re-seals them with another one; both rewrite a bounded batch   *)
(* per transaction under the maintenance tenure, keep their progress in a  *)
(* singleton row and are resumed by running the same command again.        *)
(* The commands and the application read the state before they hold any    *)
(* tenure, so what they read may be stale by the time they act on it.      *)
(***************************************************************************)
EXTENDS Integers, FiniteSets

CONSTANTS Tools,      \* runs of the command line tool that may overlap
          Apps,       \* application processes
          Rows,       \* rows with a registered sensitive value
          Keys,       \* field encryption keys in the key store
          FirstKey,   \* the key the configuration names at first
          BatchRows,  \* _MAX_BATCH_ROWS
          MaxFaults   \* bound: kills, stalls past the tenure and local errors

FieldAssumption ==
    /\ FirstKey \in Keys /\ "plain" \notin Keys
    /\ BatchRows \in Nat \ {0} /\ MaxFaults \in Nat
    /\ Tools \cap Apps = {} /\ {"none", "gone"} \cap (Tools \cup Apps) = {}

VARIABLES st,      \* sensitive_migration_state, the singleton row
          rows,    \* how each row's value is stored: "plain", or sealed with a key
          tool,    \* the runs of the command
          app,     \* the application processes and the key they loaded
          cfg,     \* encryption.active_key_id of the configuration file
          tenure,  \* who holds a tenure, and whether it has not expired
          faults

vars == <<st, rows, tool, app, cfg, tenure, faults>>

Procs == Tools \cup Apps
Ended == {"idle", "complete", "noop", "refused"}
Working == {"backup", "begin", "scan", "batch", "verify"}

States ==
    [state : {"required", "migrating", "complete", "rotating", "failed"},
     active : Keys, done : 0 .. Cardinality(Rows)]

TypeOK ==
    /\ st \in States
    /\ rows \in [Rows -> Keys \cup {"plain"}]
    /\ tool \in [Tools -> [at : Ended \cup Working \cup {"check", "acquire", "release", "failing"},
                           op : {"migrating", "rotating"}, old : Keys, new : Keys]]
    /\ app \in [Apps -> [at : {"off", "guarded", "held", "running"}, key : Keys]]
    /\ cfg \in Keys
    /\ tenure \in [owner : Procs \cup {"none", "gone"}, live : BOOLEAN]
    /\ faults \in 0 .. MaxFaults

Init ==
    /\ st = [state |-> "required", active |-> FirstKey, done |-> 0]
    /\ rows = [r \in Rows |-> "plain"]
    /\ tool = [p \in Tools |-> [at |-> "idle", op |-> "migrating",
                                old |-> FirstKey, new |-> FirstKey]]
    /\ app = [a \in Apps |-> [at |-> "off", key |-> FirstKey]]
    /\ cfg = FirstKey
    /\ tenure = [owner |-> "none", live |-> FALSE]
    /\ faults = 0

-----------------------------------------------------------------------------
(* The tenure, as RuntimeTenure describes it *)

Free == tenure.owner = "none" \/ (tenure.owner = "gone" /\ ~tenure.live)
Owned(p) == tenure.owner = p /\ tenure.live
Take(p) == tenure' = [owner |-> p, live |-> TRUE]
\* the end of a process: what it could not release stays behind without an owner
Orphan(p) ==
    tenure' = IF tenure.owner = p THEN [tenure EXCEPT !.owner = "gone"] ELSE tenure
GiveUp(p) ==
    IF Owned(p) THEN tenure' = [owner |-> "none", live |-> FALSE] ELSE Orphan(p)

-----------------------------------------------------------------------------
(* Scans *)

Allowed(t) == {t.old, t.new}
ScanAccepts(t) ==
    \A r \in Rows : rows[r] \in Allowed(t) \/ (t.op = "migrating" /\ rows[r] = "plain")

Pending(t) == {r \in Rows : rows[r] # t.new}

AllUnder(k) == \A r \in Rows : rows[r] = k

\* SensitiveEncryptionStateInspector.inspect and inspect_sensitive_envelopes
StartupOK(k) ==
    /\ st.state = "complete" /\ st.active = k
    /\ st.done = Cardinality(Rows)
    /\ AllUnder(k)

-----------------------------------------------------------------------------
(* The command: the state is read before the tenure is asked for *)

Goto(p, at) == tool' = [tool EXCEPT ![p].at = at]

Command(op, k) == [at |-> "acquire", op |-> op, old |-> cfg, new |-> k]

MigrateOnce(p) == \* Mutant: only a fresh database is accepted
    /\ tool[p].at \in Ended
    /\ tool' = [tool EXCEPT ![p] =
           [Command("migrating", cfg) EXCEPT !.at =
               IF st.state = "complete" THEN IF st.active = cfg THEN "check" ELSE "refused"
               ELSE IF st.state = "required" THEN "acquire" ELSE "refused"]]
    /\ UNCHANGED <<st, rows, app, cfg, tenure, faults>>

Migrate(p) ==
    /\ tool[p].at \in Ended
    /\ tool' = [tool EXCEPT ![p] =
           [Command("migrating", cfg) EXCEPT !.at =
               IF st.state = "complete" THEN IF st.active = cfg THEN "check" ELSE "refused"
               ELSE IF \/ st.state = "required"
                       \/ st.state = "migrating" /\ st.active = cfg
                    THEN "acquire" ELSE "refused"]]
    /\ UNCHANGED <<st, rows, app, cfg, tenure, faults>>

Rotate(p, k) ==
    /\ tool[p].at \in Ended
    /\ k # cfg
    /\ tool' = [tool EXCEPT ![p] =
           [Command("rotating", k) EXCEPT !.at =
               IF st.state \in {"complete", "rotating"} /\ st.active = cfg
               THEN "acquire" ELSE "refused"]]
    /\ UNCHANGED <<st, rows, app, cfg, tenure, faults>>

Verify(p) == \* the scan of verify, which is also a second run of migrate
    /\ tool[p].at = "check"
    /\ Goto(p, IF AllUnder(tool[p].new) THEN "noop" ELSE "refused")
    /\ UNCHANGED <<st, rows, app, cfg, tenure, faults>>

Acquire(p) ==
    /\ tool[p].at = "acquire"
    /\ IF Free THEN Take(p) /\ Goto(p, "backup")
       ELSE Goto(p, "refused") /\ UNCHANGED tenure
    /\ UNCHANGED <<st, rows, app, cfg, faults>>

Backup(p) ==
    /\ tool[p].at = "backup" /\ Owned(p)
    /\ Goto(p, "begin")
    /\ UNCHANGED <<st, rows, app, cfg, tenure, faults>>

-----------------------------------------------------------------------------
(* The batches *)

Begin(p) ==
    /\ tool[p].at = "begin" /\ Owned(p) /\ ScanAccepts(tool[p])
    /\ st.state # "failed"
    /\ st' = [state |-> tool[p].op, active |-> tool[p].old,
              done |-> Cardinality(Rows \ Pending(tool[p]))]
    /\ Goto(p, "scan")
    /\ UNCHANGED <<rows, app, cfg, tenure, faults>>

Progress(p) ==
    /\ tool[p].at = "scan" /\ Owned(p) /\ ScanAccepts(tool[p])
    /\ st.state = tool[p].op
    /\ st' = [st EXCEPT !.done = Cardinality(Rows \ Pending(tool[p]))]
    /\ Goto(p, IF Pending(tool[p]) = {} THEN "verify" ELSE "batch")
    /\ UNCHANGED <<rows, app, cfg, tenure, faults>>

Batches(t) == \* the first rows a scan found pending: as many as a batch holds
    {B \in SUBSET Pending(t) :
        Cardinality(B) = BatchRows \/ (B = Pending(t) /\ Cardinality(B) < BatchRows)}

RewriteUnasserted(p) == \* Mutant: the tenure is not asserted in the transaction
    /\ tool[p].at = "batch"
    /\ \E B \in Batches(tool[p]) :
           rows' = [r \in Rows |-> IF r \in B THEN tool[p].new ELSE rows[r]]
    /\ Goto(p, "scan")
    /\ UNCHANGED <<st, app, cfg, tenure, faults>>

RewriteBatch(p) ==
    /\ tool[p].at = "batch" /\ Owned(p)
    /\ \E B \in Batches(tool[p]) :
           rows' = [r \in Rows |-> IF r \in B THEN tool[p].new ELSE rows[r]]
    /\ Goto(p, "scan")
    /\ UNCHANGED <<st, app, cfg, tenure, faults>>

Complete(p) ==
    /\ tool[p].at = "verify" /\ Owned(p) /\ AllUnder(tool[p].new)
    /\ st.state = tool[p].op
    /\ st' = [state |-> "complete", active |-> tool[p].new, done |-> Cardinality(Rows)]
    /\ Goto(p, "release")
    /\ UNCHANGED <<rows, app, cfg, tenure, faults>>

-----------------------------------------------------------------------------
(* The end of a command *)

MarkFailed(p, k) == \* nothing is marked once the tenure is gone
    st' = IF Owned(p) THEN [st EXCEPT !.state = "failed", !.active = k] ELSE st

\* the renewal before the release, and the release itself
Release(p) ==
    /\ tool[p].at = "release" /\ Owned(p)
    /\ GiveUp(p)
    /\ Goto(p, "complete")
    /\ UNCHANGED <<st, rows, app, cfg, faults>>

ReleaseFails(p) == \* the row is still held: the state says so
    /\ tool[p].at = "release" /\ Owned(p) /\ faults < MaxFaults
    /\ MarkFailed(p, tool[p].new)
    /\ Goto(p, "refused") /\ Orphan(p)
    /\ faults' = faults + 1
    /\ UNCHANGED <<rows, app, cfg>>

\* what the code finds by itself: rows it must not read, a state it may not
\* change, a tenure that has run out
MustStop(p) ==
    \/ tool[p].at \in Working \cup {"release"} /\ ~Owned(p)
    \/ tool[p].at \in {"begin", "scan"} /\ ~ScanAccepts(tool[p])
    \/ tool[p].at = "begin" /\ st.state = "failed"

Abort(p) ==
    /\ MustStop(p)
    /\ MarkFailed(p, tool[p].old)
    /\ Goto(p, "failing")
    /\ UNCHANGED <<rows, app, cfg, tenure, faults>>

\* an error of the disk or of the backup; an interrupt from the keyboard, or an
\* error while marking, leaves the state as it was
Fault(p) ==
    /\ tool[p].at \in Working \cup {"release"} /\ faults < MaxFaults
    /\ MarkFailed(p, tool[p].old) \/ UNCHANGED st
    /\ Goto(p, "failing")
    /\ faults' = faults + 1
    /\ UNCHANGED <<rows, app, cfg, tenure>>

CloseFailed(p) ==
    /\ tool[p].at = "failing"
    /\ GiveUp(p)
    /\ Goto(p, "refused")
    /\ UNCHANGED <<st, rows, app, cfg, faults>>

-----------------------------------------------------------------------------
(* The application and the operator *)

Guard(a) == \* run_startup_guard, on the key the process has loaded
    /\ app[a].at = "off" /\ StartupOK(cfg)
    /\ app' = [app EXCEPT ![a] = [at |-> "guarded", key |-> cfg]]
    /\ UNCHANGED <<st, rows, tool, cfg, tenure, faults>>

Enter(a) == \* acquire_runtime_guard
    /\ app[a].at = "guarded"
    /\ IF Free THEN Take(a) /\ app' = [app EXCEPT ![a].at = "held"]
       ELSE app' = [app EXCEPT ![a].at = "off"] /\ UNCHANGED tenure
    /\ UNCHANGED <<st, rows, tool, cfg, faults>>

ConfirmState(a) == \* Mutant: the key checked before the tenure is believed
    /\ app[a].at = "held" /\ Owned(a)
    /\ IF st.state = "complete"
       THEN app' = [app EXCEPT ![a].at = "running"] /\ UNCHANGED tenure
       ELSE app' = [app EXCEPT ![a].at = "off"] /\ GiveUp(a)
    /\ UNCHANGED <<st, rows, tool, cfg, faults>>

Confirm(a) == \* _finish_container inspects again, now under the tenure
    /\ app[a].at = "held" /\ Owned(a)
    /\ IF StartupOK(app[a].key)
       THEN app' = [app EXCEPT ![a].at = "running"] /\ UNCHANGED tenure
       ELSE app' = [app EXCEPT ![a].at = "off"] /\ GiveUp(a)
    /\ UNCHANGED <<st, rows, tool, cfg, faults>>

Write(a, r) == \* SensitiveFieldStore.write seals with the key the process loaded
    /\ app[a].at = "running" /\ Owned(a)
    /\ rows' = [rows EXCEPT ![r] = app[a].key]
    /\ UNCHANGED <<st, tool, app, cfg, tenure, faults>>

Leave(a) ==
    /\ app[a].at \in {"held", "running"}
    /\ GiveUp(a)
    /\ app' = [app EXCEPT ![a].at = "off"]
    /\ UNCHANGED <<st, rows, tool, cfg, faults>>

Configure == \* the operator makes the key the database names the active one
    /\ cfg # st.active
    /\ cfg' = st.active
    /\ UNCHANGED <<st, rows, tool, app, tenure, faults>>

KillTool(p) ==
    /\ tool[p].at \notin Ended /\ faults < MaxFaults
    /\ Goto(p, "idle") /\ Orphan(p)
    /\ faults' = faults + 1
    /\ UNCHANGED <<st, rows, app, cfg>>

KillApp(a) ==
    /\ app[a].at # "off" /\ faults < MaxFaults
    /\ app' = [app EXCEPT ![a].at = "off"] /\ Orphan(a)
    /\ faults' = faults + 1
    /\ UNCHANGED <<st, rows, tool, cfg>>

Lapse == \* nobody is left to renew the tenure
    /\ tenure.owner = "gone" /\ tenure.live
    /\ tenure' = [tenure EXCEPT !.live = FALSE]
    /\ UNCHANGED <<st, rows, tool, app, cfg, faults>>

Stall(p) == \* a process is held up until its tenure has run out
    /\ Owned(p) /\ faults < MaxFaults
    /\ tenure' = [tenure EXCEPT !.live = FALSE]
    /\ faults' = faults + 1
    /\ UNCHANGED <<st, rows, tool, app, cfg>>

-----------------------------------------------------------------------------

ToolStep(p) ==
    \/ Verify(p) \/ Acquire(p) \/ Backup(p) \/ Begin(p) \/ Progress(p)
    \/ RewriteBatch(p) \/ Complete(p) \/ Release(p) \/ Abort(p) \/ CloseFailed(p)

AppStart(a) == Enter(a) \/ Confirm(a)

Next ==
    \/ \E p \in Tools : ToolStep(p) \/ Migrate(p) \/ ReleaseFails(p) \/ Fault(p) \/ KillTool(p)
    \/ \E p \in Tools, k \in Keys : Rotate(p, k)
    \/ \E a \in Apps : Guard(a) \/ AppStart(a) \/ Leave(a) \/ KillApp(a)
    \/ \E a \in Apps, r \in Rows : Write(a, r)
    \/ \E p \in Procs : Stall(p)
    \/ Configure \/ Lapse

Spec == Init /\ [][Next]_vars

\* The operator runs an interrupted command again, with the key it was given.
Resume(p) ==
    \/ st.state \in {"required", "migrating"} /\ Migrate(p)
    \/ st.state = "rotating" /\ \E k \in Keys :
           (\A r \in Rows : rows[r] \in {st.active, k}) /\ Rotate(p, k)

Fairness ==
    /\ \A p \in Tools : WF_vars(ToolStep(p)) /\ SF_vars(Resume(p))
    /\ \A a \in Apps : WF_vars(AppStart(a)) /\ WF_vars(Leave(a))
    /\ WF_vars(Configure) /\ WF_vars(Lapse)

-----------------------------------------------------------------------------
(* Properties *)

\* A state of "complete" is true: every row is sealed with the key it names,
\* whatever overlapping commands and starting applications had read before.
CompleteIsTrue == st.state = "complete" => AllUnder(st.active)

\* The rows are never in more than two forms, so one pair of keys always
\* suffices to read them and one command to resume; while an operation is
\* under way the named key is one of the forms and the other is its partner.
TwoForms ==
    /\ Cardinality({rows[r] : r \in Rows} \cup {st.active}) <= 2 \/ st.state = "failed"
    /\ Cardinality({rows[r] : r \in Rows}) <= 2
    /\ st.state = "migrating" => \A r \in Rows : rows[r] \in {"plain", st.active}
    /\ st.state = "rotating" => \A r \in Rows : rows[r] # "plain"

\* The progress on record never counts a row that is not yet rewritten.
ProgressIsHonest ==
    /\ st.state = "migrating" => st.done <= Cardinality({r \in Rows : rows[r] = st.active})
    /\ st.state = "rotating" => st.done <= Cardinality({r \in Rows : rows[r] # st.active})

\* Stored values change only in the hands of a process whose tenure is good,
\* and no step turns a sealed value back into plaintext.
RowsGuardedStep ==
    rows' # rows => /\ \E p \in Procs : Owned(p)
                    /\ \A r \in Rows : rows[r] # "plain" => rows'[r] # "plain"

\* An interrupted migration or rotation, resumed with the same command, comes
\* to an end: the database does not stay half rewritten.
InterruptedEnds == []<>(st.state \in {"complete", "failed"})
=================================================================================
