----------------------------- MODULE RuntimeTenure -----------------------------
(***************************************************************************)
(* Tenure of the processes (ops/tenure.py): at most one process per        *)
(* runtime role, and maintenance only when no runtime role is held.        *)
(* A tenure is a row that expires unless it is renewed; a successor may    *)
(* reclaim it only when it has expired and its process is proven gone.     *)
(* The process itself knows only its own latch: it may go on believing     *)
(* in a tenure that has expired, until a renewal or a commit tells it.     *)
(* Closing the guard takes the fence off the engine, and a thread that is  *)
(* still at work then commits unasked.                                     *)
(***************************************************************************)
EXTENDS Integers

CONSTANTS Procs, RoleOf, \* processes that may start, each once, and their roles
          Ttl              \* how long a tenure lasts without renewal

Roles == {"app", "daemon", "maintenance"}
RuntimeRoles == Roles \ {"maintenance"}

TenureAssumption ==
    /\ RoleOf \in [Procs -> Roles] /\ "none" \notin Procs
    /\ Ttl \in Nat \ {0}

VARIABLES row,      \* runtime_tenures: one row per role; left = time to its expiry
          proc,     \* the processes and their guards
          txn,      \* who has a write transaction open, or "none"
          seen,     \* the time left of its tenure, as that transaction sees it
          dirty     \* maintenance began and was not released by its owner

vars == <<row, proc, txn, seen, dirty>>

Idle == "none"
NoRow == [state |-> "none", owner |-> Idle, gen |-> 0, left |-> 0]

TypeOK ==
    /\ row \in [Roles -> [state : {"none", "held", "released", "fenced"},
                          owner : Procs \cup {Idle}, gen : Nat, left : 0 .. Ttl]]
    /\ \A x \in Roles : row[x].state = "none" <=> row[x].gen = 0
    /\ proc \in [Procs -> [at : {"new", "on", "closing", "kept", "released", "dead"},
                           lost : BOOLEAN, gen : Nat,
                           close : {"not_attempted", "confirmed", "uncertain"}]]
    /\ txn \in Procs \cup {Idle} /\ seen \in 0 .. Ttl
    /\ dirty \in BOOLEAN

Init ==
    /\ row = [x \in Roles |-> NoRow]
    /\ proc = [p \in Procs |-> [at |-> "new", lost |-> FALSE, gen |-> 0,
                                close |-> "not_attempted"]]
    /\ txn = Idle /\ seen = 0
    /\ dirty = FALSE

-----------------------------------------------------------------------------
(* Reclaiming *)

Alive(p) == proc[p].at \in {"on", "closing", "kept", "released"}

ReclaimExpired(x) == \* Mutant: expiry alone is proof enough
    row[x].state \in {"none", "released", "fenced"} \/ row[x].left = 0
Reclaimable(x) ==
    \/ row[x].state \in {"none", "released", "fenced"}
    \/ row[x].state = "held" /\ row[x].left = 0 /\ ~Alive(row[x].owner)

(* A runtime role does not clear away a maintenance owner that died. *)
RuntimeMayStart(x) ==
    row["maintenance"].state # "held" /\ Reclaimable("maintenance") /\ Reclaimable(x)
MaintenanceMayStart == \A x \in Roles : Reclaimable(x)

Held(p) == [state |-> "held", owner |-> p, gen |-> row[RoleOf[p]].gen + 1,
            left |-> Ttl]
Fenced(x) ==
    IF row[x].state = "held"
    THEN [row[x] EXCEPT !.state = "fenced", !.gen = @ + 1, !.left = 0]
    ELSE row[x]

(* A store or an inspector that fails makes _acquire fail, which changes nothing. *)
AcquireRuntime(p) ==
    LET x == RoleOf[p] IN
    /\ proc[p].at = "new" /\ txn = Idle
    /\ x \in RuntimeRoles /\ RuntimeMayStart(x)
    /\ row' = [row EXCEPT ![x] = Held(p)]
    /\ proc' = [proc EXCEPT ![p].at = "on", ![p].gen = Held(p).gen]
    /\ UNCHANGED <<txn, seen, dirty>>

AcquireMaintenance(p) ==
    LET x == RoleOf[p] IN
    /\ proc[p].at = "new" /\ txn = Idle
    /\ x = "maintenance" /\ MaintenanceMayStart
    /\ row' = [y \in Roles |-> IF y = x THEN Held(p) ELSE Fenced(y)]
    /\ proc' = [proc EXCEPT ![p].at = "on", ![p].gen = Held(p).gen]
    /\ dirty' = TRUE
    /\ UNCHANGED <<txn, seen>>

-----------------------------------------------------------------------------
(* The guard of a process *)

EnsureOwned(p) == proc[p].at = "on" /\ ~proc[p].lost
ExactRow(p) ==
    row[RoleOf[p]].state = "held" /\ row[RoleOf[p]].owner = p /\ row[RoleOf[p]].gen = proc[p].gen
Owned(p) == ExactRow(p) /\ row[RoleOf[p]].left > 0
Renewed(p) == [row EXCEPT ![RoleOf[p]].left = Ttl]
MarkLost(p) == proc' = [proc EXCEPT ![p].lost = TRUE]

Renew(p) ==
    /\ EnsureOwned(p) /\ txn = Idle /\ Owned(p)
    /\ row' = Renewed(p)
    /\ UNCHANGED <<proc, txn, seen, dirty>>

(* The row is lost, or the store failed, before or after it had the renewal; while somebody
   writes, the wait for the database may run out. *)
RenewFails(p) ==
    /\ EnsureOwned(p)
    /\ MarkLost(p)
    /\ row' \in {row} \cup {Renewed(q) : q \in {o \in {p} : Owned(o) /\ txn = Idle}}
    /\ UNCHANGED <<txn, seen, dirty>>

(* The guard is closed and its callback has removed the listeners from the engine: nothing asks
   what a thread that is still at work begins and commits. *)
Unfenced(p) == proc[p].at \in {"kept", "released"}

(* A write transaction: the latch at its beginning, the row at its end. What it renews is seen
   by others when it commits. *)
Begin(p) ==
    /\ EnsureOwned(p) \/ Unfenced(p)
    /\ txn = Idle
    /\ txn' = p /\ seen' = row[RoleOf[p]].left
    /\ UNCHANGED <<row, proc, dirty>>

OwnedInTransaction(p) == ExactRow(p) /\ seen > 0

RenewInTransaction(p) ==
    /\ txn = p /\ EnsureOwned(p) /\ OwnedInTransaction(p)
    /\ seen' = Ttl
    /\ UNCHANGED <<row, proc, txn, dirty>>

Commit(p) ==
    /\ txn = p
    /\ Unfenced(p) \/ (EnsureOwned(p) /\ OwnedInTransaction(p))
    /\ row' = [row EXCEPT ![RoleOf[p]].left = seen]
    /\ txn' = Idle /\ seen' = 0
    /\ UNCHANGED <<proc, dirty>>

(* The latch is set, the guard is being closed, the row is lost, or it could not be read. *)
CommitRefused(p) ==
    /\ txn = p /\ ~Unfenced(p)
    /\ txn' = Idle /\ seen' = 0
    /\ proc' = [proc EXCEPT ![p].lost = @ \/ EnsureOwned(p)]
    /\ UNCHANGED <<row, dirty>>

Rollback(p) ==
    /\ txn = p
    /\ txn' = Idle /\ seen' = 0
    /\ UNCHANGED <<row, proc, dirty>>

(* A broker mutation asks the latch and nothing else. *)
BrokerMutation(p) ==
    /\ EnsureOwned(p)
    /\ UNCHANGED vars

-----------------------------------------------------------------------------
(* The end of a process *)

ReleasedRow(p) ==
    [row EXCEPT ![RoleOf[p]].state = "released", ![RoleOf[p]].gen = @ + 1,
                ![RoleOf[p]].left = 0]

Confirmed(p, after) ==
    LET r == after[RoleOf[p]] IN
    r.state = "released" /\ r.owner = p /\ r.gen = proc[p].gen + 1

(* close: from here on the latch refuses, although a transaction may be open. *)
Close(p) ==
    /\ proc[p].at = "on"
    /\ proc' = [proc EXCEPT ![p].at = "closing"]
    /\ UNCHANGED <<row, txn, seen, dirty>>

(* The release is refused without the row, fails while somebody writes, and may fail after it
   was committed, which the row then confirms if it can be read. Then the fence comes off,
   whatever became of the release; an error there makes the result uncertain. *)
Release(p) ==
    /\ proc[p].at = "closing"
    /\ \E done, told \in BOOLEAN :
           LET released == ~proc[p].lost /\ Owned(p) /\ txn = Idle /\ done
               after == IF released THEN ReleasedRow(p) ELSE row
               sure == ~proc[p].lost /\ told /\ Confirmed(p, after)
           IN  /\ row' = after
               /\ dirty' = (dirty /\ ~(released /\ RoleOf[p] = "maintenance"))
               /\ proc' = [proc EXCEPT ![p].at = IF released THEN "released" ELSE "kept",
                               ![p].lost = ~sure,
                               ![p].close = IF sure THEN "confirmed" ELSE "uncertain"]
    /\ UNCHANGED <<txn, seen>>

Die(p) ==
    /\ Alive(p)
    /\ proc' = [proc EXCEPT ![p].at = "dead"]
    /\ txn' = IF txn = p THEN Idle ELSE txn
    /\ seen' = IF txn = p THEN 0 ELSE seen
    /\ UNCHANGED <<row, dirty>>

Less(n) == IF n = 0 THEN 0 ELSE n - 1

Tick ==
    /\ row' = [x \in Roles |-> [row[x] EXCEPT !.left = Less(@)]]
    /\ seen' = Less(seen)
    /\ UNCHANGED <<proc, txn, dirty>>

Start(p) == AcquireRuntime(p) \/ AcquireMaintenance(p)

Next ==
    \/ \E p \in Procs :
           \/ Start(p) \/ Renew(p) \/ RenewFails(p) \/ Begin(p) \/ RenewInTransaction(p)
           \/ Commit(p) \/ CommitRefused(p) \/ Rollback(p) \/ BrokerMutation(p)
           \/ Close(p) \/ Release(p) \/ Die(p)
    \/ Tick

Spec == Init /\ [][Next]_vars

(* A transaction ends, time passes, a process that may start is started, and one that has closed
   its guard ends when its threads have. *)
Fairness ==
    /\ WF_vars(Tick)
    /\ \A p \in Procs :
           /\ WF_vars(Start(p)) /\ WF_vars(Unfenced(p) /\ Die(p))
           /\ WF_vars(Commit(p) \/ CommitRefused(p) \/ Rollback(p))

-----------------------------------------------------------------------------
(* Properties *)

(* A process that lives and has not given its tenure back, whatever its latch says and however
   far its guard is closed. Every process that may commit is one of these, or has given it back. *)
Tenant(p) == Alive(p) /\ proc[p].at # "released"

(* It still has its row, expired or not: nobody reclaims a tenure from a live process, so a
   commit that the latch let through late, or that came after a close without a release, is made
   by the owner of the row. *)
TenantHasRow == \A p \in Procs : Tenant(p) => ExactRow(p)

(* Two such processes have different roles, and neither is maintenance. *)
Exclusive ==
    \A p, q \in Procs : p # q /\ Tenant(p) /\ Tenant(q) =>
        RoleOf[p] # RoleOf[q] /\ "maintenance" \notin {RoleOf[p], RoleOf[q]}

(* No runtime process is in tenure after a maintenance that its owner never finished: only a new
   maintenance owner may reclaim what a dead one left ("runtime startup must not turn lease
   expiry into proof of completion"). *)
MaintenanceIsFinished ==
    \A p \in Procs : Tenant(p) /\ RoleOf[p] \in RuntimeRoles => ~dirty

(* What a tenure is for: whoever may commit and has not given its tenure back owns a row of the
   table, nobody it excludes is in tenure with it, and runtimes keep off a database that
   maintenance left half done. Of a process that has given its tenure back and lives on it says
   nothing: what a thread of it still commits is unfenced, beside a successor. *)
TenureHolds == TenantHasRow /\ Exclusive /\ MaintenanceIsFinished

(* The successor of a process that died gets its tenure in the end, unless maintenance comes
   first. *)
SuccessorStarts ==
    \A p \in Procs : RoleOf[p] \in RuntimeRoles =>
        ((\E q \in Procs : RoleOf[q] = RoleOf[p] /\ proc[q].at = "dead")
           ~> (proc[p].at # "new" \/ dirty \/ \E q \in Procs : RoleOf[q] = RoleOf[p] /\ Alive(q)))
=============================================================================
