---------------------------- MODULE ProcessProofs ----------------------------
(***************************************************************************)
(* The processes of an installation, for any number of them: runtime       *)
(* tenure (RuntimeTenure), the start and stop of the application           *)
(* (AppControl) and the supervision of the daemon (DaemonSupervision).     *)
(* They share no state: each is proved over constants and variables of its *)
(* own, the last two as instances.                                         *)
(***************************************************************************)
EXTENDS RuntimeTenure, TLAPS

-----------------------------------------------------------------------------
(* Tenure *)

RowStates == {"none", "held", "released", "fenced"}
RowType == [state : RowStates,
            owner : Procs \cup {Idle}, gen : Nat, left : 0 .. Ttl]
Places == {"new", "on", "closing", "kept", "released", "dead"}
ProcType == [at : Places, lost : BOOLEAN, gen : Nat,
             close : {"not_attempted", "confirmed", "uncertain"}]

Shape ==
    /\ row \in [Roles -> RowType]
    /\ proc \in [Procs -> ProcType]
    /\ txn \in Procs \cup {Idle}
    /\ seen \in 0 .. Ttl
    /\ dirty \in BOOLEAN

(* Maintenance that was not finished by its owner is there to be seen in   *)
(* its row.                                                                *)
UnfinishedIsHeld == dirty => row["maintenance"].state = "held"

IInv == Shape /\ TenantHasRow /\ Exclusive /\ MaintenanceIsFinished /\ UnfinishedIsHeld

(* What the writes of a row and of a guard leave of their types. *)
LEMMA RowWrite ==
    ASSUME NEW r \in RowType, NEW s \in RowStates, NEW g \in Nat, NEW l \in 0 .. Ttl
    PROVE  [r EXCEPT !.state = s, !.gen = g, !.left = l] \in RowType
  BY DEF RowType

(* A write of a process's three fields keeps its type. *)
LEMMA ProcWrite ==
    ASSUME NEW r \in ProcType, NEW a \in Places, NEW b \in BOOLEAN,
           NEW c \in {"not_attempted", "confirmed", "uncertain"}
    PROVE  [r EXCEPT !.at = a, !.lost = b, !.close = c] \in ProcType
  BY DEF ProcType

(* A role that may be reclaimed has no process in tenure. *)
LEMMA ReclaimedFromNobody ==
    ASSUME TenureAssumption, IInv, NEW p \in Procs, Tenant(p)
    PROVE  ~Reclaimable(RoleOf[p])
  BY DEF TenureAssumption, IInv, TenantHasRow, ExactRow, Reclaimable, Alive, Tenant

(* IInv holds before any process has started. *)
LEMMA InitIInv == ASSUME TenureAssumption, Init PROVE IInv
<1>1. Shape
  <2>1. NoRow \in RowType
    BY DEF TenureAssumption, NoRow, RowType, RowStates, Idle
  <2>2. row \in [Roles -> RowType]
    BY <2>1 DEF Init
  <2>3. proc \in [Procs -> ProcType]
    BY DEF Init, ProcType, Places
  <2>4. txn \in Procs \cup {Idle} /\ seen \in 0 .. Ttl
    BY DEF Init, TenureAssumption
  <2>5. dirty \in BOOLEAN
    BY Zenon DEF Init
  <2> QED
    BY <2>2, <2>3, <2>4, <2>5 DEF Shape
<1>2. \A p \in Procs : ~Tenant(p)
  BY DEF Init, Tenant, Alive
<1>3. ~dirty
  BY DEF Init
<1> QED
  BY <1>1, <1>2, <1>3
     DEF IInv, TenantHasRow, Exclusive, MaintenanceIsFinished, UnfinishedIsHeld

(* A step that starts no process, and leaves state, owner and generation   *)
(* of the rows of those in tenure, keeps IInv.                             *)
LEMMA QuietStep ==
    ASSUME IInv, Shape',
           \A p \in Procs : Tenant(p)' => /\ Tenant(p)
                                               /\ proc'[p].gen = proc[p].gen
                                               /\ row'[RoleOf[p]].state = row[RoleOf[p]].state
                                               /\ row'[RoleOf[p]].owner = row[RoleOf[p]].owner
                                               /\ row'[RoleOf[p]].gen = row[RoleOf[p]].gen,
           dirty' => dirty /\ row'["maintenance"].state = row["maintenance"].state
    PROVE  IInv'
<1>1. TenantHasRow'
  BY DEF IInv, TenantHasRow, ExactRow
<1>2. Exclusive'
  BY DEF IInv, Exclusive
<1>3. MaintenanceIsFinished'
  BY DEF IInv, MaintenanceIsFinished
<1>4. UnfinishedIsHeld'
  BY DEF IInv, UnfinishedIsHeld
<1> QED
  BY <1>1, <1>2, <1>3, <1>4 DEF IInv

(* A process that starts finds nobody who must not act beside it. *)
LEMMA StartStep ==
    ASSUME TenureAssumption, IInv, NEW p \in Procs, Start(p)
    PROVE  IInv'
<1> DEFINE x == RoleOf[p]
<1>0. /\ x \in Roles /\ Held(p) \in RowType /\ Held(p).gen \in Nat
      /\ Held(p).state = "held" /\ Held(p).owner = p
      /\ proc[p] \in ProcType
  BY DEF TenureAssumption, IInv, Shape, Held, RowType, RowStates, Idle
<1>1. /\ \A q \in Procs : Tenant(q)' => q = p \/ Tenant(q)
      /\ proc'[p].gen = Held(p).gen
      /\ \A q \in Procs : q # p => proc'[q] = proc[q]
      /\ proc' \in [Procs -> ProcType]
      /\ txn' = txn /\ seen' = seen
  BY <1>0 DEF Start, AcquireRuntime, AcquireMaintenance, Tenant, Alive, IInv, Shape, ProcType, Places
<1>2. CASE AcquireRuntime(p)
  <2>1. /\ row' = [row EXCEPT ![x] = Held(p)] /\ dirty' = dirty
        /\ x \in RuntimeRoles /\ x # "maintenance"
        /\ row["maintenance"].state # "held" /\ Reclaimable(x)
    BY <1>2 DEF AcquireRuntime, RuntimeMayStart, RuntimeRoles
  <2>2. Shape'
    BY <1>0, <1>1, <2>1 DEF IInv, Shape
  <2>3. \A q \in Procs : Tenant(q) =>
            /\ RoleOf[q] \notin {x, "maintenance"}
            /\ row'[RoleOf[q]] = row[RoleOf[q]]
    BY <2>1, ReclaimedFromNobody
       DEF IInv, Shape, TenantHasRow, ExactRow, TenureAssumption
  <2>4. ~dirty
    BY <2>1 DEF IInv, UnfinishedIsHeld
  <2>5. row'[x] = Held(p)
    BY <1>0, <2>1 DEF IInv, Shape
  <2>6. TenantHasRow'
    BY <1>0, <1>1, <2>3, <2>5 DEF IInv, TenantHasRow, ExactRow
  <2>7. Exclusive'
    BY <1>1, <2>1, <2>3 DEF IInv, Exclusive
  <2> QED
    BY <2>1, <2>2, <2>4, <2>6, <2>7 DEF IInv, MaintenanceIsFinished, UnfinishedIsHeld
<1>3. CASE AcquireMaintenance(p)
  <2>1. /\ row' = [y \in Roles |-> IF y = x THEN Held(p) ELSE Fenced(y)]
        /\ dirty' = TRUE /\ x = "maintenance"
        /\ \A y \in Roles : Reclaimable(y)
    BY <1>3 DEF AcquireMaintenance, MaintenanceMayStart
  <2>2. \A y \in Roles : Fenced(y) \in RowType
    <3> TAKE y \in Roles
    <3>1. row[y] \in RowType /\ 0 \in 0 .. Ttl
      BY DEF IInv, Shape, TenureAssumption
    <3>2. row[y].gen + 1 \in Nat /\ "fenced" \in RowStates
      BY <3>1 DEF RowType, RowStates
    <3> QED
      BY <3>1, <3>2, RowWrite DEF Fenced
  <2>3. Shape'
    BY <1>0, <1>1, <2>1, <2>2 DEF IInv, Shape
  <2>4. \A q \in Procs : Tenant(q)' => q = p
    BY <1>1, <2>1, ReclaimedFromNobody DEF TenureAssumption
  <2>5. row'[x] = Held(p)
    BY <1>0, <2>1
  <2>6. TenantHasRow'
    BY <1>0, <1>1, <2>4, <2>5 DEF TenantHasRow, ExactRow
  <2>7. Exclusive' /\ MaintenanceIsFinished' /\ UnfinishedIsHeld'
    BY <1>0, <2>1, <2>4, <2>5
       DEF Exclusive, MaintenanceIsFinished, UnfinishedIsHeld, RuntimeRoles
  <2> QED
    BY <2>3, <2>6, <2>7 DEF IInv
<1> QED
  BY <1>2, <1>3 DEF Start

(* Renewals, transactions and their ends keep IInv. *)
LEMMA GuardStep ==
    ASSUME TenureAssumption, IInv, NEW p \in Procs,
           \/ Renew(p) \/ RenewFails(p) \/ Begin(p) \/ RenewInTransaction(p)
           \/ Commit(p) \/ CommitRefused(p) \/ Rollback(p) \/ BrokerMutation(p)
    PROVE  IInv'
<1>0. /\ RoleOf[p] \in Roles /\ Ttl \in 0 .. Ttl /\ 0 \in 0 .. Ttl
      /\ row \in [Roles -> RowType] /\ proc \in [Procs -> ProcType]
      /\ seen \in 0 .. Ttl
  BY DEF TenureAssumption, IInv, Shape
<1>1. PICK n \in 0 .. Ttl : row' \in {row, [row EXCEPT ![RoleOf[p]].left = n]}
  <2>1. CASE Renew(p) \/ RenewFails(p)
    <3>1. row' \in {row, [row EXCEPT ![RoleOf[p]].left = Ttl]}
      BY <2>1, Zenon DEF Renew, RenewFails, Renewed
    <3> QED
      BY <1>0, <3>1
  <2>2. CASE Commit(p)
    BY <1>0, <2>2 DEF Commit
  <2>3. CASE \/ Begin(p) \/ RenewInTransaction(p) \/ CommitRefused(p)
             \/ Rollback(p) \/ BrokerMutation(p)
    BY <1>0, <2>3 DEF Begin, RenewInTransaction, CommitRefused, Rollback, BrokerMutation, vars
  <2> QED
    BY <2>1, <2>2, <2>3
<1>2. /\ row' \in [Roles -> RowType]
      /\ \A y \in Roles : /\ row'[y].state = row[y].state /\ row'[y].owner = row[y].owner
                          /\ row'[y].gen = row[y].gen
  BY <1>0, <1>1 DEF RowType
<1>3. proc' \in {proc, [proc EXCEPT ![p].lost = TRUE]}
  <2>1. CASE CommitRefused(p)
    <3>1. CASE EnsureOwned(p)
      BY <2>1, <3>1, Zenon DEF CommitRefused
    <3>2. CASE ~EnsureOwned(p)
      <4>1. (proc[p].lost \/ EnsureOwned(p)) = proc[p].lost
        BY <1>0, <3>2 DEF ProcType
      <4>2. proc' = [proc EXCEPT ![p].lost = proc[p].lost]
        BY <2>1, <4>1 DEF CommitRefused
      <4>3. proc[p] \in ProcType
        BY <1>0
      <4>4. [proc[p] EXCEPT !.lost = proc[p].lost] = proc[p]
        BY <4>3 DEF ProcType
      <4> QED
        BY <1>0, <4>2, <4>4
    <3> QED
      BY <3>1, <3>2
  <2>2. CASE ~CommitRefused(p)
    BY <2>2 DEF Renew, RenewFails, Begin, RenewInTransaction, Commit,
                Rollback, BrokerMutation, MarkLost, vars
  <2> QED
    BY <2>1, <2>2
<1>4. /\ proc' \in [Procs -> ProcType]
      /\ \A q \in Procs : /\ proc'[q].gen = proc[q].gen /\ proc'[q].at = proc[q].at
                          /\ proc[q].lost => proc'[q].lost
  <2>1. proc[p] \in ProcType
    BY <1>0
  <2>2. /\ [proc[p] EXCEPT !.lost = TRUE] \in ProcType
        /\ [proc[p] EXCEPT !.lost = TRUE].gen = proc[p].gen
        /\ [proc[p] EXCEPT !.lost = TRUE].at = proc[p].at
    BY <2>1 DEF ProcType
  <2>3. [proc[p] EXCEPT !.lost = TRUE].lost
    BY <2>1, Zenon DEF ProcType
  <2>4. CASE proc' = proc
    BY <1>0, <2>4
  <2>5. CASE proc' = [proc EXCEPT ![p] = [proc[p] EXCEPT !.lost = TRUE]]
    <3>1. /\ proc' \in [Procs -> ProcType]
          /\ proc'[p] = [proc[p] EXCEPT !.lost = TRUE]
          /\ \A q \in Procs : q # p => proc'[q] = proc[q]
      BY <1>0, <2>2, <2>5, Zenon
    <3> QED
      BY <2>2, <2>3, <3>1, Zenon
  <2> QED
    BY <1>3, <2>4, <2>5
<1>5. txn' \in Procs \cup {Idle} /\ seen' \in 0 .. Ttl /\ dirty' = dirty
  BY <1>0 DEF Renew, RenewFails, Begin, RenewInTransaction, Commit, CommitRefused,
              Rollback, BrokerMutation, vars, IInv, Shape, RowType
<1>6. Shape'
  BY <1>2, <1>4, <1>5 DEF IInv, Shape
<1> QED
  BY <1>2, <1>4, <1>5, <1>6, QuietStep DEF Tenant, Alive, TenureAssumption, Roles

(* The end of a close releases the row of its own process only, and takes  *)
(* the fence off a process that keeps its row, or one that has none.       *)
LEMMA ReleaseStep ==
    ASSUME TenureAssumption, IInv, NEW p \in Procs, Release(p)
    PROVE  IInv'
<1> DEFINE x == RoleOf[p]
<1>0. /\ x \in Roles /\ row \in [Roles -> RowType] /\ proc \in [Procs -> ProcType]
      /\ dirty \in BOOLEAN /\ proc[p] \in ProcType
      /\ proc[p].at = "closing" /\ Tenant(p) /\ ExactRow(p)
  BY DEF TenureAssumption, IInv, Shape, Release, TenantHasRow, Tenant, Alive
<1>1. PICK done, told \in BOOLEAN :
        LET released == ~proc[p].lost /\ Owned(p) /\ txn = Idle /\ done
            after == IF released THEN ReleasedRow(p) ELSE row
            sure == ~proc[p].lost /\ told /\ Confirmed(p, after)
        IN  /\ row' = after
            /\ dirty' = (dirty /\ ~(released /\ x = "maintenance"))
            /\ proc' = [proc EXCEPT ![p].at = IF released THEN "released" ELSE "kept",
                            ![p].lost = ~sure,
                            ![p].close = IF sure THEN "confirmed" ELSE "uncertain"]
  BY Zenon DEF Release
<1> DEFINE released == ~proc[p].lost /\ Owned(p) /\ txn = Idle /\ done
           sure == ~proc[p].lost /\ told
                     /\ Confirmed(p, IF released THEN ReleasedRow(p) ELSE row)
<1>2. /\ row' = IF released THEN ReleasedRow(p) ELSE row
      /\ dirty' = (dirty /\ ~(released /\ x = "maintenance"))
      /\ proc' = [proc EXCEPT ![p].at = IF released THEN "released" ELSE "kept",
                      ![p].lost = ~sure,
                      ![p].close = IF sure THEN "confirmed" ELSE "uncertain"]
  BY <1>1, Zenon
<1> HIDE DEF released, sure
<1>3. PICK place \in {"released", "kept"}, lost \in BOOLEAN, how \in {"confirmed", "uncertain"} :
          /\ proc' = [proc EXCEPT ![p].at = place, ![p].lost = lost, ![p].close = how]
          /\ released <=> place = "released"
  <2> DEFINE place == IF released THEN "released" ELSE "kept"
             how == IF sure THEN "confirmed" ELSE "uncertain"
  <2>1. /\ place \in {"released", "kept"} /\ how \in {"confirmed", "uncertain"}
        /\ (~sure) \in BOOLEAN /\ released <=> place = "released"
    OBVIOUS
  <2>2. proc' = [proc EXCEPT ![p].at = place, ![p].lost = ~sure, ![p].close = how]
    BY <1>2
  <2> HIDE DEF place, how
  <2> QED
    BY <2>1, <2>2, Zenon
<1> DEFINE r == [proc[p] EXCEPT !.at = place, !.lost = lost, !.close = how]
<1>4. r \in ProcType /\ r.at = place /\ r.gen = proc[p].gen
  <2>1. place \in Places /\ how \in {"not_attempted", "confirmed", "uncertain"}
    BY DEF Places
  <2>2. r \in ProcType
    BY <1>0, <2>1, ProcWrite
  <2>3. r.at = place /\ r.gen = proc[p].gen
    BY <1>0 DEF ProcType
  <2> QED
    BY <2>2, <2>3
<1>5. proc' = [proc EXCEPT ![p] = r]
  BY <1>0, <1>3, Zenon
<1> HIDE DEF r
<1>6. /\ proc' \in [Procs -> ProcType] /\ proc'[p] = r
      /\ \A q \in Procs : q # p => proc'[q] = proc[q]
  BY <1>0, <1>4, <1>5
<1>7. ReleasedRow(p) \in [Roles -> RowType]
  <2>1. row[x] \in RowType /\ 0 \in 0 .. Ttl
    BY <1>0 DEF TenureAssumption
  <2>2. row[x].gen + 1 \in Nat /\ "released" \in RowStates
    BY <2>1 DEF RowType, RowStates
  <2>3. [row[x] EXCEPT !.state = "released", !.gen = @ + 1, !.left = 0] \in RowType
    BY <2>1, <2>2, RowWrite
  <2> QED
    BY <1>0, <2>3 DEF ReleasedRow
<1>8. \A y \in Roles : y # x => ReleasedRow(p)[y] = row[y]
  BY <1>0 DEF ReleasedRow
<1>9. Shape'
  <2>1. txn' = txn /\ seen' = seen
    BY DEF Release
  <2>2. row' \in [Roles -> RowType] /\ dirty' \in BOOLEAN
    BY <1>0, <1>2, <1>7
  <2> QED
    BY <1>6, <2>1, <2>2 DEF IInv, Shape
<1>10. ASSUME NEW q \in Procs, Tenant(q)'
       PROVE  Tenant(q) /\ proc'[q].gen = proc[q].gen /\ row'[RoleOf[q]] = row[RoleOf[q]]
  <2>1. CASE q = p
    BY <1>0, <1>2, <1>3, <1>4, <1>6, <1>10, <2>1 DEF Tenant
  <2>2. CASE q # p
    <3>1. Tenant(q) /\ proc'[q] = proc[q]
      BY <1>6, <1>10, <2>2 DEF Tenant, Alive
    <3>2. RoleOf[q] # x
      BY <1>0, <2>2, <3>1 DEF IInv, Exclusive
    <3> QED
      BY <1>2, <1>8, <3>1, <3>2 DEF TenureAssumption
  <2> QED
    BY <2>1, <2>2
<1>11. dirty' => dirty /\ row'["maintenance"].state = row["maintenance"].state
  BY <1>0, <1>2, <1>8 DEF Roles
<1> QED
  BY <1>9, <1>10, <1>11, QuietStep

(* Every step of a process or of the clock keeps IInv. *)
LEMMA NextIInv == ASSUME TenureAssumption, IInv, [Next]_vars PROVE IInv'
<1>1. ASSUME NEW p \in Procs, Start(p) PROVE IInv'
  BY <1>1, StartStep
<1>2. ASSUME NEW p \in Procs,
             \/ Renew(p) \/ RenewFails(p) \/ Begin(p) \/ RenewInTransaction(p)
             \/ Commit(p) \/ CommitRefused(p) \/ Rollback(p) \/ BrokerMutation(p)
      PROVE  IInv'
  BY <1>2, GuardStep
<1>3. ASSUME NEW p \in Procs, Release(p) PROVE IInv'
  BY <1>3, ReleaseStep
<1>4. ASSUME NEW p \in Procs, Close(p) \/ Die(p) PROVE IInv'
  <2>1. PICK place \in {"closing", "dead"} :
          /\ proc' = [proc EXCEPT ![p].at = place] /\ row' = row /\ dirty' = dirty
          /\ txn' \in {txn, Idle} /\ seen' \in {seen, 0}
          /\ Tenant(p) \/ place = "dead"
    BY <1>4 DEF Close, Die, Tenant, Alive
  <2>2. /\ proc' \in [Procs -> ProcType]
        /\ \A q \in Procs : Tenant(q)' => Tenant(q) /\ proc'[q].gen = proc[q].gen
    BY <2>1 DEF IInv, Shape, ProcType, Places, Tenant, Alive
  <2>3. Shape'
    BY <2>1, <2>2 DEF IInv, Shape, TenureAssumption
  <2> QED
    BY <2>1, <2>2, <2>3, QuietStep
<1>5. CASE Tick
  <2>1. \A n \in 0 .. Ttl : Less(n) \in 0 .. Ttl
    BY DEF Less, TenureAssumption
  <2>2. /\ row' \in [Roles -> RowType]
        /\ \A y \in Roles : /\ row'[y].state = row[y].state /\ row'[y].owner = row[y].owner
                            /\ row'[y].gen = row[y].gen
    BY <1>5, <2>1 DEF Tick, IInv, Shape, RowType
  <2>3. proc' = proc /\ txn' = txn /\ dirty' = dirty /\ seen' \in 0 .. Ttl
    BY <1>5, <2>1 DEF Tick, IInv, Shape
  <2>4. Shape'
    BY <2>2, <2>3 DEF IInv, Shape
  <2> QED
    BY <2>2, <2>3, <2>4, QuietStep DEF Tenant, Alive, TenureAssumption, Roles
<1>6. CASE UNCHANGED vars
  BY <1>6, QuietStep DEF vars, Tenant, Alive, IInv, Shape
<1> QED
  BY <1>1, <1>2, <1>3, <1>4, <1>5, <1>6 DEF Next

(* A process that lives and has not given its tenure back still has its    *)
(* row, however long it was stopped and however far its guard is closed,   *)
(* and so has whoever may commit and did not give it back: no successor    *)
(* takes the tenure of a live process.                                     *)
THEOREM TenantKeepsRow == ASSUME TenureAssumption PROVE Spec => []TenantHasRow
<1>1. IInv => TenantHasRow
  BY DEF IInv
<1> QED
  BY <1>1, InitIInv, NextIInv, PTL DEF Spec

(* Two processes in tenure at once have different runtime roles: one       *)
(* process per role, and maintenance alone, although the fence is off one  *)
(* that closed its guard without a release.                                *)
THEOREM TenureExcludes == ASSUME TenureAssumption PROVE Spec => []Exclusive
<1>1. IInv => Exclusive
  BY DEF IInv
<1> QED
  BY <1>1, InitIInv, NextIInv, PTL DEF Spec

(* No runtime process is in tenure over a database whose maintenance was   *)
(* begun and not finished by its owner, although that owner's tenure has   *)
(* run out.                                                                *)
THEOREM RuntimesAwaitMaintenance ==
    ASSUME TenureAssumption PROVE Spec => []MaintenanceIsFinished
<1>1. IInv => MaintenanceIsFinished
  BY DEF IInv
<1> QED
  BY <1>1, InitIInv, NextIInv, PTL DEF Spec

(* The tenure holds what AppRuntime, the daemon and the tools rely on up   *)
(* to the moment they give it back, for any processes, roles and time to   *)
(* live.                                                                   *)
THEOREM TenureIsSafe == ASSUME TenureAssumption PROVE Spec => []TenureHolds
<1>1. IInv => TenureHolds
  BY DEF IInv, TenureHolds
<1> QED
  BY <1>1, InitIInv, NextIInv, PTL DEF Spec

-----------------------------------------------------------------------------
(* The application's start and stop.  The socket and the metadata file can *)
(* disagree only while the start lock is held or a shutdown is under way   *)
(* (Files), and the lock is held by whoever is in the middle of a start    *)
(* (LockHeld); the intent names the one start that is announced.           *)

CONSTANTS Apps, Manual, Pids, Pid, Stoppers
VARIABLES intent, sock, meta, lock, app, asked, launch, stop, others, port,
          absent

Control == INSTANCE AppControl

(* The start lock is held by whoever is in the middle of a start, or gives one
   up. *)
LockHeld ==
    \A i \in Apps :
        /\ app[i] \in Control!Starting => lock = i
        /\ lock = i => app[i] \in Control!Starting \cup {"closing"}

(* What the socket and the metadata say, wherever a process is. *)
Files ==
    \A i \in Apps :
        /\ app[i] \in Control!Up \cup {"published"} => sock = i /\ meta = i
        /\ app[i] = "bound" => sock = i /\ meta = Control!None
        /\ app[i] = "clear" => sock = Control!None /\ meta = Control!None
        /\ app[i] = "unlink" => meta # Control!None /\ sock \in {Control!None, meta}
           /\ ~Control!Alive(meta)
        /\ app[i] = "closing" => sock \in {Control!None, i} /\ meta = i
        /\ sock = i \/ meta = i => app[i] # "new"

(* What the intent says, wherever a launcher is. *)
Announced ==
    \A i \in Manual :
        /\ launch[i] = "writing" => intent = "torn"
        /\ \A j \in Manual : launch[i] = "writing" /\ launch[j] = "writing" => i = j
        /\ launch[i] = "begun" => intent = i
        /\ launch[i] \in {"new", "writing", "begun"} => app[i] = "new"
        /\ app[i] = "launched" => intent = i

ControlInv == Control!TypeOK /\ LockHeld /\ Files /\ Control!ResidueIsKnown /\ Announced

(* Nothing runs and nothing is on disk at first. *)
LEMMA ControlInit == ASSUME Control!ControlAssumption, Control!Init PROVE ControlInv
<1> USE DEF Control!Init, Control!ControlAssumption, Control!None, Control!Starting, Control!Up
<1>1. Control!TypeOK
  <2>1. absent \in BOOLEAN
    BY Zenon
  <2> QED
    BY <2>1 DEF Control!TypeOK
<1>2. LockHeld /\ Files /\ Control!ResidueIsKnown /\ Announced
  BY DEF LockHeld, Files, Control!ResidueIsKnown, Announced, Control!Alive
<1> QED
  BY <1>1, <1>2 DEF ControlInv

(* Every step keeps the types. *)
LEMMA ControlTypes ==
    ASSUME Control!ControlAssumption, ControlInv, [Control!Next]_Control!vars
    PROVE  Control!TypeOK'
<1> USE DEF Control!TypeOK, Control!ControlAssumption, Control!None, Control!Starting,
            Control!Up, Control!Move, Control!Refuse
<1>0. Control!TypeOK
  BY DEF ControlInv
<1>1. absent' \in BOOLEAN
  <2>1. \/ absent' = absent \/ absent' = FALSE \/ absent' = Control!Proves
        \/ \E b \in BOOLEAN : absent' = (absent /\ ~b)
    BY DEF Control!Next, Control!Launcher, Control!Startup, Control!BeginIntent,
           Control!WriteIntent, Control!Abandon, Control!KillLauncher, Control!Spawn,
           Control!Enter, Control!EnterTorn, Control!Inspect, Control!Unlink, Control!Bind,
           Control!SetupFails, Control!Publish, Control!Unbind, Control!Consume, Control!Listen,
           Control!CloseSocket, Control!CloseMeta, Control!Kill, Control!OtherStarts,
           Control!OtherEnds, Control!Validate, Control!Request, Control!ProveAbsent,
           Control!vars
  <2> QED
    BY <1>0, <2>1, Zenon DEF Control!Proves
<1>2. ASSUME NEW i \in Manual, Control!Launcher(i) PROVE Control!TypeOK'
  BY <1>0, <1>1, <1>2
  DEF Control!Launcher, Control!BeginIntent, Control!WriteIntent, Control!Abandon,
      Control!KillLauncher
<1>3. ASSUME NEW i \in Apps, Control!Startup(i) PROVE Control!TypeOK'
  BY <1>0, <1>1, <1>3
  DEF Control!Startup, Control!Enter, Control!EnterTorn, Control!Inspect, Control!Unlink,
      Control!Bind, Control!SetupFails, Control!Publish, Control!Unbind, Control!Consume
<1>4. ASSUME NEW i \in Apps,
             Control!Spawn(i) \/ Control!Listen(i) \/ Control!CloseSocket(i)
                \/ Control!CloseMeta(i) \/ Control!Kill(i)
      PROVE  Control!TypeOK'
  BY <1>0, <1>1, <1>4
  DEF Control!Spawn, Control!Listen, Control!CloseSocket, Control!CloseMeta, Control!Kill
<1>5. ASSUME NEW p \in Pids, Control!OtherStarts(p) \/ Control!OtherEnds(p) PROVE Control!TypeOK'
  BY <1>0, <1>1, <1>5 DEF Control!OtherStarts, Control!OtherEnds
<1>6. ASSUME NEW s \in Stoppers, Control!Validate(s) \/ Control!Request(s) PROVE Control!TypeOK'
  BY <1>0, <1>1, <1>6 DEF Control!Validate, Control!Request
<1>7. CASE Control!ProveAbsent \/ UNCHANGED Control!vars
  BY <1>0, <1>1, <1>7 DEF Control!ProveAbsent, Control!vars
<1> QED
  BY <1>2, <1>3, <1>4, <1>5, <1>6, <1>7 DEF Control!Next

(* Every step of a launcher, of a start, of an end, of a stop and of other
   processes keeps the invariant. *)
LEMMA ControlStep ==
    ASSUME Control!ControlAssumption, ControlInv, [Control!Next]_Control!vars
    PROVE  ControlInv'
<1>0. /\ Control!TypeOK /\ LockHeld /\ Files /\ Control!ResidueIsKnown /\ Announced
         /\ Control!None \notin Apps
      /\ "torn" \notin Apps /\ Manual \subseteq Apps
      /\ app \in [Apps -> Control!Starting \cup Control!Up
                             \cup {"new", "launched", "closing", "gone", "cut"}]
      /\ launch \in [Manual -> {"new", "writing", "begun", "waiting", "over"}]
      /\ sock \in Apps \cup {Control!None} /\ meta \in Apps \cup {Control!None}
  BY DEF ControlInv, Control!ControlAssumption, Control!None, Control!TypeOK
<1>t. Control!TypeOK'
  BY ControlTypes
<1> USE <1>0 DEF Control!Starting, Control!Up, Control!Move, Control!Refuse
<1>1. ASSUME NEW i \in Manual, Control!Launcher(i) PROVE ControlInv'
  <2>1. UNCHANGED <<sock, meta, lock, app>>
    BY <1>1
    DEF Control!Launcher, Control!BeginIntent, Control!WriteIntent, Control!Abandon,
        Control!KillLauncher
  <2>2. LockHeld' /\ Files' /\ Control!ResidueIsKnown'
    BY <2>1 DEF LockHeld, Files, Control!ResidueIsKnown, Control!Alive
  <2>3. CASE Control!BeginIntent(i)
    BY <1>t, <2>1, <2>2, <2>3 DEF Control!BeginIntent, Announced, ControlInv, Control!None
  <2>4. CASE Control!WriteIntent(i)
    BY <1>t, <2>1, <2>2, <2>4 DEF Control!WriteIntent, Announced, ControlInv
  <2>5. CASE Control!Abandon(i)
    BY <1>t, <2>1, <2>2, <2>5
    DEF Control!Abandon, Announced, ControlInv, Control!ProcessAbsent, Control!Alive
  <2>6. CASE Control!KillLauncher(i)
    BY <1>t, <2>1, <2>2, <2>6 DEF Control!KillLauncher, Announced, ControlInv
  <2> QED
    BY <1>1, <2>3, <2>4, <2>5, <2>6 DEF Control!Launcher
<1>2. ASSUME NEW i \in Apps, Control!Spawn(i) PROVE ControlInv'
  <2>1. UNCHANGED <<intent, sock, meta, lock>> /\ app' = [app EXCEPT ![i] = "launched"]
           /\ app[i] = "new"
    BY <1>2 DEF Control!Spawn
  <2>2. LockHeld' /\ Control!ResidueIsKnown'
    BY <2>1 DEF LockHeld, Control!ResidueIsKnown
  <2>3. Files'
    BY <2>1 DEF Files, Control!Alive
  <2>4. Announced'
    BY <1>2, <2>1 DEF Announced, Control!Spawn
  <2> QED
    BY <1>t, <2>2, <2>3, <2>4 DEF ControlInv
<1>3. ASSUME NEW i \in Apps, NEW to, app' = [app EXCEPT ![i] = to], to \notin {"new", "launched"},
             app[i] # "new", UNCHANGED <<intent, launch>>
      PROVE  Announced'
  BY <1>3 DEF Announced
<1>4. ASSUME NEW i \in Apps, Control!Enter(i) \/ Control!EnterTorn(i) PROVE ControlInv'
  <2>1. PICK to \in {"locked", "gone"} :
          /\ app' = [app EXCEPT ![i] = to] /\ app[i] = "launched"
          /\ UNCHANGED <<intent, launch, sock, meta>>
          /\ to = "locked" => lock = Control!None /\ lock' = i
          /\ to = "gone" => lock' = lock
    BY <1>4 DEF Control!Enter, Control!EnterTorn, LockHeld
  <2>2. LockHeld' /\ Control!ResidueIsKnown'
    BY <2>1 DEF LockHeld, Control!ResidueIsKnown
  <2>3. Files'
    BY <2>1 DEF Files, Control!Alive
  <2> QED
    BY <1>t, <1>3, <2>1, <2>2, <2>3 DEF ControlInv
<1>5. ASSUME NEW i \in Apps, Control!Inspect(i) PROVE ControlInv'
  <2>1. PICK to \in {"clear", "unlink", "gone"} :
          /\ app' = [app EXCEPT ![i] = to] /\ app[i] = "locked" /\ lock = i
          /\ UNCHANGED <<intent, launch, sock, meta>>
          /\ to = "clear" => lock' = lock /\ sock = Control!None /\ meta = Control!None
          /\ to = "unlink" => lock' = lock /\ Control!Reclaimable
          /\ to = "gone" => lock' = Control!None
    BY <1>5 DEF Control!Inspect, LockHeld
  <2>2. LockHeld' /\ Control!ResidueIsKnown'
    BY <2>1 DEF LockHeld, Control!ResidueIsKnown
  <2>3. Files'
    BY <2>1 DEF Files, Control!Alive, Control!Reclaimable, Control!ProcessAbsent
  <2> QED
    BY <1>t, <1>3, <2>1, <2>2, <2>3 DEF ControlInv
<1>6. ASSUME NEW i \in Apps, Control!Unlink(i) PROVE ControlInv'
  <2>0. /\ app[i] = "unlink" /\ UNCHANGED <<intent, launch, lock>> /\ lock = i
        /\ \/ sock # Control!None /\ sock' = Control!None /\ UNCHANGED <<meta, app>>
           \/ sock = Control!None /\ sock' = Control!None /\ meta' = Control!None
              /\ app' = [app EXCEPT ![i] = "clear"]
    BY <1>6 DEF Control!Unlink, LockHeld
  <2>1. LockHeld'
    BY <2>0 DEF LockHeld
  <2>2. Control!ResidueIsKnown' /\ Announced'
    BY <2>0 DEF Control!ResidueIsKnown, Announced
  <2>3. Files'
    BY <2>0, <2>1 DEF Files, Control!Alive, LockHeld
  <2> QED
    BY <1>t, <2>1, <2>2, <2>3 DEF ControlInv
<1>7. ASSUME NEW i \in Apps, Control!Bind(i) \/ Control!SetupFails(i) \/ Control!Publish(i)
                \/ Control!Unbind(i) \/ Control!Consume(i)
      PROVE  ControlInv'
  <2>0. lock = i
    BY <1>7
    DEF LockHeld, Control!Bind, Control!SetupFails, Control!Publish, Control!Unbind,
        Control!Consume
  <2>1. CASE Control!Bind(i)
    <3>0. /\ app' = [app EXCEPT ![i] = "bound"] /\ app[i] = "clear"
          /\ UNCHANGED <<intent, launch, lock>>
      BY <2>1 DEF Control!Bind
    <3>a. LockHeld'
      <4>1. lock' = i /\ app'[i] \in Control!Starting
        BY <2>0, <3>0
      <4>2. \A j \in Apps \ {i} : app'[j] = app[j] /\ app[j] \notin Control!Starting
        BY <2>0, <3>0 DEF LockHeld
      <4> QED
        BY <4>1, <4>2 DEF LockHeld
    <3>1. Announced'
      BY <3>0 DEF Announced
    <3>2. Files' /\ Control!ResidueIsKnown'
      <4>1. /\ app[i] = "clear" /\ sock' = i /\ UNCHANGED meta
            /\ app' = [app EXCEPT ![i] = "bound"]
            /\ sock = Control!None /\ meta = Control!None
        BY <2>1 DEF Control!Bind, Files
      <4>2. \A j \in Apps \ {i} : app'[j] = app[j] /\ app[j] \notin Control!Starting
               /\ app[j] \notin Control!Up \cup {"closing"}
        BY <2>0, <4>1 DEF LockHeld, Files
      <4> QED
        BY <4>1, <4>2 DEF Files, Control!ResidueIsKnown
    <3> QED
      BY <1>t, <3>a, <3>1, <3>2 DEF ControlInv
  <2>5. CASE Control!SetupFails(i)
    <3>1. PICK b \in BOOLEAN : /\ sock' = IF b THEN i ELSE sock
                              /\ app' = [app EXCEPT ![i] = IF b THEN "cut" ELSE "gone"]
      BY <2>5 DEF Control!SetupFails
    <3>2. app[i] = "clear" /\ lock' = Control!None /\ UNCHANGED <<intent, meta, launch>>
      BY <2>5 DEF Control!SetupFails
    <3>0. PICK to \in {"cut", "gone"} : app' = [app EXCEPT ![i] = to]
      BY <3>1
    <3>a. LockHeld'
      BY <2>0, <3>0, <3>2 DEF LockHeld
    <3>3. Announced'
      BY <1>3, <3>0, <3>2
    <3>4. sock = Control!None /\ meta = Control!None
      BY <3>2 DEF Files
    <3>5. \A j \in Apps \ {i} : app'[j] = app[j] /\ app[j] \notin Control!Starting
             /\ app[j] \notin Control!Up \cup {"closing"}
      BY <2>0, <3>1, <3>2, <3>4 DEF LockHeld, Files
    <3>6. Files' /\ Control!ResidueIsKnown'
      BY <3>1, <3>2, <3>4, <3>5 DEF Files, Control!ResidueIsKnown
    <3> QED
      BY <1>t, <3>a, <3>3, <3>6 DEF ControlInv
  <2>2. CASE Control!Publish(i)
    <3>0. /\ app' = [app EXCEPT ![i] = "published"] /\ app[i] = "bound"
          /\ UNCHANGED <<intent, launch, lock>>
      BY <2>2 DEF Control!Publish
    <3>a. LockHeld'
      <4>1. lock' = i /\ app'[i] \in Control!Starting
        BY <2>0, <3>0
      <4>2. \A j \in Apps \ {i} : app'[j] = app[j] /\ app[j] \notin Control!Starting
        BY <2>0, <3>0 DEF LockHeld
      <4> QED
        BY <4>1, <4>2 DEF LockHeld
    <3>1. Announced'
      BY <3>0 DEF Announced
    <3>2. Files' /\ Control!ResidueIsKnown'
      <4>1. /\ app[i] = "bound" /\ UNCHANGED sock /\ meta' = i
            /\ app' = [app EXCEPT ![i] = "published"]
            /\ sock = i /\ meta = Control!None
        BY <2>2 DEF Control!Publish, Files
      <4>2. \A j \in Apps \ {i} : app'[j] = app[j] /\ app[j] \notin Control!Starting
               /\ app[j] \notin Control!Up \cup {"closing"}
        BY <2>0, <4>1 DEF LockHeld, Files
      <4> QED
        BY <4>1, <4>2 DEF Files, Control!ResidueIsKnown
    <3> QED
      BY <1>t, <3>a, <3>1, <3>2 DEF ControlInv
  <2>3. CASE Control!Unbind(i)
    <3>1. PICK b \in BOOLEAN : /\ sock' = IF sock = i /\ b THEN Control!None ELSE sock
                              /\ app' = [app EXCEPT ![i] = IF sock = i /\ ~b THEN "cut" ELSE "gone"]
      BY <2>3 DEF Control!Unbind
    <3>2. app[i] = "bound" /\ lock' = Control!None /\ UNCHANGED <<intent, meta, launch>>
      BY <2>3 DEF Control!Unbind
    <3>0. PICK to \in {"cut", "gone"} : app' = [app EXCEPT ![i] = to]
      BY <3>1
    <3>a. LockHeld'
      BY <2>0, <3>0, <3>2 DEF LockHeld
    <3>3. Announced'
      BY <1>3, <3>0, <3>2
    <3>4. sock = i /\ meta = Control!None
      BY <3>2 DEF Files
    <3>5. \A j \in Apps \ {i} : app'[j] = app[j] /\ app[j] \notin Control!Starting
             /\ app[j] \notin Control!Up \cup {"closing"}
      BY <2>0, <3>1, <3>2, <3>4 DEF LockHeld, Files
    <3>6. Files' /\ Control!ResidueIsKnown'
      BY <3>1, <3>2, <3>4, <3>5 DEF Files, Control!ResidueIsKnown
    <3> QED
      BY <1>t, <3>a, <3>3, <3>6 DEF ControlInv
  <2>4. CASE Control!Consume(i)
    <3>1. LockHeld'
      BY <2>0, <2>4 DEF LockHeld, Control!Consume
    <3>2. Files' /\ Control!ResidueIsKnown'
      BY <2>0, <2>4 DEF Files, LockHeld, Control!ResidueIsKnown, Control!Consume, Control!Alive
    <3>3. Announced'
      BY <2>4 DEF Announced, Control!Consume, Control!IntentAllows, Control!None
    <3> QED
      BY <1>t, <3>1, <3>2, <3>3 DEF ControlInv
  <2> QED
    BY <1>7, <2>1, <2>2, <2>3, <2>4, <2>5
<1>8. ASSUME NEW i \in Apps, Control!Listen(i) \/ Control!CloseSocket(i) \/ Control!CloseMeta(i)
      PROVE  ControlInv'
  <2>0. PICK to \in {"ready", "closing", "cut", "gone"} :
          /\ app' = [app EXCEPT ![i] = to] /\ UNCHANGED <<intent, launch>>
          /\ app[i] \in Control!Up \cup {"published", "closing"}
          /\ to = "ready" => lock' = lock /\ app[i] = "serving"
          /\ to = "closing" => lock' = lock
          /\ to \in {"cut", "gone"} => lock' = IF lock = i THEN Control!None ELSE lock
    BY <1>8 DEF Control!Listen, Control!CloseSocket, Control!CloseMeta
  <2>1. LockHeld' /\ Announced'
    BY <1>3, <2>0 DEF LockHeld
  <2>2. CASE Control!Listen(i)
    BY <1>t, <2>1, <2>2 DEF Files, Control!ResidueIsKnown, Control!Listen, Control!Alive, ControlInv
  <2>3. CASE Control!CloseSocket(i)
    BY <1>t, <2>1, <2>3
    DEF Files, Control!ResidueIsKnown, Control!CloseSocket, Control!Alive, ControlInv
  <2>4. CASE Control!CloseMeta(i)
    <3>1. /\ app[i] = "closing" /\ sock \in {Control!None, i} /\ meta = i /\ sock' = sock
      BY <2>4 DEF Files, Control!CloseMeta
    <3>b. PICK b \in BOOLEAN :
            /\ meta' = IF meta = i /\ b THEN Control!None ELSE meta
            /\ app' = [app EXCEPT ![i] = IF sock = i /\ b THEN "cut" ELSE "gone"]
      BY <2>4 DEF Control!CloseMeta
    <3>2. \A j \in Apps \ {i} : app[j] \notin Control!Up \cup
             {"published", "bound", "unlink", "closing"}
      BY <3>1 DEF Files, Control!Alive
    <3>3. Files'
      BY <3>1, <3>b, <3>2 DEF Files, Control!Alive
    <3>4. Control!ResidueIsKnown'
      BY <3>1, <3>b DEF Control!ResidueIsKnown
    <3> QED
      BY <1>t, <2>1, <3>3, <3>4 DEF ControlInv
  <2> QED
    BY <1>8, <2>2, <2>3, <2>4
<1>9. ASSUME NEW i \in Apps, Control!Kill(i) PROVE ControlInv'
  <2>1. PICK to \in {"cut", "gone"} :
          /\ app' = [app EXCEPT ![i] = to] /\ UNCHANGED <<sock, meta, intent, launch>>
          /\ app[i] \notin {"new", "cut"} /\ (app[i] = "bound" => to = "cut")
          /\ lock' = IF lock = i THEN Control!None ELSE lock
    BY <1>9 DEF Control!Kill, Control!Alive
  <2>2. LockHeld'
    BY <2>1 DEF LockHeld
  <2>3. Files'
    BY <2>1 DEF Files, Control!Alive
  <2>4. Control!ResidueIsKnown' /\ Announced'
    BY <1>3, <2>1 DEF Control!ResidueIsKnown
  <2> QED
    BY <1>t, <2>2, <2>3, <2>4 DEF ControlInv
<1>10. CASE UNCHANGED <<intent, sock, meta, lock, app, launch>>
  BY <1>t, <1>10 DEF ControlInv, LockHeld, Files, Control!ResidueIsKnown, Announced, Control!Alive
<1>11. ASSUME \/ \E p \in Pids : Control!OtherStarts(p) \/ Control!OtherEnds(p)
              \/ \E s \in Stoppers : Control!Validate(s) \/ Control!Request(s)
              \/ Control!ProveAbsent \/ UNCHANGED Control!vars
       PROVE  UNCHANGED <<intent, sock, meta, lock, app, launch>>
  BY <1>11
  DEF Control!OtherStarts, Control!OtherEnds, Control!Validate, Control!Request,
      Control!ProveAbsent, Control!vars
<1> QED
  BY <1>1, <1>2, <1>4, <1>5, <1>6, <1>7, <1>8, <1>9, <1>10, <1>11 DEF Control!Next, Control!Startup

(* An application that serves can always be found and asked to stop, and a
   socket that no later start clears away is left only by a process that ended
   between its socket and its metadata or could not unlink the socket: for any
   applications, launchers, stoppers and process ids, ids used again included. *)
THEOREM ServingIsFound ==
    ASSUME Control!ControlAssumption
    PROVE  Control!Spec => [](Control!TypeOK /\ Control!ServingIsReachable
              /\ Control!ResidueIsKnown)
<1>1. ControlInv => Control!TypeOK /\ Control!ServingIsReachable /\ Control!ResidueIsKnown
  BY DEF ControlInv, Files, Control!ServingIsReachable, Control!Up
<1> QED
  BY <1>1, ControlInit, ControlStep, PTL DEF Control!Spec

(* A stop reaches only the instance that was validated, no other instance gets
   up while a start is announced, and a proof of absence is given only while
   no application is up, starting or announced. *)
THEOREM ControlActs ==
    ASSUME Control!ControlAssumption
    PROVE  Control!Spec => [][Control!StopHitsItsTargetStep /\ Control!AnnouncedStartIsAloneStep
              /\ Control!AbsenceIsTrueStep]_Control!vars
<1>1. ASSUME ControlInv, [Control!Next]_Control!vars
      PROVE  [Control!StopHitsItsTargetStep /\ Control!AnnouncedStartIsAloneStep
                /\ Control!AbsenceIsTrueStep]_Control!vars
  <2>1. Control!StopHitsItsTargetStep
    <3> SUFFICES ASSUME NEW i \in asked' \ asked PROVE \E s \in Stoppers : stop[s] = i
      BY DEF Control!StopHitsItsTargetStep
    <3>1. PICK s \in Stoppers : Control!Request(s)
      BY <1>1
      DEF Control!Next, Control!Launcher, Control!Startup, Control!BeginIntent,
          Control!WriteIntent, Control!Abandon, Control!KillLauncher, Control!Spawn,
          Control!Enter, Control!EnterTorn, Control!Inspect, Control!Unlink, Control!Bind,
          Control!SetupFails, Control!Publish, Control!Unbind, Control!Consume,
          Control!Listen, Control!CloseSocket, Control!CloseMeta, Control!Kill, Control!OtherStarts, Control!OtherEnds,
          Control!Validate, Control!ProveAbsent, Control!vars
    <3> QED
      BY <3>1 DEF Control!Request, Control!Handle
  <2>2. Control!AnnouncedStartIsAloneStep
    <3> SUFFICES ASSUME NEW i \in Apps, app[i] \notin Control!Up, app'[i] \in Control!Up,
                        NEW j \in Manual \ {i}
                 PROVE  intent # j
      BY DEF Control!AnnouncedStartIsAloneStep
    <3>0. /\ Control!None \notin Apps
          /\ app \in [Apps -> Control!Starting \cup Control!Up
                                 \cup {"new", "launched", "closing", "gone", "cut"}]
          /\ Manual \subseteq Apps
      BY <1>1 DEF ControlInv, Control!TypeOK, Control!ControlAssumption, Control!None
    <3>1. Control!Consume(i)
      <4>1. ASSUME NEW k \in Apps, NEW to, app' = [app EXCEPT ![k] = to], to \notin Control!Up
                      \/ app[k] \in Control!Up
            PROVE  FALSE
        BY <3>0, <4>1
      <4>2. app' # app
        OBVIOUS
      <4>3. PICK k \in Apps : Control!Spawn(k) \/ Control!Startup(k) \/ Control!Listen(k)
                    \/ Control!CloseSocket(k) \/ Control!CloseMeta(k) \/ Control!Kill(k)
        BY <1>1, <4>2
        DEF Control!Next, Control!Launcher, Control!BeginIntent, Control!WriteIntent,
            Control!Abandon, Control!KillLauncher, Control!OtherStarts, Control!OtherEnds,
            Control!Validate, Control!Request, Control!ProveAbsent, Control!vars
      <4>4. ~(Control!Spawn(k) \/ Control!Listen(k) \/ Control!CloseSocket(k)
               \/ Control!CloseMeta(k) \/ Control!Kill(k))
        BY <4>1
        DEF Control!Spawn, Control!Listen, Control!CloseSocket, Control!CloseMeta, Control!Kill,
            Control!Move, Control!Up
      <4>5. ~(Control!Enter(k) \/ Control!EnterTorn(k) \/ Control!Inspect(k) \/ Control!Unlink(k)
               \/ Control!Bind(k) \/ Control!SetupFails(k) \/ Control!Publish(k)
               \/ Control!Unbind(k))
        BY <4>1, <4>2
        DEF Control!Enter, Control!EnterTorn, Control!Inspect, Control!Unlink, Control!Bind,
            Control!SetupFails, Control!Publish, Control!Unbind, Control!Move, Control!Refuse,
            Control!Up
      <4>6. Control!Consume(k)
        BY <4>3, <4>4, <4>5 DEF Control!Startup
      <4> QED
        BY <3>0, <4>6 DEF Control!Consume, Control!Move
    <3> QED
      BY <3>0, <3>1 DEF Control!Consume, Control!IntentAllows
  <2>3. Control!AbsenceIsTrueStep
    <3> SUFFICES ASSUME Control!ProveAbsent, absent'
                 PROVE  /\ \A i \in Apps : app[i] \notin Control!Up \cup Control!Starting
                        /\ \A i \in Manual : app[i] # "launched"
      BY DEF Control!AbsenceIsTrueStep
    <3>1. lock = Control!None /\ intent = Control!None /\ sock = Control!None
      BY DEF Control!ProveAbsent, Control!Proves
    <3> QED
      BY <1>1, <3>1
      DEF ControlInv, LockHeld, Files, Announced, Control!ControlAssumption, Control!None
  <2> QED
    BY <2>1, <2>2, <2>3
<1> QED
  BY <1>1, ControlInit, ControlStep, PTL DEF Control!Spec

-----------------------------------------------------------------------------
(* The supervision of the daemon *)

CONSTANTS Stale, PostureAge, Deadline, Boot, Interval, Checks, MaxFaults
VARIABLES daemon, tenure, maint, failing, beat, newer, menu, status, owns,
          report, left, watch, faults

Daemon == INSTANCE DaemonSupervision

(* While a start or a stop is under way the supervisor has its child's handle,
   and what it has read when it is about to report success still holds. *)
Handled ==
    /\ menu \in {"poll", "load", "judge", "verify", "abort", "stop"} => owns
    /\ menu = "ended" => ~owns
    /\ menu \in {"judge", "verify"} /\ report.newer => newer
    /\ menu = "verify" => Daemon!PoststartState(report) = "confirmed"

SupervisionInv == Daemon!TypeOK /\ Daemon!ChildIsKept /\ Handled

(* No daemon runs at first, and the menu owns none. *)
LEMMA SupervisionInit == ASSUME Daemon!SupervisionAssumption, Daemon!Init PROVE SupervisionInv
<1>1. {maint, newer, owns} \subseteq BOOLEAN
  BY Zenon DEF Daemon!Init
<1>2. report \in Daemon!Report
  BY DEF Daemon!Init, Daemon!NoReport, Daemon!Report, Daemon!SupervisionAssumption
<1>3. Daemon!TypeOK
  BY <1>1, <1>2
  DEF Daemon!Init, Daemon!TypeOK, Daemon!SupervisionAssumption, Daemon!Daemons, Daemon!States
<1> QED
  BY <1>3 DEF Daemon!Init, SupervisionInv, Daemon!ChildIsKept, Handled, Daemon!Alive, Daemon!Daemons

(* What a step may write to each variable. *)
LEMMA SupervisionMoves ==
    ASSUME Daemon!TypeOK, [Daemon!Next]_Daemon!vars
    PROVE  /\ maint' \in {maint, TRUE, FALSE} /\ newer' \in {newer, TRUE, FALSE}
           /\ owns' \in {owns, TRUE, FALSE}
           /\ tenure' \in {tenure, "lapsing", "free"} \cup Daemon!Daemons
           /\ failing' \in Checks \cup {failing, "none"}
           /\ beat' \in {beat, 0, Daemon!Older(beat, Stale + 1)}
           /\ menu' \in {menu, "menu", "confirm", "poll", "load", "judge", "verify", "abort",
                         "stop", "cleanup", "ended", "failed"}
           /\ status' \in Daemon!States \cup {status}
           /\ \/ report' = report \/ report' = Daemon!Observe
              \/ report' = [report EXCEPT !.age = Daemon!Older(@, PostureAge + 1)]
           /\ left' \in {left, Deadline, Daemon!Less(left)}
              /\ watch' \in {watch, Interval, Daemon!Less(watch)}
           /\ faults' = faults \/ (faults < MaxFaults /\ faults' = faults + 1)
<1> USE DEF Daemon!Next, Daemon!Supervisor, Daemon!AskStart, Daemon!StartBlocked, Daemon!Spawn,
            Daemon!ChildExited, Daemon!StillAlive, Daemon!LoadReport, Daemon!Judge,
            Daemon!ReportRunning, Daemon!Abort, Daemon!AskStop, Daemon!Stopped,
            Daemon!StopNothing, Daemon!Unconfirmed, Daemon!Leave, Daemon!CleanupConfirmed,
            Daemon!CleanupUnconfirmed, Daemon!Acquire, Daemon!Heartbeat, Daemon!Stops,
            Daemon!Hangs, Daemon!Launchd, Daemon!Watchdog, Daemon!Tick, Daemon!CheckFails,
            Daemon!CheckClears, Daemon!Maintenance, Daemon!System, Daemon!Menu, Daemon!vars,
            Daemon!Signal, Daemon!Ends
<1>1. maint' \in {maint, TRUE, FALSE} /\ newer' \in {newer, TRUE, FALSE}
         /\ owns' \in {owns, TRUE, FALSE}
  OBVIOUS
<1>2. tenure' \in {tenure, "lapsing", "free"} \cup Daemon!Daemons
  BY DEF Daemon!Kickstart, Daemon!Lapse
<1>3. failing' \in Checks \cup {failing, "none"}
         /\ beat' \in {beat, 0, Daemon!Older(beat, Stale + 1)}
  OBVIOUS
<1>4. menu' \in {menu, "menu", "confirm", "poll", "load", "judge", "verify", "abort", "stop",
                 "cleanup", "ended", "failed"}
  OBVIOUS
<1>5. status' \in Daemon!States \cup {status}
  BY DEF Daemon!States
<1>6. \/ report' = report \/ report' = Daemon!Observe
      \/ report' = [report EXCEPT !.age = Daemon!Older(@, PostureAge + 1)]
  OBVIOUS
<1>7. left' \in {left, Deadline, Daemon!Less(left)}
         /\ watch' \in {watch, Interval, Daemon!Less(watch)}
  OBVIOUS
<1>8. faults' = faults \/ (faults < MaxFaults /\ faults' = faults + 1)
  OBVIOUS
<1> QED
  BY <1>1, <1>2, <1>3, <1>4, <1>5, <1>6, <1>7, <1>8

(* Every step keeps the types. *)
LEMMA SupervisionTypes ==
    ASSUME Daemon!SupervisionAssumption, Daemon!TypeOK, [Daemon!Next]_Daemon!vars
    PROVE  Daemon!TypeOK'
<1> DEFINE At == {"off", "new", "up", "hung", "stopping"}
           DaemonType == [Daemon!Daemons -> [at : At, age : 0 .. Boot]]
<1>0. /\ daemon \in DaemonType /\ Daemon!Daemons = {"child", "launchd"}
      /\ Stale \in Nat /\ PostureAge \in Nat /\ Deadline \in Nat /\ Boot \in Nat /\ Interval \in Nat
      /\ MaxFaults \in Nat
  BY DEF Daemon!TypeOK, Daemon!SupervisionAssumption, Daemon!Daemons
<1>1. daemon' \in DaemonType
  <2>1. ASSUME NEW d \in Daemon!Daemons, NEW at \in At,
               Daemon!Set(d, at) \/ daemon' = [daemon EXCEPT ![d].at = at]
        PROVE  daemon' \in DaemonType
    BY <1>0, <2>1 DEF Daemon!Set
  <2>2. CASE UNCHANGED daemon
    BY <1>0, <2>2
  <2>3. CASE Daemon!Tick
    BY <1>0, <2>3 DEF Daemon!Tick, Daemon!Older
  <2>4. CASE Daemon!Signal
    BY <1>0, <2>4 DEF Daemon!Signal
  <2>5. ASSUME NEW d \in Daemon!Daemons, Daemon!Acquire(d) \/ Daemon!Heartbeat(d)
                  \/ Daemon!Stops(d) \/ Daemon!Hangs(d)
        PROVE  daemon' \in DaemonType
    BY <2>1, <2>5 DEF Daemon!Acquire, Daemon!Heartbeat, Daemon!Stops, Daemon!Hangs
  <2>6. CASE Daemon!Launchd \/ Daemon!Watchdog \/ Daemon!Spawn
    BY <1>0, <2>1, <2>2, <2>6 DEF Daemon!Launchd, Daemon!Watchdog, Daemon!Spawn, Daemon!Kickstart
  <2>7. CASE Daemon!Abort \/ Daemon!AskStop \/ Daemon!Leave
    BY <2>2, <2>4, <2>7 DEF Daemon!Abort, Daemon!AskStop, Daemon!Leave, Daemon!System
  <2> HIDE DEF DaemonType
  <2> QED
    BY <2>2, <2>3, <2>5, <2>6, <2>7
    DEF Daemon!Next, Daemon!Supervisor, Daemon!AskStart, Daemon!StartBlocked,
        Daemon!ChildExited, Daemon!StillAlive, Daemon!LoadReport, Daemon!Judge,
        Daemon!ReportRunning, Daemon!Stopped, Daemon!StopNothing, Daemon!Unconfirmed,
        Daemon!CleanupConfirmed, Daemon!CleanupUnconfirmed, Daemon!CheckFails,
        Daemon!CheckClears, Daemon!Maintenance, Daemon!System, Daemon!Menu, Daemon!vars
<1>m. /\ maint' \in {maint, TRUE, FALSE} /\ newer' \in {newer, TRUE, FALSE}
      /\ owns' \in {owns, TRUE, FALSE}
      /\ maint \in BOOLEAN /\ newer \in BOOLEAN /\ owns \in BOOLEAN
  BY SupervisionMoves, Zenon DEF Daemon!TypeOK
<1>2. {maint, newer, owns}' \subseteq BOOLEAN
  BY <1>m, Zenon
<1>3. tenure' \in Daemon!Daemons \cup {"lapsing", "free"} /\ failing' \in Checks \cup {"none"}
  BY SupervisionMoves DEF Daemon!TypeOK
<1>5. beat' \in 0 .. Stale + 1
  <2>1. beat \in 0 .. Stale + 1 /\ beat' \in {beat, 0, Daemon!Older(beat, Stale + 1)}
    BY SupervisionMoves DEF Daemon!TypeOK
  <2> QED
    BY <1>0, <2>1 DEF Daemon!Older
<1>6. /\ menu' \in {"menu", "confirm", "poll", "load", "judge", "verify", "abort", "stop",
                    "cleanup", "ended", "failed"}
      /\ status' \in Daemon!States
  BY SupervisionMoves DEF Daemon!TypeOK
<1>8. report' \in Daemon!Report
  <2>1. /\ report \in Daemon!Report /\ failing \in Checks \cup {"none"}
        /\ beat \in 0 .. Stale + 1
    BY Zenon DEF Daemon!TypeOK
  <2>2. /\ (beat <= Stale) \in BOOLEAN /\ (tenure # "free") \in BOOLEAN
        /\ 0 \in 0 .. PostureAge + 1 /\ maint \in BOOLEAN /\ newer \in BOOLEAN
    BY <1>0, <1>m
  <2>3. Daemon!Observe \in Daemon!Report
    BY <2>1, <2>2 DEF Daemon!Observe, Daemon!Report
  <2>4. [report EXCEPT !.age = Daemon!Older(@, PostureAge + 1)] \in Daemon!Report
    BY <1>0, <2>1 DEF Daemon!Report, Daemon!Older
  <2> QED
    BY <2>1, <2>3, <2>4, SupervisionMoves
<1>9. left' \in 0 .. Deadline /\ watch' \in 0 .. Interval /\ faults' \in 0 .. MaxFaults
  <2>1. /\ left \in 0 .. Deadline /\ left' \in {left, Deadline, Daemon!Less(left)}
        /\ watch \in 0 .. Interval /\ watch' \in {watch, Interval, Daemon!Less(watch)}
        /\ faults \in 0 .. MaxFaults
        /\ faults' = faults \/ (faults < MaxFaults /\ faults' = faults + 1)
    BY SupervisionMoves DEF Daemon!TypeOK
  <2> QED
    BY <1>0, <2>1 DEF Daemon!Less
<1> QED
  BY <1>1, <1>2, <1>3, <1>5, <1>6, <1>8, <1>9 DEF Daemon!TypeOK

(* Every step of the menu, of the daemons, of launchd and of its watchdog keeps
   the invariant. *)
LEMMA SupervisionStep ==
    ASSUME Daemon!SupervisionAssumption, SupervisionInv, [Daemon!Next]_Daemon!vars
    PROVE  SupervisionInv'
<1>0. Daemon!TypeOK /\ Daemon!TypeOK' /\ Daemon!ChildIsKept /\ Handled /\ owns \in BOOLEAN
  BY SupervisionTypes, Zenon DEF SupervisionInv, Daemon!TypeOK
<1>1. daemon \in [Daemon!Daemons -> [at : {"off", "new", "up", "hung", "stopping"},
         age : 0 .. Boot]]
  BY <1>0 DEF Daemon!TypeOK
<1>2. ASSUME ~Daemon!Spawn PROVE ~Daemon!Alive("child") => ~Daemon!Alive("child")'
  <2>1. ASSUME NEW d \in Daemon!Daemons, Daemon!Acquire(d) \/ Daemon!Heartbeat(d)
                  \/ Daemon!Stops(d) \/ Daemon!Hangs(d)
        PROVE  <1>2!2
    BY <1>1, <2>1
    DEF Daemon!Acquire, Daemon!Heartbeat, Daemon!Stops, Daemon!Hangs, Daemon!Set, Daemon!Alive,
        Daemon!Daemons
  <2>2. CASE Daemon!Launchd \/ Daemon!Watchdog \/ Daemon!Tick
    BY <1>1, <2>2
    DEF Daemon!Launchd, Daemon!Watchdog, Daemon!Tick, Daemon!Kickstart, Daemon!Set,
        Daemon!Alive, Daemon!Daemons
  <2>3. CASE Daemon!Abort \/ Daemon!AskStop \/ Daemon!Leave
    BY <1>1, <2>3
    DEF Daemon!Abort, Daemon!AskStop, Daemon!Leave, Daemon!Signal, Daemon!System, Daemon!Alive,
        Daemon!Daemons
  <2>4. CASE UNCHANGED daemon
    BY <2>4 DEF Daemon!Alive
  <2> QED
    BY <1>2, <2>1, <2>2, <2>3, <2>4
    DEF Daemon!Next, Daemon!Supervisor, Daemon!AskStart, Daemon!StartBlocked,
        Daemon!ChildExited, Daemon!StillAlive, Daemon!LoadReport, Daemon!Judge,
        Daemon!ReportRunning, Daemon!Stopped, Daemon!StopNothing, Daemon!Unconfirmed,
        Daemon!CleanupConfirmed, Daemon!CleanupUnconfirmed, Daemon!CheckFails,
        Daemon!CheckClears, Daemon!Maintenance, Daemon!System, Daemon!vars
<1>3. Daemon!ChildIsKept'
  <2>1. ASSUME ~owns' PROVE ~Daemon!Alive("child") /\ ~Daemon!Spawn
    <3>1. CASE Daemon!Supervisor
      <4>1. \/ owns' = owns /\ ~Daemon!Spawn
            \/ ~Daemon!Alive("child") /\ ~Daemon!Spawn
            \/ Daemon!CleanupConfirmed
        BY <1>0, <2>1, <3>1
        DEF Daemon!Supervisor, Daemon!AskStart, Daemon!StartBlocked, Daemon!Spawn,
            Daemon!ChildExited, Daemon!StillAlive, Daemon!LoadReport, Daemon!Judge,
            Daemon!ReportRunning, Daemon!Abort, Daemon!AskStop, Daemon!Stopped,
            Daemon!StopNothing, Daemon!Unconfirmed, Daemon!Leave, Daemon!CleanupUnconfirmed,
            Daemon!Ends, Daemon!ChildIsKept
      <4> QED
        BY <1>0, <2>1, <4>1 DEF Daemon!ChildIsKept, Daemon!CleanupConfirmed, Daemon!Spawn
    <3>2. CASE UNCHANGED <<menu, owns>>
      BY <1>0, <2>1, <3>2 DEF Daemon!ChildIsKept, Daemon!Spawn
    <3> QED
      BY <3>1, <3>2
      DEF Daemon!Next, Daemon!Acquire, Daemon!Heartbeat, Daemon!Stops, Daemon!Hangs,
          Daemon!Launchd, Daemon!Watchdog, Daemon!Tick, Daemon!CheckFails, Daemon!CheckClears,
          Daemon!Maintenance, Daemon!Menu, Daemon!vars
  <2> QED
    BY <1>2, <2>1 DEF Daemon!ChildIsKept
<1>4. Handled'
  <2>1. CASE Daemon!Supervisor
    <3>1. CASE Daemon!Judge
      BY <1>0, <3>1 DEF Handled, Daemon!Judge
    <3>2. CASE Daemon!LoadReport
      BY <1>0, <3>2 DEF Handled, Daemon!LoadReport, Daemon!Observe
    <3>3. CASE ~Daemon!Judge /\ ~Daemon!LoadReport
      <4>1. /\ menu' \notin {"judge", "verify"}
            /\ menu' \in {"poll", "load", "abort", "stop"} => owns'
            /\ menu' = "ended" => ~owns'
        BY <1>0, <2>1, <3>3
        DEF Handled, Daemon!Supervisor, Daemon!AskStart, Daemon!StartBlocked, Daemon!Spawn,
            Daemon!ChildExited, Daemon!StillAlive, Daemon!ReportRunning, Daemon!Abort,
            Daemon!AskStop, Daemon!Stopped, Daemon!StopNothing, Daemon!Unconfirmed,
            Daemon!Leave, Daemon!CleanupConfirmed, Daemon!CleanupUnconfirmed, Daemon!Ends
      <4> QED
        BY <4>1 DEF Handled
    <3> QED
      BY <3>1, <3>2, <3>3
  <2>2. CASE Daemon!Tick
    BY <1>0, <2>2 DEF Handled, Daemon!Tick
  <2>3. CASE UNCHANGED <<menu, owns, report>> /\ (newer => newer')
    BY <1>0, <2>3
    DEF Handled, Daemon!PoststartState, Daemon!ValidatedCommon, Daemon!ObservationIsCurrent,
        Daemon!CommonSafety, Daemon!BudgetEvidenceSafe, Daemon!ScopedClear,
        Daemon!QuarantineSafe, Daemon!TenureBlock
  <2> QED
    BY <2>1, <2>2, <2>3
    DEF Daemon!Next, Daemon!Acquire, Daemon!Heartbeat, Daemon!Stops, Daemon!Hangs,
        Daemon!Launchd, Daemon!Watchdog, Daemon!CheckFails, Daemon!CheckClears,
        Daemon!Maintenance, Daemon!Menu, Daemon!vars
<1> QED
  BY <1>0, <1>3, <1>4 DEF SupervisionInv

(* The menu lets go of its child only when the child has ended and ends with
   success only without one, however its waits, launchd's daemon, the watchdog
   and faults interleave and whatever the deadlines are. *)
THEOREM ChildrenAreKept ==
    ASSUME Daemon!SupervisionAssumption
    PROVE  Daemon!Spec => [](Daemon!TypeOK /\ Daemon!ChildIsKept /\ Daemon!ExitIsClean)
<1>1. Daemon!Init => SupervisionInv
  BY SupervisionInit
<1>2. SupervisionInv /\ [Daemon!Next]_Daemon!vars => SupervisionInv'
  BY SupervisionStep
<1>3. SupervisionInv => Daemon!TypeOK /\ Daemon!ChildIsKept /\ Daemon!ExitIsClean
  BY DEF SupervisionInv, Daemon!ChildIsKept, Daemon!ExitIsClean, Handled
<1> QED
  BY <1>1, <1>2, <1>3, PTL DEF Daemon!Spec

(* A start is reported as running only with its child alive, the daemon's
   tenure held and a heartbeat written since the operator confirmed, whichever
   daemon holds the one and wrote the other, on a report with no check that
   keeps a daemon from running: the report judged is still the one that counts
   when the child has been seen alive after it. *)
THEOREM RunningIsConfirmed ==
    ASSUME Daemon!SupervisionAssumption
    PROVE  Daemon!Spec => [][Daemon!RunningIsConfirmedStep]_Daemon!vars
<1>1. Daemon!Init => SupervisionInv
  BY SupervisionInit
<1>2. SupervisionInv /\ [Daemon!Next]_Daemon!vars => SupervisionInv'
  BY SupervisionStep
<1>3. SupervisionInv /\ [Daemon!Next]_Daemon!vars => [Daemon!RunningIsConfirmedStep]_Daemon!vars
  <2> SUFFICES ASSUME SupervisionInv, Daemon!Next, status' = "running", status # "running"
               PROVE  Daemon!RunningIsConfirmedStep
    BY DEF Daemon!RunningIsConfirmedStep
  <2>1. Daemon!ReportRunning
    BY DEF Daemon!Next, Daemon!Supervisor, Daemon!AskStart, Daemon!StartBlocked, Daemon!Spawn,
           Daemon!ChildExited, Daemon!StillAlive, Daemon!LoadReport, Daemon!Judge, Daemon!Abort,
           Daemon!AskStop, Daemon!Stopped, Daemon!StopNothing, Daemon!Unconfirmed, Daemon!Leave,
           Daemon!CleanupConfirmed, Daemon!CleanupUnconfirmed, Daemon!Acquire, Daemon!Heartbeat,
           Daemon!Stops, Daemon!Hangs, Daemon!Launchd, Daemon!Watchdog, Daemon!Tick,
           Daemon!CheckFails, Daemon!CheckClears, Daemon!Maintenance, Daemon!Menu, Daemon!Ends
  <2>2. /\ Daemon!PoststartState(report) = "confirmed" /\ Daemon!Alive("child")
        /\ report.newer => newer
    BY <2>1 DEF Daemon!ReportRunning, SupervisionInv, Handled
  <2>3. /\ report.failing \in Checks \cup {"none"} /\ report.maint \in BOOLEAN
        /\ report.held \in BOOLEAN /\ report.newer \in BOOLEAN /\ report.fresh \in BOOLEAN
    <3>1. report \in Daemon!Report
      BY DEF SupervisionInv, Daemon!TypeOK
    <3> QED
      BY <3>1 DEF Daemon!Report
  <2>4. ~(~Daemon!ValidatedCommon(report) \/ Daemon!TenureBlock(report, TRUE)) /\ report.newer
           /\ report.held
    BY <2>2, <2>3
    DEF Daemon!PoststartState, Daemon!ValidatedCommon, Daemon!ObservationIsCurrent,
        Daemon!CommonSafety, Daemon!BudgetEvidenceSafe, Daemon!ScopedClear,
        Daemon!QuarantineSafe, Daemon!TenureBlock
  <2> QED
    BY <2>2, <2>3, <2>4
    DEF Daemon!RunningIsConfirmedStep, Daemon!ValidatedCommon, Daemon!CommonSafety,
        Daemon!BudgetEvidenceSafe, Daemon!ScopedClear, Daemon!QuarantineSafe,
        Daemon!TenureBlock, Daemon!SupervisionAssumption
<1> QED
  BY <1>1, <1>2, <1>3, PTL DEF Daemon!Spec
=============================================================================
