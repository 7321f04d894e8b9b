----------------------------- MODULE StartupGate -----------------------------
(***************************************************************************)
(* The startup reconciliation gate of orders/startup.py: every runtime     *)
(* that starts (bootstrap.py) opens a new generation of the gate, and      *)
(* orders are submitted only while the newest generation is proved to      *)
(* agree with the broker.  A runtime that reconciles may prove a           *)
(* generation another one has opened in the meantime.                      *)
(*                                                                         *)
(* The passes over orders and positions are OrderOutbox's and FillLedger's *)
(* subject; here they find the broker in agreement or not.  The row holds  *)
(* times, and readers distrust a row whose times are out of order.         *)
(***************************************************************************)
EXTENDS Naturals, FiniteSets

CONSTANTS Runtimes,  \* the processes that start
          Apps,      \* those of the role "app", which serve without a proof
          MaxTime, MaxKills, MaxDrifts, MaxGenerations   \* bounds

NoHolder == "nobody"

GateAssumption ==
    /\ NoHolder \notin Runtimes
    /\ Apps \subseteq Runtimes
    /\ {MaxTime, MaxKills, MaxDrifts, MaxGenerations} \subseteq Nat

VARIABLES
    now,      \* the wall clock, which does not step back
    row,      \* the StartupReconciliationState of the broker
    pc,       \* what each runtime is doing
    stamp,    \* the clock reading it took before it waited for the barrier
    holder,   \* the runtime that holds the writer barrier
    target,   \* the generation the holder reconciles
    agrees,   \* orders and positions of the broker match the local rows
    proved,   \* a whole pass agreed since the last runtime started (history)
    submits,  \* whether that was so when orders were submitted     (history)
    kills, drifts

vars == <<now, row, pc, stamp, holder, target, agrees, proved, submits, kills,
          drifts>>

Never == 0   \* no such time or generation
NoRow == [gen |-> 0, done |-> 0, st |-> "absent", started |-> Never,
          completed |-> Never, updated |-> Never]
Parts == {"orders", "positions"}
PCs == {"off", "require", "epoch", "orders", "positions", "complete", "fail",
        "serving", "refused"}

TypeOK ==
    /\ now \in 1..MaxTime
    /\ row.st \in {"absent", "required", "current", "failed"}
    /\ row.done <= row.gen
    /\ pc \in [Runtimes -> PCs]
    /\ \A p \in Runtimes : stamp[p] <= now
    /\ holder \in Runtimes \cup {NoHolder}
    /\ \A p \in Runtimes :
         pc[p] \in {"orders", "positions", "complete", "fail"} <=> holder = p
    /\ agrees \subseteq Parts
    /\ proved \in BOOLEAN /\ submits \subseteq BOOLEAN
    /\ kills \in 0..MaxKills
    /\ drifts \in 0..MaxDrifts

Init ==
    /\ now = 1
    /\ row = NoRow
    /\ pc = [p \in Runtimes |-> "off"]
    /\ stamp = [p \in Runtimes |-> Never]
    /\ holder = NoHolder
    /\ target = Never
    /\ agrees = Parts
    /\ proved = FALSE
    /\ submits = {}
    /\ kills = 0
    /\ drifts = 0

Goto(p, from, to) == pc[p] = from /\ pc' = [pc EXCEPT ![p] = to]

-----------------------------------------------------------------------------
(* validate_startup_reconciliation_snapshot, for a reader at time `at`. *)
Valid(r, at) ==
    /\ r.gen > 0
    /\ r.done <= r.gen
    /\ r.started <= r.updated /\ r.updated <= at
    /\ IF r.st = "current"
       THEN /\ r.done = r.gen
            /\ r.completed # Never
            /\ r.started <= r.completed /\ r.completed <= r.updated
       ELSE r.done < r.gen /\ r.completed = Never

IsCurrent(r, at) == r.st = "current" /\ Valid(r, at)

-----------------------------------------------------------------------------
(* A runtime starts.  require() reads the clock and then waits. *)
Start(p) ==
    /\ Goto(p, "off", "require")
    /\ row.gen + Cardinality({q \in Runtimes : pc[q] = "require"}) < MaxGenerations
    /\ stamp' = [stamp EXCEPT ![p] = now]
    /\ UNCHANGED <<now, row, holder, target, agrees, proved, submits, kills, drifts>>

(* Mutant: a proof that still stands is not asked for again. *)
RequireOnce(p) ==
    /\ Goto(p, "require", "epoch")
    /\ holder = NoHolder
    /\ row' = IF row.st = "current" THEN row
              ELSE [gen |-> row.gen + 1, done |-> row.done, st |-> "required",
                    started |-> stamp[p], completed |-> Never, updated |-> stamp[p]]
    /\ proved' = FALSE
    /\ stamp' = [stamp EXCEPT ![p] = now]
    /\ UNCHANGED <<now, holder, target, agrees, submits, kills, drifts>>

(* The new generation invalidates whatever was proved before. *)
require(p) ==
    /\ Goto(p, "require", "epoch")
    /\ holder = NoHolder
    /\ row' = [gen |-> row.gen + 1, done |-> row.done, st |-> "required",
               started |-> stamp[p], completed |-> Never, updated |-> stamp[p]]
    /\ proved' = FALSE
    /\ stamp' = [stamp EXCEPT ![p] = now]
    /\ UNCHANGED <<now, holder, target, agrees, submits, kills, drifts>>

(* The epoch is the newest one, whoever opened it, and nothing is left to  *)
(* do when another runtime has proved it.                                  *)
EnterEpoch(p) ==
    /\ holder = NoHolder
    /\ \/ /\ Goto(p, "epoch", "orders")
          /\ ~IsCurrent(row, now)
          /\ holder' = p
          /\ target' = row.gen
       \/ /\ Goto(p, "epoch", "serving")
          /\ IsCurrent(row, now)
          /\ UNCHANGED <<holder, target>>
    /\ UNCHANGED <<now, row, stamp, agrees, proved, submits, kills, drifts>>

SyncOrders(p) ==
    /\ pc[p] = "orders"
    /\ pc' = [pc EXCEPT ![p] = IF "orders" \in agrees THEN "positions" ELSE "fail"]
    /\ UNCHANGED <<now, row, stamp, holder, target, agrees, proved, submits, kills, drifts>>

ReconcilePositions(p) ==
    /\ pc[p] = "positions"
    /\ pc' = [pc EXCEPT ![p] = IF "positions" \in agrees THEN "complete" ELSE "fail"]
    /\ proved' = (proved \/ "positions" \in agrees)
    /\ UNCHANGED <<now, row, stamp, holder, target, agrees, submits, kills, drifts>>

(* The broker is not to be reached: the pass fails where it stands. *)
DependencyUnavailable(p) ==
    /\ pc[p] \in {"orders", "positions"}
    /\ pc' = [pc EXCEPT ![p] = "fail"]
    /\ UNCHANGED <<now, row, stamp, holder, target, agrees, proved, submits, kills, drifts>>

complete(p) ==
    /\ Goto(p, "complete", "serving")
    /\ row.gen = target
    /\ row' = [row EXCEPT !.done = target, !.st = "current",
                          !.completed = now, !.updated = now]
    /\ holder' = NoHolder
    /\ UNCHANGED <<now, stamp, target, agrees, proved, submits, kills, drifts>>

(* The failure is recorded.  The app serves all the same, so that an       *)
(* operator can see it; every other runtime ends.                          *)
fail(p) ==
    /\ pc[p] = "fail"
    /\ row' = IF row.gen # target \/ row.done >= target THEN row
              ELSE [row EXCEPT !.st = "failed", !.completed = Never, !.updated = now]
    /\ pc' = [pc EXCEPT ![p] = IF p \in Apps THEN "refused" ELSE "off"]
    /\ holder' = NoHolder
    /\ UNCHANGED <<now, stamp, target, agrees, proved, submits, kills, drifts>>

(* A runtime that serves submits an order, if the gate's row, read under   *)
(* the barrier, is current.                                                *)
Submit(p) ==
    /\ pc[p] \in {"serving", "refused"}
    /\ holder = NoHolder
    /\ IsCurrent(row, now)
    /\ submits' = submits \cup {proved}
    /\ UNCHANGED <<now, row, pc, stamp, holder, target, agrees, proved, kills, drifts>>

(* A runtime ends or is killed; the operating system drops its lock. *)
Stop(p) ==
    /\ pc[p] # "off"
    /\ kills < MaxKills
    /\ kills' = kills + 1
    /\ pc' = [pc EXCEPT ![p] = "off"]
    /\ holder' = IF holder = p THEN NoHolder ELSE holder
    /\ UNCHANGED <<now, row, stamp, target, agrees, proved, submits, drifts>>

Drift(part) ==
    /\ part \in agrees
    /\ drifts < MaxDrifts
    /\ drifts' = drifts + 1
    /\ agrees' = agrees \ {part}
    /\ UNCHANGED <<now, row, pc, stamp, holder, target, proved, submits, kills>>

Settle(part) ==
    /\ agrees' = agrees \cup {part}
    /\ part \notin agrees
    /\ UNCHANGED <<now, row, pc, stamp, holder, target, proved, submits, kills, drifts>>

Tick ==
    /\ now < MaxTime
    /\ now' = now + 1
    /\ UNCHANGED <<row, pc, stamp, holder, target, agrees, proved, submits, kills, drifts>>

Step(p) ==
    \/ require(p) \/ EnterEpoch(p) \/ SyncOrders(p)
    \/ ReconcilePositions(p) \/ complete(p) \/ fail(p)

Next ==
    \/ \E p \in Runtimes : Start(p) \/ Step(p) \/ DependencyUnavailable(p)
                           \/ Submit(p) \/ Stop(p)
    \/ \E part \in Parts : Drift(part) \/ Settle(part)
    \/ Tick

Spec == Init /\ [][Next]_vars

(* Runtimes go on with what they do. *)
Fairness == \A p \in Runtimes : WF_vars(Step(p))

-----------------------------------------------------------------------------
(* No order goes out unless a whole pass found the broker in agreement     *)
(* after the newest runtime had started.                                   *)
SubmittedUnderProof == FALSE \notin submits

(* reconcile_startup_epoch never reports ready, nor has any runtime go on  *)
(* to serve as reconciled, while readers of the row refuse it: only a      *)
(* newer generation takes the gate back.                                   *)
ReadyIsCurrent ==
    \A p \in Runtimes :
        pc[p] = "serving" /\ row.st = "current" => IsCurrent(row, now)

(* The gate as callers of the trading service rely on it: orders wait for  *)
(* the proof of the newest start, and who was told of a proof finds it     *)
(* accepted.                                                               *)
OrdersAwaitProof == SubmittedUnderProof /\ ReadyIsCurrent

(* A runtime that starts always comes to serve or ends: none waits for     *)
(* another's epoch for ever.                                               *)
StartEnds ==
    \A p \in Runtimes :
        pc[p] = "require" ~> pc[p] \in {"serving", "refused", "off"}

=============================================================================
