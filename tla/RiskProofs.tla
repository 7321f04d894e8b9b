----------------------------- MODULE RiskProofs -----------------------------
(***************************************************************************)
(* What the risk side promises: the startup gate lets no order out that a  *)
(* newer start has not been reconciled for, readers accept every row that  *)
(* says "current", a panic that reports "safe" has left nothing at work,   *)
(* and a reset clears what was observed.                                   *)
(*                                                                         *)
(* StartupGate is extended; EmergencyStop is an instance over constants    *)
(* and variables of its own.  The two share no state.                      *)
(***************************************************************************)
EXTENDS StartupGate, Integers, TLAPS

-----------------------------------------------------------------------------
(* The startup gate, for any number of runtimes, starts, kills and drifts. *)
(* The argument follows the writer barrier: only its holder proves, only a *)
(* free barrier lets a new generation in, so what the holder has proved is *)
(* about the newest generation when it writes the row.                     *)

RowType == [gen : Nat, done : Nat, st : {"absent", "required", "current", "failed"},
            started : Nat, completed : Nat, updated : Nat]
Inside == {"orders", "positions", "complete", "fail"}

Shape ==
    /\ now \in Nat /\ now > 0
    /\ row \in RowType
    /\ pc \in [Runtimes -> PCs]
    /\ stamp \in [Runtimes -> Nat]
    /\ target \in Nat
    /\ proved \in BOOLEAN

(* A runtime is inside the epoch exactly while it holds the barrier. *)
HolderInside == \A p \in Runtimes : pc[p] \in Inside <=> holder = p

(* A runtime about to complete has seen a whole pass agree, and the row    *)
(* says "current" only of such a pass.                                     *)
ProofStands ==
    /\ \A p \in Runtimes : pc[p] = "complete" => proved
    /\ row.st = "current" => proved

(* No reading of the clock is from the future. *)
Past ==
    /\ row.started <= now
    /\ \A p \in Runtimes : stamp[p] <= now

(* Whoever asks for the epoch has opened a generation, and a row that says *)
(* "current" is one that its readers accept.                               *)
Accepted ==
    /\ \A p \in Runtimes : pc[p] \in Inside \cup {"epoch"} => row.gen > 0
    /\ row.st = "current" => Valid(row, now)

IInv == Shape /\ HolderInside /\ ProofStands /\ Past /\ Accepted /\ SubmittedUnderProof

(* IInv holds before any runtime has started. *)
LEMMA InitIInv == ASSUME GateAssumption, Init PROVE IInv
<1>1. row \in RowType
  BY DEF Init, NoRow, RowType, Never
<1>2. proved \in BOOLEAN /\ ~proved
  BY Zenon DEF Init
<1>3. /\ now \in Nat /\ now > 0 /\ pc \in [Runtimes -> PCs]
      /\ stamp \in [Runtimes -> Nat] /\ target \in Nat
      /\ \A p \in Runtimes : pc[p] = "off" /\ stamp[p] <= now
      /\ row.st = "absent" /\ row.started <= now
      /\ holder = NoHolder
  BY DEF Init, NoRow, Never, PCs
<1>4. HolderInside
  BY <1>3 DEF HolderInside, Inside, GateAssumption
<1>5. ProofStands /\ Past /\ Accepted
  BY <1>3 DEF ProofStands, Past, Accepted, Inside
<1>6. SubmittedUnderProof
  BY DEF Init, SubmittedUnderProof
<1> QED
  BY <1>1, <1>2, <1>3, <1>4, <1>5, <1>6 DEF IInv, Shape

(* Time does not make an accepted row unacceptable. *)
LEMMA ValidStays ==
    ASSUME NEW r \in RowType, NEW t \in Nat, NEW u \in Nat, t <= u, Valid(r, t)
    PROVE  Valid(r, u)
  BY DEF Valid, RowType

(* What complete writes. *)
Written(r, d, t) == [r EXCEPT !.done = d, !.st = "current", !.completed = t, !.updated = t]

(* Each field of what complete writes. *)
LEMMA CompletedRow ==
    ASSUME NEW r \in RowType, NEW d \in Nat, NEW t \in Nat
    PROVE  /\ Written(r, d, t) \in RowType
           /\ Written(r, d, t).gen = r.gen
           /\ Written(r, d, t).done = d
           /\ Written(r, d, t).st = "current"
           /\ Written(r, d, t).started = r.started
           /\ Written(r, d, t).completed = t
           /\ Written(r, d, t).updated = t
  BY DEF RowType, Written

(* A step that writes neither row nor proof and lets nobody complete. *)
LEMMA QuietStep ==
    ASSUME GateAssumption, IInv, HolderInside',
           row' = row, proved' = proved, submits' = submits, target' \in Nat,
           now' \in Nat, now <= now',
           pc' \in [Runtimes -> PCs], stamp' \in [Runtimes -> Nat],
           \A p \in Runtimes : /\ pc'[p] = "complete" => pc[p] = "complete"
                               /\ pc'[p] \in Inside \cup {"epoch"}
                                  => pc[p] \in Inside \cup {"epoch"}
                               /\ stamp'[p] <= now'
    PROVE  IInv'
<1>1. Shape'
  BY DEF IInv, Shape
<1>2. ProofStands'
  BY DEF IInv, ProofStands
<1>3. Past'
  BY DEF IInv, Past, Shape, RowType
<1>4. Accepted'
  BY ValidStays DEF IInv, Accepted, Shape
<1>5. SubmittedUnderProof'
  BY DEF IInv, SubmittedUnderProof
<1> QED
  BY <1>1, <1>2, <1>3, <1>4, <1>5 DEF IInv

(* require opens a generation only while nobody is inside, and withdraws   *)
(* what was proved before.                                                 *)
LEMMA RequireStep ==
    ASSUME GateAssumption, IInv, NEW p \in Runtimes, require(p)
    PROVE  IInv'
<1> DEFINE r == [gen |-> row.gen + 1, done |-> row.done, st |-> "required",
                 started |-> stamp[p], completed |-> Never, updated |-> stamp[p]]
<1>1. /\ pc' = [pc EXCEPT ![p] = "epoch"] /\ holder = NoHolder /\ holder' = holder
      /\ row' = r /\ stamp' = [stamp EXCEPT ![p] = now]
      /\ now' = now /\ target' = target /\ submits' = submits
  BY DEF require, Goto
<1>2. ~proved' /\ proved' \in BOOLEAN
  BY Zenon DEF require
<1>3. r \in RowType /\ r.st = "required" /\ r.started <= now /\ r.gen > 0
  BY DEF IInv, Shape, Past, RowType, Never
<1>4. /\ now \in Nat /\ now > 0 /\ target \in Nat
      /\ pc \in [Runtimes -> PCs] /\ stamp \in [Runtimes -> Nat]
  BY DEF IInv, Shape
<1> HIDE DEF r
<1>5. Shape'
  BY <1>1, <1>2, <1>3, <1>4 DEF Shape, PCs
<1>6. /\ \A q \in Runtimes : pc'[q] \notin Inside
      /\ HolderInside'
  BY <1>1, <1>4 DEF IInv, HolderInside, Inside, GateAssumption
<1>7. ProofStands'
  BY <1>1, <1>3, <1>6 DEF ProofStands, Inside
<1>8. Past' /\ Accepted'
  BY <1>1, <1>3, <1>4 DEF IInv, Past, Accepted
<1>9. SubmittedUnderProof'
  BY <1>1 DEF IInv, SubmittedUnderProof
<1> QED
  BY <1>5, <1>6, <1>7, <1>8, <1>9 DEF IInv

(* complete writes "current" of the generation whose pass has agreed, with *)
(* the clock read under the barrier.                                       *)
LEMMA CompleteStep ==
    ASSUME GateAssumption, IInv, NEW p \in Runtimes, complete(p)
    PROVE  IInv'
<1> DEFINE r == Written(row, target, now)
<1>1. /\ pc[p] = "complete" /\ pc' = [pc EXCEPT ![p] = "serving"]
      /\ row.gen = target /\ row' = r /\ holder' = NoHolder
      /\ now' = now /\ stamp' = stamp /\ target' = target
      /\ proved' = proved /\ submits' = submits
  BY DEF complete, Goto, Written
<1>2. /\ now \in Nat /\ now > 0 /\ target \in Nat /\ row \in RowType
      /\ pc \in [Runtimes -> PCs] /\ stamp \in [Runtimes -> Nat] /\ proved \in BOOLEAN
  BY DEF IInv, Shape
<1>3. row.gen > 0 /\ row.started <= now /\ holder = p /\ proved
  BY <1>1, <1>2 DEF IInv, Accepted, Past, HolderInside, ProofStands, Inside
<1>4. /\ r \in RowType
      /\ r.gen = target /\ r.done = target /\ r.st = "current" /\ r.started = row.started
      /\ r.completed = now /\ r.updated = now
  <2>1. /\ Written(row, target, now) \in RowType
        /\ Written(row, target, now).gen = row.gen
        /\ Written(row, target, now).done = target
        /\ Written(row, target, now).st = "current"
        /\ Written(row, target, now).started = row.started
        /\ Written(row, target, now).completed = now
        /\ Written(row, target, now).updated = now
    BY ONLY <1>2, CompletedRow
  <2> QED
    BY <1>1, <2>1
<1> HIDE DEF r
<1>5. r \in RowType /\ Valid(r, now) /\ r.started <= now /\ r.gen > 0
  BY <1>1, <1>2, <1>3, <1>4 DEF RowType, Valid, Never
<1>6. Shape'
  BY <1>1, <1>2, <1>5 DEF Shape, PCs
<1>7. HolderInside'
  BY <1>1, <1>2, <1>3 DEF IInv, HolderInside, Inside, GateAssumption
<1>8. ProofStands'
  BY <1>1, <1>3 DEF ProofStands
<1>9. Past' /\ Accepted'
  BY <1>1, <1>2, <1>5 DEF IInv, Past, Accepted
<1>10. SubmittedUnderProof'
  BY <1>1 DEF IInv, SubmittedUnderProof
<1> QED
  BY <1>6, <1>7, <1>8, <1>9, <1>10 DEF IInv

(* fail gives the barrier back and never makes a row current. *)
LEMMA FailStep ==
    ASSUME GateAssumption, IInv, NEW p \in Runtimes, fail(p)
    PROVE  IInv'
<1>1. PICK to \in {"refused", "off"} :
        /\ pc[p] = "fail" /\ pc' = [pc EXCEPT ![p] = to] /\ holder' = NoHolder
        /\ now' = now /\ stamp' = stamp /\ target' = target
        /\ proved' = proved /\ submits' = submits
  BY DEF fail
<1>2. /\ now \in Nat /\ now > 0 /\ target \in Nat /\ row \in RowType
      /\ pc \in [Runtimes -> PCs] /\ stamp \in [Runtimes -> Nat] /\ proved \in BOOLEAN
  BY DEF IInv, Shape
<1>3. holder = p
  BY <1>1 DEF IInv, HolderInside, Inside
<1>4. HolderInside'
  BY <1>1, <1>2, <1>3 DEF IInv, HolderInside, Inside, GateAssumption
<1>5. pc' \in [Runtimes -> PCs] /\ \A q \in Runtimes : pc'[q] = pc[q]
         \/ pc'[q] \in {"refused", "off"}
  BY <1>1, <1>2 DEF PCs
<1>6. CASE row' = row
  BY <1>1, <1>2, <1>4, <1>5, <1>6, QuietStep DEF IInv, Past, Inside
<1>7. CASE row' = [row EXCEPT !.st = "failed", !.completed = Never, !.updated = now]
  <2>1. /\ row' \in RowType /\ row'.st = "failed" /\ row'.started = row.started
        /\ row'.gen = row.gen
    BY <1>2, <1>7 DEF RowType, Never
  <2>2. Shape'
    BY <1>1, <1>2, <1>5, <2>1 DEF Shape
  <2>3. ProofStands'
    BY <1>1, <1>5, <2>1 DEF IInv, ProofStands
  <2>4. Past' /\ Accepted'
    BY <1>1, <1>5, <2>1 DEF IInv, Past, Accepted, Inside
  <2>5. SubmittedUnderProof'
    BY <1>1 DEF IInv, SubmittedUnderProof
  <2> QED
    BY <1>4, <2>2, <2>3, <2>4, <2>5 DEF IInv
<1> QED
  BY <1>6, <1>7 DEF fail

(* A pass that agrees proves the generation; the others change no proof. *)
LEMMA PassStep ==
    ASSUME GateAssumption, IInv, NEW p \in Runtimes,
           SyncOrders(p) \/ ReconcilePositions(p) \/ DependencyUnavailable(p)
    PROVE  IInv'
<1>1. PICK to \in {"positions", "complete", "fail"} :
        /\ pc[p] \in {"orders", "positions"} /\ pc' = [pc EXCEPT ![p] = to]
        /\ to = "complete" => proved'
        /\ proved => proved'
        /\ now' = now /\ stamp' = stamp /\ target' = target /\ row' = row
        /\ submits' = submits /\ holder' = holder
        /\ proved' \in BOOLEAN
  <2>0. proved \in BOOLEAN
    BY DEF IInv, Shape
  <2>1. CASE SyncOrders(p)
    BY <2>0, <2>1 DEF SyncOrders
  <2>2. CASE ReconcilePositions(p)
    BY <2>0, <2>2 DEF ReconcilePositions
  <2>3. CASE DependencyUnavailable(p)
    BY <2>0, <2>3 DEF DependencyUnavailable
  <2> QED
    BY <2>1, <2>2, <2>3
<1>2. /\ pc \in [Runtimes -> PCs] /\ to \in PCs /\ to \in Inside /\ pc[p] \in Inside
  BY <1>1 DEF IInv, Shape, PCs, Inside
<1>3. Shape'
  BY <1>1, <1>2 DEF IInv, Shape
<1>4. HolderInside'
  BY <1>1, <1>2 DEF IInv, HolderInside
<1>5. ProofStands'
  BY <1>1, <1>2 DEF IInv, ProofStands
<1>6. Past' /\ Accepted'
  BY <1>1, <1>2 DEF IInv, Past, Accepted
<1>7. SubmittedUnderProof'
  BY <1>1 DEF IInv, SubmittedUnderProof
<1> QED
  BY <1>3, <1>4, <1>5, <1>6, <1>7 DEF IInv

(* Every step of a runtime, of the broker or of the clock keeps IInv. *)
LEMMA NextIInv == ASSUME GateAssumption, IInv, [Next]_vars PROVE IInv'
<1>0. /\ now \in Nat /\ target \in Nat /\ row \in RowType
      /\ pc \in [Runtimes -> PCs] /\ stamp \in [Runtimes -> Nat]
      /\ \A q \in Runtimes : stamp[q] <= now
      /\ HolderInside
  BY DEF IInv, Shape, Past
<1>1. ASSUME NEW p \in Runtimes, Start(p) PROVE IInv'
  <2>1. /\ pc[p] = "off" /\ pc' = [pc EXCEPT ![p] = "require"]
        /\ stamp' = [stamp EXCEPT ![p] = now] /\ now' = now /\ row' = row
        /\ holder' = holder /\ target' = target /\ proved' = proved /\ submits' = submits
    BY <1>1 DEF Start, Goto
  <2>2. HolderInside'
    BY <1>0, <2>1 DEF HolderInside, Inside
  <2> QED
    BY <1>0, <2>1, <2>2, QuietStep DEF PCs, Inside
<1>2. ASSUME NEW p \in Runtimes, require(p) PROVE IInv'
  BY <1>2, RequireStep
<1>3. ASSUME NEW p \in Runtimes, EnterEpoch(p) PROVE IInv'
  <2>1. /\ pc[p] = "epoch" /\ holder = NoHolder
        /\ \/ pc' = [pc EXCEPT ![p] = "orders"] /\ holder' = p /\ target' = row.gen
           \/ pc' = [pc EXCEPT ![p] = "serving"] /\ holder' = holder /\ target' = target
        /\ now' = now /\ row' = row /\ stamp' = stamp
        /\ proved' = proved /\ submits' = submits
    BY <1>3 DEF EnterEpoch, Goto
  <2>2. HolderInside'
    BY <1>0, <2>1 DEF HolderInside, Inside, GateAssumption
  <2>3. target' \in Nat
    BY <1>0, <2>1 DEF RowType
  <2> QED
    BY <1>0, <2>1, <2>2, <2>3, QuietStep DEF PCs, Inside
<1>4. ASSUME NEW p \in Runtimes,
             SyncOrders(p) \/ ReconcilePositions(p) \/ DependencyUnavailable(p)
      PROVE  IInv'
  BY <1>4, PassStep
<1>5. ASSUME NEW p \in Runtimes, complete(p) PROVE IInv'
  BY <1>5, CompleteStep
<1>6. ASSUME NEW p \in Runtimes, fail(p) PROVE IInv'
  BY <1>6, FailStep
<1>7. ASSUME NEW p \in Runtimes, Submit(p) PROVE IInv'
  <2>1. /\ row.st = "current" /\ submits' = submits \cup {proved}
        /\ UNCHANGED <<now, row, pc, stamp, holder, target, proved>>
    BY <1>7 DEF Submit, IsCurrent
  <2>2. proved # FALSE
    BY <2>1 DEF IInv, ProofStands
  <2>3. SubmittedUnderProof'
    BY <2>1, <2>2 DEF IInv, SubmittedUnderProof
  <2>4. Shape' /\ HolderInside' /\ ProofStands' /\ Past' /\ Accepted'
    BY <2>1 DEF IInv, Shape, HolderInside, ProofStands, Past, Accepted
  <2> QED
    BY <2>3, <2>4 DEF IInv
<1>8. ASSUME NEW p \in Runtimes, Stop(p) PROVE IInv'
  <2>1. /\ pc' = [pc EXCEPT ![p] = "off"]
        /\ holder' = IF holder = p THEN NoHolder ELSE holder
        /\ UNCHANGED <<now, row, stamp, target, proved, submits>>
    BY <1>8 DEF Stop
  <2>2. HolderInside'
    BY <1>0, <2>1 DEF HolderInside, Inside, GateAssumption
  <2> QED
    BY <1>0, <2>1, <2>2, QuietStep DEF PCs, Inside
<1>9. CASE \/ \E part \in Parts : Drift(part) \/ Settle(part)
           \/ Tick \/ UNCHANGED vars
  <2>1. /\ UNCHANGED <<row, pc, stamp, holder, target, proved, submits>>
        /\ now' \in {now, now + 1}
    BY <1>9 DEF Drift, Settle, Tick, vars
  <2>2. HolderInside'
    BY <1>0, <2>1 DEF HolderInside
  <2> QED
    BY <1>0, <2>1, <2>2, QuietStep
<1> QED
  BY <1>1, <1>2, <1>3, <1>4, <1>5, <1>6, <1>7, <1>8, <1>9 DEF Next, Step

(* No order goes out unless a whole pass found the broker in agreement     *)
(* after the newest runtime had started.                                   *)
THEOREM ProofPrecedesOrders == ASSUME GateAssumption PROVE Spec => []SubmittedUnderProof
<1>1. IInv => SubmittedUnderProof
  BY DEF IInv
<1> QED
  BY <1>1, InitIInv, NextIInv, PTL DEF Spec

(* A runtime that serves as reconciled reads a row that says "current" as  *)
(* current: no order of its clock readings makes readers refuse it.        *)
THEOREM CurrentIsAccepted == ASSUME GateAssumption PROVE Spec => []ReadyIsCurrent
<1>1. IInv => ReadyIsCurrent
  BY DEF IInv, Accepted, ReadyIsCurrent, IsCurrent
<1> QED
  BY <1>1, InitIInv, NextIInv, PTL DEF Spec

(* The startup gate holds what the trading service relies on, for any      *)
(* number of runtimes that start, die and prove each other's generations.  *)
THEOREM GateIsSafe == ASSUME GateAssumption PROVE Spec => []OrdersAwaitProof
  BY ProofPrecedesOrders, CurrentIsAccepted, PTL DEF OrdersAwaitProof

-----------------------------------------------------------------------------
(* The emergency stop.  That "safe" is quiet is inductive only with what   *)
(* the rows say of the broker (Books), with what the deciding panic has    *)
(* listed (AllListed) and with the breaker it holds (Stopped).             *)

CONSTANTS Orders, ByRule, Exits, Scopes, Operators, Qty, MaxGen, Panics
VARIABLES ord, rule, breaker, net, beyond, panic, panics, verdict, seen, health

Halt == INSTANCE EmergencyStop

Row == [status : {"none", "approved", "rejected"} \cup Halt!LocalLive \cup Halt!Ended,
        latched : BOOLEAN, ledger : 0 .. Qty]
Remote == [state : {"none", "inflight", "lost", "open", "cancelling"} \cup Halt!Ended,
           filled : 0 .. Qty]
Breaker == [tripped : BOOLEAN, gen : 0 .. MaxGen]
Run == [at : {"idle", "rules", "resolve", "list", "cancel", "final", "decide"},
        todo : SUBSET Orders, listed : SUBSET Orders, open : SUBSET Orders,
        failed : BOOLEAN, faults : BOOLEAN]

(* What a row says of an order that the broker has, or may get: a request  *)
(* on its way is in doubt, an end is the broker's, the ledger is never     *)
(* ahead, and what has ended is booked or latched.                         *)
Agree(rec, at) ==
    /\ at.state = "inflight" => rec.status \in Halt!Unresolved
    /\ rec.status \in Halt!Ended => at.state \in Halt!Ended
    /\ rec.status \in {"none", "approved", "rejected"} => at.state = "none"
    /\ at.state # "filled" => at.filled < Qty
    /\ rec.ledger <= at.filled
    /\ rec.status \in Halt!Unresolved \cup {"none", "approved", "rejected"} => rec.ledger = 0
    /\ rec.status \in Halt!Ended /\ ~rec.latched => rec.ledger = at.filled

Books(rows, remote) ==
    /\ rows \in [Orders -> Row] /\ remote \in [Orders -> Remote]
    /\ \A o \in Orders : Agree(rows[o], remote[o])

Breakers(b) == b \in [Scopes -> Breaker] /\ \A s \in Scopes : b[s].tripped => b[s].gen > 0

Others ==
    /\ rule \in {"active", "canceled"} /\ beyond \in BOOLEAN
    /\ panics \in 0 .. Panics /\ verdict \in {"none", "safe", "unsafe"}
    /\ seen \in [Operators -> [Scopes -> 0 .. MaxGen]]
    /\ health \in [Operators -> SUBSET Scopes]

(* The breaker a panic latches stays latched while it runs. *)
Stopped == panic.at # "idle" => breaker["operator_global"].tripped

(* When the panic decides, an order that is open is on its list, unless it *)
(* has come out of a request that is still in doubt.                       *)
AllListed ==
    panic.at = "decide" /\ ~panic.failed =>
        \A o \in Orders : net[o].state \in {"open", "cancelling"} =>
            o \in panic.open \/ ord[o].status \in Halt!Unresolved

(* After a verdict "safe" nothing is left that could be sent. *)
Quiet ==
    verdict = "safe" =>
        /\ \A o \in Orders : /\ net[o].state \notin {"inflight", "open", "cancelling"}
                             /\ ord[o].status \notin Halt!LocalLive \cup {"approved"}
        /\ rule = "canceled" /\ breaker["operator_global"].tripped

StopInv ==
    /\ Books(ord, net) /\ Breakers(breaker) /\ panic \in Run /\ Others
    /\ Stopped /\ AllListed /\ Quiet

(* One row is written, to what agrees with the broker. *)
LEMMA RowWritten ==
    ASSUME Books(ord, net), NEW o \in Orders, NEW rec \in Row, Agree(rec, net[o])
    PROVE  Books([ord EXCEPT ![o] = rec], net)
BY DEF Books

(* The broker moves one order, to a state its row agrees with. *)
LEMMA RemoteMoved ==
    ASSUME Books(ord, net), NEW o \in Orders, NEW at \in Remote, Agree(ord[o], at)
    PROVE  Books(ord, [net EXCEPT ![o] = at])
BY DEF Books

(* A trip latches its scope and releases none (trip_in_session). *)
LEMMA Tripped ==
    ASSUME Halt!StopAssumption, Breakers(breaker), NEW s \in Scopes, Halt!Room(s)
    PROVE  /\ Breakers(Halt!TripInSession(breaker, s))
           /\ \A t \in Scopes : breaker[t].tripped => Halt!TripInSession(breaker, s)[t].tripped
           /\ Halt!TripInSession(breaker, s)[s].tripped
BY DEF Breakers, Breaker, Halt!Room, Halt!TripInSession, Halt!StopAssumption

(* The invariant holds before anything is approved. *)
LEMMA StopInit == ASSUME Halt!StopAssumption, Halt!Init PROVE StopInv
<1>1. Books(ord, net)
  BY DEF Halt!Init, Books, Row, Remote, Agree, Halt!StopAssumption, Halt!Unresolved,
         Halt!Ended, Halt!LocalLive
<1>2. Breakers(breaker)
  BY DEF Halt!Init, Breakers, Breaker, Halt!StopAssumption
<1>3. panic \in Run /\ Stopped /\ AllListed
  BY DEF Halt!Init, Run, Halt!Idle, Stopped, AllListed
<1>4. beyond \in BOOLEAN
  BY Zenon DEF Halt!Init
<1>5. Others /\ Quiet
  BY <1>4 DEF Halt!Init, Others, Quiet, Halt!StopAssumption
<1> QED
  BY <1>1, <1>2, <1>3, <1>5 DEF StopInv

(* What an answer of the broker makes of a row. *)
LEMMA AnsweredRow ==
    ASSUME Halt!StopAssumption, Books(ord, net), NEW o \in Orders, Halt!Answered(o)
    PROVE  /\ (net[o].filled > 0) \in BOOLEAN
           /\ Halt!StatusOf(o) \in {"submitted", "partial"} \cup Halt!Ended
           /\ Halt!StatusOf(o) \in Halt!Ended <=> net[o].state \in Halt!Ended
BY DEF Halt!Answered, Halt!StatusOf, Halt!Ended, Books, Remote

(* A row that takes over the state of the broker and is latched when shares
   were executed agrees with the broker. *)
LEMMA LatchedAgree ==
    ASSUME NEW o \in Orders, NEW rec, Agree(ord[o], net[o]), net[o].filled \in 0 .. Qty,
           rec.status \in {"submitted", "partial"} \cup Halt!Ended,
           rec.status \in Halt!Ended <=> net[o].state \in Halt!Ended,
           net[o].state \notin {"none", "inflight"},
           rec.ledger = 0, net[o].filled > 0 => rec.latched
    PROVE  Agree(rec, net[o])
<1>1. rec.ledger <= net[o].filled /\ (~rec.latched => rec.ledger = net[o].filled)
  OBVIOUS
<1>2. net[o].state # "filled" => net[o].filled < Qty
  BY Zenon DEF Agree
<1> QED
  BY <1>1, <1>2 DEF Agree, Halt!Unresolved, Halt!Ended

(* Approval, submission, reconciliation and every move of the broker keep the
   invariant. *)
LEMMA OrderStepKeeps ==
    ASSUME Halt!StopAssumption, StopInv, NEW o \in Orders, Halt!OrderStep(o) PROVE StopInv'
<1>0. /\ Books(ord, net) /\ ord \in [Orders -> Row] /\ net \in [Orders -> Remote]
      /\ ord[o] \in Row /\ net[o] \in Remote /\ Agree(ord[o], net[o])
      /\ ord[o].ledger \in 0 .. Qty /\ net[o].filled \in 0 .. Qty /\ Qty \in Nat
      /\ Breakers(breaker) /\ panic \in Run /\ Others
      /\ Stopped /\ AllListed /\ Quiet
  BY DEF StopInv, Books, Row, Remote, Halt!StopAssumption
<1>f. /\ UNCHANGED <<rule, breaker, panic, panics, beyond, seen, health>>
      /\ verdict' \in {verdict, "none"}
  BY DEF Halt!OrderStep, Halt!Approve, Halt!Reject, Halt!Send, Halt!Answer,
         Halt!NoAnswer, Halt!Reconcile, Halt!Deliver, Halt!Fill, Halt!Canceled,
         Halt!operatorVars
<1>g. Breakers(breaker') /\ panic' \in Run /\ Others' /\ Stopped'
  BY <1>0, <1>f DEF Others, Stopped
<1>1. ASSUME NEW rec \in Row, Agree(rec, net[o]), Halt!Free, ord' = [ord EXCEPT ![o] = rec],
             net' = net, verdict' = "safe" => rec.status \notin Halt!LocalLive \cup {"approved"}
      PROVE  StopInv'
  <2>1. Books(ord', net')
    BY <1>0, <1>1, RowWritten
  <2>2. Quiet'
    BY <1>0, <1>1, <1>f DEF Quiet
  <2>3. AllListed'
    BY <1>1, <1>f DEF AllListed, Halt!Free
  <2> QED
    BY <1>g, <2>1, <2>2, <2>3 DEF StopInv
<1>2. ASSUME NEW at \in Remote, Agree(ord[o], at), net' = [net EXCEPT ![o] = at],
             ord' = ord, net[o].state \in {"inflight", "open", "cancelling"},
             at.state \in {"open", "cancelling"} =>
                 net[o].state \in {"open", "cancelling"} \/ ord[o].status \in Halt!Unresolved
      PROVE  StopInv'
  <2>1. Books(ord', net')
    BY <1>0, <1>2, RemoteMoved
  <2>2. Quiet'
    BY <1>0, <1>2, <1>f DEF Quiet
  <2>3. AllListed'
    BY <1>0, <1>2, <1>f DEF AllListed
  <2> QED
    BY <1>g, <2>1, <2>2, <2>3 DEF StopInv
<1> USE DEF Row, Remote, Agree, Halt!Ended, Halt!Unresolved, Halt!LocalLive
<1>3. CASE Halt!Approve(o)
  <2> DEFINE rec == [ord[o] EXCEPT !.status = "approved"]
  <2>1. rec \in Row /\ Agree(rec, net[o])
    BY <1>0, <1>3 DEF Halt!Approve
  <2>2. ord' = [ord EXCEPT ![o] = rec] /\ net' = net /\ verdict' = "none" /\ Halt!Free
    BY <1>0, <1>3 DEF Halt!Approve
  <2> HIDE DEF rec
  <2> QED
    BY <1>1, <2>1, <2>2
<1>4. CASE Halt!Reject(o)
  <2> DEFINE rec == [ord[o] EXCEPT !.status = "rejected"]
  <2>1. rec \in Row /\ Agree(rec, net[o]) /\ rec.status = "rejected"
    BY <1>0, <1>4 DEF Halt!Reject
  <2>2. ord' = [ord EXCEPT ![o] = rec] /\ net' = net /\ Halt!Free
    BY <1>0, <1>4 DEF Halt!Reject
  <2> HIDE DEF rec
  <2> QED
    BY <1>1, <2>1, <2>2
<1>5. CASE Halt!Send(o)
  <2> DEFINE rec == [ord[o] EXCEPT !.status = "submitting"]
             at == [net[o] EXCEPT !.state = "inflight"]
  <2>0. ord[o].status = "approved"
    BY <1>5 DEF Halt!Send
  <2>1. rec \in Row /\ at \in Remote /\ Agree(rec, at) /\ verdict # "safe"
    BY <1>0, <2>0 DEF Quiet
  <2>2. /\ ord' = [ord EXCEPT ![o] = rec] /\ net' = [net EXCEPT ![o] = at] /\ Halt!Free
        /\ verdict' = verdict
    BY <1>0, <1>5 DEF Halt!Send
  <2> HIDE DEF rec, at, Row, Remote, Agree
  <2>3. Books(ord', net')
    BY <1>0, <2>1, <2>2 DEF Books
  <2>4. Quiet' /\ AllListed'
    BY <1>f, <2>1, <2>2 DEF Quiet, AllListed, Halt!Free
  <2> QED
    BY <1>g, <2>3, <2>4 DEF StopInv
<1>6. CASE Halt!Answer(o)
  <2> DEFINE rec == [ord[o] EXCEPT !.status = Halt!StatusOf(o), !.latched = net[o].filled > 0]
  <2>0. Halt!Answered(o) /\ ord[o].status = "submitting"
    BY <1>6 DEF Halt!Answer
  <2>s. /\ (net[o].filled > 0) \in BOOLEAN
           /\ Halt!StatusOf(o) \in {"submitted", "partial"} \cup Halt!Ended
        /\ Halt!StatusOf(o) \in Halt!Ended <=> net[o].state \in Halt!Ended
        /\ net[o].state \notin {"none", "inflight"}
    BY <1>0, <2>0, AnsweredRow DEF Halt!Answered
  <2>1. rec \in Row /\ Agree(rec, net[o]) /\ verdict # "safe"
    <3>1. rec \in Row
      BY <1>0, <2>s
    <3>2. /\ rec.status = Halt!StatusOf(o) /\ rec.latched = (net[o].filled > 0)
          /\ rec.ledger = 0
      BY <1>0, <2>0
    <3>q. Agree(ord[o], net[o]) /\ net[o].filled \in 0 .. Qty
      BY <1>0
    <3>4. verdict # "safe"
      BY <1>0, <2>0 DEF Quiet
    <3> HIDE DEF rec, Row, Remote, Agree
    <3>p. net[o].filled > 0 => rec.latched
      BY <3>2, Zenon
    <3>3. Agree(rec, net[o])
      BY <2>s, <3>2, <3>p, <3>q, LatchedAgree
    <3> QED
      BY <3>1, <3>3, <3>4
  <2>2. ord' = [ord EXCEPT ![o] = rec] /\ net' = net /\ Halt!Free /\ verdict' = verdict
    BY <1>0, <1>6 DEF Halt!Answer
  <2> HIDE DEF rec
  <2> QED
    BY <1>1, <2>1, <2>2
<1>7. CASE Halt!NoAnswer(o)
  <2> DEFINE rec == [ord[o] EXCEPT !.status = "unknown"]
  <2>1. rec \in Row /\ Agree(rec, net[o]) /\ verdict # "safe"
    BY <1>0, <1>7 DEF Halt!NoAnswer, Quiet
  <2>2. ord' = [ord EXCEPT ![o] = rec] /\ net' = net /\ Halt!Free /\ verdict' = verdict
    BY <1>0, <1>7 DEF Halt!NoAnswer
  <2> HIDE DEF rec
  <2> QED
    BY <1>1, <2>1, <2>2
<1>8. CASE Halt!Reconcile(o)
  <2> DEFINE rec == [status |-> Halt!StatusOf(o), latched |-> FALSE, ledger |-> net[o].filled]
  <2>0. Halt!Answered(o) /\ ord[o].status \notin {"none", "approved", "rejected"}
    BY <1>8 DEF Halt!Reconcile
  <2>s. /\ Halt!StatusOf(o) \in {"submitted", "partial"} \cup Halt!Ended
        /\ Halt!StatusOf(o) \in Halt!Ended <=> net[o].state \in Halt!Ended
        /\ net[o].state \notin {"none", "inflight"} /\ net[o].filled \in 0 .. Qty
    BY <1>0, <2>0, AnsweredRow DEF Halt!Answered
  <2>1. rec \in Row /\ Agree(rec, net[o])
    <3>1. rec \in Row
      BY <2>s
    <3>2. Agree(rec, net[o])
      BY <1>0, <2>s
    <3> QED
      BY <3>1, <3>2
  <2>2. ord' = [ord EXCEPT ![o] = rec] /\ net' = net /\ Halt!Free /\ verdict' = verdict
    BY <1>0, <1>8 DEF Halt!Reconcile
  <2>3. verdict = "safe" => rec.status \in Halt!Ended
    <3> SUFFICES ASSUME verdict = "safe" PROVE rec.status \in Halt!Ended
      OBVIOUS
    <3>1. ord[o].status \in Halt!Ended
      BY <1>0, <2>0 DEF Quiet
    <3> QED
      BY <1>0, <2>0, <3>1, AnsweredRow
  <2> HIDE DEF rec
  <2> QED
    BY <1>1, <2>1, <2>2, <2>3
<1>9. CASE Halt!Deliver(o)
  <2>1. PICK s \in {"open", "lost"} : net' = [net EXCEPT ![o] = [net[o] EXCEPT !.state = s]]
    BY <1>0, <1>9 DEF Halt!Deliver
  <2> DEFINE at == [net[o] EXCEPT !.state = s]
  <2>2. /\ at \in Remote /\ Agree(ord[o], at) /\ net[o].state = "inflight"
        /\ ord[o].status \in Halt!Unresolved /\ ord' = ord
    BY <1>0, <1>9 DEF Halt!Deliver
  <2> HIDE DEF at
  <2> QED
    BY <1>2, <2>1, <2>2 DEF at
<1>10. CASE Halt!Fill(o)
  <2> DEFINE at == [state |-> IF net[o].filled + 1 = Qty THEN "filled" ELSE net[o].state,
                    filled |-> net[o].filled + 1]
  <2>1. net[o].state \in {"open", "cancelling"} /\ ord' = ord /\ net' = [net EXCEPT ![o] = at]
    BY <1>10 DEF Halt!Fill
  <2>2. at \in Remote
    BY <1>0, <2>1
  <2>3. Agree(ord[o], at)
    <3>0. net[o].filled < Qty /\ ord[o].ledger <= net[o].filled
      BY <1>0, <2>1, Zenon DEF Agree
    <3>a. /\ at.filled = net[o].filled + 1
          /\ at.state = IF net[o].filled + 1 = Qty THEN "filled" ELSE net[o].state
      BY Zenon
    <3>1. /\ at.filled = net[o].filled + 1 /\ ord[o].ledger <= at.filled
          /\ at.state # "filled" => at.filled < Qty
      <4> HIDE DEF at
      <4>1. at.filled <= Qty /\ ord[o].ledger <= at.filled
        BY <1>0, <3>0, <3>a
      <4>2. at.filled = Qty \/ at.filled < Qty
        BY <1>0, <3>0, <3>a
      <4> QED
        BY <3>a, <4>1, <4>2, Zenon
    <3>2. at.state \notin {"none", "inflight"} /\ ord[o].status \notin Halt!Ended
      BY <1>0, <2>1
    <3> HIDE DEF at
    <3> QED
      BY <1>0, <2>1, <3>1, <3>2
  <2> HIDE DEF at
  <2> QED
    BY <1>2, <2>1, <2>2, <2>3
<1>11. CASE Halt!Canceled(o)
  <2> DEFINE at == [net[o] EXCEPT !.state = "canceled"]
  <2>1. net[o].state = "cancelling" /\ ord' = ord /\ net' = [net EXCEPT ![o] = at]
    BY <1>0, <1>11 DEF Halt!Canceled
  <2>2. at \in Remote /\ Agree(ord[o], at)
    BY <1>0, <2>1
  <2> HIDE DEF at
  <2> QED
    BY <1>2, <2>1, <2>2
<1> QED
  BY <1>3, <1>4, <1>5, <1>6, <1>7, <1>8, <1>9, <1>10, <1>11 DEF Halt!OrderStep

(* So does every step of a panic, and a process that dies in it. *)
LEMMA PanicKeeps ==
    ASSUME Halt!StopAssumption, StopInv, Halt!Panic \/ Halt!PanicStep \/ Halt!Crash PROVE StopInv'
<1>0. /\ Books(ord, net) /\ ord \in [Orders -> Row] /\ net \in [Orders -> Remote]
      /\ \A o \in Orders : /\ ord[o] \in Row /\ net[o] \in Remote /\ Agree(ord[o], net[o])
      /\ Breakers(breaker) /\ panic \in Run /\ Others
      /\ Stopped /\ AllListed /\ Quiet
      /\ "broker_drift" \in Scopes /\ "operator_global" \in Scopes
  BY DEF StopInv, Books, Halt!StopAssumption
<1>i. Halt!Idle \in Run /\ Halt!Idle.at = "idle"
  BY DEF Halt!Idle, Run
<1>1. ASSUME panic' \in Run, panic'.at # "decide",
             UNCHANGED <<ord, rule, breaker, net, panics, verdict, beyond, seen, health>>,
             panic'.at = "idle" \/ panic.at # "idle"
      PROVE  StopInv'
  BY <1>0, <1>1 DEF StopInv, Others, Stopped, AllListed, Quiet
<1>2. CASE Halt!Panic
  <2>1. /\ breaker' = Halt!TripInSession(breaker, "operator_global") /\ Halt!Room("operator_global")
        /\ panic' = [Halt!Idle EXCEPT !.at = "rules"] /\ panics' \in 0 .. Panics
           /\ verdict' = "none"
        /\ UNCHANGED <<ord, rule, net, beyond, seen, health>>
    BY <1>0, <1>2 DEF Halt!Panic, Halt!operatorVars, Others, Halt!StopAssumption
  <2>2. Breakers(breaker') /\ breaker'["operator_global"].tripped
    BY <1>0, <2>1, Tripped
  <2>3. panic' \in Run /\ panic'.at = "rules"
    BY <2>1 DEF Halt!Idle, Run
  <2>4. Others'
    BY <1>0, <2>1 DEF Others
  <2>5. Stopped' /\ AllListed' /\ Quiet'
    BY <2>1, <2>2, <2>3 DEF Stopped, AllListed, Quiet
  <2> QED
    BY <1>0, <2>1, <2>2, <2>3, <2>4, <2>5 DEF StopInv
<1>3. CASE Halt!CancelRules
  <2>1. /\ rule' = "canceled" /\ panic' = [panic EXCEPT !.at = "resolve"] /\ panic.at = "rules"
        /\ UNCHANGED <<ord, breaker, net, panics, verdict, beyond, seen, health>>
    BY <1>3 DEF Halt!CancelRules, Halt!operatorVars
  <2>2. panic' \in Run /\ panic'.at = "resolve"
    BY <1>0, <2>1 DEF Run
  <2>3. Others' /\ Quiet' /\ Stopped' /\ AllListed'
    BY <1>0, <2>1, <2>2 DEF Others, Quiet, Stopped, AllListed
  <2> QED
    BY <1>0, <2>1, <2>2, <2>3 DEF StopInv
<1>4. CASE Halt!ResolveUnknown
  <2> DEFINE doubt == {o \in Orders : ord[o].status \in Halt!Unresolved}
             found == {o \in doubt : Halt!Answered(o)}
             rec(o) == [ord[o] EXCEPT !.status = Halt!StatusOf(o), !.latched = net[o].filled > 0]
  <2>1. /\ panic.at = "resolve" /\ panic' = [panic EXCEPT !.at = "list"]
        /\ doubt # found => Halt!Room("broker_drift")
        /\ ord' = [o \in Orders |-> IF o \notin found THEN ord[o] ELSE rec(o)]
        /\ breaker' = IF doubt = found THEN breaker ELSE Halt!TripInSession(breaker, "broker_drift")
        /\ UNCHANGED <<rule, net, panics, verdict, beyond, seen, health>>
    BY <1>4 DEF Halt!ResolveUnknown, Halt!operatorVars
  <2>2. panic' \in Run /\ panic'.at = "list"
    BY <1>0, <2>1 DEF Run
  <2>3. Breakers(breaker') /\ \A t \in Scopes : breaker[t].tripped => breaker'[t].tripped
    BY <1>0, <2>1, Tripped
  <2>4. ASSUME NEW o \in found PROVE rec(o) \in Row /\ Agree(rec(o), net[o])
    <3>1. /\ (net[o].filled > 0) \in BOOLEAN
             /\ Halt!StatusOf(o) \in {"submitted", "partial"} \cup Halt!Ended
          /\ Halt!StatusOf(o) \in Halt!Ended <=> net[o].state \in Halt!Ended
          /\ net[o].state \notin {"none", "inflight"}
      BY <1>0, AnsweredRow DEF Halt!Answered, Halt!Ended
    <3>2. rec(o) \in Row
      BY <1>0, <3>1 DEF Row, Halt!LocalLive
    <3>3. /\ rec(o).status = Halt!StatusOf(o) /\ rec(o).latched = (net[o].filled > 0)
          /\ rec(o).ledger = 0
      BY <1>0 DEF Row, Agree
    <3>4. net[o].filled \in 0 .. Qty
      BY <1>0 DEF Remote
    <3> HIDE DEF rec
    <3>5. net[o].filled > 0 => rec(o).latched
      BY <3>3, Zenon
    <3> QED
      BY <1>0, <3>1, <3>2, <3>3, <3>4, <3>5, LatchedAgree
  <2> HIDE DEF rec
  <2>5. Books(ord', net')
    BY <1>0, <2>1, <2>4 DEF Books
  <2>6. Quiet'
    BY <1>0, <2>1, <2>3 DEF Quiet, Halt!LocalLive
  <2>7. Others' /\ Stopped' /\ AllListed'
    BY <1>0, <2>1, <2>2, <2>3 DEF Others, Stopped, AllListed
  <2> QED
    BY <2>2, <2>3, <2>5, <2>6, <2>7 DEF StopInv
<1>5. CASE Halt!ResolveFails \/ Halt!Crash
  BY <1>1, <1>5, <1>i DEF Halt!ResolveFails, Halt!Crash, Halt!operatorVars
<1>r. Halt!RemoteOpen \subseteq Orders /\ Halt!Addressable \subseteq Orders
  BY DEF Halt!RemoteOpen, Halt!Addressable
<1>c. \A remote : Halt!Conflicts(remote) \in BOOLEAN
  BY DEF Halt!Conflicts
<1>6. CASE Halt!ListOrders
  <2>1. PICK ok \in BOOLEAN, remote \in SUBSET Orders :
          panic' = [panic EXCEPT !.at = "cancel", !.failed = ~ok, !.listed = remote,
                                 !.todo = Halt!Addressable \cup remote,
                                 !.open = Halt!Addressable \cup remote,
                                 !.faults = Halt!Conflicts(remote)]
    BY <1>6, <1>r DEF Halt!ListOrders
  <2>2. panic' \in Run /\ panic'.at = "cancel" /\ panic.at = "list"
    BY <1>0, <1>6, <1>r, <1>c, <2>1 DEF Halt!ListOrders, Run
  <2> QED
    BY <1>1, <1>6, <2>2 DEF Halt!ListOrders, Halt!operatorVars
<1>7. CASE Halt!FinalListing
  <2>1. PICK ok \in BOOLEAN, remote \in SUBSET Orders :
          /\ remote = IF ok THEN Halt!RemoteOpen ELSE panic.listed
          /\ panic' = [panic EXCEPT !.at = "decide", !.failed = @ \/ ~ok, !.open = @ \cup remote,
                                    !.faults = @ \/ Halt!Conflicts(remote)]
    <3>1. PICK ok \in BOOLEAN : \E remote \in {IF ok THEN Halt!RemoteOpen ELSE panic.listed} :
             panic' = [panic EXCEPT !.at = "decide", !.failed = @ \/ ~ok, !.open = @ \cup remote,
                                    !.faults = @ \/ Halt!Conflicts(remote)]
      BY <1>7, Zenon DEF Halt!FinalListing
    <3>2. Halt!RemoteOpen \in SUBSET Orders /\ panic.listed \in SUBSET Orders
      BY <1>0, <1>r DEF Run
    <3>3. PICK remote \in {IF ok THEN Halt!RemoteOpen ELSE panic.listed} :
             panic' = [panic EXCEPT !.at = "decide", !.failed = @ \/ ~ok, !.open = @ \cup remote,
                                    !.faults = @ \/ Halt!Conflicts(remote)]
      BY <3>1, Zenon
    <3>4. remote = (IF ok THEN Halt!RemoteOpen ELSE panic.listed) /\ remote \in SUBSET Orders
      BY <3>2
    <3> QED
      BY <3>3, <3>4, Zenon
  <2>2. panic' \in Run
    BY <1>0, <1>c, <2>1 DEF Run
  <2>3. /\ panic'.failed = (panic.failed \/ ~ok) /\ panic'.open = panic.open \cup remote
        /\ panic.at = "cancel"
        /\ UNCHANGED <<ord, rule, breaker, net, panics, verdict, beyond, seen, health>>
    BY <1>0, <1>7, <2>1 DEF Halt!FinalListing, Run, Halt!operatorVars
  <2>4. AllListed'
    BY <2>1, <2>3 DEF AllListed, Halt!RemoteOpen
  <2>5. Others' /\ Quiet' /\ Stopped'
    BY <1>0, <2>3 DEF Others, Quiet, Stopped
  <2> QED
    BY <1>0, <2>2, <2>3, <2>4, <2>5 DEF StopInv
<1>8. CASE Halt!Decide
  <2>1. /\ panic.at = "decide" /\ panic' = Halt!Idle
        /\ panic.faults => Halt!Room("broker_drift")
        /\ breaker' = IF panic.faults THEN Halt!TripInSession(breaker, "broker_drift") ELSE breaker
        /\ verdict' \in {"safe", "unsafe"}
        /\ verdict' = "safe" => ~panic.failed /\ panic.open = {} /\ ~Halt!LocallyUnsafe
        /\ UNCHANGED <<ord, rule, net, panics, beyond, seen, health>>
    BY <1>8 DEF Halt!Decide, Halt!operatorVars
  <2>2. Breakers(breaker') /\ \A t \in Scopes : breaker[t].tripped => breaker'[t].tripped
    BY <1>0, <2>1, Tripped
  <2>3. Quiet'
    <3> SUFFICES ASSUME verdict' = "safe"
                 PROVE  /\ \A o \in Orders : /\ net[o].state \notin {"inflight", "open",
                                                "cancelling"}
                                              /\ ord[o].status \notin Halt!LocalLive \cup {"approved"}
                        /\ rule = "canceled" /\ breaker'["operator_global"].tripped
      BY <2>1 DEF Quiet
    <3>1. /\ \A o \in Orders : ord[o].status \notin Halt!LocalLive \cup {"approved"}
          /\ rule = "canceled"
      BY <1>0, <2>1 DEF Halt!LocallyUnsafe, Others
    <3>2. \A o \in Orders : net[o].state \notin {"inflight", "open", "cancelling"}
      BY <1>0, <2>1, <3>1 DEF Agree, AllListed, Halt!LocalLive
    <3>3. breaker'["operator_global"].tripped
      BY <1>0, <2>1, <2>2 DEF Stopped
    <3> QED
      BY <3>1, <3>2, <3>3
  <2>4. Others' /\ Stopped' /\ AllListed'
    BY <1>0, <1>i, <2>1 DEF Others, Stopped, AllListed
  <2> QED
    BY <1>0, <1>i, <2>1, <2>2, <2>3, <2>4 DEF StopInv
<1>9. ASSUME NEW o \in Orders, Halt!AskCancel(o) PROVE StopInv'
  <2> DEFINE at == [net[o] EXCEPT !.state = "cancelling"]
  <2>1. /\ net[o].state = "open" /\ net' = [net EXCEPT ![o] = at] /\ panic.at = "cancel"
        /\ UNCHANGED <<ord, rule, breaker, panic, panics, verdict, beyond, seen, health>>
    BY <1>0, <1>9 DEF Halt!AskCancel, Halt!operatorVars
  <2>2. at \in Remote /\ Agree(ord[o], at)
    BY <1>0, <2>1 DEF Remote, Agree, Halt!Ended
  <2> HIDE DEF at
  <2>3. Books(ord', net')
    BY <1>0, <2>1, <2>2, RemoteMoved
  <2>4. Others' /\ Quiet' /\ Stopped' /\ AllListed'
    BY <1>0, <2>1 DEF Others, Quiet, Stopped, AllListed
  <2> QED
    BY <1>0, <2>1, <2>3, <2>4 DEF StopInv
<1>10. ASSUME NEW o \in Orders, Halt!VerifyEnded(o) PROVE StopInv'
  <2>1. /\ panic.at = "cancel" /\ net[o].state \in Halt!Ended
        /\ panic' = [panic EXCEPT !.todo = @ \ {o}, !.open = @ \ {o}, !.listed = @ \ {o}]
        /\ UNCHANGED <<rule, breaker, net, panics, verdict, beyond, seen, health>>
    BY <1>10 DEF Halt!VerifyEnded, Halt!operatorVars
  <2>2. panic' \in Run /\ panic'.at = "cancel"
    BY <1>0, <2>1 DEF Run
  <2> DEFINE Closed(rec) == /\ ord' = [ord EXCEPT ![o] = rec] /\ rec.status = net[o].state
                            /\ rec.ledger = ord[o].ledger
                            /\ ~rec.latched => ord[o].ledger = net[o].filled
  <2>3. ASSUME ord[o].status \in Halt!LocalLive \ Halt!Unresolved PROVE \E rec \in Row : Closed(rec)
    <3> DEFINE clean == [ord[o] EXCEPT !.status = net[o].state, !.latched = FALSE]
               latched == [ord[o] EXCEPT !.status = net[o].state, !.latched = TRUE]
               kept == [ord[o] EXCEPT !.status = net[o].state]
    <3>1. /\ clean \in Row /\ clean.status = net[o].state /\ clean.ledger = ord[o].ledger
          /\ latched \in Row /\ latched.status = net[o].state /\ latched.ledger = ord[o].ledger
          /\ kept \in Row /\ kept.status = net[o].state /\ kept.ledger = ord[o].ledger
          /\ latched.latched
      BY <1>0, <2>1 DEF Row, Halt!Ended
    <3>2. /\ [ord EXCEPT ![o].status = net[o].state,
             ![o].latched = FALSE] = [ord EXCEPT ![o] = clean]
          /\ [ord EXCEPT ![o].status = net[o].state,
             ![o].latched = TRUE] = [ord EXCEPT ![o] = latched]
          /\ [ord EXCEPT ![o].status = net[o].state] = [ord EXCEPT ![o] = kept]
      BY <1>0
    <3>3. ord' = Halt!PersistVerified(o)
      BY <1>10, <2>3 DEF Halt!VerifyEnded
    <3>4. ord[o].ledger = net[o].filled \/ net[o].filled > ord[o].ledger
      <4>1. /\ ord[o].ledger \in Nat /\ net[o].filled \in Nat
            /\ ord[o].ledger <= net[o].filled
        BY <1>0 DEF Row, Remote, Agree, Halt!StopAssumption
      <4> QED
        BY <4>1
    <3>5. \/ ord[o].ledger = net[o].filled /\ ord' = [ord EXCEPT ![o] = clean]
          \/ ord' = [ord EXCEPT ![o] = latched]
          \/ ord[o].ledger = net[o].filled /\ ord' = [ord EXCEPT ![o] = kept]
      <4> HIDE DEF clean, latched, kept, Closed
      <4> QED
        BY <3>2, <3>3, <3>4, Zenon DEF Halt!PersistVerified
    <3> HIDE DEF clean, latched, kept
    <3> QED
      BY <3>1, <3>5, Zenon
  <2>4. Books(ord', net') /\ Quiet'
    <3>1. CASE ord[o].status \notin Halt!LocalLive \ Halt!Unresolved
      BY <1>0, <1>10, <2>1, <3>1 DEF Quiet, Halt!VerifyEnded
    <3>2. CASE ord[o].status \in Halt!LocalLive \ Halt!Unresolved
      <4> HIDE DEF Closed
      <4>1. PICK rec \in Row : Closed(rec)
        BY <2>3, <3>2
      <4> USE DEF Closed
      <4>2. Agree(rec, net[o])
        BY <1>0, <2>1, <4>1 DEF Agree, Halt!Ended, Halt!Unresolved
      <4>3. verdict # "safe"
        BY <1>0, <3>2 DEF Quiet
      <4> QED
        BY <1>0, <2>1, <4>1, <4>2, <4>3, RowWritten DEF Quiet
    <3> QED
      BY <3>1, <3>2
  <2>5. Others' /\ Stopped' /\ AllListed'
    BY <1>0, <2>1, <2>2 DEF Others, Stopped, AllListed
  <2> QED
    BY <1>0, <2>1, <2>2, <2>4, <2>5 DEF StopInv
<1>11. ASSUME NEW o \in Orders, Halt!VerifyOpen(o) PROVE StopInv'
  <2>1. panic' = [panic EXCEPT !.todo = @ \ {o}] /\ panic.at = "cancel"
    BY <1>11 DEF Halt!VerifyOpen
  <2>2. panic' \in Run /\ panic'.at = "cancel"
    BY <1>0, <2>1 DEF Run
  <2> QED
    BY <1>1, <1>11, <2>1, <2>2 DEF Halt!VerifyOpen, Halt!operatorVars
<1> QED
  BY <1>2, <1>3, <1>4, <1>5, <1>6, <1>7, <1>8, <1>9, <1>10, <1>11 DEF Halt!PanicStep

(* Every step keeps the invariant. *)
LEMMA StopStep == ASSUME Halt!StopAssumption, StopInv, [Halt!Next]_Halt!vars PROVE StopInv'
<1>0. /\ Books(ord, net) /\ Breakers(breaker) /\ panic \in Run /\ Others
      /\ Stopped /\ AllListed /\ Quiet /\ "broker_drift" \in Scopes
  BY DEF StopInv, Halt!StopAssumption
<1>1. CASE Halt!TripDrift \/ Halt!TripLoss \/ Halt!Market
  <2>1. /\ UNCHANGED <<ord, rule, net, panic, panics, verdict, seen, health>>
        /\ beyond' \in BOOLEAN
    BY <1>0, <1>1, Zenon
       DEF Halt!TripDrift, Halt!TripLoss, Halt!Market, Halt!operatorVars, Others
  <2>2. Breakers(breaker') /\ \A t \in Scopes : breaker[t].tripped => breaker'[t].tripped
    BY <1>0, <1>1, Tripped DEF Halt!TripDrift, Halt!TripLoss, Halt!Market
  <2>3. "operator_global" \in Scopes
    BY DEF Halt!StopAssumption
  <2> QED
    BY <1>0, <2>1, <2>2, <2>3 DEF StopInv, Others, Stopped, AllListed, Quiet
<1>2. ASSUME NEW p \in Operators, NEW s \in Scopes,
             Halt!Observe(p, s) \/ Halt!CollectHealth(p, s)
                \/ Halt!ResetConflict(p, s) PROVE StopInv'
  <2>1. UNCHANGED <<ord, rule, breaker, net, panic, panics, verdict, beyond>>
    BY <1>2 DEF Halt!Observe, Halt!CollectHealth, Halt!ResetConflict
  <2>2. seen' \in [Operators -> [Scopes -> 0 .. MaxGen]]
    <3>1. seen' = seen \/ seen' = [seen EXCEPT ![p][s] = breaker[s].gen]
      BY <1>2 DEF Halt!Observe, Halt!CollectHealth, Halt!ResetConflict
    <3>2. breaker[s].gen \in 0 .. MaxGen /\ seen \in [Operators -> [Scopes -> 0 .. MaxGen]]
      BY <1>0 DEF Breakers, Breaker, Others
    <3> QED
      BY <3>1, <3>2
  <2>3. health' \in [Operators -> SUBSET Scopes]
    BY <1>0, <1>2 DEF Halt!Observe, Halt!CollectHealth, Halt!ResetConflict, Others
  <2> QED
    BY <1>0, <2>1, <2>2, <2>3 DEF StopInv, Others, Stopped, AllListed, Quiet
<1>3. ASSUME NEW p \in Operators, NEW s \in Scopes, Halt!Reset(p, s) PROVE StopInv'
  <2>1. /\ UNCHANGED <<ord, rule, net, panic, panics, beyond, seen>>
        /\ health' = [health EXCEPT ![p] = @ \ {s}]
        /\ verdict' = IF s = "operator_global" THEN "none" ELSE verdict
        /\ breaker' = [breaker EXCEPT ![s] = [tripped |-> FALSE, gen |-> @.gen + 1]]
        /\ Halt!Free /\ Halt!Room(s)
    BY <1>3 DEF Halt!Reset
  <2>2. Breakers(breaker') /\ \A t \in Scopes \ {s} : breaker'[t] = breaker[t]
    BY <1>0, <2>1 DEF Breakers, Breaker, Halt!Room, Halt!StopAssumption
  <2>3. Others' /\ Stopped' /\ AllListed'
    BY <1>0, <2>1 DEF Others, Stopped, AllListed, Halt!Free
  <2>4. Quiet'
    BY <1>0, <2>1, <2>2 DEF Quiet, Halt!StopAssumption
  <2> QED
    BY <1>0, <2>1, <2>2, <2>3, <2>4 DEF StopInv
<1>4. CASE UNCHANGED Halt!vars
  BY <1>0, <1>4 DEF Halt!vars, StopInv, Others, Stopped, AllListed, Quiet
<1> QED
  BY <1>1, <1>2, <1>3, <1>4, OrderStepKeeps, PanicKeeps DEF Halt!Next

(* A panic that reports "safe" has left nothing that could still execute or be
   sent, until an operator resets the breaker, and an order that has ended has
   all its shares in the ledger or is latched for reconciliation: for any
   number of orders, scopes, operators, panics and shares, whatever the broker
   does between the listings and wherever the process dies. *)
THEOREM StopIsSafe ==
    ASSUME Halt!StopAssumption
    PROVE  Halt!Spec => [](Halt!TypeOK /\ Halt!SafeIsQuiet /\ Halt!EndedIsBooked)
<1>1. ASSUME StopInv PROVE Halt!TypeOK /\ Halt!SafeIsQuiet /\ Halt!EndedIsBooked
  <2>1. /\ panic.at \in {"idle", "rules", "resolve", "list", "cancel", "final", "decide"}
        /\ panic.todo \cup panic.listed \cup panic.open \subseteq Orders
    BY <1>1 DEF StopInv, Run
  <2>2. Halt!TypeOK
    BY <1>1, <2>1, Zenon
       DEF StopInv, Books, Breakers, Others, Halt!TypeOK, Row, Remote, Breaker
  <2> QED
    BY <1>1, <2>2 DEF StopInv, Books, Agree, Quiet, Halt!SafeIsQuiet, Halt!EndedIsBooked
<1> QED
  BY <1>1, StopInit, StopStep, PTL DEF Halt!Spec

(* A breaker is released only by an operator who has observed this very
   generation of its trip and collected health for its scope: a trip that came
   after the observation stands. *)
THEOREM ResetsAreExpected ==
    ASSUME Halt!StopAssumption PROVE Halt!Spec => [][Halt!ResetClearsWhatWasSeenStep]_Halt!vars
<1>1. ASSUME StopInv, [Halt!Next]_Halt!vars PROVE [Halt!ResetClearsWhatWasSeenStep]_Halt!vars
  <2> SUFFICES ASSUME NEW s \in Scopes, breaker[s].tripped, ~breaker'[s].tripped
               PROVE  \E p \in Operators : seen[p][s] = breaker[s].gen /\ s \in health[p]
    BY DEF Halt!ResetClearsWhatWasSeenStep
  <2>1. Breakers(breaker) /\ {"broker_drift", "operator_global"} \subseteq Scopes
    BY <1>1 DEF StopInv, Halt!StopAssumption
  <2>2. ~ \E t \in Scopes : Halt!Room(t) /\ breaker' = Halt!TripInSession(breaker, t)
    BY <2>1, Tripped
  <2>3. breaker' # breaker
    OBVIOUS
  <2>4. PICK p \in Operators, t \in Scopes : Halt!Reset(p, t)
    BY <1>1, <2>1, <2>2, <2>3
       DEF Halt!Next, Halt!PanicStep, Halt!OrderStep, Halt!Panic, Halt!CancelRules,
           Halt!ResolveUnknown, Halt!ResolveFails, Halt!ListOrders, Halt!FinalListing,
           Halt!Decide, Halt!AskCancel, Halt!VerifyEnded, Halt!VerifyOpen, Halt!Crash,
           Halt!TripDrift, Halt!TripLoss, Halt!Market, Halt!Approve, Halt!Reject,
           Halt!Send, Halt!Answer, Halt!NoAnswer, Halt!Reconcile, Halt!Deliver,
           Halt!Fill, Halt!Canceled, Halt!Observe, Halt!CollectHealth,
           Halt!ResetConflict, Halt!vars
  <2>5. t = s
    BY <2>1, <2>4 DEF Halt!Reset, Breakers
  <2> QED
    BY <2>4, <2>5 DEF Halt!Reset, Halt!ResetExpected
<1> QED
  BY <1>1, StopInit, StopStep, PTL DEF Halt!Spec
=============================================================================
