------------------------- MODULE OrderOutboxEffects -------------------------
(***************************************************************************)
(* The outbox is safe for any number of orders, threads, scopes and        *)
(* shares.  No property of interest is inductive alone: the invariant IInv *)
(* ties program counters to the barrier (Control), statuses to the history *)
(* of approvals and sends (Once), local rows to the broker (Known), the    *)
(* claim to the risk check made under the same hold of the barrier         *)
(* (Decision), and fetched reports to the broker (Reports).                *)
(*                                                                         *)
(* The proof first says what a step can do to the order data, whoever      *)
(* takes it (Effect, lemma StepEffect); the data invariants follow from    *)
(* the effects alone.  Control, Decision, Reports and the types are shown  *)
(* action by action: Control here, the others in OrderOutboxProofs, which  *)
(* concludes.                                                              *)
(***************************************************************************)
EXTENDS OrderOutbox, TLAPS

Claiming == {"claim", "send", "await", "confirm", "leave"}
Evaluating == {"evaluate", "refused", "accepted"}
Holding == Evaluating \cup Claiming \cup ScanSteps

(* Control: program counters, tasks and the barrier agree. *)
Control ==
    /\ \A t \in Threads : pc[t] \in Holding <=> holder = t
    /\ \A t \in Threads : pc[t] \in Claiming => claimant = t
    /\ \A t \in Threads : pc[t] \in Claiming \cup Evaluating \cup {"submit"}
                             => task[t].kind = "submit"
    /\ \A t \in Threads : pc[t] \in ScanSteps => (claimant = t <=> task[t].kind = "submit")
    /\ \A t \in Threads : claimant = t => pc[t] \in Claiming \cup ScanSteps
    /\ claimant # Nobody => announced = {}

(* Once: how often an order was approved and sent, as its status tells. *)
Once ==
    \A o \in Orders :
        /\ sends[o] <= approvals[o] /\ approvals[o] <= 1
        /\ status[o] \in {"ABSENT", "PROPOSED"} => approvals[o] = 0
        /\ status[o] = "APPROVAL_RECORDED" => approvals[o] = 1 /\ sends[o] = 0

(* Known: how local rows relate to the broker. *)
Known ==
    \A o \in Orders :
        /\ sends[o] = 0 => remote[o] = "none"
        /\ remote[o] \notin Shown => filled[o] = 0
        /\ ledger[o] <= filled[o]
        /\ o \in known => remote[o] \in Shown
        /\ remote[o] \in {"inflight"} \cup Shown /\ o \notin known => status[o] \in Unresolved

Data == Once /\ Known /\ OneUnresolved /\ ExposureTracked /\ GroupHeld

(* Decision: what the holder of the barrier may rely on from its risk      *)
(* check to the answer of the broker.                                      *)
Evaluated ==
    /\ BrokerReconciled
    /\ tripped \cup verdict.trips \subseteq verdict.bypassed
    /\ verdict.bypassed \subseteq Bypassable

Claimed(o) ==
    /\ current
    /\ latched = {}
    /\ tripped \subseteq verdict.bypassed
    /\ verdict.bypassed \subseteq Bypassable
    /\ sends[o] = 0
    /\ approvals[o] = 1

Deciding == {"accepted", "claim", "send", "await"}

Decision ==
    \A t \in Threads :
        /\ pc[t] \in {"accepted", "claim"} => Evaluated
        /\ pc[t] = "send" => Claimed(task[t].on)
        /\ pc[t] \in {"send", "await"} => status[task[t].on] = "SUBMITTING"

(* Reports: a report lives only inside a pass, and a final one is exact. *)
Reporting == {"fills", "statuses", "drift", "confirm", "leave"}
Ended == Shown \ {"open"}
BrokerStatuses == {"SUBMITTED", "PARTIALLY_FILLED"} \cup Terminal

ReportHolds(o) ==
    /\ holder \in Threads /\ pc[holder] \in Reporting
    /\ o \in known
    /\ scan.reports[o].st \in BrokerStatuses
    /\ scan.reports[o].st \in Terminal =>
         remote[o] \in Ended /\ scan.reports[o].qty = filled[o]
    /\ status[o] \in Terminal => scan.reports[o].st \in Terminal

Reports == \A o \in Orders : scan.reports[o] # NoReport => ReportHolds(o)

IInv == TypeOK /\ Control /\ Data /\ Decision /\ Reports

(* The constants the actions write are of the types of the variables. *)
LEMMA Members ==
    /\ NoTask \in Tasks /\ NoVerdict \in Verdicts /\ NoScan \in Scans
    /\ "PROPOSED" \in Statuses /\ "APPROVAL_RECORDED" \in Statuses
    /\ "SUBMITTING" \in Statuses /\ "ACCEPTANCE_UNKNOWN" \in Statuses
    /\ "REJECTED" \in Statuses /\ "EXPIRED" \in Statuses
    /\ BrokerStatuses \subseteq Statuses
    /\ LimitScopes \subseteq Scopes /\ QuoteScopes \subseteq Scopes
    /\ Bypassable \subseteq Scopes
    /\ "broker_drift" \in Scopes /\ "operator_global" \in Scopes
  BY OutboxAssumption
  DEF Tasks, Verdicts, NoVerdict, Scans, NoScan, NoReport, Statuses, LocalLive,
      Unresolved, Terminal, BrokerStatuses, LimitScopes, QuoteScopes, Bypassable

(* A thread that has an order or a scope to work on. *)
LEMMA TaskMembers ==
    /\ \A k \in OrderTasks, o \in Orders : [kind |-> k, on |-> o] \in Tasks
    /\ \A k \in ScopeTasks, s \in Scopes : [kind |-> k, on |-> s] \in Tasks
    /\ \A k \in PlainTasks : [kind |-> k, on |-> Nobody] \in Tasks
  BY DEF Tasks

(* A thread whose task is about an order has one. *)
LEMMA OrderTask ==
    TypeOK => \A t \in Threads : task[t].kind \in OrderTasks => task[t].on \in Orders
  BY NobodyIsNoThread DEF TypeOK, Tasks, OrderTasks, ScopeTasks, PlainTasks, NoTask

(* A guarded move leaves the status or reaches the target, and never       *)
(* leaves a terminal status.                                               *)
LEMMA MoveLemma ==
    ASSUME NEW current_ \in Statuses, NEW new
    PROVE  /\ MoveIfLegal(current_, new) \in {current_, new}
           /\ current_ \in Terminal => MoveIfLegal(current_, new) = current_
  BY DEF MoveIfLegal, CanTransition, LegalTransitions, Terminal, Statuses,
     LocalLive, Unresolved

(* The status the broker reports is never an unresolved one. *)
LEMMA ReportLemma ==
    ASSUME TypeOK, NEW o \in Orders, remote[o] \in Shown
    PROVE  /\ Report(o).st \in BrokerStatuses
           /\ Report(o).st \in Terminal <=> remote[o] \in Ended
           /\ Report(o).qty = filled[o]
           /\ Report(o).st = RemoteStatus(o)
           /\ Report(o) # NoReport
  BY DEF Report, RemoteStatus, BrokerStatuses, Terminal, Ended, Shown, TypeOK,
     NoReport, RemoteStates

(* A request queues one task of one kind. *)
LEMMA RequestEnqueues ==
    ASSUME NEW t \in Threads, Request(t)
    PROVE  \E kind, on : Goto(t, "idle", "queued") /\ Enqueue(t, kind, on)
BY Zenon DEF Request

(* Every step keeps program counters, tasks and barrier in agreement. *)
LEMMA ControlStep == TypeOK /\ Control /\ [Next]_vars => Control'
<1> SUFFICES ASSUME TypeOK, Control, [Next]_vars PROVE Control'
  OBVIOUS
<1>0. /\ pc \in [Threads -> PCs] /\ task \in [Threads -> Tasks] /\ announced \subseteq Threads
      /\ holder \in Threads \cup {Nobody} /\ claimant \in Threads \cup {Nobody}
  BY DEF TypeOK, BarrierTypeOK
<1> USE <1>0, NobodyIsNoThread DEF Control, Claiming, Evaluating, Holding,
   ScanSteps, Goto, barrierVars, NoTask
<1>1. ASSUME NEW t \in Threads, Restart(t) PROVE Control'
  BY <1>1 DEF Restart, Enqueue, Announce
<1>2. ASSUME NEW t \in Threads, Request(t) PROVE Control'
  <2>1. PICK kind, on : Goto(t, "idle", "queued") /\ Enqueue(t, kind, on)
    BY <1>2, RequestEnqueues
  <2>2. QED
    BY <2>1 DEF Enqueue, Announce
<1>3. ASSUME NEW t \in Threads, NEW o \in Orders, StartSubmit(t, o) PROVE Control'
  BY <1>3 DEF StartSubmit
<1>4. ASSUME NEW t \in Threads, ProposeOrder(t) PROVE Control'
  BY <1>4 DEF ProposeOrder, Commit
<1>5. ASSUME NEW t \in Threads, RecordApproval(t) PROVE Control'
  BY <1>5 DEF RecordApproval, Commit
<1>6. ASSUME NEW t \in Threads, RejectOrder(t) PROVE Control'
  BY <1>6 DEF RejectOrder, Commit
<1>7. ASSUME NEW t \in Threads, ExpireIfEligible(t) PROVE Control'
  BY <1>7 DEF ExpireIfEligible, Commit
<1>8. ASSUME NEW t \in Threads, ExpireApproved(t) PROVE Control'
  BY <1>8 DEF ExpireApproved, Commit
<1>9. ASSUME NEW t \in Threads, TripBreaker(t) PROVE Control'
  BY <1>9 DEF TripBreaker, Commit
<1>10. ASSUME NEW t \in Threads, ResetBreaker(t) PROVE Control'
  BY <1>10 DEF ResetBreaker, Commit
<1>11. ASSUME NEW t \in Threads, RequireStartup(t) PROVE Control'
  BY <1>11 DEF RequireStartup, Commit
<1>12. ASSUME NEW t \in Threads, StartupAlreadyCurrent(t) PROVE Control'
  BY <1>12 DEF StartupAlreadyCurrent, Commit
<1>13. ASSUME NEW t \in Threads, EnterBarrier(t) PROVE Control'
  BY <1>13 DEF EnterBarrier, BeginSubmission
<1>14. ASSUME NEW t \in Threads, ApproveRisk(t) PROVE Control'
  BY <1>14 DEF ApproveRisk
<1>15. ASSUME NEW t \in Threads, RejectRisk(t) PROVE Control'
  BY <1>15 DEF RejectRisk, Refuse, EndSubmission, EndTask
<1>16. ASSUME NEW t \in Threads, TripFromPlanGuard(t) PROVE Control'
  BY <1>16 DEF TripFromPlanGuard
<1>17. ASSUME NEW t \in Threads, RejectPlanExit(t) PROVE Control'
  BY <1>17 DEF RejectPlanExit, Refuse, EndSubmission, EndTask
<1>18. ASSUME NEW t \in Threads, AbortEvaluation(t) PROVE Control'
  BY <1>18 DEF AbortEvaluation, EndSubmission, EndTask
<1>19. ASSUME NEW t \in Threads, StartClaim(t) PROVE Control'
  BY <1>19 DEF StartClaim, BeginClaim
<1>20. ASSUME NEW t \in Threads, RetryStale(t) PROVE Control'
  BY <1>20 DEF RetryStale, EndSubmission
<1>21. ASSUME NEW t \in Threads, ClaimSubmission(t) PROVE Control'
  BY <1>21 DEF ClaimSubmission
<1>22. ASSUME NEW t \in Threads, ClaimRefused(t) PROVE Control'
  BY <1>22 DEF ClaimRefused
<1>23. ASSUME NEW t \in Threads, Send(t) PROVE Control'
  BY <1>23 DEF Send
<1>24. ASSUME NEW t \in Threads, SendRefused(t) PROVE Control'
  BY <1>24 DEF SendRefused, RecordResult
<1>25. ASSUME NEW t \in Threads, SendUnanswered(t) PROVE Control'
  BY <1>25 DEF SendUnanswered, RecordResult
<1>26. ASSUME NEW t \in Threads, SendMalformed(t) PROVE Control'
  BY <1>26 DEF SendMalformed, RecordResult
<1>27. ASSUME NEW t \in Threads, SendAnswered(t) PROVE Control'
  BY <1>27 DEF SendAnswered, RecordResult
<1>28. ASSUME NEW t \in Threads, ConfirmFill(t) PROVE Control'
  BY <1>28 DEF ConfirmFill
<1>29. ASSUME NEW t \in Threads, LeaveBarrier(t) PROVE Control'
  BY <1>29 DEF LeaveBarrier, EndTask
<1>30. ASSUME NEW t \in Threads, StartReconcile(t) PROVE Control'
  BY <1>30 DEF StartReconcile, BeginWrite
<1>31. ASSUME NEW t \in Threads, ResolveUnknown(t) PROVE Control'
  BY <1>31 DEF ResolveUnknown
<1>32. ASSUME NEW t \in Threads, ImportFills(t) PROVE Control'
  BY <1>32 DEF ImportFills
<1>33. ASSUME NEW t \in Threads, FetchStatus(t) PROVE Control'
  BY <1>33 DEF FetchStatus
<1>34. ASSUME NEW t \in Threads, ApplyStatus(t) PROVE Control'
  BY <1>34 DEF ApplyStatus
<1>35. ASSUME NEW t \in Threads, ClearGroups(t) PROVE Control'
  BY <1>35 DEF ClearGroups
<1>36. ASSUME NEW t \in Threads, FinishReconcile(t) PROVE Control'
  BY <1>36 DEF FinishReconcile, RetireWriter, EndTask
<1>37. ASSUME NEW t \in Threads, AbortReconcile(t) PROVE Control'
  BY <1>37 DEF AbortReconcile, RetireWriter, EndTask
<1>38. ASSUME NEW t \in Threads, Crash(t) PROVE Control'
  BY <1>38 DEF Crash
<1>39. ASSUME NEW o \in Orders, ProposalExpires(o) PROVE Control'
  BY <1>39 DEF ProposalExpires, threadVars
<1>40. ASSUME NEW o \in Orders, Deliver(o) PROVE Control'
  BY <1>40 DEF Deliver, BrokerStep, threadVars
<1>41. ASSUME NEW o \in Orders, Fill(o) PROVE Control'
  BY <1>41 DEF Fill, BrokerStep, threadVars
<1>42. ASSUME NEW o \in Orders, EndAtBroker(o) PROVE Control'
  BY <1>42 DEF EndAtBroker, BrokerStep, threadVars
<1>43. CASE UNCHANGED vars
  BY <1>43 DEF vars, threadVars
<1>44. QED
  BY <1>1, <1>2, <1>3, <1>4, <1>5, <1>6, <1>7, <1>8, <1>9, <1>10, <1>11, <1>12,
     <1>13, <1>14, <1>15, <1>16, <1>17, <1>18, <1>19, <1>20, <1>21, <1>22, <1>23,
     <1>24, <1>25, <1>26, <1>27, <1>28, <1>29, <1>30, <1>31, <1>32, <1>33, <1>34,
     <1>35, <1>36, <1>37, <1>38, <1>39, <1>40, <1>41, <1>42, <1>43, Zenon
  DEF Next, ShortWriter, Submission, Reconcile, Broker

-----------------------------------------------------------------------------
(* What a step can do to the order data. *)

brokerTruth == <<ledger, remote, filled, approvals, sends>>

(* The order is decided before submission, or latches only grow. *)
Settles(o) ==
    /\ status[o] \in {"ABSENT", "PROPOSED", "APPROVAL_RECORDED"}
    /\ \E new \in {"PROPOSED", "REJECTED", "EXPIRED"} :
         /\ new = "PROPOSED" => status[o] = "ABSENT"
         /\ status' = [status EXCEPT ![o] = new]
    /\ UNCHANGED <<latched, known, groupLatched, brokerTruth>>

Latches ==
    /\ latched \subseteq latched' /\ latched' \subseteq Orders
    /\ UNCHANGED <<status, known, groupLatched, brokerTruth>>

Approves(o) ==
    /\ status[o] = "PROPOSED"
    /\ status' = [status EXCEPT ![o] = "APPROVAL_RECORDED"]
    /\ approvals' = [approvals EXCEPT ![o] = @ + 1]
    /\ UNCHANGED <<latched, known, groupLatched, ledger, remote, filled, sends>>

Claims(o) ==
    /\ status[o] = "APPROVAL_RECORDED"
    /\ \A p \in Orders : status[p] \notin Unresolved
    /\ status' = [status EXCEPT ![o] = "SUBMITTING"]
    /\ latched' = latched \ {o}
    /\ groupLatched' = groupLatched \cup ({o} \cap RuleOrders)
    /\ UNCHANGED <<known, brokerTruth>>

Calls(o) ==
    /\ status[o] = "SUBMITTING" /\ sends[o] = 0 /\ approvals[o] = 1
    /\ remote' = [remote EXCEPT ![o] = "inflight"]
    /\ sends' = [sends EXCEPT ![o] = @ + 1]
    /\ UNCHANGED <<status, latched, known, groupLatched, ledger, filled, approvals>>

(* The answer to the call: refused, unknown, or a definitive report. *)
Records(o, new) ==
    /\ status[o] = "SUBMITTING"
    /\ status' = [status EXCEPT ![o] = new]
    /\ latched \ {o} \subseteq latched' /\ latched' \subseteq Orders
    /\ known \ {o} \subseteq known' /\ known' \subseteq known \cup {o}
    /\ o \in known' => remote[o] \in Shown
    /\ groupLatched \subseteq groupLatched'
    /\ \/ new = "REJECTED" /\ remote[o] = "refused"
       \/ new = "ACCEPTANCE_UNKNOWN" /\ (o \in RuleOrders => o \in groupLatched')
       \/ /\ remote[o] \in Shown /\ o \in known' /\ new \in BrokerStatuses
          /\ new \in Terminal => remote[o] \in Ended
          /\ filled[o] > ledger[o] => o \in latched'
    /\ UNCHANGED brokerTruth

(* A pass imports fills, resolves unknown acceptances, applies a report    *)
(* and frees rule groups.                                                  *)
Imports ==
    /\ \A o \in Orders : ledger[o] <= ledger'[o] /\ ledger'[o] <= filled[o]
    /\ ledger' \in [Orders -> 0..Qty]
    /\ latched \subseteq latched' /\ latched' \subseteq Orders
    /\ UNCHANGED <<status, known, groupLatched, remote, filled, approvals, sends>>

Resolves(found) ==
    /\ \A o \in found : status[o] \in Unresolved /\ remote[o] \in Shown
    /\ status' = [o \in Orders |-> IF o \in found THEN Report(o).st ELSE status[o]]
    /\ known' = known \cup found
    /\ latched \ found \subseteq latched' /\ latched' \subseteq Orders
    /\ \A o \in found : filled[o] > ledger[o] => o \in latched'
    /\ UNCHANGED <<groupLatched, brokerTruth>>

Applies(o, new) ==
    /\ remote[o] \in Shown /\ o \in known
    /\ new = status[o] \/ (new \in BrokerStatuses /\ status[o] \notin Terminal)
    /\ new \in Terminal => remote[o] \in Ended
    /\ new \in Terminal /\ filled[o] > ledger[o] => o \in latched'
    /\ status' = [status EXCEPT ![o] = new]
    /\ latched \ {o} \subseteq latched' /\ latched' \subseteq Orders
    /\ UNCHANGED <<known, groupLatched, brokerTruth>>

Clears ==
    /\ groupLatched' = {o \in groupLatched : StillUnresolved(o)}
    /\ UNCHANGED <<status, latched, known, brokerTruth>>

(* The broker works the order. *)
Works(o) ==
    /\ \/ /\ remote[o] = "inflight"
          /\ \E to \in {"open", "refused", "lost"} : remote' = [remote EXCEPT ![o] = to]
          /\ UNCHANGED filled
       \/ /\ remote[o] = "open"
          /\ \E to \in {"open", "filled"} : remote' = [remote EXCEPT ![o] = to]
          /\ filled[o] < Qty /\ filled' = [filled EXCEPT ![o] = @ + 1]
       \/ /\ remote[o] = "open"
          /\ \E to \in Endings : remote' = [remote EXCEPT ![o] = to]
          /\ UNCHANGED filled
    /\ UNCHANGED <<status, latched, known, groupLatched, ledger, approvals, sends>>

Effect ==
    \/ Latches \/ Imports \/ Clears
    \/ \E o \in Orders :
         \/ Settles(o) \/ Approves(o) \/ Claims(o) \/ Calls(o) \/ Works(o)
         \/ \E new \in Statuses : Records(o, new) \/ Applies(o, new)
    \/ \E found \in SUBSET Orders : Resolves(found)

(* The lookup of unresolved orders. *)
LEMMA ResolveEffect ==
    ASSUME TypeOK, NEW t \in Threads, ResolveUnknown(t)
    PROVE  \E found \in SUBSET Orders :
             /\ Resolves(found)
             /\ scan'.reports = [o \in Orders |-> IF o \in found THEN Report(o) ELSE NoReport]
             /\ scan' \in Scans
<1> DEFINE shown == {o \in LookedUp : remote[o] \in Shown}
<1>1. PICK malformed \in SUBSET shown : Resolve(shown \ malformed, malformed)
  BY Zenon DEF ResolveUnknown
<1> DEFINE found == shown \ malformed
           reports == [o \in Orders |-> IF o \in found THEN Report(o) ELSE NoReport]
<1>2. found \in SUBSET Orders /\ \A o \in found : status[o] \in Unresolved /\ remote[o] \in Shown
  BY DEF LookedUp
<1>3. \A o \in found : Report(o) \in [st : Statuses, qty : 0..Qty] /\ Report(o).qty = filled[o]
  <2> SUFFICES ASSUME NEW o \in found
               PROVE Report(o) \in [st : Statuses, qty : 0..Qty] /\ Report(o).qty = filled[o]
    OBVIOUS
  <2>1. Report(o).st \in Statuses
    BY <1>2, ReportLemma, Members
  <2>2. QED
    BY <1>2, <2>1 DEF Report, TypeOK
<1>4. NoReport \in [st : Statuses, qty : 0..Qty]
  BY OutboxAssumption DEF NoReport, Statuses
<1>5. reports \in [Orders -> [st : Statuses, qty : 0..Qty]]
  BY <1>3, <1>4
<1>6. scan' \in Scans
  BY <1>1, <1>5, Zenon DEF Resolve, LeftUnresolved, TypeOK, Scans
<1>7. scan'.reports = reports
  BY <1>1 DEF Resolve, TypeOK, Scans
<1>8. status' = [o \in Orders |-> IF o \in found THEN Report(o).st ELSE status[o]]
  BY <1>1 DEF Resolve, Report
<1>9. /\ known' = known \cup found
      /\ latched \ found \subseteq latched' /\ latched' \subseteq Orders
      /\ \A o \in found : NeedsFills(o, Report(o)) => o \in latched'
  BY <1>1, <1>2 DEF Resolve, TypeOK, LookedUp
<1>10. UNCHANGED <<groupLatched, brokerTruth>>
  BY DEF ResolveUnknown, brokerVars, brokerTruth
<1>11. \A o \in found : filled[o] > ledger[o] => o \in latched'
  BY <1>3, <1>9 DEF NeedsFills
<1>12. QED
  BY <1>2, <1>6, <1>7, <1>8, <1>9, <1>10, <1>11, Zenon DEF Resolves

(* The application of one report: the status stays or becomes the reported *)
(* What a report makes of an order: it keeps its status or takes the      *)
(* report's, a final status stands, and only exact fills lift the latch.   *)
LEMMA SyncLemma ==
    ASSUME NEW o \in Orders, status[o] \in Statuses, ledger[o] \in Nat,
           NEW report, report.qty \in Nat
    PROVE  LET outcome == SyncOutcome(o, report) IN
             /\ outcome.st \in {status[o], report.st}
             /\ status[o] \in Terminal => outcome.st = status[o]
             /\ outcome.latch \in BOOLEAN
             /\ ~outcome.latch => report.qty = ledger[o]
<1> DEFINE outcome == SyncOutcome(o, report)
           needs == NeedsFills(o, report)
           moved == IF needs THEN MoveIfLegal(status[o], report.st) ELSE status[o]
           again == MoveIfLegal(moved, report.st)
           exact == scan.complete /\ report.qty # 0 /\ report.qty = ledger[o]
<1>1. \/ outcome = [st |-> status[o], latch |-> TRUE]
      \/ outcome = [st |-> moved, latch |-> TRUE]
      \/ /\ outcome = [st |-> again, latch |-> FALSE]
         /\ ~(report.qty < ledger[o]) /\ (needs => exact)
  BY Zenon DEF SyncOutcome
<1>2. /\ MoveIfLegal(status[o], report.st) \in {status[o], report.st}
      /\ status[o] \in Terminal => MoveIfLegal(status[o], report.st) = status[o]
  BY MoveLemma
<1>3. ~needs => ~(report.qty > ledger[o])
  BY Zenon DEF NeedsFills
<1>4. exact => report.qty = ledger[o]
  OBVIOUS
<1> HIDE DEF needs, exact
<1>5. moved \in {status[o], report.st} /\ (status[o] \in Terminal => moved = status[o])
  BY <1>2
<1> HIDE DEF moved
<1>6. MoveIfLegal(report.st, report.st) = report.st
  BY DEF MoveIfLegal
<1>7. again \in {status[o], report.st} /\ (status[o] \in Terminal => again = status[o])
  BY <1>2, <1>5, <1>6
<1> HIDE DEF again
<1>8. ~(report.qty < ledger[o]) /\ (needs => exact) => report.qty = ledger[o]
  <2>1. ~(report.qty < ledger[o]) /\ ~(report.qty > ledger[o]) => report.qty = ledger[o]
    OBVIOUS
  <2>2. QED
    BY <1>3, <1>4, <2>1, Zenon
<1> HIDE DEF outcome
<1>9. /\ outcome.st \in {status[o], moved, again} /\ outcome.latch \in BOOLEAN
      /\ ~outcome.latch => report.qty = ledger[o]
  <2>1. ASSUME NEW st, outcome = [st |-> st, latch |-> TRUE]
        PROVE  outcome.st = st /\ outcome.latch = TRUE
    BY <2>1
  <2>2. ASSUME outcome = [st |-> again, latch |-> FALSE]
        PROVE  outcome.st = again /\ outcome.latch = FALSE
    BY <2>2
  <2>3. QED
    BY <1>1, <1>8, <2>1, <2>2, Zenon
<1>10. QED
  BY <1>5, <1>7, <1>9 DEF outcome

(* one, and the latch is released only on an exact quantity.               *)
LEMMA ApplyEffect ==
    ASSUME TypeOK, Data, Reports, NEW t \in Threads, ApplyStatus(t)
    PROVE  \E o \in Orders, new \in Statuses :
             /\ Applies(o, new)
             /\ scan'.reports = [scan.reports EXCEPT ![o] = NoReport]
             /\ scan' \in Scans
<1>1. PICK o \in Reported :
        LET outcome == SyncOutcome(o, scan.reports[o]) IN
         /\ SetStatus(o, outcome.st)
         /\ latched' = IF outcome.latch THEN latched \cup {o} ELSE latched \ {o}
         /\ scan' = [scan EXCEPT !.reports[o] = NoReport,
                                 !.faults = @ \/ outcome.latch]
  BY Zenon DEF ApplyStatus
<1> DEFINE report == scan.reports[o]
           outcome == SyncOutcome(o, report)
<1>2. o \in Orders /\ report # NoReport
  BY DEF Reported
<1>3. report \in [st : Statuses, qty : 0..Qty]
  BY <1>2 DEF TypeOK, Scans
<1>4. status[o] \in Statuses /\ ledger[o] \in 0..Qty /\ filled[o] \in 0..Qty
  BY <1>2 DEF TypeOK
<1>8. /\ outcome.st \in {status[o], report.st}
      /\ status[o] \in Terminal => outcome.st = status[o]
      /\ outcome.latch \in BOOLEAN
      /\ ~outcome.latch => report.qty = ledger[o]
  <2>1. report.qty \in Nat /\ ledger[o] \in Nat
    BY <1>3, <1>4, OutboxAssumption
  <2>2. QED
    BY <1>2, <1>4, <2>1, SyncLemma, Zenon
<1>9. scan' \in Scans /\ scan'.reports = [scan.reports EXCEPT ![o] = NoReport]
  <2>1. NoReport \in [st : Statuses, qty : 0..Qty]
    BY OutboxAssumption DEF NoReport, Statuses
  <2>2. QED
    BY <1>1, <1>2, <1>8, <2>1, ZenonT(60) DEF TypeOK, Scans
<1>10. /\ remote[o] \in Shown /\ o \in known /\ report.st \in BrokerStatuses
       /\ report.st \in Terminal => remote[o] \in Ended /\ report.qty = filled[o]
       /\ status[o] \in Terminal => report.st \in Terminal
  BY <1>2 DEF Reports, ReportHolds, Data, Known
<1> HIDE DEF outcome
<1>11. outcome.st \in Terminal => report.st \in Terminal
  BY <1>8, <1>10, Zenon
<1>12. Applies(o, outcome.st)
  <2>1. status' = [status EXCEPT ![o] = outcome.st] /\ latched \subseteq Orders
    BY <1>1 DEF SetStatus, TypeOK, outcome
  <2>2. UNCHANGED <<known, groupLatched, brokerTruth>>
    BY DEF ApplyStatus, brokerVars, brokerTruth
  <2>3. /\ latched \ {o} \subseteq latched' /\ latched' \subseteq Orders
        /\ o \notin latched' => ~outcome.latch
    <3>1. latched' = IF outcome.latch THEN latched \cup {o} ELSE latched \ {o}
      BY <1>1, Zenon DEF outcome
    <3>2. QED
      BY <1>2, <1>8, <2>1, <3>1
  <2>4. outcome.st \in Terminal /\ filled[o] > ledger[o] => o \in latched'
    <3>1. report.qty = ledger[o] /\ report.qty = filled[o] => ~(filled[o] > ledger[o])
      BY <1>4
    <3>2. QED
      BY <1>8, <1>10, <1>11, <2>3, <3>1, Zenon
  <2>5. outcome.st = status[o] \/ (outcome.st \in BrokerStatuses /\ status[o] \notin Terminal)
    BY <1>8, <1>10
  <2>6. QED
    BY <1>10, <1>11, <2>1, <2>2, <2>3, <2>4, <2>5 DEF Applies
<1>13. QED
  BY <1>2, <1>3, <1>4, <1>8, <1>9, <1>12, Zenon

(* A fetched status becomes a report, or its order is latched. *)
LEMMA FetchEffect ==
    ASSUME TypeOK, Data, NEW t \in Threads, FetchStatus(t)
    PROVE  \E o \in Orders :
             /\ Latches
             /\ \/ scan'.reports = scan.reports
                \/ /\ o \in known /\ remote[o] \in Shown
                   /\ scan'.reports = [scan.reports EXCEPT ![o] = Report(o)]
             /\ scan' \in Scans
<1>1. PICK o \in scan.todo :
         \/ /\ o \in known
            /\ scan' = [scan EXCEPT !.todo = @ \ {o}, !.reports[o] = Report(o)]
            /\ UNCHANGED latched
         \/ /\ scan' = [scan EXCEPT !.todo = @ \ {o}, !.faults = TRUE]
            /\ latched' = latched \cup ({o} \cap known)
  BY Zenon DEF FetchStatus
<1>2. o \in Orders /\ latched \subseteq Orders
  BY DEF TypeOK, Scans
<1>3. Latches
  <2>1. latched \subseteq latched' /\ latched' \subseteq Orders
    BY <1>1, <1>2
  <2>2. QED
    BY <2>1 DEF FetchStatus, Latches, brokerTruth, brokerVars
<1>4. CASE /\ o \in known
           /\ scan' = [scan EXCEPT !.todo = @ \ {o}, !.reports[o] = Report(o)]
  <2>1. remote[o] \in Shown
    BY <1>2, <1>4 DEF Data, Known
  <2>2. Report(o) \in [st : Statuses, qty : 0..Qty]
    <3>1. Report(o).st \in Statuses
      BY <1>2, <2>1, ReportLemma, Members
    <3>2. QED
      BY <1>2, <3>1 DEF Report, TypeOK
  <2>3. scan' \in Scans /\ scan'.reports = [scan.reports EXCEPT ![o] = Report(o)]
    BY <1>2, <1>4, <2>2, Zenon DEF TypeOK, Scans
  <2>4. QED
    BY <1>2, <1>3, <1>4, <2>1, <2>3
<1>5. CASE scan' = [scan EXCEPT !.todo = @ \ {o}, !.faults = TRUE]
  <2>1. scan' \in Scans /\ scan'.reports = scan.reports
    BY <1>2, <1>5, Zenon DEF TypeOK, Scans
  <2>2. QED
    BY <1>2, <1>3, <2>1
<1>6. QED
  BY <1>1, <1>4, <1>5, Zenon

(* Every step has one of these effects on the order data. *)
LEMMA StepEffect == IInv /\ [Next]_vars => Effect
<1> SUFFICES ASSUME IInv, [Next]_vars PROVE Effect
  OBVIOUS
<1>0. /\ status \in [Orders -> Statuses] /\ latched \subseteq Orders
      /\ \A t \in Threads : task[t].kind \in OrderTasks => task[t].on \in Orders
  BY OrderTask DEF IInv, TypeOK
<1> USE <1>0 DEF brokerTruth, brokerVars, orderVars
<1>1. ASSUME NEW t \in Threads,
             \/ Restart(t) \/ Request(t) \/ \E o \in Orders : StartSubmit(t, o)
             \/ TripBreaker(t) \/ ResetBreaker(t) \/ RequireStartup(t)
             \/ StartupAlreadyCurrent(t) \/ EnterBarrier(t) \/ ApproveRisk(t)
             \/ TripFromPlanGuard(t) \/ AbortEvaluation(t) \/ StartClaim(t)
             \/ RetryStale(t) \/ ConfirmFill(t) \/ LeaveBarrier(t)
             \/ StartReconcile(t) \/ AbortReconcile(t) \/ Crash(t)
      PROVE  Latches
  BY <1>1, ZenonT(60) DEF Latches, Restart, Request, Enqueue, StartSubmit, Commit,
     TripBreaker, ResetBreaker, RequireStartup, StartupAlreadyCurrent,
     EnterBarrier, ApproveRisk, TripFromPlanGuard, AbortEvaluation, StartClaim,
     RetryStale, ConfirmFill, LeaveBarrier, StartReconcile, AbortReconcile, Crash
<1>2. ASSUME NEW t \in Threads,
             \/ ProposeOrder(t) \/ RejectOrder(t) \/ ExpireIfEligible(t) \/ ExpireApproved(t)
      PROVE  Latches \/ Settles(task[t].on)
  BY <1>2 DEF Latches, Settles, ProposeOrder, RejectOrder, ExpireIfEligible,
     ExpireApproved, MayExpireApproved, Commit, SetStatus
<1>3. ASSUME NEW t \in Threads, RejectRisk(t) \/ RejectPlanExit(t) \/ ClaimRefused(t)
      PROVE  Latches \/ Settles(task[t].on)
  BY <1>3, Zenon DEF Latches, Settles, RejectRisk, RejectPlanExit, Refuse, ClaimRefused,
     MayExpireApproved, SetStatus
<1>4. ASSUME NEW t \in Threads, RecordApproval(t) PROVE Latches \/ Approves(task[t].on)
  BY <1>4, Zenon DEF Latches, Approves, RecordApproval, Commit, SetStatus
<1>5. ASSUME NEW t \in Threads, ClaimSubmission(t) PROVE Claims(task[t].on)
  <2>1. \A p \in Orders : status[p] \notin Unresolved
    BY <1>5, ZenonT(60) DEF IInv, Decision, Evaluated, BrokerReconciled, ClaimSubmission, Goto
  <2>2. QED
    BY <1>5, <2>1, Zenon DEF Claims, ClaimSubmission, ClaimAllowed, SetStatus
<1>6. ASSUME NEW t \in Threads, Send(t) PROVE Calls(task[t].on)
  <2>1. Claimed(task[t].on) /\ status[task[t].on] = "SUBMITTING"
    BY <1>6, ZenonT(60) DEF IInv, Decision, Send, Goto
  <2>2. QED
    BY <1>6, <2>1, Zenon DEF Calls, Claimed, Send
<1>7. ASSUME NEW t \in Threads, SendRefused(t) PROVE Records(task[t].on, "REJECTED")
  BY <1>7, NobodyIsNoThread DEF Records, SendRefused, RecordResult, SetStatus, Shown
<1>8. ASSUME NEW t \in Threads, SendUnanswered(t) \/ SendMalformed(t)
      PROVE  Records(task[t].on, "ACCEPTANCE_UNKNOWN")
  <2>1. task[t].on \in Orders
    BY <1>8, ZenonT(60) DEF IInv, Control, Claiming, OrderTasks, SendUnanswered, SendMalformed, Goto
  <2>2. QED
    BY <1>8, <2>1 DEF Records, SendUnanswered, SendMalformed, RecordResult, SetStatus
<1>9. ASSUME NEW t \in Threads, SendAnswered(t)
      PROVE  Records(task[t].on, RemoteStatus(task[t].on))
  <2> DEFINE o == task[t].on
  <2>1. o \in Orders /\ remote[o] \in Shown
    BY <1>9 DEF IInv, Control, Claiming, OrderTasks, SendAnswered
  <2>2. /\ RemoteStatus(o) \in BrokerStatuses
        /\ RemoteStatus(o) \in Terminal => remote[o] \in Ended
        /\ Report(o).qty = filled[o]
    BY <2>1, ReportLemma DEF IInv
  <2>3. filled[o] > ledger[o] => NeedsFills(o, Report(o))
    BY <2>2 DEF NeedsFills
  <2>4. QED
    BY <1>9, <2>1, <2>2, <2>3 DEF Records, SendAnswered, RecordResult, SetStatus
<1>10. ASSUME NEW t \in Threads, Send(t) \/ SendRefused(t) \/ SendUnanswered(t)
                \/ SendMalformed(t) \/ SendAnswered(t) \/ ClaimSubmission(t)
                \/ RejectRisk(t) \/ RejectPlanExit(t) \/ ClaimRefused(t)
                \/ ProposeOrder(t) \/ RejectOrder(t) \/ ExpireIfEligible(t)
                \/ ExpireApproved(t) \/ RecordApproval(t)
       PROVE  task[t].on \in Orders
  BY <1>10, Zenon DEF IInv, Control, Claiming, Evaluating, OrderTasks, Commit, Goto, Send,
     SendRefused, SendUnanswered, SendMalformed, SendAnswered, ClaimSubmission,
     RejectRisk, RejectPlanExit, ClaimRefused, ProposeOrder, RejectOrder,
     ExpireIfEligible, ExpireApproved, RecordApproval
<1>11. ASSUME NEW t \in Threads, ImportFills(t) PROVE Imports
  <2>1. ledger \in [Orders -> 0..Qty] /\ filled \in [Orders -> 0..Qty] /\ known \subseteq Orders
    BY DEF IInv, TypeOK
  <2>2. QED
    BY <1>11, <2>1 DEF Imports, ImportFills
<1>12. ASSUME NEW t \in Threads, FinishReconcile(t) PROVE Latches
  BY <1>12 DEF Latches, FinishReconcile, OpenAtBroker
<1>13. ASSUME NEW t \in Threads, ClearGroups(t) PROVE Clears
  BY <1>13, ZenonT(60) DEF Clears, ClearGroups
<1>14. ASSUME NEW t \in Threads, ResolveUnknown(t) \/ FetchStatus(t) \/ ApplyStatus(t)
       PROVE  Effect
  BY <1>14, ResolveEffect, FetchEffect, ApplyEffect, Zenon DEF IInv, Effect
<1>15. ASSUME NEW o \in Orders, Broker(o) PROVE Works(o)
  BY <1>15 DEF Works, Broker, Deliver, Fill, EndAtBroker, BrokerStep
<1>16. ASSUME NEW o \in Orders, ProposalExpires(o) PROVE Latches
  BY <1>16 DEF Latches, ProposalExpires
<1>17. CASE UNCHANGED vars
  BY <1>17 DEF Latches, Effect, vars
<1>18. "REJECTED" \in Statuses /\ "ACCEPTANCE_UNKNOWN" \in Statuses /\ BrokerStatuses \subseteq Statuses
  BY Members
<1>19. ASSUME NEW t \in Threads, SendAnswered(t) PROVE RemoteStatus(task[t].on) \in Statuses
  BY <1>10, <1>18, <1>19, ReportLemma, ZenonT(60) DEF IInv, SendAnswered
<1>20. ASSUME NEW t \in Threads, ShortWriter(t) PROVE Effect
  BY <1>1, <1>2, <1>4, <1>10, <1>20 DEF ShortWriter, Effect
<1>21. ASSUME NEW t \in Threads, Submission(t) PROVE Effect
  BY <1>1, <1>3, <1>5, <1>6, <1>7, <1>8, <1>9, <1>10, <1>18, <1>19, <1>21
  DEF Submission, Effect
<1>22. ASSUME NEW t \in Threads, Reconcile(t) PROVE Effect
  BY <1>1, <1>11, <1>12, <1>13, <1>14, <1>22 DEF Reconcile, Effect
<1>23. QED
  BY <1>1, <1>15, <1>16, <1>17, <1>20, <1>21, <1>22 DEF Next, Effect

(* The data invariants follow from the effect of a step alone. *)
LEMMA DataStep == TypeOK /\ Data /\ Effect => Data'
<1> SUFFICES ASSUME TypeOK, Data, Effect PROVE Data'
  OBVIOUS
<1>0. /\ status \in [Orders -> Statuses] /\ remote \in [Orders -> RemoteStates]
      /\ ledger \in [Orders -> 0..Qty] /\ filled \in [Orders -> 0..Qty]
      /\ approvals \in [Orders -> Nat] /\ sends \in [Orders -> Nat]
      /\ Qty \in Nat /\ RuleOrders \subseteq Orders
      /\ Endings \subseteq {"canceled", "rejected", "expired"}
  BY OutboxAssumption DEF TypeOK
<1>1. Once /\ Known /\ OneUnresolved /\ ExposureTracked /\ GroupHeld
  BY DEF Data
<1> HIDE DEF TypeOK, Data
<1> USE DEF Unresolved, Terminal, LocalLive, brokerTruth
<1>2. ASSUME Latches PROVE Data'
  <2>1. Once'
    BY <1>0, <1>1, <1>2 DEF Latches, Once
  <2>2. Known'
    BY <1>0, <1>1, <1>2 DEF Latches, Once, Known
  <2>3. OneUnresolved'
    BY <1>0, <1>1, <1>2 DEF Latches, OneUnresolved
  <2>4. ExposureTracked'
    BY <1>0, <1>1, <1>2 DEF Latches, Known, ExposureTracked
  <2>5. GroupHeld'
    BY <1>0, <1>1, <1>2 DEF Latches, GroupHeld, OneUnresolved
  <2>6. QED
    BY <2>1, <2>2, <2>3, <2>4, <2>5 DEF Data
<1>3. ASSUME Imports PROVE Data'
  <2>1. Once'
    BY <1>0, <1>1, <1>3 DEF Imports, Once
  <2>2. Known'
    BY <1>0, <1>1, <1>3 DEF Imports, Once, Known
  <2>3. OneUnresolved'
    BY <1>0, <1>1, <1>3 DEF Imports, OneUnresolved
  <2>4. ExposureTracked'
    BY <1>0, <1>1, <1>3 DEF Imports, Known, ExposureTracked
  <2>5. GroupHeld'
    BY <1>0, <1>1, <1>3 DEF Imports, GroupHeld, OneUnresolved
  <2>6. QED
    BY <2>1, <2>2, <2>3, <2>4, <2>5 DEF Data
<1>4. ASSUME Clears PROVE Data'
  <2>1. Once'
    BY <1>0, <1>1, <1>4 DEF Clears, Once
  <2>2. Known'
    BY <1>0, <1>1, <1>4 DEF Clears, Once, Known
  <2>3. OneUnresolved'
    BY <1>0, <1>1, <1>4 DEF Clears, OneUnresolved
  <2>4. ExposureTracked'
    BY <1>0, <1>1, <1>4 DEF Clears, Known, ExposureTracked
  <2>5. GroupHeld'
    BY <1>0, <1>1, <1>4 DEF Clears, GroupHeld, OneUnresolved, StillUnresolved
  <2>6. QED
    BY <2>1, <2>2, <2>3, <2>4, <2>5 DEF Data
<1>5. ASSUME NEW o \in Orders, Settles(o) PROVE Data'
  <2>1. Once'
    BY <1>0, <1>1, <1>5 DEF Settles, Once
  <2>2. Known'
    BY <1>0, <1>1, <1>5 DEF Settles, Once, Known
  <2>3. OneUnresolved'
    BY <1>0, <1>1, <1>5 DEF Settles, OneUnresolved
  <2>4. ExposureTracked'
    BY <1>0, <1>1, <1>5 DEF Settles, Known, ExposureTracked
  <2>5. GroupHeld'
    BY <1>0, <1>1, <1>5 DEF Settles, GroupHeld, OneUnresolved
  <2>6. QED
    BY <2>1, <2>2, <2>3, <2>4, <2>5 DEF Data
<1>6. ASSUME NEW o \in Orders, Approves(o) PROVE Data'
  <2>1. Once'
    BY <1>0, <1>1, <1>6 DEF Approves, Once
  <2>2. Known'
    BY <1>0, <1>1, <1>6 DEF Approves, Once, Known
  <2>3. OneUnresolved'
    BY <1>0, <1>1, <1>6 DEF Approves, OneUnresolved
  <2>4. ExposureTracked'
    BY <1>0, <1>1, <1>6 DEF Approves, Known, ExposureTracked
  <2>5. GroupHeld'
    BY <1>0, <1>1, <1>6 DEF Approves, GroupHeld, OneUnresolved
  <2>6. QED
    BY <2>1, <2>2, <2>3, <2>4, <2>5 DEF Data
<1>7. ASSUME NEW o \in Orders, Claims(o) PROVE Data'
  <2>1. Once'
    BY <1>0, <1>1, <1>7 DEF Claims, Once
  <2>2. Known'
    BY <1>0, <1>1, <1>7 DEF Claims, Once, Known
  <2>3. OneUnresolved'
    BY <1>0, <1>1, <1>7 DEF Claims, OneUnresolved
  <2>4. ExposureTracked'
    BY <1>0, <1>1, <1>7 DEF Claims, Known, ExposureTracked
  <2>5. GroupHeld'
    BY <1>0, <1>1, <1>7 DEF Claims, GroupHeld, OneUnresolved
  <2>6. QED
    BY <2>1, <2>2, <2>3, <2>4, <2>5 DEF Data
<1>8. ASSUME NEW o \in Orders, Calls(o) PROVE Data'
  <2>1. Once'
    BY <1>0, <1>1, <1>8 DEF Calls, Once
  <2>2. Known'
    BY <1>0, <1>1, <1>8 DEF Calls, Once, Known, Shown
  <2>3. OneUnresolved'
    BY <1>0, <1>1, <1>8 DEF Calls, OneUnresolved
  <2>4. ExposureTracked'
    BY <1>0, <1>1, <1>8 DEF Calls, Known, ExposureTracked, Shown
  <2>5. GroupHeld'
    BY <1>0, <1>1, <1>8 DEF Calls, GroupHeld, OneUnresolved
  <2>6. QED
    BY <2>1, <2>2, <2>3, <2>4, <2>5 DEF Data
<1>9. ASSUME NEW o \in Orders, Works(o) PROVE Data'
  <2>1. Once'
    BY <1>0, <1>1, <1>9 DEF Works, Once
  <2>2. Known'
    BY <1>0, <1>1, <1>9 DEF Works, Once, Known, Shown, RemoteStates
  <2>3. OneUnresolved'
    BY <1>0, <1>1, <1>9 DEF Works, OneUnresolved
  <2>4. ExposureTracked'
    BY <1>0, <1>1, <1>9 DEF Works, Known, ExposureTracked, Shown, RemoteStates
  <2>5. GroupHeld'
    BY <1>0, <1>1, <1>9 DEF Works, GroupHeld, OneUnresolved
  <2>6. QED
    BY <2>1, <2>2, <2>3, <2>4, <2>5 DEF Data
<1>10. ASSUME NEW o \in Orders, NEW new \in Statuses, Records(o, new) PROVE Data'
  <2>1. Once'
    BY <1>0, <1>1, <1>10 DEF Records, Once, BrokerStatuses
  <2>2. Known'
    BY <1>0, <1>1, <1>10 DEF Records, Once, Known, BrokerStatuses, Ended, Shown
  <2>3. OneUnresolved'
    BY <1>0, <1>1, <1>10 DEF Records, OneUnresolved, BrokerStatuses
  <2>4. ExposureTracked'
    BY <1>0, <1>1, <1>10 DEF Records, Known, ExposureTracked, BrokerStatuses, Ended, Shown
  <2>5. GroupHeld'
    BY <1>0, <1>1, <1>10 DEF Records, GroupHeld, OneUnresolved, BrokerStatuses
  <2>6. QED
    BY <2>1, <2>2, <2>3, <2>4, <2>5 DEF Data
<1>11. ASSUME NEW o \in Orders, NEW new \in Statuses, Applies(o, new) PROVE Data'
  <2>1. Once'
    BY <1>0, <1>1, <1>11 DEF Applies, Once, BrokerStatuses
  <2>2. Known'
    BY <1>0, <1>1, <1>11 DEF Applies, Once, Known, BrokerStatuses, Ended, Shown
  <2>3. OneUnresolved'
    BY <1>0, <1>1, <1>11 DEF Applies, OneUnresolved, BrokerStatuses
  <2>4. ExposureTracked'
    <3>1. /\ \A p \in Orders : p # o => status'[p] = status[p] /\ (p \in latched => p \in latched')
          /\ status'[o] = new /\ remote' = remote /\ filled' = filled /\ ledger' = ledger
          /\ new \in Terminal => remote[o] \notin {"inflight", "open"}
      BY <1>0, <1>11 DEF Applies, Ended, Shown
    <3>2. remote[o] \notin {"inflight"} /\ new \in BrokerStatuses \cup {status[o]}
      BY <1>11 DEF Applies, Shown
    <3>3. sends[o] # 0 /\ (status[o] \in {"ABSENT", "PROPOSED", "APPROVAL_RECORDED"} => sends[o] = 0)
      <4>1. sends[o] # 0
        BY <1>1, <1>11 DEF Applies, Known, Shown
      <4>2. approvals[o] = 0 => sends[o] = 0
        BY <1>0, <1>1 DEF Once
      <4>3. status[o] \in {"ABSENT", "PROPOSED"} => approvals[o] = 0
        BY <1>1 DEF Once
      <4>4. status[o] = "APPROVAL_RECORDED" => sends[o] = 0
        BY <1>1, Zenon DEF Once
      <4>5. QED
        BY <4>1, <4>2, <4>3, <4>4, Zenon
    <3>4. new \in LocalLive \cup Terminal
      <4>1. status[o] \in LocalLive \cup Terminal
        BY <1>0, <3>3 DEF Statuses
      <4>2. QED
        BY <3>2, <4>1 DEF BrokerStatuses
    <3>5. /\ remote[o] \in {"inflight", "open"} => new \in LocalLive
          /\ filled[o] > ledger[o] => new \in LocalLive \/ o \in latched'
      BY <1>11, <3>1, <3>4, Zenon DEF Applies
    <3>6. \A p \in Orders :
            /\ remote[p] \in {"inflight", "open"} => status'[p] \in LocalLive
            /\ filled[p] > ledger[p] => status'[p] \in LocalLive \/ p \in latched'
      BY <1>1, <3>1, <3>5, Zenon DEF ExposureTracked
    <3>7. QED
      BY <3>1, <3>6, Zenon DEF ExposureTracked
  <2>5. GroupHeld'
    BY <1>0, <1>1, <1>11 DEF Applies, GroupHeld, OneUnresolved, BrokerStatuses
  <2>6. QED
    BY <2>1, <2>2, <2>3, <2>4, <2>5 DEF Data
<1>12. ASSUME NEW found \in SUBSET Orders, Resolves(found) PROVE Data'
  <2>0. \A o \in found : /\ Report(o).st \in BrokerStatuses
                         /\ Report(o).st \in Terminal => remote[o] \in Ended
    BY <1>12, ReportLemma DEF Resolves
  <2>1. Once'
    BY <1>0, <1>1, <1>12, <2>0 DEF Resolves, Once, BrokerStatuses
  <2>2. Known'
    BY <1>0, <1>1, <1>12, <2>0 DEF Resolves, Once, Known, BrokerStatuses, Ended, Shown
  <2>3. OneUnresolved'
    BY <1>0, <1>1, <1>12, <2>0 DEF Resolves, OneUnresolved, BrokerStatuses
  <2>4. ExposureTracked'
    BY <1>0, <1>1, <1>12, <2>0 DEF Resolves, Known, ExposureTracked, BrokerStatuses, Ended, Shown
  <2>5. GroupHeld'
    BY <1>0, <1>1, <1>12, <2>0 DEF Resolves, GroupHeld, OneUnresolved, BrokerStatuses
  <2>6. QED
    BY <2>1, <2>2, <2>3, <2>4, <2>5 DEF Data
<1>13. QED
  BY <1>2, <1>3, <1>4, <1>5, <1>6, <1>7, <1>8, <1>9, <1>10, <1>11, <1>12 DEF Effect
=============================================================================
