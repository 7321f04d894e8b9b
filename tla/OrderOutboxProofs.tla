-------------------------- MODULE OrderOutboxProofs --------------------------
(***************************************************************************)
(* The safety of the outbox: every step keeps Decision, Reports and the    *)
(* types, which with OrderOutboxEffects makes its invariant inductive; and *)
(* the theorems that follow from the invariant.                            *)
(***************************************************************************)
EXTENDS OrderOutboxEffects

(* Steps taken with the main lock, or that take it for one transaction:    *)
(* nobody else is inside the barrier.                                      *)
LEMMA InsideStep ==
    ASSUME TypeOK, Control, NEW t \in Threads, ShortWriter(t) \/ Submission(t) \/ Reconcile(t)
    PROVE  /\ holder \in {Nobody, t}
           /\ \A u \in Threads : u # t => pc[u] \notin Holding /\ pc'[u] = pc[u]
<1>0. pc \in [Threads -> PCs]
  BY DEF TypeOK
<1> USE DEF Goto
<1>1. pc[t] \in Holding \/ holder = Nobody
  <2> USE DEF Holding, Evaluating, Claiming, ScanSteps
  <2>1. CASE ShortWriter(t)
    BY <2>1, Zenon DEF ShortWriter, ProposeOrder, RecordApproval, RejectOrder,
       ExpireIfEligible, ExpireApproved, TripBreaker, ResetBreaker,
       RequireStartup, StartupAlreadyCurrent, Commit
  <2>2. CASE Submission(t)
    BY <2>2, Zenon DEF Submission, EnterBarrier, BeginSubmission, ApproveRisk, RejectRisk,
       TripFromPlanGuard, RejectPlanExit, AbortEvaluation, StartClaim, RetryStale,
       ClaimSubmission, ClaimRefused, Send, SendRefused, SendUnanswered,
       SendMalformed, SendAnswered, ConfirmFill, LeaveBarrier
  <2>3. CASE Reconcile(t)
    BY <2>3, Zenon DEF Reconcile, StartReconcile, BeginWrite, ResolveUnknown, ImportFills,
       FetchStatus, ApplyStatus, ClearGroups, FinishReconcile, AbortReconcile
  <2>4. QED
    BY <2>1, <2>2, <2>3
<1>2. \A u \in Threads : u # t => pc'[u] = pc[u]
  <2> USE <1>0 DEF EndTask
  <2>1. CASE ShortWriter(t)
    BY <2>1, Zenon DEF ShortWriter, ProposeOrder, RecordApproval, RejectOrder,
       ExpireIfEligible, ExpireApproved, TripBreaker, ResetBreaker,
       RequireStartup, StartupAlreadyCurrent, Commit
  <2>2. CASE Submission(t)
    BY <2>2, Zenon DEF Submission, EnterBarrier, ApproveRisk, RejectRisk, Refuse,
       TripFromPlanGuard, RejectPlanExit, AbortEvaluation, StartClaim, RetryStale,
       ClaimSubmission, ClaimRefused, Send, SendRefused, SendUnanswered,
       SendMalformed, SendAnswered, ConfirmFill, LeaveBarrier
  <2>3. CASE Reconcile(t)
    BY <2>3, ZenonT(60) DEF Reconcile, StartReconcile, ResolveUnknown, ImportFills,
       FetchStatus, ApplyStatus, ClearGroups, FinishReconcile, AbortReconcile, RetireWriter
  <2>4. QED
    BY <2>1, <2>2, <2>3
<1>3. QED
  BY <1>1, <1>2, NobodyIsNoThread, Zenon DEF Control

(* Steps outside the barrier leave everything but the thread itself alone. *)
LEMMA OutsideStep ==
    ASSUME TypeOK, Control, NEW t \in Threads,
           Restart(t) \/ Request(t) \/ Crash(t) \/ \E o \in Orders : StartSubmit(t, o)
    PROVE  /\ UNCHANGED <<orderVars, tripped, current, brokerVars, approvals, sends>>
           /\ pc'[t] \in {"queued", "submit", "down"}
           /\ \A u \in Threads : u # t => pc'[u] = pc[u] /\ task'[u] = task[u]
           /\ \/ holder = t /\ scan' = NoScan
              \/ holder # t /\ UNCHANGED <<holder, verdict, scan>>
<1>0. pc \in [Threads -> PCs] /\ task \in [Threads -> Tasks]
  BY DEF TypeOK
<1> USE <1>0 DEF Goto
<1>1. CASE Crash(t)
  BY <1>1 DEF Crash, orderVars, brokerVars
<1>2. CASE Request(t)
  <2>1. PICK kind, on : Enqueue(t, kind, on)
    BY <1>2 DEF Request
  <2>2. pc' = [pc EXCEPT ![t] = "queued"]
    BY <1>2 DEF Request
  <2>3. QED
    BY <2>1, <2>2 DEF Enqueue, Announce, orderVars, brokerVars
<1>3. CASE Restart(t)
  BY <1>3 DEF Restart, Enqueue, Announce, orderVars, brokerVars
<1>4. CASE \E o \in Orders : StartSubmit(t, o)
  <2>1. holder # t /\ pc' = [pc EXCEPT ![t] = "submit"]
    BY <1>4 DEF StartSubmit, Control, Holding, Evaluating, Claiming, ScanSteps
  <2>2. QED
    BY <1>4, <2>1 DEF StartSubmit, barrierVars, orderVars, brokerVars
<1>5. QED
  BY <1>1, <1>2, <1>3, <1>4

(* The environment touches no thread. *)
LEMMA EnvironmentStep ==
    ASSUME NEW o \in Orders, ProposalExpires(o) \/ Broker(o)
    PROVE  UNCHANGED <<orderVars, tripped, current, threadVars, barrierVars, approvals, sends>>
  BY DEF ProposalExpires, Broker, Deliver, Fill, EndAtBroker, BrokerStep

(* The promises of a risk check hold until the broker has answered. *)
LEMMA DecisionStep == IInv /\ [Next]_vars => Decision'
<1> SUFFICES ASSUME IInv, [Next]_vars PROVE Decision'
  OBVIOUS
<1>0. /\ pc \in [Threads -> PCs] /\ status \in [Orders -> Statuses]
      /\ sends \in [Orders -> Nat] /\ TypeOK /\ Control /\ Decision
      /\ \A t \in Threads : task[t].kind \in OrderTasks => task[t].on \in Orders
  BY OrderTask DEF IInv, TypeOK
<1>1. Deciding \subseteq Holding
  BY DEF Deciding, Holding, Evaluating, Claiming
<1>i. ASSUME NEW t \in Threads, ShortWriter(t) \/ Submission(t) \/ Reconcile(t)
      PROVE  \A u \in Threads : u # t => pc'[u] \notin Deciding
  <2>1. \A u \in Threads : u # t => pc[u] \notin Holding /\ pc'[u] = pc[u]
    BY <1>0, <1>i, InsideStep
  <2>2. QED
    BY <1>1, <2>1
<1>2. ASSUME NEW t \in Threads, ShortWriter(t) \/ Submission(t) \/ Reconcile(t),
             pc'[t] \notin Deciding
      PROVE  Decision'
  BY <1>i, <1>2 DEF Decision, Deciding
<1>3. ASSUME NEW t \in Threads, ApproveRisk(t) PROVE Decision'
  <2>1. pc'[t] = "accepted" /\ UNCHANGED <<orderVars, tripped, current>>
    BY <1>0, <1>3 DEF ApproveRisk, Goto
  <2>2. LimitScopes \subseteq Bypassable
    BY DEF LimitScopes, Bypassable
  <2>3. BrokerReconciled' /\ (tripped \cup verdict.trips \subseteq verdict.bypassed)'
          /\ (verdict.bypassed \subseteq Bypassable)'
    BY <1>3, <2>1, <2>2 DEF ApproveRisk, RiskPasses, BrokerReconciled, NoVerdict, orderVars
  <2>4. \A u \in Threads : u # t => pc'[u] \notin Deciding
    BY <1>i, <1>3 DEF Submission
  <2>5. QED
    BY <1>0, <2>1, <2>3, <2>4 DEF Decision, Evaluated, Deciding
<1>4. ASSUME NEW t \in Threads, StartClaim(t) PROVE Decision'
  <2>1. /\ pc[t] = "accepted" /\ pc'[t] = "claim"
        /\ UNCHANGED <<orderVars, tripped, current, verdict>>
    BY <1>0, <1>4 DEF StartClaim, Goto
  <2>2. Evaluated'
    BY <1>0, <2>1, Zenon DEF Decision, Evaluated, BrokerReconciled, orderVars
  <2>3. \A u \in Threads : u # t => pc'[u] \notin Deciding
    BY <1>i, <1>4 DEF Submission
  <2>4. QED
    BY <1>0, <2>1, <2>2, <2>3, Zenon DEF Decision, Deciding
<1>5. ASSUME NEW t \in Threads, ClaimSubmission(t) PROVE Decision'
  <2> DEFINE o == task[t].on
  <2>1. /\ o \in Orders /\ pc[t] = "claim" /\ pc'[t] = "send" /\ Evaluated
        /\ UNCHANGED <<task, current, verdict, sends, approvals>>
        /\ status' = [status EXCEPT ![o] = "SUBMITTING"]
        /\ latched' = latched \ {o}
        /\ tripped' = tripped \cup verdict.trips
        /\ status[o] = "APPROVAL_RECORDED"
    BY <1>0, <1>5, ZenonT(60) DEF ClaimSubmission, ClaimAllowed, Goto, SetStatus, Decision, Control,
       Claiming, OrderTasks
  <2>2. sends[o] = 0 /\ approvals[o] = 1
    BY <2>1 DEF IInv, Data, Once
  <2>3. Claimed(o)'
    BY <2>1, <2>2 DEF Claimed, Evaluated, BrokerReconciled
  <2>4. status'[task'[t].on] = "SUBMITTING"
    BY <1>0, <2>1
  <2>5. \A u \in Threads : u # t => pc'[u] \notin Deciding
    BY <1>i, <1>5 DEF Submission
  <2>6. QED
    BY <1>0, <2>1, <2>3, <2>4, <2>5, ZenonT(60) DEF Decision, Deciding, Claimed
<1>6. ASSUME NEW t \in Threads, Send(t) PROVE Decision'
  <2>1. pc[t] = "send" /\ pc'[t] = "await" /\ UNCHANGED <<status, task>>
    BY <1>0, <1>6 DEF Send, Goto, orderVars
  <2>2. \A u \in Threads : u # t => pc'[u] \notin Deciding
    BY <1>i, <1>6 DEF Submission
  <2>3. QED
    BY <1>0, <2>1, <2>2 DEF Decision, Deciding
<1>7. ASSUME NEW t \in Threads,
             Restart(t) \/ Request(t) \/ Crash(t) \/ \E o \in Orders : StartSubmit(t, o)
      PROVE  Decision'
  <2>1. \A u \in Threads : pc'[u] \in Deciding => u # t /\ holder = u
    BY <1>0, <1>1, <1>7, OutsideStep DEF Control, Deciding
  <2>2. ASSUME NEW u \in Threads, pc'[u] \in Deciding
        PROVE  /\ pc'[u] = pc[u] /\ task'[u] = task[u]
               /\ UNCHANGED <<status, latched, groupLatched, tripped, current, sends,
                              approvals, verdict>>
    BY <1>0, <1>7, <2>1, <2>2, OutsideStep DEF orderVars
  <2>3. ASSUME NEW u \in Threads, pc'[u] \in Deciding
        PROVE  /\ pc'[u] \in {"accepted", "claim"} => Evaluated'
               /\ pc'[u] = "send" => Claimed(task[u].on)'
               /\ pc'[u] \in {"send", "await"} => status'[task'[u].on] = "SUBMITTING"
    <3>1. Evaluated' <=> Evaluated
      BY <2>2, <2>3 DEF Evaluated, BrokerReconciled
    <3>2. /\ pc[u] \in {"accepted", "claim"} => Evaluated
          /\ pc[u] = "send" => Claimed(task[u].on)
          /\ pc[u] \in {"send", "await"} => status[task[u].on] = "SUBMITTING"
      BY <1>0 DEF Decision
    <3>3. Claimed(task[u].on)' <=> Claimed(task[u].on)
      BY <2>2, <2>3 DEF Claimed
    <3>4. QED
      BY <2>2, <2>3, <3>1, <3>2, <3>3
  <2>4. QED
    BY <2>3 DEF Decision, Deciding
<1>8. ASSUME UNCHANGED <<orderVars, tripped, current, threadVars, approvals, sends>>
      PROVE  Decision'
  BY <1>0, <1>8 DEF Decision, Evaluated, BrokerReconciled, Claimed, orderVars, threadVars
<1>9. ASSUME NEW t \in Threads, ShortWriter(t) PROVE pc'[t] \notin Deciding
  BY <1>0, <1>9, ZenonT(60) DEF Deciding, ShortWriter, ProposeOrder, RecordApproval, RejectOrder,
     ExpireIfEligible, ExpireApproved, TripBreaker, ResetBreaker,
     RequireStartup, StartupAlreadyCurrent, Commit, Goto
<1>10. ASSUME NEW t \in Threads, Submission(t),
              ~(ApproveRisk(t) \/ StartClaim(t) \/ ClaimSubmission(t) \/ Send(t))
       PROVE  pc'[t] \notin Deciding
  BY <1>0, <1>10, Zenon DEF Deciding, Submission, EnterBarrier, RejectRisk, Refuse, EndTask,
     TripFromPlanGuard, RejectPlanExit, AbortEvaluation, RetryStale, ClaimRefused,
     SendRefused, SendUnanswered, SendMalformed, SendAnswered, ConfirmFill, LeaveBarrier, Goto
<1>11. ASSUME NEW t \in Threads, Reconcile(t) PROVE pc'[t] \notin Deciding
  BY <1>0, <1>11, Zenon DEF Deciding, Reconcile, StartReconcile, ResolveUnknown, ImportFills,
     FetchStatus, ApplyStatus, ClearGroups, FinishReconcile, AbortReconcile,
     RetireWriter, EndTask, Goto, ScanSteps
<1>12. QED
  BY <1>2, <1>3, <1>4, <1>5, <1>6, <1>7, <1>8, <1>9, <1>10, <1>11, EnvironmentStep
  DEF Next, vars

(* A report that a later step uses still matches the broker. *)
LEMMA ReportsStep == IInv /\ [Next]_vars => Reports'
<1> SUFFICES ASSUME IInv, [Next]_vars PROVE Reports'
  OBVIOUS
<1>0. /\ TypeOK /\ Control /\ Data /\ Reports
      /\ pc \in [Threads -> PCs] /\ scan \in Scans /\ holder \in Threads \cup {Nobody}
  BY DEF IInv, TypeOK, BarrierTypeOK
<1>1. Reporting \subseteq Holding
  BY DEF Reporting, Holding, Claiming, ScanSteps
<1> DEFINE Silent == \A o \in Orders : scan.reports[o] = NoReport
<1>2. ASSUME NEW t \in Threads, holder \in {Nobody, t}, pc[t] \notin Reporting
      PROVE  Silent
  BY <1>0, <1>2, NobodyIsNoThread, Zenon DEF Reports, ReportHolds
<1>3. ASSUME scan' = NoScan PROVE Reports'
  BY <1>3 DEF Reports, NoScan
<1>4. ASSUME Silent, scan'.reports = scan.reports PROVE Reports'
  BY <1>4 DEF Reports
<1>5. ASSUME NEW t \in Threads, ShortWriter(t) PROVE Reports'
  <2>1. pc[t] = "queued" /\ UNCHANGED scan
    BY <1>5, Zenon DEF ShortWriter, ProposeOrder, RecordApproval, RejectOrder,
       ExpireIfEligible, ExpireApproved, TripBreaker, ResetBreaker,
       RequireStartup, StartupAlreadyCurrent, Commit, Goto
  <2>2. QED
    BY <1>0, <1>2, <1>4, <1>5, <2>1, InsideStep DEF Reporting
<1>6. ASSUME NEW t \in Threads, Submission(t), pc[t] \notin {"confirm", "leave"}
      PROVE  Reports'
  <2>1. pc[t] \notin Reporting
    BY <1>6, Zenon DEF Submission, Reporting, EnterBarrier, ApproveRisk, RejectRisk,
       TripFromPlanGuard, RejectPlanExit, AbortEvaluation, StartClaim, RetryStale,
       ClaimSubmission, ClaimRefused, Send, SendRefused, SendUnanswered,
       SendMalformed, SendAnswered, ConfirmFill, LeaveBarrier, Goto
  <2>2. scan' = NoScan \/ scan'.reports = scan.reports
    BY <1>0, <1>6, Zenon DEF Submission, EnterBarrier, ApproveRisk, RejectRisk, Refuse, EndTask,
       TripFromPlanGuard, RejectPlanExit, AbortEvaluation, StartClaim, RetryStale,
       ClaimSubmission, ClaimRefused, Send, SendRefused, SendUnanswered,
       SendMalformed, SendAnswered, ConfirmFill, LeaveBarrier, Goto, Scans
  <2>3. QED
    BY <1>0, <1>2, <1>3, <1>4, <1>6, <2>1, <2>2, InsideStep, ZenonT(60)
<1>7. ASSUME NEW t \in Threads, holder = t, holder' = t, pc'[t] \in Reporting,
             scan'.reports = scan.reports, UNCHANGED <<status, known, remote, filled>>
      PROVE  Reports'
  BY <1>0, <1>7 DEF Reports, ReportHolds
<1>8. ASSUME NEW t \in Threads, ConfirmFill(t) \/ ImportFills(t) \/ ClearGroups(t)
      PROVE  Reports'
  <2>1. /\ holder = t /\ holder' = t /\ pc'[t] \in Reporting
        /\ UNCHANGED <<status, known, remote, filled>>
    BY <1>0, <1>8, Zenon DEF ConfirmFill, ImportFills, ClearGroups, Goto, Control, Holding,
       Claiming, ScanSteps, Reporting, barrierVars, orderVars, brokerVars
  <2>2. scan'.reports = scan.reports
    BY <1>0, <1>8, Zenon DEF ConfirmFill, ImportFills, ClearGroups, Scans
  <2>3. QED
    BY <1>7, <2>1, <2>2
<1>9. ASSUME NEW t \in Threads, FinishReconcile(t) \/ AbortReconcile(t) PROVE Reports'
  <2>1. CASE task[t].kind = "submit"
    <3>1. /\ holder = t /\ holder' = t /\ pc'[t] \in Reporting
          /\ UNCHANGED <<status, known, remote, filled>>
      BY <1>0, <1>9, <2>1 DEF FinishReconcile, AbortReconcile, Control, Holding,
         ScanSteps, Reporting, barrierVars, orderVars, brokerVars
    <3>2. scan'.reports = scan.reports
      BY <1>0, <1>9, <2>1 DEF FinishReconcile, AbortReconcile, Scans
    <3>3. QED
      BY <1>7, <3>1, <3>2
  <2>2. CASE task[t].kind # "submit"
    BY <1>3, <1>9, <2>2 DEF FinishReconcile, AbortReconcile, RetireWriter, EndTask
  <2>3. QED
    BY <2>1, <2>2
<1>10. ASSUME NEW t \in Threads, ResolveUnknown(t) PROVE Reports'
  <2>1. PICK found \in SUBSET Orders :
          /\ Resolves(found)
          /\ scan'.reports = [o \in Orders |-> IF o \in found THEN Report(o) ELSE NoReport]
    BY <1>0, <1>10, ResolveEffect
  <2>2. holder' = t /\ pc'[t] \in Reporting
    BY <1>0, <1>10 DEF ResolveUnknown, Goto, Control, Holding, ScanSteps, Reporting, barrierVars
  <2>3. ASSUME NEW o \in found PROVE ReportHolds(o)'
    <3>1. /\ Report(o).st \in BrokerStatuses /\ Report(o).qty = filled[o]
          /\ Report(o).st \in Terminal => remote[o] \in Ended
      BY <1>0, <2>1, ReportLemma DEF Resolves
    <3>2. /\ status'[o] = Report(o).st /\ o \in known' /\ scan'.reports[o] = Report(o)
          /\ remote' = remote /\ filled' = filled
      BY <2>1 DEF Resolves, brokerTruth
    <3>3. QED
      BY <2>2, <3>1, <3>2 DEF ReportHolds
  <2>4. QED
    BY <2>1, <2>3 DEF Reports
<1>11. ASSUME NEW t \in Threads, FetchStatus(t) PROVE Reports'
  <2>1. PICK o \in Orders :
          \/ scan'.reports = scan.reports
          \/ /\ o \in known /\ remote[o] \in Shown
             /\ scan'.reports = [scan.reports EXCEPT ![o] = Report(o)]
    BY <1>0, <1>11, FetchEffect, ZenonT(60)
  <2>2. /\ holder = t /\ holder' = t /\ pc'[t] \in Reporting
        /\ UNCHANGED <<status, known, remote, filled>>
    BY <1>0, <1>11 DEF FetchStatus, Control, Holding, ScanSteps, Reporting, barrierVars, brokerVars
  <2>3. CASE scan'.reports = scan.reports
    BY <1>7, <2>2, <2>3
  <2>4. CASE /\ o \in known /\ remote[o] \in Shown
             /\ scan'.reports = [scan.reports EXCEPT ![o] = Report(o)]
    <3>1. /\ Report(o).st \in BrokerStatuses /\ Report(o).qty = filled[o]
          /\ Report(o).st \in Terminal <=> remote[o] \in Ended
      BY <1>0, <2>4, ReportLemma
    <3>2. status[o] \in Terminal => remote[o] \in Ended
      BY <1>0, <2>4 DEF Data, ExposureTracked, Ended, Shown, Terminal, LocalLive, Unresolved
    <3>3. /\ scan'.reports[o] = Report(o)
          /\ \A p \in Orders : p # o => scan'.reports[p] = scan.reports[p]
      BY <1>0, <2>4 DEF Scans
    <3>4. ReportHolds(o)'
      BY <2>2, <2>4, <3>1, <3>2, <3>3 DEF ReportHolds
    <3>5. QED
      BY <1>0, <2>2, <3>3, <3>4 DEF Reports, ReportHolds
  <2>5. QED
    BY <2>1, <2>3, <2>4
<1>12. ASSUME NEW t \in Threads, ApplyStatus(t) PROVE Reports'
  <2>1. PICK o \in Orders, new \in Statuses :
          /\ Applies(o, new)
          /\ scan'.reports = [scan.reports EXCEPT ![o] = NoReport]
    BY <1>0, <1>12, ApplyEffect, ZenonT(60)
  <2>2. holder = t /\ UNCHANGED <<holder, pc, known, remote, filled>>
    BY <1>0, <1>12 DEF ApplyStatus, Control, Holding, ScanSteps, barrierVars, brokerVars
  <2>3. /\ scan'.reports[o] = NoReport
        /\ \A p \in Orders : p # o => scan'.reports[p] = scan.reports[p] /\ status'[p] = status[p]
    BY <1>0, <2>1 DEF Scans, Applies, TypeOK
  <2>4. QED
    BY <1>0, <2>2, <2>3 DEF Reports, ReportHolds
<1>13. ASSUME NEW t \in Threads,
              Restart(t) \/ Request(t) \/ Crash(t) \/ \E o \in Orders : StartSubmit(t, o)
       PROVE  Reports'
  <2>1. CASE scan' = NoScan
    BY <1>3, <2>1
  <2>2. CASE holder # t /\ UNCHANGED <<holder, scan>>
    <3>1. UNCHANGED <<status, known, remote, filled>>
      BY <1>0, <1>13, OutsideStep, ZenonT(60) DEF orderVars, brokerVars
    <3>2. \A u \in Threads : u # t => pc'[u] = pc[u]
      BY <1>0, <1>13, OutsideStep, Zenon
    <3>3. QED
      BY <1>0, <2>2, <3>1, <3>2 DEF Reports, ReportHolds
  <2>3. QED
    BY <1>0, <1>13, <2>1, <2>2, OutsideStep
<1>14. ASSUME NEW o \in Orders, ProposalExpires(o) \/ Broker(o) PROVE Reports'
  <2>1. UNCHANGED <<status, known, scan, holder, pc>>
    BY <1>14, EnvironmentStep DEF orderVars, threadVars, barrierVars
  <2>2. \A p \in Orders : remote[p] \in Ended => remote'[p] = remote[p] /\ filled'[p] = filled[p]
    BY <1>0, <1>14 DEF ProposalExpires, Broker, Deliver, Fill, EndAtBroker, BrokerStep,
       brokerVars, TypeOK, Ended, Shown
  <2>3. QED
    BY <1>0, <2>1, <2>2, Zenon DEF Reports, ReportHolds
<1>15. ASSUME NEW t \in Threads, LeaveBarrier(t) PROVE Reports'
  BY <1>3, <1>15 DEF LeaveBarrier, EndTask
<1>16. ASSUME NEW t \in Threads, StartReconcile(t) PROVE Reports'
  <2>1. pc[t] \notin Reporting /\ UNCHANGED scan
    BY <1>16, ZenonT(60) DEF StartReconcile, Goto, Reporting
  <2>2. QED
    BY <1>0, <1>2, <1>4, <1>16, <2>1, InsideStep, Zenon DEF Reconcile
<1>17. ASSUME NEW t \in Threads, Submission(t), pc[t] \in {"confirm", "leave"}
       PROVE  ConfirmFill(t) \/ LeaveBarrier(t)
  BY <1>17, ZenonT(60) DEF Submission, EnterBarrier, ApproveRisk, RejectRisk,
     TripFromPlanGuard, RejectPlanExit, AbortEvaluation, StartClaim, RetryStale,
     ClaimSubmission, ClaimRefused, Send, SendRefused, SendUnanswered,
     SendMalformed, SendAnswered, Goto
<1>18. CASE UNCHANGED vars
  BY <1>0, <1>18, Zenon DEF vars, Reports, ReportHolds, orderVars, brokerVars, threadVars, barrierVars
<1>19. ASSUME NEW t \in Threads, Reconcile(t) PROVE Reports'
  BY <1>8, <1>9, <1>10, <1>11, <1>12, <1>16, <1>19 DEF Reconcile
<1>20. ASSUME NEW t \in Threads, Submission(t) PROVE Reports'
  BY <1>6, <1>8, <1>15, <1>17, <1>20
<1>21. QED
  BY <1>5, <1>13, <1>14, <1>18, <1>19, <1>20 DEF Next


(* Every effect keeps the types of the order data. *)
DataTypes ==
    /\ status \in [Orders -> Statuses] /\ latched \subseteq Orders /\ known \subseteq Orders
    /\ ledger \in [Orders -> 0..Qty] /\ groupLatched \subseteq RuleOrders
    /\ remote \in [Orders -> RemoteStates] /\ filled \in [Orders -> 0..Qty]
    /\ approvals \in [Orders -> Nat] /\ sends \in [Orders -> Nat]

(* An effect on the order data stays within the types of the data. *)
LEMMA EffectTypes == TypeOK /\ Effect /\ groupLatched' \subseteq RuleOrders => DataTypes'
<1> SUFFICES ASSUME TypeOK, Effect, groupLatched' \subseteq RuleOrders PROVE DataTypes'
  OBVIOUS
<1>0. DataTypes
  BY DEF TypeOK, DataTypes
<1>s. /\ "PROPOSED" \in Statuses /\ "REJECTED" \in Statuses /\ "EXPIRED" \in Statuses
      /\ "APPROVAL_RECORDED" \in Statuses /\ "SUBMITTING" \in Statuses
  BY Members
<1>r. /\ {"inflight", "open", "refused", "lost", "filled"} \subseteq RemoteStates
      /\ Endings \subseteq RemoteStates /\ Qty \in Nat
  BY OutboxAssumption DEF RemoteStates, Shown
<1> USE <1>0 DEF DataTypes, brokerTruth
<1>1. CASE Latches \/ Imports \/ Clears
  BY <1>1 DEF Latches, Imports, Clears
<1>2. ASSUME NEW o \in Orders, Settles(o) \/ Approves(o) \/ Claims(o) PROVE DataTypes'
  BY <1>2, <1>s, SMTT(60) DEF Settles, Approves, Claims
<1>3. ASSUME NEW o \in Orders, Calls(o) \/ Works(o) PROVE DataTypes'
  BY <1>3, <1>r, SMTT(60) DEF Calls, Works
<1>4. ASSUME NEW o \in Orders, NEW new \in Statuses, Records(o, new) \/ Applies(o, new)
      PROVE  DataTypes'
  BY <1>4 DEF Records, Applies
<1>5. ASSUME NEW found \in SUBSET Orders, Resolves(found) PROVE DataTypes'
  <2>1. \A o \in found : Report(o).st \in Statuses
    BY <1>5, ReportLemma, Members DEF Resolves
  <2>2. QED
    BY <1>5, <2>1 DEF Resolves
<1>6. QED
  BY <1>1, <1>2, <1>3, <1>4, <1>5 DEF Effect

(* The types of what the risk writers and the threads keep. *)
FlagTypes ==
    /\ expired \subseteq Orders /\ tripped \subseteq Scopes
    /\ groupLatched \subseteq RuleOrders /\ current \in BOOLEAN
ThreadTypes ==
    /\ BarrierTypeOK /\ pc \in [Threads -> PCs] /\ task \in [Threads -> Tasks]
    /\ verdict \in Verdicts

(* A breaker is the object of a thread that trips one. *)
LEMMA TripsAScope == ASSUME NEW j \in Tasks, j.kind = "trip" PROVE j.on \in Scopes
<1>1. CASE j \in [kind : OrderTasks, on : Orders]
  <2>1. j.kind \in OrderTasks
    BY <1>1
  <2>2. QED
    BY <2>1 DEF OrderTasks
<1>2. CASE j \in [kind : ScopeTasks, on : Scopes]
  BY <1>2
<1>3. CASE j \in [kind : PlainTasks, on : {Nobody}]
  <2>1. j.kind \in PlainTasks
    BY <1>3
  <2>2. QED
    BY <2>1 DEF PlainTasks
<1>4. CASE j = NoTask
  BY <1>4 DEF NoTask
<1>5. QED
  BY <1>1, <1>2, <1>3, <1>4, Zenon DEF Tasks

(* Breakers, expiry, group latches and the startup gate keep their types. *)
LEMMA FlagStep == IInv /\ [Next]_vars => FlagTypes'
<1> SUFFICES ASSUME IInv, [Next]_vars PROVE FlagTypes'
  OBVIOUS
<1>0. /\ FlagTypes /\ verdict.trips \subseteq Scopes
      /\ \A t \in Threads : task[t].kind = "trip" => task[t].on \in Scopes
  <2>1. FlagTypes /\ verdict \in Verdicts /\ \A t \in Threads : task[t] \in Tasks
    BY DEF IInv, TypeOK, FlagTypes
  <2>2. \A t \in Threads : task[t].kind = "trip" => task[t].on \in Scopes
    BY <2>1, TripsAScope, Zenon
  <2>3. verdict.trips \subseteq Scopes
    BY <2>1 DEF Verdicts
  <2>4. QED
    BY <2>1, <2>2, <2>3, Zenon
<1>s. /\ LimitScopes \subseteq Scopes /\ QuoteScopes \subseteq Scopes
      /\ "broker_drift" \in Scopes /\ "operator_global" \in Scopes
  BY Members
<1> USE <1>0, <1>s DEF FlagTypes, orderVars
<1>1. ASSUME NEW t \in Threads, ShortWriter(t) PROVE FlagTypes'
  BY <1>1, Zenon DEF ShortWriter, ProposeOrder, RecordApproval, RejectOrder,
     ExpireIfEligible, ExpireApproved, TripBreaker, ResetBreaker,
     RequireStartup, StartupAlreadyCurrent, Commit
<1>2. ASSUME NEW t \in Threads, Submission(t) PROVE FlagTypes'
  <2>1. CASE SendRefused(t) \/ SendUnanswered(t) \/ SendMalformed(t) \/ SendAnswered(t)
    BY <2>1 DEF SendRefused, SendUnanswered, SendMalformed, SendAnswered, RecordResult
  <2>2. CASE ~(SendRefused(t) \/ SendUnanswered(t) \/ SendMalformed(t) \/ SendAnswered(t))
    BY <1>2, <2>2, Zenon DEF Submission, EnterBarrier, ApproveRisk, RejectRisk, Refuse,
       TripFromPlanGuard, RejectPlanExit, AbortEvaluation, StartClaim, RetryStale,
       ClaimSubmission, ClaimRefused, Send, ConfirmFill, LeaveBarrier
  <2>3. QED
    BY <2>1, <2>2, ZenonT(60)
<1>3. ASSUME NEW t \in Threads, Reconcile(t) PROVE FlagTypes'
  BY <1>3, Zenon DEF Reconcile, StartReconcile, ResolveUnknown, ImportFills, FetchStatus,
     ApplyStatus, ClearGroups, FinishReconcile, AbortReconcile, Drift
<1>4. ASSUME NEW t \in Threads,
             Restart(t) \/ Request(t) \/ Crash(t) \/ \E o \in Orders : StartSubmit(t, o)
      PROVE  FlagTypes'
  BY <1>4, Zenon DEF Restart, Request, Enqueue, Crash, StartSubmit
<1>5. ASSUME NEW o \in Orders, ProposalExpires(o) \/ Broker(o) PROVE FlagTypes'
  BY <1>5, ZenonT(60) DEF ProposalExpires, Broker, Deliver, Fill, EndAtBroker, BrokerStep
<1>6. CASE UNCHANGED vars
  BY <1>6, ZenonT(60) DEF vars
<1>7. QED
  BY <1>1, <1>2, <1>3, <1>4, <1>5, <1>6, Zenon DEF Next

(* Barrier, program counters, tasks and verdict keep their types. *)
LEMMA ThreadStepTypes == IInv /\ [Next]_vars => ThreadTypes'
<1> SUFFICES ASSUME IInv, [Next]_vars PROVE ThreadTypes'
  OBVIOUS
<1>0. ThreadTypes /\ tripped \subseteq Scopes
  BY DEF IInv, TypeOK, ThreadTypes
<1>s. NoTask \in Tasks /\ NoVerdict \in Verdicts
  BY Members
<1> USE <1>0, <1>s DEF ThreadTypes, BarrierTypeOK, Goto
<1>1. ASSUME NEW t \in Threads, ShortWriter(t) PROVE ThreadTypes'
  <2>1. /\ UNCHANGED <<holder, claimant, verdict>> /\ announced' = announced \ {t}
        /\ pc' = [pc EXCEPT ![t] = "idle"] /\ task' = [task EXCEPT ![t] = NoTask]
    BY <1>1, ZenonT(60) DEF ShortWriter, ProposeOrder, RecordApproval, RejectOrder,
       ExpireIfEligible, ExpireApproved, TripBreaker, ResetBreaker,
       RequireStartup, StartupAlreadyCurrent, Commit
  <2>2. QED
    BY <2>1 DEF PCs
<1>2. ASSUME NEW t \in Threads, Submission(t) PROVE ThreadTypes'
  <2>1. BarrierTypeOK'
    BY <1>2, ZenonT(60) DEF Submission, EnterBarrier, BeginSubmission, ApproveRisk, RejectRisk, Refuse,
       EndSubmission, TripFromPlanGuard, RejectPlanExit, AbortEvaluation, StartClaim,
       BeginClaim, RetryStale, ClaimSubmission, ClaimRefused, Send, SendRefused,
       SendUnanswered, SendMalformed, SendAnswered, RecordResult, ConfirmFill,
       LeaveBarrier, barrierVars
  <2>2. \E x \in PCs : pc' = [pc EXCEPT ![t] = x]
    BY <1>2, Zenon DEF PCs, ScanSteps, Submission, EnterBarrier, ApproveRisk, RejectRisk, Refuse,
       EndTask, TripFromPlanGuard, RejectPlanExit, AbortEvaluation, StartClaim,
       RetryStale, ClaimSubmission, ClaimRefused, Send, SendRefused,
       SendUnanswered, SendMalformed, SendAnswered, ConfirmFill, LeaveBarrier
  <2>3. task' = task \/ task' = [task EXCEPT ![t] = NoTask]
    BY <1>2, Zenon DEF Submission, EnterBarrier, ApproveRisk, RejectRisk, Refuse,
       EndTask, TripFromPlanGuard, RejectPlanExit, AbortEvaluation, StartClaim,
       RetryStale, ClaimSubmission, ClaimRefused, Send, SendRefused,
       SendUnanswered, SendMalformed, SendAnswered, RecordResult, ConfirmFill, LeaveBarrier
  <2>4. verdict' \in Verdicts
    <3>1. CASE ApproveRisk(t)
      BY <3>1, Members DEF ApproveRisk, Verdicts
    <3>2. CASE ~ApproveRisk(t)
      BY <1>2, <3>2, ZenonT(60) DEF Submission, EnterBarrier, RejectRisk, Refuse,
         EndTask, TripFromPlanGuard, RejectPlanExit, AbortEvaluation, StartClaim,
         RetryStale, ClaimSubmission, ClaimRefused, Send, SendRefused,
         SendUnanswered, SendMalformed, SendAnswered, RecordResult, ConfirmFill, LeaveBarrier
    <3>3. QED
      BY <3>1, <3>2
  <2>5. QED
    BY <2>1, <2>2, <2>3, <2>4
<1>3. ASSUME NEW t \in Threads, Reconcile(t) PROVE ThreadTypes'
  <2>1. BarrierTypeOK'
    BY <1>3, Zenon DEF Reconcile, StartReconcile, BeginWrite, ResolveUnknown, ImportFills,
       FetchStatus, ApplyStatus, ClearGroups, FinishReconcile, AbortReconcile,
       RetireWriter, barrierVars
  <2>2. pc' = pc \/ \E x \in PCs : pc' = [pc EXCEPT ![t] = x]
    BY <1>3, Zenon DEF PCs, ScanSteps, Reconcile, StartReconcile, ResolveUnknown, ImportFills,
       FetchStatus, ApplyStatus, ClearGroups, FinishReconcile, AbortReconcile,
       RetireWriter, EndTask
  <2>3. /\ task' = task \/ task' = [task EXCEPT ![t] = NoTask]
        /\ verdict' = verdict \/ verdict' = NoVerdict
    BY <1>3, ZenonT(60) DEF Reconcile, StartReconcile, ResolveUnknown, ImportFills,
       FetchStatus, ApplyStatus, ClearGroups, FinishReconcile, AbortReconcile,
       RetireWriter, EndTask
  <2>4. QED
    BY <2>1, <2>2, <2>3
<1>4. ASSUME NEW t \in Threads, Request(t) \/ Restart(t) PROVE ThreadTypes'
  <2>1. /\ \A o \in Orders : /\ [kind |-> "propose", on |-> o] \in Tasks
                             /\ [kind |-> "approve", on |-> o] \in Tasks
                             /\ [kind |-> "expire", on |-> o] \in Tasks
                             /\ [kind |-> "reject", on |-> o] \in Tasks
                             /\ [kind |-> "expireApproved", on |-> o] \in Tasks
        /\ \A s \in Scopes : /\ [kind |-> "trip", on |-> s] \in Tasks
                             /\ [kind |-> "reset", on |-> s] \in Tasks
        /\ [kind |-> "sync", on |-> Nobody] \in Tasks
        /\ [kind |-> "startup", on |-> Nobody] \in Tasks
        /\ [kind |-> "require", on |-> Nobody] \in Tasks
    BY TaskMembers, Zenon DEF OrderTasks, ScopeTasks, PlainTasks
  <2>2. PICK kind, on : Enqueue(t, kind, on) /\ [kind |-> kind, on |-> on] \in Tasks
    BY <1>4, <2>1, Zenon DEF Request, Restart
  <2>3. pc' = [pc EXCEPT ![t] = "queued"]
    BY <1>4 DEF Request, Restart
  <2>4. QED
    BY <2>2, <2>3 DEF Enqueue, Announce, PCs
<1>5. ASSUME NEW t \in Threads, NEW o \in Orders, StartSubmit(t, o) PROVE ThreadTypes'
  <2>1. [kind |-> "submit", on |-> o] \in Tasks
    BY TaskMembers, ZenonT(60) DEF OrderTasks
  <2>2. QED
    BY <1>5, <2>1 DEF StartSubmit, barrierVars, PCs
<1>6. ASSUME NEW t \in Threads, Crash(t) PROVE ThreadTypes'
  BY <1>6 DEF Crash, PCs
<1>7. ASSUME UNCHANGED <<threadVars, barrierVars>> PROVE ThreadTypes'
  BY <1>7 DEF threadVars, barrierVars
<1>8. QED
  BY <1>1, <1>2, <1>3, <1>4, <1>5, <1>6, <1>7, EnvironmentStep DEF Next, vars

(* The record of a reconciliation pass keeps its type. *)
LEMMA ScanStep == IInv /\ [Next]_vars => scan' \in Scans
<1> SUFFICES ASSUME IInv, [Next]_vars PROVE scan' \in Scans
  OBVIOUS
<1>0. TypeOK /\ Control /\ Data /\ Reports /\ scan \in Scans /\ NoScan \in Scans
  BY Members DEF IInv, TypeOK
<1>1. ASSUME NEW t \in Threads, ShortWriter(t) PROVE scan' = scan
  BY <1>1, Zenon DEF ShortWriter, ProposeOrder, RecordApproval, RejectOrder,
     ExpireIfEligible, ExpireApproved, TripBreaker, ResetBreaker,
     RequireStartup, StartupAlreadyCurrent, Commit
<1>2. ASSUME NEW t \in Threads, Submission(t) PROVE scan' \in Scans
  <2>1. CASE SendAnswered(t)
    <3>1. task[t].on \in Orders
      BY <1>0, <2>1, OrderTask DEF SendAnswered, Control, Claiming, OrderTasks
    <3>2. filled[task[t].on] \in 0..Qty
      BY <1>0, <3>1 DEF TypeOK
    <3>3. QED
      BY <1>0, <2>1, <3>2 DEF SendAnswered, Scans
  <2>2. CASE ~SendAnswered(t)
    BY <1>0, <1>2, <2>2, Zenon DEF Submission, EnterBarrier, ApproveRisk, RejectRisk, Refuse,
       EndTask, TripFromPlanGuard, RejectPlanExit, AbortEvaluation, StartClaim,
       RetryStale, ClaimSubmission, ClaimRefused, Send, SendRefused,
       SendUnanswered, SendMalformed, ConfirmFill, LeaveBarrier
  <2>3. QED
    BY <2>1, <2>2
<1>3. ASSUME NEW t \in Threads, ImportFills(t) PROVE scan' \in Scans
  <2>1. PICK complete \in BOOLEAN :
          scan' = [scan EXCEPT
                     !.faults = @ \/ ~complete,
                     !.complete = complete,
                     !.todo = (latched' \cup {o \in Orders : status[o] \in
                                 {"SUBMITTED", "PARTIALLY_FILLED"}}) \ Reported]
    BY <1>3, Zenon DEF ImportFills
  <2> DEFINE faults == scan.faults \/ ~complete
             todo == (latched' \cup {o \in Orders : status[o] \in
                       {"SUBMITTED", "PARTIALLY_FILLED"}}) \ Reported
  <2>2. latched' \subseteq Orders
    BY <1>0, <1>3 DEF ImportFills, TypeOK
  <2>3. todo \in SUBSET Orders /\ faults \in BOOLEAN
    BY <2>2
  <2>4. scan' = [scan EXCEPT !.faults = faults, !.complete = complete, !.todo = todo]
    BY <2>1
  <2> HIDE DEF faults, todo
  <2>5. QED
    BY <1>0, <2>3, <2>4, Zenon DEF Scans
<1>4. ASSUME NEW t \in Threads, FinishReconcile(t) \/ AbortReconcile(t) PROVE scan' \in Scans
  <2>1. scan' = NoScan \/ \E faults \in BOOLEAN : scan' = [scan EXCEPT !.faults = faults]
    BY <1>4, Zenon DEF FinishReconcile, AbortReconcile, RetireWriter, EndTask
  <2>2. QED
    BY <1>0, <2>1 DEF Scans
<1>5. ASSUME NEW t \in Threads, Reconcile(t) PROVE scan' \in Scans
  <2>1. StartReconcile(t) \/ ClearGroups(t) => scan' = scan
    BY DEF StartReconcile, ClearGroups
  <2>2. ResolveUnknown(t) \/ FetchStatus(t) \/ ApplyStatus(t) => scan' \in Scans
    BY <1>0, ResolveEffect, FetchEffect, ApplyEffect, Zenon
  <2>3. QED
    BY <1>0, <1>3, <1>4, <1>5, <2>1, <2>2 DEF Reconcile
<1>6. ASSUME NEW t \in Threads,
             Restart(t) \/ Request(t) \/ Crash(t) \/ \E o \in Orders : StartSubmit(t, o)
      PROVE  scan' \in Scans
  BY <1>0, <1>6, OutsideStep, Zenon
<1>7. ASSUME NEW o \in Orders, ProposalExpires(o) \/ Broker(o) PROVE scan' = scan
  BY <1>7, EnvironmentStep DEF threadVars
<1>8. CASE UNCHANGED vars
  BY <1>0, <1>8 DEF vars, threadVars
<1>9. QED
  BY <1>0, <1>1, <1>2, <1>5, <1>6, <1>7, <1>8 DEF Next

(* Every step keeps every variable in its type. *)
LEMMA TypeStep == IInv /\ [Next]_vars => TypeOK'
<1> SUFFICES ASSUME IInv, [Next]_vars PROVE TypeOK'
  OBVIOUS
<1>1. FlagTypes' /\ ThreadTypes' /\ scan' \in Scans
  BY FlagStep, ThreadStepTypes, ScanStep
<1>2. DataTypes'
  BY <1>1, StepEffect, EffectTypes DEF IInv, FlagTypes
<1>3. QED
  BY <1>1, <1>2 DEF TypeOK, FlagTypes, ThreadTypes, DataTypes

(* The initial state, every thread down and nothing sent, satisfies it all. *)
LEMMA Start == Init => IInv
<1> SUFFICES ASSUME Init PROVE IInv
  OBVIOUS
<1>1. TypeOK
  <2>1. "ABSENT" \in Statuses /\ "none" \in RemoteStates /\ "down" \in PCs
    BY DEF Statuses, RemoteStates, PCs
  <2>2. 0 \in 0..Qty
    BY OutboxAssumption
  <2>3. QED
    BY <2>1, <2>2, Members, ZenonT(60) DEF Init, TypeOK, BarrierInit, BarrierTypeOK
<1>2. Control
  BY NobodyIsNoThread
  DEF Init, BarrierInit, Control, Holding, Claiming, Evaluating, ScanSteps
<1>3. Data
  BY OutboxAssumption
  DEF Init, Data, Once, Known, OneUnresolved, GroupHeld, ExposureTracked, Unresolved, Shown
<1>4. Decision /\ Reports
  BY DEF Init, Decision, Reports, NoScan
<1>5. QED
  BY <1>1, <1>2, <1>3, <1>4 DEF IInv

(* The invariant is inductive. *)
LEMMA Invariance == Spec => []IInv
<1>1. IInv /\ [Next]_vars => Data'
  BY StepEffect, DataStep DEF IInv
<1>2. IInv /\ [Next]_vars => IInv'
  BY <1>1, TypeStep, ControlStep, DecisionStep, ReportsStep DEF IInv
<1>3. QED
  BY <1>2, Start, PTL DEF Spec

-----------------------------------------------------------------------------
(* A pass that has found no fault so far has left nothing behind. *)

Passing == {"fills", "statuses", "drift"}

(* No order is unresolved, a latched one is still to be looked at, and at  *)
(* the end of the pass none is latched and no group is held.               *)
CleanAt(t) ==
    /\ \A o \in Orders : status[o] \notin Unresolved
    /\ pc[t] = "statuses" => latched \subseteq scan.todo \cup Reported
    /\ pc[t] = "drift" => latched = {} /\ groupLatched = {}

CleanPass == \A t \in Threads : pc[t] \in Passing /\ ~scan.faults => CleanAt(t)

(* A lookup without a fault has resolved every order that was open. *)
LEMMA ResolveClean ==
    ASSUME IInv, NEW t \in Threads, ResolveUnknown(t), ~scan'.faults
    PROVE  CleanAt(t)'
<1> DEFINE shown == {o \in LookedUp : remote[o] \in Shown}
<1>1. PICK malformed \in SUBSET shown : Resolve(shown \ malformed, malformed)
  BY Zenon DEF ResolveUnknown
<1> DEFINE found == shown \ malformed
<1>2. scan'.faults = LeftUnresolved(found)
  BY <1>1 DEF Resolve, IInv, TypeOK, Scans
<1>3. LookedUp = found
  BY <1>2 DEF LeftUnresolved
<1>4. \A o \in Orders : status'[o] = IF o \in found THEN RemoteStatus(o) ELSE status[o]
  BY <1>1 DEF Resolve
<1>5. \A o \in found : RemoteStatus(o) \in BrokerStatuses
  BY ReportLemma DEF IInv, LookedUp
<1>6. BrokerStatuses \cap Unresolved = {}
  BY DEF BrokerStatuses, Unresolved, Terminal
<1>7. \A o \in Orders : status'[o] \notin Unresolved
  BY <1>3, <1>4, <1>5, <1>6 DEF LookedUp
<1>8. pc'[t] = "fills"
  BY DEF ResolveUnknown, Goto, IInv, TypeOK
<1> QED
  BY <1>7, <1>8 DEF CleanAt

(* Every latched order is put on the list of those to be asked for. *)
LEMMA ImportClean ==
    ASSUME IInv, CleanPass, NEW t \in Threads, ImportFills(t), ~scan'.faults
    PROVE  CleanAt(t)'
<1>1. PICK complete \in BOOLEAN, invalid \in SUBSET known :
         /\ latched' = latched \cup invalid
         /\ scan' = [scan EXCEPT
                       !.faults = @ \/ ~complete,
                       !.complete = complete,
                       !.todo = (latched' \cup {o \in Orders : status[o] \in
                                   {"SUBMITTED", "PARTIALLY_FILLED"}}) \ Reported]
  BY DEF ImportFills
<1>2. scan \in Scans /\ pc[t] = "fills" /\ pc'[t] = "statuses" /\ status' = status
  BY DEF ImportFills, Goto, IInv, TypeOK
<1>3. /\ scan'.faults <=> (scan.faults \/ ~complete)
      /\ scan'.reports = scan.reports
      /\ scan'.todo = (latched' \cup {o \in Orders : status[o] \in
                                   {"SUBMITTED", "PARTIALLY_FILLED"}}) \ Reported
  BY <1>1, <1>2, Zenon DEF Scans
<1>4. latched' \subseteq scan'.todo \cup Reported'
  BY <1>3 DEF Reported
<1>5. \A o \in Orders : status'[o] \notin Unresolved
  BY <1>2, <1>3 DEF CleanPass, CleanAt, Passing
<1> QED
  BY <1>2, <1>4, <1>5 DEF CleanAt

(* An order leaves the list with a report, or with a fault. *)
LEMMA FetchClean ==
    ASSUME IInv, CleanPass, NEW t \in Threads, FetchStatus(t), ~scan'.faults
    PROVE  CleanAt(t)'
<1>1. PICK o \in scan.todo :
         \/ /\ o \in known
            /\ scan' = [scan EXCEPT !.todo = @ \ {o}, !.reports[o] = Report(o)]
            /\ UNCHANGED latched
         \/ /\ scan' = [scan EXCEPT !.todo = @ \ {o}, !.faults = TRUE]
            /\ latched' = latched \cup ({o} \cap known)
  BY Zenon DEF FetchStatus
<1>2. scan \in Scans /\ pc[t] = "statuses" /\ pc' = pc /\ status' = status /\ o \in Orders
  BY DEF FetchStatus, IInv, TypeOK, Scans
<1>3. /\ o \in known /\ UNCHANGED latched
      /\ scan' = [scan EXCEPT !.todo = @ \ {o}, !.reports[o] = Report(o)]
  BY <1>1, <1>2 DEF Scans
<1>4. /\ scan'.todo = scan.todo \ {o} /\ scan'.faults = scan.faults
      /\ scan'.reports = [scan.reports EXCEPT ![o] = Report(o)]
  BY <1>2, <1>3, Zenon DEF Scans
<1>5. Report(o) # NoReport
  BY <1>2, <1>3, ReportLemma DEF IInv, Data, Known
<1>6. Reported' = Reported \cup {o}
  BY <1>2, <1>4, <1>5 DEF Reported, Scans
<1>7. /\ \A p \in Orders : status[p] \notin Unresolved
      /\ latched \subseteq scan.todo \cup Reported
  BY <1>2, <1>4 DEF CleanPass, CleanAt, Passing
<1> QED
  BY <1>2, <1>3, <1>4, <1>6, <1>7 DEF CleanAt

(* A report is applied and its order released, or there is a fault. *)
LEMMA ApplyClean ==
    ASSUME IInv, CleanPass, NEW t \in Threads, ApplyStatus(t), ~scan'.faults
    PROVE  CleanAt(t)'
<1>1. PICK o \in Reported :
        LET outcome == SyncOutcome(o, scan.reports[o]) IN
         /\ SetStatus(o, outcome.st)
         /\ latched' = IF outcome.latch THEN latched \cup {o} ELSE latched \ {o}
         /\ scan' = [scan EXCEPT !.reports[o] = NoReport,
                                 !.faults = @ \/ outcome.latch]
  BY Zenon DEF ApplyStatus
<1> DEFINE outcome == SyncOutcome(o, scan.reports[o])
<1>2. scan \in Scans /\ pc[t] = "statuses" /\ pc' = pc /\ o \in Orders
  BY DEF ApplyStatus, IInv, TypeOK, Reported
<1>3. outcome.latch \in BOOLEAN
  BY DEF SyncOutcome
<1> HIDE DEF outcome
<1>4. /\ scan'.faults <=> (scan.faults \/ outcome.latch)
      /\ scan'.todo = scan.todo
      /\ scan'.reports = [scan.reports EXCEPT ![o] = NoReport]
  BY <1>1, <1>2, <1>3, Zenon DEF Scans, outcome
<1>5. latched' = latched \ {o}
  BY <1>1, <1>4 DEF outcome
<1>6. Reported' = Reported \ {o}
  BY <1>2, <1>4 DEF Reported, Scans
<1>7. /\ \A p \in Orders : status[p] \notin Unresolved
      /\ latched \subseteq scan.todo \cup Reported
  BY <1>2, <1>4 DEF CleanPass, CleanAt, Passing
<1>8. \A p \in Orders : status'[p] \notin Unresolved
  <2>1. PICK q \in Orders, new \in Statuses : Applies(q, new)
    BY ApplyEffect DEF IInv
  <2> QED
    BY <1>7, <2>1 DEF Applies, BrokerStatuses, Unresolved, Terminal, IInv, TypeOK
<1> QED
  BY <1>2, <1>4, <1>5, <1>6, <1>7, <1>8 DEF CleanAt

(* With nothing left to ask for or to apply no order is latched, and the   *)
(* groups are released.                                                    *)
LEMMA ClearClean ==
    ASSUME IInv, CleanPass, NEW t \in Threads, ClearGroups(t), ~scan'.faults
    PROVE  CleanAt(t)'
<1>1. /\ pc[t] = "statuses" /\ pc'[t] = "drift" /\ UNCHANGED <<status, latched, scan>>
      /\ scan.todo = {} /\ Reported = {}
      /\ groupLatched' = {o \in groupLatched : StillUnresolved(o)}
  BY DEF ClearGroups, Goto, IInv, TypeOK
<1>2. /\ \A o \in Orders : status[o] \notin Unresolved
      /\ latched = {}
  BY <1>1 DEF CleanPass, CleanAt, Passing
<1>3. groupLatched' = {}
  BY <1>1, <1>2, OutboxAssumption DEF StillUnresolved, IInv, TypeOK
<1> QED
  BY <1>1, <1>2, <1>3 DEF CleanAt

(* Every step keeps a pass without a fault clean: whoever holds the        *)
(* barrier is the only one to write.                                       *)
LEMMA CleanStep == IInv /\ CleanPass /\ [Next]_vars => CleanPass'
<1> SUFFICES ASSUME IInv, CleanPass, [Next]_vars PROVE CleanPass'
  OBVIOUS
<1>0. /\ TypeOK /\ Control /\ pc \in [Threads -> PCs]
      /\ Passing \subseteq Holding
  BY DEF IInv, TypeOK, Passing, Holding, ScanSteps
<1>1. ASSUME NEW t \in Threads, ShortWriter(t) \/ Submission(t) \/ Reconcile(t),
             pc'[t] \in Passing /\ ~scan'.faults => CleanAt(t)'
      PROVE  CleanPass'
  <2>1. \A u \in Threads : u # t => pc'[u] \notin Passing
    BY <1>0, <1>1, InsideStep
  <2> QED
    BY <1>1, <2>1 DEF CleanPass
<1>2. ASSUME NEW t \in Threads, ShortWriter(t) PROVE CleanPass'
  <2>1. pc'[t] = "idle"
    BY <1>0, <1>2 DEF ShortWriter, ProposeOrder, RecordApproval, RejectOrder,
       ExpireIfEligible, ExpireApproved, TripBreaker, ResetBreaker,
       RequireStartup, StartupAlreadyCurrent, Commit, Goto
  <2> QED
    BY <1>1, <1>2, <2>1 DEF Passing
<1>3. ASSUME NEW t \in Threads, Submission(t) PROVE CleanPass'
  <2>1. pc'[t] \notin Passing
    BY <1>0, <1>3 DEF Submission, EnterBarrier, ApproveRisk, RejectRisk, Refuse, EndTask,
       TripFromPlanGuard, RejectPlanExit, AbortEvaluation, StartClaim, RetryStale,
       ClaimSubmission, ClaimRefused, Send, SendRefused, SendUnanswered,
       SendMalformed, SendAnswered, ConfirmFill, LeaveBarrier, Goto, Passing
  <2> QED
    BY <1>1, <1>3, <2>1
<1>4. ASSUME NEW t \in Threads, StartReconcile(t) \/ FinishReconcile(t) \/ AbortReconcile(t)
      PROVE  CleanPass'
  <2>1. pc'[t] \notin Passing
    BY <1>0, <1>4 DEF StartReconcile, FinishReconcile, AbortReconcile, RetireWriter, EndTask,
       Goto, Passing
  <2> QED
    BY <1>1, <1>4, <2>1 DEF Reconcile
<1>5. ASSUME NEW t \in Threads, Reconcile(t) PROVE CleanPass'
  <2>1. CASE \/ ResolveUnknown(t) \/ ImportFills(t) \/ FetchStatus(t) \/ ApplyStatus(t)
             \/ ClearGroups(t)
    <3>1. ~scan'.faults => CleanAt(t)'
      BY <2>1, ResolveClean, ImportClean, FetchClean, ApplyClean, ClearClean
    <3> QED
      BY <1>1, <1>5, <3>1
  <2> QED
    BY <1>4, <1>5, <2>1 DEF Reconcile
<1>6. ASSUME NEW t \in Threads,
             Restart(t) \/ Request(t) \/ Crash(t) \/ \E o \in Orders : StartSubmit(t, o)
      PROVE  CleanPass'
  <2>1. /\ UNCHANGED <<status, latched, groupLatched>>
        /\ pc'[t] \notin Passing
        /\ \A u \in Threads : u # t => pc'[u] = pc[u]
        /\ holder = t \/ UNCHANGED scan
    BY <1>0, <1>6, OutsideStep DEF orderVars, Passing
  <2>2. ASSUME NEW u \in Threads, pc'[u] \in Passing PROVE u # t /\ UNCHANGED scan
    BY <1>0, <2>1, <2>2 DEF Control
  <2>3. Reported' = Reported \/ scan' # scan
    BY DEF Reported
  <2> QED
    BY <2>1, <2>2, <2>3 DEF CleanPass, CleanAt
<1>7. ASSUME UNCHANGED <<status, latched, groupLatched, scan, pc>> PROVE CleanPass'
  BY <1>7 DEF CleanPass, CleanAt, Reported
<1>8. ASSUME NEW o \in Orders, ProposalExpires(o) \/ Broker(o) PROVE CleanPass'
  BY <1>7, <1>8, EnvironmentStep DEF orderVars, threadVars
<1>9. CASE UNCHANGED vars
  BY <1>7, <1>9 DEF vars, orderVars, threadVars
<1> QED
  BY <1>2, <1>3, <1>5, <1>6, <1>8, <1>9 DEF Next

(* Both invariants together. *)
LEMMA CleanInvariance == Spec => [](IInv /\ CleanPass)
<1>1. Init => CleanPass
  BY DEF Init, CleanPass, Passing
<1> QED
  BY <1>1, CleanStep, Invariance, PTL DEF Spec

(* Only the end of a startup epoch unlocks a generation. *)
LEMMA OnlyEpochUnlocks ==
    ASSUME IInv, [Next]_vars, current', ~current
    PROVE  \E t \in Threads : FinishReconcile(t) /\ task[t].kind = "startup"
<1> USE DEF vars, brokerVars, orderVars, Commit, RecordResult, Refuse, BrokerStep
<1>1. ASSUME NEW t \in Threads, ShortWriter(t) PROVE FALSE
  BY <1>1 DEF ShortWriter, ProposeOrder, RecordApproval, RejectOrder,
     ExpireIfEligible, ExpireApproved, TripBreaker, ResetBreaker,
     RequireStartup, StartupAlreadyCurrent
<1>2. ASSUME NEW t \in Threads, Submission(t) PROVE FALSE
  BY <1>2, Zenon DEF Submission, EnterBarrier, ApproveRisk, RejectRisk,
     TripFromPlanGuard, RejectPlanExit, AbortEvaluation, StartClaim, RetryStale,
     ClaimSubmission, ClaimRefused, Send, SendRefused, SendUnanswered, SendMalformed,
     SendAnswered, ConfirmFill, LeaveBarrier
<1>3. ASSUME NEW t \in Threads, Reconcile(t)
      PROVE  FinishReconcile(t) /\ task[t].kind = "startup"
  <2>1. FinishReconcile(t)
    BY <1>3, ZenonT(60) DEF Reconcile, StartReconcile, ResolveUnknown, ImportFills,
       FetchStatus, ApplyStatus, ClearGroups, AbortReconcile
  <2> QED
    BY <2>1, Zenon DEF FinishReconcile
<1>4. ASSUME NEW o \in Orders, ProposalExpires(o) \/ Broker(o) PROVE FALSE
  BY <1>4, EnvironmentStep
<1>5. ASSUME NEW t \in Threads,
             Restart(t) \/ Request(t) \/ Crash(t) \/ \E o \in Orders : StartSubmit(t, o)
      PROVE  FALSE
  <2>1. UNCHANGED current
    BY <1>5, OutsideStep DEF IInv
  <2> QED
    BY <2>1
<1> QED
  BY <1>1, <1>2, <1>3, <1>4, <1>5 DEF Next

(* Only the call to the broker counts as a send. *)
LEMMA OnlySendSends ==
    ASSUME IInv, [Next]_vars
    PROVE  UNCHANGED sends \/ \E t \in Threads : Send(t)
<1> USE DEF vars, brokerVars, orderVars, Commit, RecordResult, Refuse, BrokerStep
<1>1. ASSUME NEW t \in Threads, ShortWriter(t) PROVE UNCHANGED sends
  BY <1>1, Zenon DEF ShortWriter, ProposeOrder, RecordApproval, RejectOrder,
     ExpireIfEligible, ExpireApproved, TripBreaker, ResetBreaker,
     RequireStartup, StartupAlreadyCurrent
<1>2. ASSUME NEW t \in Threads, Submission(t) PROVE UNCHANGED sends \/ Send(t)
  BY <1>2, Zenon DEF Submission, EnterBarrier, ApproveRisk, RejectRisk,
     TripFromPlanGuard, RejectPlanExit, AbortEvaluation, StartClaim, RetryStale,
     ClaimSubmission, ClaimRefused, SendRefused, SendUnanswered, SendMalformed,
     SendAnswered, ConfirmFill, LeaveBarrier
<1>3. ASSUME NEW t \in Threads, Reconcile(t) PROVE UNCHANGED sends
  BY <1>3, ZenonT(60) DEF Reconcile, StartReconcile, ResolveUnknown, ImportFills,
     FetchStatus, ApplyStatus, ClearGroups, FinishReconcile, AbortReconcile
<1>4. ASSUME NEW o \in Orders, ProposalExpires(o) \/ Broker(o) PROVE UNCHANGED sends
  BY <1>4 DEF ProposalExpires, Broker, Deliver, Fill, EndAtBroker
<1>5. ASSUME NEW t \in Threads,
             Restart(t) \/ Request(t) \/ Crash(t) \/ \E o \in Orders : StartSubmit(t, o)
      PROVE  UNCHANGED sends
  BY <1>5, Zenon DEF Restart, Request, Enqueue, Crash, StartSubmit
<1>6. QED
  BY <1>1, <1>2, <1>3, <1>4, <1>5 DEF Next

(* Every variable keeps its type, whatever the number of threads, orders   *)
(* and shares.                                                             *)
THEOREM TypeCorrect == Spec => []TypeOK
  BY Invariance, PTL DEF IInv

(* The broker is called at most once for an approval, and an order is      *)
(* approved at most once: submit never repeats a call after a crash, a     *)
(* timeout or a retry (orders/submission.py, claim_submission).            *)
THEOREM SubmittedAtMostOnce == Spec => []SendOnce
<1>1. IInv => SendOnce
  BY DEF IInv, Data, Once, SendOnce
<1>2. QED
  BY <1>1, Invariance, PTL

(* No two orders are ever waiting for a broker outcome together: the       *)
(* unresolved-order gate of the risk check holds up to the claim.          *)
THEOREM AtMostOneUnresolved == Spec => []OneUnresolved
<1>1. IInv => OneUnresolved
  BY DEF IInv, Data
<1>2. QED
  BY <1>1, Invariance, PTL

(* An order the broker works is live locally, and shares the broker filled *)
(* that the ledger lacks belong to a live or latched order: no answer,     *)
(* fault or crash hides exposure.                                          *)
THEOREM ExposureStaysVisible == Spec => []ExposureTracked
<1>1. IInv => ExposureTracked
  BY DEF IInv, Data
<1>2. QED
  BY <1>1, Invariance, PTL

(* The latch of a rule group outlasts the uncertainty of its order.        *)
THEOREM RuleGroupHeld == Spec => []GroupHeld
<1>1. IInv => GroupHeld
  BY DEF IInv, Data
<1>2. QED
  BY <1>1, Invariance, PTL

(* Every call to the broker is made with the startup gate open, only       *)
(* bypassable breakers tripped, no order latched, no other order           *)
(* unresolved and no risk writer announced.                                *)
THEOREM SendsAreDisciplined == Spec => SendDiscipline
<1> DEFINE Disciplined ==
      \A o \in Orders : sends'[o] # sends[o] =>
          /\ current
          /\ tripped \subseteq verdict.bypassed \cap Bypassable
          /\ latched = {}
          /\ \A p \in Orders : status[p] \in Unresolved <=> p = o
          /\ announced = {}
<1>1. ASSUME IInv, [Next]_vars, NEW o \in Orders, sends'[o] # sends[o]
      PROVE  /\ current
             /\ tripped \subseteq verdict.bypassed \cap Bypassable
             /\ latched = {}
             /\ \A p \in Orders : status[p] \in Unresolved <=> p = o
             /\ announced = {}
  <2>1. PICK t \in Threads : Send(t)
    BY <1>1, OnlySendSends
  <2>2. /\ pc[t] = "send" /\ sends' = [sends EXCEPT ![task[t].on] = @ + 1]
        /\ sends \in [Orders -> Nat]
    BY <1>1, <2>1 DEF Send, Goto, IInv, TypeOK
  <2>3. task[t].on = o
    BY <1>1, <2>2, ZenonT(60)
  <2>4. Claimed(o) /\ status[o] = "SUBMITTING" /\ OneUnresolved
    BY <1>1, <2>2, <2>3, Zenon DEF IInv, Decision, Data
  <2>5. announced = {}
    BY <1>1, <2>2, NobodyIsNoThread, Zenon DEF IInv, Control, Claiming
  <2>6. QED
    BY <2>4, <2>5 DEF Claimed, OneUnresolved, Unresolved
<1>2. IInv /\ [Next]_vars => [Disciplined]_vars
  BY <1>1, Zenon
<1>3. QED
  BY <1>2, Invariance, PTL DEF Spec, SendDiscipline

(* A terminal order status never changes: no late answer, expiry, refusal  *)
(* or status sync overwrites a final outcome.                              *)
THEOREM TerminalOutcomesStand == Spec => TerminalIsFinal
<1>1. ASSUME IInv, Effect, NEW o \in Orders, status[o] \in Terminal
      PROVE  status'[o] = status[o]
  <2>1. status \in [Orders -> Statuses]
    BY <1>1 DEF IInv, TypeOK
  <2>2. QED
    BY <1>1, <2>1, ZenonT(60) DEF Effect, Latches, Imports, Clears, Settles, Approves, Claims, Calls,
       Works, Records, Applies, Resolves, Terminal, Unresolved
<1>2. IInv /\ [Next]_vars
        => [\A o \in Orders : status[o] \in Terminal => status'[o] = status[o]]_vars
  BY <1>1, StepEffect, Zenon
<1>3. QED
  BY <1>2, Invariance, PTL DEF Spec, TerminalIsFinal

(* A generation is unlocked on clean books only: no order unresolved or    *)
(* latched, no group held, and nothing at the broker that is not known     *)
(* here, although the pass has looked at each at another moment            *)
(* (reconcile_startup_epoch, StartupGate.complete).                        *)
THEOREM UnlockedOnCleanBooks == Spec => UnlockIsClean
<1> DEFINE Clean ==
      current' /\ ~current =>
          /\ \A o \in Orders : status'[o] \notin Unresolved
          /\ latched' = {}
          /\ groupLatched' = {}
          /\ \A o \in Orders : remote'[o] \in Shown => o \in known'
<1>1. ASSUME IInv, CleanPass, [Next]_vars, current', ~current
      PROVE  /\ \A o \in Orders : status'[o] \notin Unresolved
             /\ latched' = {}
             /\ groupLatched' = {}
             /\ \A o \in Orders : remote'[o] \in Shown => o \in known'
  <2>1. PICK t \in Threads : FinishReconcile(t) /\ task[t].kind = "startup"
    BY <1>1, OnlyEpochUnlocks
  <2>2. /\ pc[t] = "drift" /\ UNCHANGED <<status, known, groupLatched, remote>>
    BY <2>1 DEF FinishReconcile, brokerVars
  <2>3. ~scan.faults /\ latched' = latched
    BY <1>1, <2>1, Zenon DEF FinishReconcile
  <2>4. CleanAt(t)
    BY <1>1, <2>2, <2>3 DEF CleanPass, Passing
  <2>5. \A o \in Orders : remote[o] \in Shown => o \in known
    BY <1>1, <2>4 DEF CleanAt, IInv, Data, Known
  <2> QED
    BY <2>2, <2>3, <2>4, <2>5 DEF CleanAt
<1>2. IInv /\ CleanPass /\ [Next]_vars => [Clean]_vars
  BY <1>1, Zenon
<1>3. QED
  BY <1>2, CleanInvariance, PTL DEF Spec, UnlockIsClean
==============================================================================
