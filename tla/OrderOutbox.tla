----------------------------- MODULE OrderOutbox -----------------------------
(***************************************************************************)
(* The durable order outbox: proposal, approval, the claim/send/persist    *)
(* interval of orders/submission.py, the compare-and-set transactions of   *)
(* orders/repository.py, the reconciliation of orders/reconciliation.py    *)
(* that resolves what a lost answer or a crash left open, and the startup  *)
(* gate, run by threads of several processes under the submission barrier. *)
(*                                                                         *)
(* The broker is external: a request may be delayed, lost, refused or      *)
(* accepted; an accepted order fills step by step or ends; its fill        *)
(* activities may become visible late; any answer may be malformed.        *)
(***************************************************************************)
EXTENDS OrderingBarrier, OrderLifecycle, Naturals, FiniteSets

CONSTANTS Orders,       \* orders, identified by their client order id
          RuleOrders,   \* those proposed by a rule group
          Scopes,       \* breaker scopes relevant to the orders' symbol
          Qty,          \* requested quantity of every order
          Requests,     \* the operations that are requested
          Endings       \* how the broker may end an open order

BreakerScopes == {"operator_global", "broker_drift", "loss", "drawdown",
                  "data", "liquidity"}

ASSUME OutboxAssumption ==
    /\ RuleOrders \subseteq Orders
    /\ Scopes \subseteq BreakerScopes
    /\ {"operator_global", "broker_drift"} \subseteq Scopes
    /\ Qty \in Nat \ {0}
    /\ Endings \subseteq {"canceled", "rejected", "expired"}
    /\ Nobody \notin Orders \cup Scopes

(* Scopes a strictly reduce-only order may pass. *)
Bypassable == Scopes \cap {"operator_global", "loss", "drawdown"}

(* Scopes the risk check itself asks to trip: account limits and quotes. *)
LimitScopes == Scopes \cap {"loss", "drawdown"}
QuoteScopes == Scopes \cap {"data", "liquidity"}

VARIABLES
    status,       \* Order.status
    latched,      \* orders with acceptance_state = FILL_RECONCILIATION_REQUIRED
    known,        \* orders whose broker_order_id is recorded
    ledger,       \* quantity in trusted local fills
    expired,      \* orders whose proposal is past its time to live
    tripped,      \* active circuit breakers
    groupLatched, \* rule orders whose group has reconciliation_required
    current,      \* the newest startup generation is reconciled
    remote,       \* what the broker has made of the order
    filled,       \* quantity the broker has executed
    pc, task,     \* what each thread is doing, and for which order or scope
    verdict,      \* the holder's approved risk result
    scan,         \* the holder's reconciliation pass
    approvals,    \* how often an approval was recorded   (history)
    sends         \* how often the order was sent          (history)

orderVars == <<status, latched, known, ledger, groupLatched>>
brokerVars == <<remote, filled>>
threadVars == <<pc, task, verdict, scan>>
vars == <<barrierVars, orderVars, expired, tripped, current, brokerVars,
          threadVars, approvals, sends>>

(* "none" was never sent, "inflight" may still arrive, "lost" never will,  *)
(* "refused" was definitively not accepted; the others are orders the      *)
(* broker shows.                                                           *)
Shown == {"open", "filled", "canceled", "rejected", "expired"}
RemoteStates == {"none", "inflight", "lost", "refused"} \cup Shown

(* The status and cumulative quantity the broker reports for an order. *)
RemoteStatus(o) ==
    CASE remote[o] = "open" /\ filled[o] = 0 -> "SUBMITTED"
      [] remote[o] = "open" /\ filled[o] > 0 -> "PARTIALLY_FILLED"
      [] remote[o] = "filled" -> "FILLED"
      [] remote[o] = "canceled" -> "CANCELED"
      [] remote[o] = "rejected" -> "REJECTED"
      [] remote[o] = "expired" -> "EXPIRED"

Report(o) == [st |-> RemoteStatus(o), qty |-> filled[o]]
NoReport == [st |-> "ABSENT", qty |-> 0]

NoTask == [kind |-> "none", on |-> Nobody]
OrderTasks == {"propose", "approve", "reject", "expire", "expireApproved", "submit"}
ScopeTasks == {"trip", "reset"}
PlainTasks == {"require", "sync", "startup"}
Tasks == [kind : OrderTasks, on : Orders] \cup [kind : ScopeTasks, on : Scopes]
            \cup [kind : PlainTasks, on : {Nobody}] \cup {NoTask}

Verdicts == [bypassed : SUBSET Scopes, trips : SUBSET Scopes]
NoVerdict == [bypassed |-> {}, trips |-> {}]

Scans == [faults : BOOLEAN, complete : BOOLEAN, todo : SUBSET Orders,
          answered : 0..Qty, reports : [Orders -> [st : Statuses, qty : 0..Qty]]]
NoScan == [faults |-> FALSE, complete |-> FALSE, todo |-> {}, answered |-> 0,
           reports |-> [o \in Orders |-> NoReport]]

ScanSteps == {"resolve", "fills", "statuses", "drift"}
PCs == {"idle", "down", "queued", "submit", "evaluate", "refused", "accepted",
        "claim", "send", "await", "confirm", "leave"} \cup ScanSteps

TypeOK ==
    /\ BarrierTypeOK
    /\ status \in [Orders -> Statuses]
    /\ latched \subseteq Orders
    /\ known \subseteq Orders
    /\ ledger \in [Orders -> 0..Qty]
    /\ expired \subseteq Orders
    /\ tripped \subseteq Scopes
    /\ groupLatched \subseteq RuleOrders
    /\ current \in BOOLEAN
    /\ remote \in [Orders -> RemoteStates]
    /\ filled \in [Orders -> 0..Qty]
    /\ pc \in [Threads -> PCs]
    /\ task \in [Threads -> Tasks]
    /\ verdict \in Verdicts
    /\ scan \in Scans
    /\ approvals \in [Orders -> Nat]
    /\ sends \in [Orders -> Nat]

Init ==
    /\ BarrierInit
    /\ status = [o \in Orders |-> "ABSENT"]
    /\ latched = {}
    /\ known = {}
    /\ ledger = [o \in Orders |-> 0]
    /\ expired = {}
    /\ tripped = {}
    /\ groupLatched = {}
    /\ current = FALSE
    /\ remote = [o \in Orders |-> "none"]
    /\ filled = [o \in Orders |-> 0]
    /\ pc = [t \in Threads |-> "down"]
    /\ task = [t \in Threads |-> NoTask]
    /\ verdict = NoVerdict
    /\ scan = NoScan
    /\ approvals = [o \in Orders |-> 0]
    /\ sends = [o \in Orders |-> 0]

Goto(t, from, to) ==
    /\ pc[t] = from
    /\ pc' = [pc EXCEPT ![t] = to]

-----------------------------------------------------------------------------
(* Writers of one transaction: a thread announces the operation, and when  *)
(* it has the main lock commits it and releases the barrier.               *)

Enqueue(t, kind, on) ==
    /\ kind \in Requests
    /\ Announce(t)
    /\ task' = [task EXCEPT ![t] = [kind |-> kind, on |-> on]]
    /\ UNCHANGED <<orderVars, expired, tripped, current, brokerVars, verdict,
                   scan, approvals, sends>>

(* bootstrap: a process that starts invalidates the startup proof before   *)
(* it serves anything.                                                     *)
Restart(t) == Goto(t, "down", "queued") /\ Enqueue(t, "require", Nobody)

(* Requests of people, rules and the daemon.  OrderApplicationService      *)
(* reads the proposal's expiry before it queues for the barrier, submit    *)
(* the order's status as well.                                             *)
Request(t) ==
    /\ Goto(t, "idle", "queued")
    /\ \/ \E o \in Orders :
            \/ status[o] = "ABSENT" /\ Enqueue(t, "propose", o)
            \/ status[o] # "ABSENT" /\ o \notin expired /\ Enqueue(t, "approve", o)
            \/ status[o] # "ABSENT" /\ o \in expired /\ Enqueue(t, "expire", o)
            \/ status[o] # "ABSENT" /\ Enqueue(t, "reject", o)
            \/ /\ status[o] = "APPROVAL_RECORDED"
               /\ o \in expired
               /\ Enqueue(t, "expireApproved", o)
       \/ \E s \in Scopes : Enqueue(t, "trip", s) \/ Enqueue(t, "reset", s)
       \/ Enqueue(t, "sync", Nobody)
       \/ Enqueue(t, "startup", Nobody)

Commit(t, kind) ==
    /\ Goto(t, "queued", "idle")
    /\ task[t].kind = kind
    /\ holder = Nobody
    /\ announced' = announced \ {t}
    /\ task' = [task EXCEPT ![t] = NoTask]
    /\ UNCHANGED <<holder, claimant, known, ledger, latched, groupLatched,
                   expired, brokerVars, verdict, scan, sends>>

SetStatus(o, new) == status' = [status EXCEPT ![o] = new]

(* The risk pre-check decides between PROPOSED and REJECTED and may trip   *)
(* breakers in the same transaction.  An existing key is a replay.         *)
ProposeOrder(t) ==
    /\ Commit(t, "propose")
    /\ IF status[task[t].on] # "ABSENT"
       THEN UNCHANGED <<status, tripped>>
       ELSE /\ \E st \in {"PROPOSED", "REJECTED"} : SetStatus(task[t].on, st)
            /\ \E trips \in SUBSET (LimitScopes \cup QuoteScopes) :
                 tripped' = tripped \cup trips
    /\ UNCHANGED <<current, approvals>>

RecordApproval(t) ==
    /\ Commit(t, "approve")
    /\ IF status[task[t].on] = "PROPOSED"
       THEN /\ SetStatus(task[t].on, "APPROVAL_RECORDED")
            /\ approvals' = [approvals EXCEPT ![task[t].on] = @ + 1]
       ELSE UNCHANGED <<status, approvals>>
    /\ UNCHANGED <<tripped, current>>

RejectOrder(t) ==
    /\ Commit(t, "reject")
    /\ IF status[task[t].on] = "PROPOSED"
       THEN SetStatus(task[t].on, "REJECTED") ELSE UNCHANGED status
    /\ UNCHANGED <<tripped, current, approvals>>

(* Mutant: the expiry is written without comparing the status. *)
ExpireUnconditionally(t) ==
    /\ Commit(t, "expire")
    /\ SetStatus(task[t].on, "EXPIRED")
    /\ UNCHANGED <<tripped, current, approvals>>

ExpireIfEligible(t) ==
    /\ Commit(t, "expire")
    /\ IF status[task[t].on] \in {"PROPOSED", "APPROVAL_RECORDED"}
       THEN SetStatus(task[t].on, "EXPIRED") ELSE UNCHANGED status
    /\ UNCHANGED <<tripped, current, approvals>>

MayExpireApproved(o) == status[o] = "APPROVAL_RECORDED" /\ o \in expired

ExpireApproved(t) ==
    /\ Commit(t, "expireApproved")
    /\ IF MayExpireApproved(task[t].on)
       THEN SetStatus(task[t].on, "EXPIRED") ELSE UNCHANGED status
    /\ UNCHANGED <<tripped, current, approvals>>

TripBreaker(t) ==
    /\ Commit(t, "trip")
    /\ tripped' = tripped \cup {task[t].on}
    /\ UNCHANGED <<status, current, approvals>>

(* The operator's reset, with whatever health was collected beforehand;    *)
(* it conflicts when the generation moved.                                 *)
ResetBreaker(t) ==
    /\ Commit(t, "reset")
    /\ \/ tripped' = tripped \ {task[t].on}
       \/ UNCHANGED tripped
    /\ UNCHANGED <<status, current, approvals>>

RequireStartup(t) ==
    /\ Commit(t, "require")
    /\ current' = FALSE
    /\ UNCHANGED <<status, tripped, approvals>>

-----------------------------------------------------------------------------
(* OrderSubmissionService.submit *)

(* The unlocked read: anything but an unexpired approval returns at once. *)
StartSubmit(t, o) ==
    /\ Goto(t, "idle", "submit")
    /\ "submit" \in Requests
    /\ status[o] = "APPROVAL_RECORDED"
    /\ o \notin expired
    /\ task' = [task EXCEPT ![t] = [kind |-> "submit", on |-> o]]
    /\ UNCHANGED <<barrierVars, orderVars, expired, tripped, current,
                   brokerVars, verdict, scan, approvals, sends>>

EnterBarrier(t) ==
    /\ Goto(t, "submit", "evaluate")
    /\ BeginSubmission(t)
    /\ UNCHANGED <<orderVars, expired, tripped, current, brokerVars, task,
                   verdict, scan, approvals, sends>>

(* Mutant: unresolved acceptances do not count against the snapshot. *)
UnresolvedIgnored ==
    /\ current
    /\ "broker_drift" \notin tripped
    /\ latched = {}
    /\ groupLatched = {}

(* PortfolioSnapshot.broker_reconciled, as far as it depends on local      *)
(* state; the positions are read from the broker.                          *)
BrokerReconciled ==
    /\ current
    /\ "broker_drift" \notin tripped
    /\ \A o \in Orders : status[o] \notin Unresolved
    /\ latched = {}
    /\ groupLatched = {}

RiskPasses == BrokerReconciled /\ tripped \subseteq Bypassable

(* RiskEngine.check approves: a strictly reduce-only order passes the      *)
(* breakers it may bypass, and only such an order passes a limit that is   *)
(* hit right now.                                                          *)
ApproveRisk(t) ==
    /\ Goto(t, "evaluate", "accepted")
    /\ RiskPasses
    /\ \/ /\ tripped = {}
          /\ verdict' = NoVerdict
       \/ \E trips \in SUBSET LimitScopes :
            verdict' = [bypassed |-> tripped \cup trips, trips |-> trips]
    /\ UNCHANGED <<barrierVars, orderVars, expired, tripped, current,
                   brokerVars, task, scan, approvals, sends>>

EndTask(t) ==
    /\ pc' = [pc EXCEPT ![t] = "idle"]
    /\ task' = [task EXCEPT ![t] = NoTask]
    /\ verdict' = NoVerdict
    /\ scan' = NoScan

(* The order is refused before it is claimed.  record_pre_submission_      *)
(* rejection compares and sets, and raises when the approval is gone: the  *)
(* breakers the risk check asked for are then not tripped either.          *)
Refuse(t, trips) ==
    /\ IF status[task[t].on] = "APPROVAL_RECORDED"
       THEN /\ SetStatus(task[t].on, "REJECTED")
            /\ tripped' = tripped \cup trips
       ELSE UNCHANGED <<status, tripped>>
    /\ EndSubmission(t)
    /\ EndTask(t)
    /\ UNCHANGED <<latched, known, ledger, groupLatched, expired, current,
                   brokerVars, approvals, sends>>

RejectRisk(t) ==
    /\ pc[t] = "evaluate"
    /\ \E trips \in SUBSET (LimitScopes \cup QuoteScopes) : Refuse(t, trips)

(* The plan guard refuses what the risk check passed; where the plan's     *)
(* allocation cannot be proven it has already tripped broker_drift.        *)
TripFromPlanGuard(t) ==
    /\ pc[t] = "evaluate"
    /\ RiskPasses
    /\ tripped' = tripped \cup {"broker_drift"}
    /\ pc' = [pc EXCEPT ![t] = "refused"]
    /\ UNCHANGED <<barrierVars, orderVars, expired, current, brokerVars, task,
                   verdict, scan, approvals, sends>>

RejectPlanExit(t) ==
    /\ pc[t] = "refused" \/ (pc[t] = "evaluate" /\ RiskPasses)
    /\ Refuse(t, {})

(* A provider read failed: nothing is decided and the approval stands. *)
AbortEvaluation(t) ==
    /\ pc[t] = "evaluate"
    /\ EndSubmission(t)
    /\ EndTask(t)
    /\ UNCHANGED <<orderVars, expired, tripped, current, brokerVars,
                   approvals, sends>>

(* Mutant: the announced writers are not looked at again. *)
StartClaimStale(t) ==
    /\ Goto(t, "accepted", "claim")
    /\ claimant' = t
    /\ UNCHANGED <<announced, holder, orderVars, expired, tripped, current,
                   brokerVars, task, verdict, scan, approvals, sends>>

StartClaim(t) ==
    /\ Goto(t, "accepted", "claim")
    /\ BeginClaim(t)
    /\ UNCHANGED <<orderVars, expired, tripped, current, brokerVars, task,
                   verdict, scan, approvals, sends>>

(* A writer announced itself after the snapshot: evaluate again. *)
RetryStale(t) ==
    /\ Goto(t, "accepted", "submit")
    /\ announced # {}
    /\ EndSubmission(t)
    /\ verdict' = NoVerdict
    /\ UNCHANGED <<orderVars, expired, tripped, current, brokerVars, task,
                   scan, approvals, sends>>

(* Mutant: the claim does not compare the status. *)
ClaimUnconditionally(o) ==
    /\ o \notin expired
    /\ (tripped \cup verdict.trips) \subseteq verdict.bypassed

(* claim_submission: one transaction trips what the risk check asked for   *)
(* and claims the order if it is still approved, unexpired and free of     *)
(* every breaker it may not bypass.                                        *)
ClaimAllowed(o) ==
    /\ status[o] = "APPROVAL_RECORDED"
    /\ o \notin expired
    /\ (tripped \cup verdict.trips) \subseteq verdict.bypassed

ClaimSubmission(t) ==
    /\ Goto(t, "claim", "send")
    /\ ClaimAllowed(task[t].on)
    /\ SetStatus(task[t].on, "SUBMITTING")
    /\ latched' = latched \ {task[t].on}
    /\ groupLatched' = groupLatched \cup ({task[t].on} \cap RuleOrders)
    /\ tripped' = tripped \cup verdict.trips
    /\ UNCHANGED <<barrierVars, known, ledger, expired, current, brokerVars,
                   task, verdict, scan, approvals, sends>>

ClaimRefused(t) ==
    /\ Goto(t, "claim", "leave")
    /\ ~ClaimAllowed(task[t].on)
    /\ tripped' = tripped \cup verdict.trips
    /\ IF MayExpireApproved(task[t].on)
       THEN SetStatus(task[t].on, "EXPIRED") ELSE UNCHANGED status
    /\ UNCHANGED <<barrierVars, latched, known, ledger, groupLatched, expired,
                   current, brokerVars, task, verdict, scan, approvals, sends>>

Send(t) ==
    /\ Goto(t, "send", "await")
    /\ remote' = [remote EXCEPT ![task[t].on] = "inflight"]
    /\ sends' = [sends EXCEPT ![task[t].on] = @ + 1]
    /\ UNCHANGED <<barrierVars, orderVars, expired, tripped, current, filled,
                   task, verdict, scan, approvals>>

(* record_submission_result and record_invalid_broker_data compare and set *)
(* on SUBMITTING and raise when the claim was lost.                        *)
RecordResult(t, new, latch, id, trips) ==
    /\ status[task[t].on] = "SUBMITTING"
    /\ SetStatus(task[t].on, new)
    /\ latched' = IF latch THEN latched \cup {task[t].on} ELSE latched \ {task[t].on}
    /\ known' = IF id THEN known \cup {task[t].on} ELSE known \ {task[t].on}
    /\ groupLatched' = IF new = "ACCEPTANCE_UNKNOWN"
                       THEN groupLatched \cup ({task[t].on} \cap RuleOrders)
                       ELSE groupLatched
    /\ tripped' = tripped \cup trips
    /\ UNCHANGED <<barrierVars, ledger, expired, current, brokerVars, task,
                   verdict, approvals, sends>>

(* BrokerSubmissionRejected *)
SendRefused(t) ==
    /\ Goto(t, "await", "leave")
    /\ remote[task[t].on] = "refused"
    /\ RecordResult(t, "REJECTED", FALSE, FALSE, {})
    /\ UNCHANGED scan

(* Mutant: a timeout is taken for a rejection. *)
TimeoutRejects(t) ==
    /\ Goto(t, "await", "leave")
    /\ RecordResult(t, "REJECTED", FALSE, FALSE, {})
    /\ UNCHANGED scan

(* Any other exception, a timeout for one: acceptance is unknown. *)
SendUnanswered(t) ==
    /\ Goto(t, "await", "leave")
    /\ RecordResult(t, "ACCEPTANCE_UNKNOWN", FALSE, FALSE, {})
    /\ UNCHANGED scan

SendMalformed(t) ==
    /\ Goto(t, "await", "leave")
    /\ remote[task[t].on] \in Shown
    /\ \E id \in BOOLEAN :
         RecordResult(t, "ACCEPTANCE_UNKNOWN", TRUE, id, {"broker_drift"})
    /\ UNCHANGED scan

NeedsFills(o, report) == report.st \in FillStatuses \/ report.qty > ledger[o]

(* A definitive answer; a filled one is reconciled before the claim ends. *)
SendAnswered(t) ==
    LET o == task[t].on IN
    /\ pc[t] = "await"
    /\ remote[o] \in Shown
    /\ RecordResult(t, RemoteStatus(o), NeedsFills(o, Report(o)), TRUE, {})
    /\ IF RemoteStatus(o) \in FillStatuses
       THEN /\ Goto(t, "await", "resolve")
            /\ scan' = [scan EXCEPT !.answered = filled[o]]
       ELSE Goto(t, "await", "leave") /\ UNCHANGED scan

(* _reconcile_immediate_submission_fill: exact fill truth, or both scopes  *)
(* trip.  A filled plan entry also needs its exits in place, a question of *)
(* rules that may fail it whatever the fills say.                          *)
ConfirmFill(t) ==
    LET o == task[t].on
        exact == o \notin latched /\ ledger[o] = scan.answered /\ ~scan.faults IN
    /\ Goto(t, "confirm", "leave")
    /\ \/ exact /\ UNCHANGED tripped
       \/ tripped' = tripped \cup {"broker_drift", "operator_global"}
    /\ UNCHANGED <<barrierVars, orderVars, expired, current, brokerVars, task,
                   verdict, scan, approvals, sends>>

(* The claim interval ends and the main lock is released. *)
LeaveBarrier(t) ==
    /\ pc[t] = "leave"
    /\ holder' = Nobody
    /\ claimant' = Nobody
    /\ EndTask(t)
    /\ UNCHANGED <<announced, orderVars, expired, tripped, current, brokerVars,
                   approvals, sends>>

-----------------------------------------------------------------------------
(* ReconciliationService.reconcile, as a writer (sync_open_orders, the     *)
(* startup epoch) or inside the claim of an immediately filled order.      *)

StartReconcile(t) ==
    /\ Goto(t, "queued", "resolve")
    /\ \/ task[t].kind = "sync"
       \/ task[t].kind = "startup" /\ ~current
    /\ BeginWrite(t)
    /\ UNCHANGED <<orderVars, expired, tripped, current, brokerVars, task,
                   verdict, scan, approvals, sends>>

StartupAlreadyCurrent(t) ==
    /\ Commit(t, "startup")
    /\ current
    /\ UNCHANGED <<status, tripped, current, approvals>>

(* Mutant: only acceptances recorded as unknown are looked up, not claims  *)
(* of a process that died.                                                 *)
OnlyUnknownLookedUp == {o \in Orders : status[o] = "ACCEPTANCE_UNKNOWN"}

(* _resolve_unknown looks every unresolved order up by its client order    *)
(* id.  No answer is never taken for a rejection; resolve_acceptance       *)
(* writes the broker's status without consulting the state machine.        *)
LookedUp == {o \in Orders : status[o] \in Unresolved}
(* Mutant: an order the broker does not show is no fault. *)
AbsenceIsNoFault(found) == \E o \in LookedUp \ found : remote[o] \in Shown

LeftUnresolved(found) == LookedUp # found

Resolve(found, malformed) ==
    /\ status' = [o \in Orders |-> IF o \in found THEN RemoteStatus(o) ELSE status[o]]
    /\ known' = known \cup found
    /\ latched' = (latched \ found) \cup malformed \cup
                    {o \in found : NeedsFills(o, Report(o))}
    /\ scan' = [scan EXCEPT
                  !.faults = LeftUnresolved(found),
                  !.reports = [o \in Orders |-> IF o \in found THEN Report(o)
                                                               ELSE NoReport]]

ResolveUnknown(t) ==
    LET shown == {o \in LookedUp : remote[o] \in Shown} IN
    /\ Goto(t, "resolve", "fills")
    /\ \E malformed \in SUBSET shown : Resolve(shown \ malformed, malformed)
    /\ UNCHANGED <<barrierVars, ledger, groupLatched, expired, tripped,
                   current, brokerVars, task, verdict, approvals, sends>>

Reported == {o \in Orders : scan.reports[o] # NoReport}

(* _reconcile_fill_activities imports the activities that are visible by   *)
(* now.  An unreadable page, an activity of an unrecorded broker id or one *)
(* that fails validation leaves the stream incomplete; the last also       *)
(* latches its order.                                                      *)
ImportFills(t) ==
    /\ Goto(t, "fills", "statuses")
    /\ \E imported \in [Orders -> 0..Qty], invalid \in SUBSET known, complete \in BOOLEAN :
         /\ \A o \in Orders : imported[o] \in ledger[o]..filled[o]
         /\ \A o \in Orders \ known : imported[o] = ledger[o]
         /\ invalid # {} => ~complete
         /\ ledger' = imported
         /\ latched' = latched \cup invalid
         /\ scan' = [scan EXCEPT
                       !.faults = @ \/ ~complete,
                       !.complete = complete,
                       !.todo = (latched' \cup {o \in Orders : status[o] \in
                                   {"SUBMITTED", "PARTIALLY_FILLED"}}) \ Reported]
    /\ UNCHANGED <<barrierVars, status, known, groupLatched, expired, tripped,
                   current, brokerVars, task, verdict, approvals, sends>>

(* _reconcile_statuses first asks for the status of every order it did not *)
(* just resolve ...                                                        *)
FetchStatus(t) ==
    /\ pc[t] = "statuses"
    /\ \E o \in scan.todo :
         \/ /\ o \in known
            /\ scan' = [scan EXCEPT !.todo = @ \ {o}, !.reports[o] = Report(o)]
            /\ UNCHANGED latched
         \/ /\ scan' = [scan EXCEPT !.todo = @ \ {o}, !.faults = TRUE]
            /\ latched' = latched \cup ({o} \cap known)
    /\ UNCHANGED <<barrierVars, status, known, ledger, groupLatched, expired,
                   tripped, current, brokerVars, pc, task, verdict, approvals,
                   sends>>

(* ... and then applies the reports, each in a transaction of its own.  A  *)
(* latched order is released only by a complete stream whose fills match   *)
(* the reported quantity exactly.                                          *)
SyncOutcome(o, report) ==
    LET needs == NeedsFills(o, report)
        moved == IF needs THEN MoveIfLegal(status[o], report.st) ELSE status[o]
        exact == scan.complete /\ report.qty # 0 /\ report.qty = ledger[o] IN
    IF report.qty < ledger[o]
    THEN [st |-> status[o], latch |-> TRUE]
    ELSE IF (needs \/ o \in latched) /\ ~exact
    THEN [st |-> moved, latch |-> TRUE]
    ELSE [st |-> MoveIfLegal(moved, report.st), latch |-> FALSE]

ApplyStatus(t) ==
    /\ pc[t] = "statuses"
    /\ scan.todo = {}
    /\ \E o \in Reported :
         LET outcome == SyncOutcome(o, scan.reports[o]) IN
         /\ SetStatus(o, outcome.st)
         /\ latched' = IF outcome.latch THEN latched \cup {o} ELSE latched \ {o}
         /\ scan' = [scan EXCEPT !.reports[o] = NoReport,
                                 !.faults = @ \/ outcome.latch]
    /\ UNCHANGED <<barrierVars, known, ledger, groupLatched, expired, tripped,
                   current, brokerVars, pc, task, verdict, approvals, sends>>

(* Mutant: only the fill latch keeps a group held. *)
OnlyLatchHolds(o) == o \in latched

StillUnresolved(o) == status[o] \in Unresolved \/ o \in latched

(* _clear_reconciled_rule_groups *)
ClearGroups(t) ==
    /\ Goto(t, "statuses", "drift")
    /\ scan.todo = {}
    /\ Reported = {}
    /\ groupLatched' = {o \in groupLatched : StillUnresolved(o)}
    /\ UNCHANGED <<barrierVars, status, latched, known, ledger, expired,
                   tripped, current, brokerVars, task, verdict, scan,
                   approvals, sends>>

(* _detect_open_order_drift *)
OpenAtBroker == {o \in Orders : remote[o] = "open"}
OpenOrderDrift ==
    \E o \in OpenAtBroker : o \notin known \/ status[o] \notin LocalLive

Drift(faults) == IF faults THEN {"broker_drift"} ELSE {}

(* A writer's pass ends: the barrier is released. *)
RetireWriter(t) ==
    /\ holder' = Nobody
    /\ announced' = announced \ {t}
    /\ EndTask(t)
    /\ UNCHANGED claimant

(* The open orders are listed, malformed entries latched, and any fault    *)
(* trips broker_drift.  The startup epoch also settles plan cancellations  *)
(* and compares positions, and unlocks its generation only if nothing is   *)
(* at fault.                                                               *)
FinishReconcile(t) ==
    /\ pc[t] = "drift"
    /\ \E malformed \in SUBSET (OpenAtBroker \cap known), clean \in BOOLEAN :
         LET faults == scan.faults \/ OpenOrderDrift \/ malformed # {} IN
         /\ latched' = latched \cup malformed
         /\ \/ /\ task[t].kind = "sync"
               /\ tripped' = tripped \cup Drift(faults)
               /\ RetireWriter(t)
               /\ UNCHANGED current
            \/ /\ task[t].kind = "startup"
               /\ tripped' = tripped \cup Drift(faults \/ ~clean)
               /\ current' = (~faults /\ clean)
               /\ RetireWriter(t)
            \/ /\ task[t].kind = "submit"
               /\ tripped' = tripped \cup Drift(faults)
               /\ pc' = [pc EXCEPT ![t] = "confirm"]
               /\ scan' = [scan EXCEPT !.faults = faults]
               /\ UNCHANGED <<barrierVars, current, task, verdict>>
    /\ UNCHANGED <<status, known, ledger, groupLatched, expired, brokerVars,
                   approvals, sends>>

(* RequiredDependencyUnavailable: the pass stops where it is, and the      *)
(* faults it has collected are not tripped.                                *)
AbortReconcile(t) ==
    /\ pc[t] \in ScanSteps
    /\ IF task[t].kind = "submit"
       THEN /\ pc' = [pc EXCEPT ![t] = "confirm"]
            /\ scan' = [scan EXCEPT !.faults = TRUE]
            /\ UNCHANGED <<barrierVars, task, verdict>>
       ELSE RetireWriter(t)
    /\ UNCHANGED <<orderVars, expired, tripped, current, brokerVars, approvals,
                   sends>>

-----------------------------------------------------------------------------
(* The environment: time, the broker, and processes that die. *)

ProposalExpires(o) ==
    /\ status[o] # "ABSENT"
    /\ o \notin expired
    /\ expired' = expired \cup {o}
    /\ UNCHANGED <<barrierVars, orderVars, tripped, current, brokerVars,
                   threadVars, approvals, sends>>

BrokerStep(o, from, to) ==
    /\ remote[o] = from
    /\ remote' = [remote EXCEPT ![o] = to]
    /\ UNCHANGED <<barrierVars, orderVars, expired, tripped, current,
                   threadVars, approvals, sends>>

Deliver(o) ==
    /\ \E to \in {"open", "refused", "lost"} : BrokerStep(o, "inflight", to)
    /\ UNCHANGED filled

Fill(o) ==
    /\ filled[o] < Qty
    /\ filled' = [filled EXCEPT ![o] = @ + 1]
    /\ BrokerStep(o, "open", IF filled[o] + 1 = Qty THEN "filled" ELSE "open")

EndAtBroker(o) ==
    /\ \E to \in Endings : BrokerStep(o, "open", to)
    /\ UNCHANGED filled

Crash(t) ==
    /\ pc[t] # "down"
    /\ pc' = [pc EXCEPT ![t] = "down"]
    /\ task' = [task EXCEPT ![t] = NoTask]
    /\ announced' = announced \ {t}
    /\ holder' = IF holder = t THEN Nobody ELSE holder
    /\ claimant' = IF claimant = t THEN Nobody ELSE claimant
    /\ verdict' = IF holder = t THEN NoVerdict ELSE verdict
    /\ scan' = IF holder = t THEN NoScan ELSE scan
    /\ UNCHANGED <<orderVars, expired, tripped, current, brokerVars, approvals,
                   sends>>

ShortWriter(t) ==
    \/ ProposeOrder(t) \/ RecordApproval(t) \/ RejectOrder(t)
    \/ ExpireIfEligible(t) \/ ExpireApproved(t) \/ TripBreaker(t)
    \/ ResetBreaker(t) \/ RequireStartup(t) \/ StartupAlreadyCurrent(t)

Submission(t) ==
    \/ EnterBarrier(t) \/ ApproveRisk(t) \/ RejectRisk(t)
    \/ TripFromPlanGuard(t) \/ RejectPlanExit(t) \/ AbortEvaluation(t)
    \/ StartClaim(t) \/ RetryStale(t) \/ ClaimSubmission(t) \/ ClaimRefused(t)
    \/ Send(t) \/ SendRefused(t) \/ SendUnanswered(t) \/ SendMalformed(t)
    \/ SendAnswered(t) \/ ConfirmFill(t) \/ LeaveBarrier(t)

Reconcile(t) ==
    \/ StartReconcile(t) \/ ResolveUnknown(t) \/ ImportFills(t)
    \/ FetchStatus(t) \/ ApplyStatus(t) \/ ClearGroups(t)
    \/ FinishReconcile(t) \/ AbortReconcile(t)

Broker(o) == Deliver(o) \/ Fill(o) \/ EndAtBroker(o)

Next ==
    \/ \E t \in Threads :
         \/ Restart(t) \/ Request(t) \/ \E o \in Orders : StartSubmit(t, o)
         \/ ShortWriter(t) \/ Submission(t) \/ Reconcile(t) \/ Crash(t)
    \/ \E o \in Orders : ProposalExpires(o) \/ Broker(o)

Spec == Init /\ [][Next]_vars

-----------------------------------------------------------------------------
(* Fairness.  A thread that can go on does; a process that died is started *)
(* again; the monitor keeps asking for a synchronisation.                  *)
ThreadStep(t) == Restart(t) \/ ShortWriter(t) \/ Submission(t) \/ Reconcile(t)
MonitorSync(t) == Goto(t, "idle", "queued") /\ Enqueue(t, "sync", Nobody)

Fairness ==
    \A t \in Threads : WF_vars(ThreadStep(t)) /\ SF_vars(MonitorSync(t))

FairSpec == Spec /\ Fairness

(* Processes stop dying, provider reads stop failing and lookups stop      *)
(* being malformed.                                                        *)
Hiccup ==
    \/ \E t \in Threads : Crash(t) \/ AbortReconcile(t)
    \/ \E t \in Threads, o \in LookedUp :
         /\ pc[t] = "resolve" /\ pc'[t] = "fills"
         /\ remote[o] \in Shown /\ status'[o] \in Unresolved

FaultsCease == <>[][~Hiccup]_vars

-----------------------------------------------------------------------------
(* Every order is sent to the broker at most once, and only on a recorded  *)
(* approval, which is recorded at most once: retries, concurrent callers,  *)
(* lost answers and restarts never repeat a send (submit, record_approval, *)
(* claim_submission).                                                      *)
SendOnce == \A o \in Orders : sends[o] <= approvals[o] /\ approvals[o] <= 1

(* The moment broker.submit_order is called: the startup proof is current, *)
(* every active breaker is one the risk check let this order bypass, no    *)
(* other order's outcome is open, no fill is unaccounted for and no risk   *)
(* writer is waiting.                                                      *)
SendDiscipline ==
    [][\A o \in Orders : sends'[o] # sends[o] =>
          /\ current
          /\ tripped \subseteq verdict.bypassed \cap Bypassable
          /\ latched = {}
          /\ \A p \in Orders : status[p] \in Unresolved <=> p = o
          /\ announced = {}]_vars

(* At most one order at a time has an outcome the system does not know:    *)
(* claim_submission never adds a second one.                               *)
OneUnresolved ==
    \A o, p \in Orders :
        status[o] \in Unresolved /\ status[p] \in Unresolved => o = p

(* Whatever the broker has, or may still come to have, is visible as       *)
(* exposure in the local rows: an order in flight or open is locally live, *)
(* and an executed quantity missing from the ledger belongs to an order    *)
(* that is locally live or latched for fill reconciliation.                *)
ExposureTracked ==
    \A o \in Orders :
        /\ remote[o] \in {"inflight", "open"} => status[o] \in LocalLive
        /\ filled[o] > ledger[o] => status[o] \in LocalLive \/ o \in latched

(* A terminal order never changes status again, whoever raced for it: every *)
(* writer compares and sets, and no broker report moves a terminal row.     *)
TerminalIsFinal ==
    [][\A o \in Orders : status[o] \in Terminal => status'[o] = status[o]]_vars

(* While the outcome of a rule group's order is open the group's           *)
(* reconciliation latch holds, so the group cannot fire again: no          *)
(* reconciliation pass clears it early (_clear_reconciled_rule_groups).    *)
GroupHeld ==
    \A o \in RuleOrders : status[o] \in Unresolved => o \in groupLatched

(* reconcile_startup_epoch unlocks a generation only when no order is      *)
(* unresolved or latched, no group is held and nothing the broker shows is *)
(* missing locally, although it looks at them at different moments.        *)
UnlockIsClean ==
    [][current' /\ ~current =>
          /\ \A o \in Orders : status'[o] \notin Unresolved
          /\ latched' = {}
          /\ groupLatched' = {}
          /\ \A o \in Orders : remote'[o] \in Shown => o \in known']_vars

(* An order that reached the broker but whose outcome was not recorded,    *)
(* because the answer was lost or the process died, is resolved by client  *)
(* order id once faults cease (_resolve_unknown).                          *)
SubmissionResolves ==
    FaultsCease =>
        \A o \in Orders :
            (status[o] \in Unresolved /\ remote[o] \in Shown)
                ~> (status[o] \notin Unresolved)

(* "Every submission state is recoverable after process termination": a    *)
(* claimed order that was never sent leaves SUBMITTING again.              *)
ClaimRecovers ==
    FaultsCease =>
        \A o \in Orders :
            (status[o] = "SUBMITTING" /\ remote[o] = "none")
                ~> (status[o] # "SUBMITTING")

-----------------------------------------------------------------------------
(* Symmetry for model checking: no action and no property tells threads    *)
(* apart, nor orders when all or none belong to rule groups.               *)
LOCAL INSTANCE TLC

AnyThread == Permutations(Threads)
AnyThreadOrOrder == Permutations(Threads) \cup Permutations(Orders)
=============================================================================
