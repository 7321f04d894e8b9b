----------------------------- MODULE EmergencyStop -----------------------------
(***************************************************************************)
(* Circuit breakers and the panic stop (risk/breakers.py,                  *)
(* orders/reconciliation.py, orders/safety_state.py, service.py).  A panic *)
(* latches the global breaker, cancels the rules, resolves what is in      *)
(* doubt, cancels and verifies every order one by one, lists the broker's  *)
(* open orders again and only then says whether the account is quiet.      *)
(*                                                                         *)
(* The panic holds the submission barrier as a writer, so no submission,   *)
(* trip or reset runs inside it; but the broker goes on working, requests  *)
(* of processes that died arrive late, broker calls fail, cancellations    *)
(* take effect late and the panicking process itself may die.  Operators   *)
(* reset breakers on what they saw some time ago.                          *)
(***************************************************************************)
EXTENDS Integers, FiniteSets

CONSTANTS Orders,     \* orders of this program
          ByRule,     \* those a rule proposes
          Exits,      \* those that only reduce a position
          Scopes,     \* breaker scopes
          Operators,  \* people who reset breakers
          Qty,        \* shares of an order
          MaxGen,     \* bound on breaker generations
          Panics      \* bound on panics

(* "loss" stands for the scopes whose health is read off an account and    *)
(* quote snapshot: loss, drawdown, data and liquidity.                     *)
StopAssumption ==
    /\ {"operator_global", "broker_drift"} \subseteq Scopes
    /\ Scopes \subseteq {"operator_global", "broker_drift", "loss"}
    /\ ByRule \cup Exits \subseteq Orders
    /\ Qty \in Nat \ {0} /\ MaxGen \in Nat /\ Panics \in Nat

VARIABLES ord,      \* the order rows
          rule,     \* state of the rules and their group
          breaker,  \* circuit_breaker_state
          net,      \* the orders at the broker, or on their way there
          beyond,   \* the account is beyond its loss limit
          panic,    \* the running panic
          panics,   \* how many were started
          verdict,  \* what the last panic reported, until trading resumes
          seen,     \* the generation each operator bases a reset on
          health    \* scopes an operator has collected health for

vars == <<ord, rule, breaker, net, beyond, panic, panics, verdict, seen, health>>

Unresolved == {"submitting", "unknown"}
LocalLive == Unresolved \cup {"submitted", "partial"}
Ended == {"filled", "canceled"}
Idle == [at |-> "idle", todo |-> {}, listed |-> {}, open |-> {}, failed |-> FALSE,
         faults |-> FALSE]

TypeOK ==
    /\ ord \in [Orders -> [status : {"none", "approved", "rejected"} \cup LocalLive \cup Ended,
                           latched : BOOLEAN, ledger : 0 .. Qty]]
    /\ rule \in {"active", "canceled"}
    /\ breaker \in [Scopes -> [tripped : BOOLEAN, gen : 0 .. MaxGen]]
    /\ \A s \in Scopes : breaker[s].tripped => breaker[s].gen > 0
    /\ net \in [Orders -> [state : {"none", "inflight", "lost", "open", "cancelling"} \cup Ended,
                           filled : 0 .. Qty]]
    /\ panic.at \in {"idle", "rules", "resolve", "list", "cancel", "final", "decide"}
    /\ panic.todo \cup panic.listed \cup panic.open \subseteq Orders
    /\ beyond \in BOOLEAN
    /\ panics \in 0 .. Panics /\ verdict \in {"none", "safe", "unsafe"}
    /\ seen \in [Operators -> [Scopes -> 0 .. MaxGen]]
    /\ health \in [Operators -> SUBSET Scopes]

Init ==
    /\ ord = [o \in Orders |-> [status |-> "none", latched |-> FALSE, ledger |-> 0]]
    /\ rule = "active"
    /\ breaker = [s \in Scopes |-> [tripped |-> FALSE, gen |-> 0]]
    /\ net = [o \in Orders |-> [state |-> "none", filled |-> 0]]
    /\ beyond = FALSE
    /\ panic = Idle /\ panics = 0 /\ verdict = "none"
    /\ seen = [p \in Operators |-> [s \in Scopes |-> 0]]
    /\ health = [p \in Operators |-> {}]

operatorVars == <<seen, health>>
Free == panic.at = "idle" \* the writer lock

-----------------------------------------------------------------------------
(* Trips *)

TripInSession(b, s) == [b EXCEPT ![s] = [tripped |-> TRUE, gen |-> @.gen + 1]]
Room(s) == breaker[s].gen < MaxGen

TripDrift ==
    /\ Free /\ Room("broker_drift")
    /\ breaker' = TripInSession(breaker, "broker_drift")
    /\ UNCHANGED <<ord, rule, net, panic, panics, verdict, beyond, operatorVars>>

(* enforce_daily_loss_limits *)
TripLoss ==
    /\ "loss" \in Scopes /\ Free /\ Room("loss") /\ beyond
    /\ breaker' = TripInSession(breaker, "loss")
    /\ UNCHANGED <<ord, rule, net, panic, panics, verdict, beyond, operatorVars>>

(* Prices move. *)
Market ==
    /\ "loss" \in Scopes
    /\ beyond' = ~beyond
    /\ UNCHANGED <<ord, rule, breaker, net, panic, panics, verdict, operatorVars>>

-----------------------------------------------------------------------------
(* Orders outside a panic *)

(* Approved by a person, or on behalf of a rule that fires. *)
Approve(o) ==
    /\ Free /\ ord[o].status = "none"
    /\ o \in ByRule => rule = "active"
    /\ ord' = [ord EXCEPT ![o].status = "approved"]
    /\ verdict' = "none"
    /\ UNCHANGED <<rule, breaker, net, panic, panics, beyond, operatorVars>>

Blocks(o, s) == breaker[s].tripped /\ ~(o \in Exits /\ s \in {"operator_global", "loss"})

Reject(o) ==
    /\ Free /\ ord[o].status = "approved"
    /\ ord' = [ord EXCEPT ![o].status = "rejected"]
    /\ UNCHANGED <<rule, breaker, net, panic, panics, verdict, beyond, operatorVars>>

Send(o) ==
    /\ Free /\ ord[o].status = "approved"
    /\ \A s \in Scopes : ~Blocks(o, s)
    /\ ord' = [ord EXCEPT ![o].status = "submitting"]
    /\ net' = [net EXCEPT ![o].state = "inflight"]
    /\ UNCHANGED <<rule, breaker, panic, panics, verdict, beyond, operatorVars>>

Answered(o) == net[o].state \in {"open", "cancelling"} \cup Ended
StatusOf(o) == IF net[o].state \in Ended THEN net[o].state
               ELSE IF net[o].filled > 0 THEN "partial" ELSE "submitted"

(* The answer arrives while the sender still holds its lock. *)
Answer(o) ==
    /\ Free /\ ord[o].status = "submitting" /\ Answered(o)
    /\ ord' = [ord EXCEPT ![o].status = StatusOf(o), ![o].latched = net[o].filled > 0]
    /\ UNCHANGED <<rule, breaker, net, panic, panics, verdict, beyond, operatorVars>>

NoAnswer(o) ==
    /\ Free /\ ord[o].status = "submitting"
    /\ ord' = [ord EXCEPT ![o].status = "unknown"]
    /\ UNCHANGED <<rule, breaker, net, panic, panics, verdict, beyond, operatorVars>>

(* Reconciliation of one order with complete activities (FillLedger). *)
Reconcile(o) ==
    /\ Free /\ ord[o].status \notin {"none", "approved", "rejected"} /\ Answered(o)
    /\ ord' = [ord EXCEPT ![o] = [status |-> StatusOf(o), latched |-> FALSE,
                                  ledger |-> net[o].filled]]
    /\ ord' # ord
    /\ UNCHANGED <<rule, breaker, net, panic, panics, verdict, beyond, operatorVars>>

-----------------------------------------------------------------------------
(* The broker *)

Deliver(o) ==
    /\ net[o].state = "inflight"
    /\ \E s \in {"open", "lost"} : net' = [net EXCEPT ![o].state = s]
    /\ UNCHANGED <<ord, rule, breaker, panic, panics, verdict, beyond, operatorVars>>

Fill(o) ==
    /\ net[o].state \in {"open", "cancelling"}
    /\ net' = [net EXCEPT ![o] = [state |-> IF @.filled + 1 = Qty THEN "filled" ELSE @.state,
                                  filled |-> @.filled + 1]]
    /\ UNCHANGED <<ord, rule, breaker, panic, panics, verdict, beyond, operatorVars>>

Canceled(o) ==
    /\ net[o].state = "cancelling"
    /\ net' = [net EXCEPT ![o].state = "canceled"]
    /\ UNCHANGED <<ord, rule, breaker, panic, panics, verdict, beyond, operatorVars>>

-----------------------------------------------------------------------------
(* The panic *)

Panic ==
    /\ Free /\ panics < Panics /\ Room("operator_global")
    /\ breaker' = TripInSession(breaker, "operator_global")
    /\ panic' = [Idle EXCEPT !.at = "rules"]
    /\ panics' = panics + 1 /\ verdict' = "none"
    /\ UNCHANGED <<ord, rule, net, beyond, operatorVars>>

CancelRules ==
    /\ panic.at = "rules"
    /\ rule' = "canceled"
    /\ panic' = [panic EXCEPT !.at = "resolve"]
    /\ UNCHANGED <<ord, breaker, net, panics, verdict, beyond, operatorVars>>

(* reconcile_unknown: what the broker does not show stays in doubt and     *)
(* trips the drift breaker.                                                *)
ResolveUnknown ==
    LET doubt == {o \in Orders : ord[o].status \in Unresolved}
        found == {o \in doubt : Answered(o)}
    IN  /\ panic.at = "resolve"
        /\ doubt # found => Room("broker_drift")
        /\ ord' = [o \in Orders |-> IF o \notin found THEN ord[o]
                                    ELSE [ord[o] EXCEPT !.status = StatusOf(o),
                                                        !.latched = net[o].filled > 0]]
        /\ breaker' = IF doubt = found THEN breaker ELSE TripInSession(breaker, "broker_drift")
        /\ panic' = [panic EXCEPT !.at = "list"]
        /\ UNCHANGED <<rule, net, panics, verdict, beyond, operatorVars>>

(* The lookup fails: the panic ends with an error, latched. *)
ResolveFails ==
    /\ panic.at = "resolve" /\ \E o \in Orders : ord[o].status \in Unresolved
    /\ panic' = Idle
    /\ UNCHANGED <<ord, rule, breaker, net, panics, verdict, beyond, operatorVars>>

RemoteOpen == {o \in Orders : net[o].state \in {"open", "cancelling"}}
Addressable == {o \in Orders : ord[o].status \in LocalLive \ Unresolved}

(* An open order the local row says has ended is a fault. *)
Conflicts(remote) == \E o \in remote : ord[o].status \in Ended

ListOrders ==
    /\ panic.at = "list"
    /\ \E ok \in BOOLEAN : \E remote \in {IF ok THEN RemoteOpen ELSE {}} :
          panic' = [panic EXCEPT !.at = "cancel", !.failed = ~ok, !.listed = remote,
                                 !.todo = Addressable \cup remote,
                                 !.open = Addressable \cup remote,
                                 !.faults = Conflicts(remote)]
    /\ UNCHANGED <<ord, rule, breaker, net, panics, verdict, beyond, operatorVars>>

(* The cancellation is asked for and may work at once, late or not at all. *)
AskCancel(o) ==
    /\ panic.at = "cancel" /\ o \in panic.todo /\ net[o].state = "open"
    /\ net' = [net EXCEPT ![o].state = "cancelling"]
    /\ UNCHANGED <<ord, rule, breaker, panic, panics, verdict, beyond, operatorVars>>

(* _persist_verified_status, for an order with a local row *)
PersistVerified(o) ==
    IF ord[o].ledger = net[o].filled /\ net[o].filled > 0
    THEN [ord EXCEPT ![o].status = net[o].state, ![o].latched = FALSE]
    ELSE IF net[o].filled > ord[o].ledger
         THEN [ord EXCEPT ![o].status = net[o].state, ![o].latched = TRUE]
         ELSE [ord EXCEPT ![o].status = net[o].state]

(* get_order_status after the cancellation: an end is recorded, ... *)
VerifyEnded(o) ==
    /\ panic.at = "cancel" /\ o \in panic.todo /\ net[o].state \in Ended
    /\ ord' = IF ord[o].status \in LocalLive \ Unresolved THEN PersistVerified(o) ELSE ord
    /\ panic' = [panic EXCEPT !.todo = @ \ {o}, !.open = @ \ {o}, !.listed = @ \ {o}]
    /\ UNCHANGED <<rule, breaker, net, panics, verdict, beyond, operatorVars>>

(* ... an open order, and a failed call, leave it potentially open. *)
VerifyOpen(o) ==
    /\ panic.at = "cancel" /\ o \in panic.todo
    /\ panic' = [panic EXCEPT !.todo = @ \ {o}]
    /\ UNCHANGED <<ord, rule, breaker, net, panics, verdict, beyond, operatorVars>>

(* The second listing; a failed one falls back to the first. *)
FinalListing ==
    /\ panic.at = "cancel" /\ panic.todo = {}
    /\ \E ok \in BOOLEAN : \E remote \in {IF ok THEN RemoteOpen ELSE panic.listed} :
          panic' = [panic EXCEPT !.at = "decide", !.failed = @ \/ ~ok, !.open = @ \cup remote,
                                 !.faults = @ \/ Conflicts(remote)]
    /\ UNCHANGED <<ord, rule, breaker, net, panics, verdict, beyond, operatorVars>>

LocallyUnsafeLive == \* Mutant: orders in doubt are not enumerated
    \/ \E o \in Orders : ord[o].latched \/ ord[o].status \in {"approved", "submitted", "partial"}
    \/ rule = "active"

(* enumerate_unsafe_local_state *)
LocallyUnsafe ==
    \/ \E o \in Orders : ord[o].latched \/ ord[o].status \in LocalLive \cup {"approved"}
    \/ rule = "active"

(* known is whether every local category could be read. *)
Decide ==
    /\ panic.at = "decide"
    /\ panic.faults => Room("broker_drift")
    /\ breaker' = IF panic.faults THEN TripInSession(breaker, "broker_drift") ELSE breaker
    /\ \E known \in BOOLEAN :
          verdict' = IF /\ known /\ ~panic.failed /\ ~panic.faults /\ panic.open = {}
                        /\ ~LocallyUnsafe
                     THEN "safe" ELSE "unsafe"
    /\ panic' = Idle
    /\ UNCHANGED <<ord, rule, net, panics, beyond, operatorVars>>

Crash ==
    /\ ~Free
    /\ panic' = Idle
    /\ UNCHANGED <<ord, rule, breaker, net, panics, verdict, beyond, operatorVars>>

-----------------------------------------------------------------------------
(* Resets *)

(* The operator reads the breakers. *)
Observe(p, s) ==
    /\ breaker[s].tripped
    /\ seen' = [seen EXCEPT ![p][s] = breaker[s].gen]
    /\ health' = [health EXCEPT ![p] = @ \ {s}]
    /\ UNCHANGED <<ord, rule, breaker, net, panic, panics, verdict, beyond>>

CleanReconciliation ==
    \A o \in Orders : ord[o].status \notin Unresolved /\ ~ord[o].latched

(* A snapshot is complete only when nothing is in doubt. *)
WithinLimits == CleanReconciliation /\ ~beyond

GlobalHealth ==
    /\ CleanReconciliation /\ RemoteOpen = {} /\ ~LocallyUnsafe
    /\ \A t \in Scopes \ {"operator_global"} : ~breaker[t].tripped

(* _collect_scope_reset_health; nothing is held from here to the reset. *)
CollectHealth(p, s) ==
    /\ Free /\ seen[p][s] > 0 /\ s \notin health[p]
    /\ \/ s = "loss" /\ WithinLimits
       \/ s = "broker_drift" /\ CleanReconciliation
       \/ s = "operator_global" /\ GlobalHealth
    /\ health' = [health EXCEPT ![p] = @ \cup {s}]
    /\ UNCHANGED <<ord, rule, breaker, net, panic, panics, verdict, beyond, seen>>

ResetTripped(p, s) == breaker[s].tripped \* Mutant: any tripped breaker is reset
ResetExpected(p, s) == breaker[s].tripped /\ breaker[s].gen = seen[p][s]

Reset(p, s) ==
    /\ Free /\ s \in health[p] /\ Room(s)
    /\ ResetExpected(p, s)
    /\ breaker' = [breaker EXCEPT ![s] = [tripped |-> FALSE, gen |-> @.gen + 1]]
    /\ health' = [health EXCEPT ![p] = @ \ {s}]
    /\ verdict' = IF s = "operator_global" THEN "none" ELSE verdict
    /\ UNCHANGED <<ord, rule, net, panic, panics, beyond, seen>>

(* A reset on an old generation is refused. *)
ResetConflict(p, s) ==
    /\ Free /\ s \in health[p] /\ ~ResetExpected(p, s)
    /\ health' = [health EXCEPT ![p] = @ \ {s}]
    /\ UNCHANGED <<ord, rule, breaker, net, panic, panics, verdict, beyond, seen>>

PanicStep ==
    \/ CancelRules \/ ResolveUnknown \/ ResolveFails \/ ListOrders \/ FinalListing \/ Decide
    \/ \E o \in Orders : AskCancel(o) \/ VerifyEnded(o) \/ VerifyOpen(o)

OrderStep(o) ==
    \/ Approve(o) \/ Reject(o) \/ Send(o) \/ Answer(o) \/ NoAnswer(o) \/ Reconcile(o)
    \/ Deliver(o) \/ Fill(o) \/ Canceled(o)

Next ==
    \/ Panic \/ PanicStep \/ Crash \/ TripDrift \/ TripLoss \/ Market
    \/ \E o \in Orders : OrderStep(o)
    \/ \E p \in Operators, s \in Scopes :
          Observe(p, s) \/ CollectHealth(p, s) \/ Reset(p, s) \/ ResetConflict(p, s)

Spec == Init /\ [][Next]_vars

-----------------------------------------------------------------------------
(* Properties *)

(* A panic that reports safe has told the truth: no order of this program  *)
(* is open at the broker or on its way there, no rule can fire and the     *)
(* global breaker is latched, and that stays so until somebody approves an *)
(* order or resets the breaker.                                            *)
SafeIsQuiet ==
    verdict = "safe" =>
        /\ \A o \in Orders : net[o].state \notin {"inflight", "open", "cancelling"}
        /\ rule = "canceled" /\ breaker["operator_global"].tripped

(* An ended order that is not latched has all its executed shares in the   *)
(* ledger, also when the panic verified its end.                           *)
EndedIsBooked ==
    \A o \in Orders : (ord[o].status \in Ended /\ ~ord[o].latched) =>
                          ord[o].ledger = net[o].filled

(* A reset clears only the trip the operator saw: a trip or a panic that   *)
(* came after the observation, while health was collected, survives.       *)
ResetClearsWhatWasSeenStep ==
    \A s \in Scopes :
       (breaker[s].tripped /\ ~breaker'[s].tripped) =>
           \E p \in Operators : seen[p][s] = breaker[s].gen /\ s \in health[p]
=============================================================================
