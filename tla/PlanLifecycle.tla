----------------------------- MODULE PlanLifecycle -----------------------------
(***************************************************************************)
(* One approved trade plan (rules/repository.py, analyst/planning.py and   *)
(* the plan operations of service.py): entry rules with a group each, and  *)
(* the exits of the plan (intermediate targets and protective rules) in    *)
(* one group that the first entry fill activates.  The position a plan     *)
(* owns is what trusted fills say, never what was proposed; the lifecycle  *)
(* pass settles rules, groups and plan from them, and exits are sent only  *)
(* against a residual that is proved.                                      *)
(*                                                                         *)
(* db holds the rows of the plan, broker the orders as the broker has      *)
(* them.  Every operation runs under the submission barrier and is one     *)
(* step here; the broker executes at any time, and a process may die after *)
(* any committed step.  Leases are RuleGroups' subject: a rule proposes    *)
(* when its group is active and not latched.                               *)
(***************************************************************************)
EXTENDS Integers, FiniteSets, FiniteSetsExt

CONSTANTS Entries,      \* entry rules (their numbers are also their groups)
          Intermediate, \* targets that leave the group at work
          Protective,   \* stop, trailing and time rules
          EntryQty,     \* shares of one entry order
          Percent,      \* fraction of the entry an intermediate target takes
          Attempts,     \* bound on the proposals of a protective rule
          Other,        \* shares of the symbol held outside the plan
          LateRules     \* rules whose orders may fill after they ended

ExitRules == Intermediate \cup Protective
Rules == Entries \cup ExitRules
ExitGroup == 0
Groups == Entries \cup {ExitGroup}
GroupOf(r) == IF r \in Entries THEN r ELSE ExitGroup
Orders == {o \in Rules \X (1 .. Attempts) : o[1] \in Protective \/ o[2] = 1}

PlanAssumption ==
    /\ Rules \subseteq Nat \ {0} /\ Entries \cap ExitRules = {}
    /\ Intermediate \cap Protective = {} /\ EntryQty \in Nat \ {0}
    /\ Percent \in 1 .. 100 /\ Other \in Nat /\ Attempts \in Nat \ {0} /\ LateRules \subseteq Rules

VARIABLES db,     \* plan, rule, qty, group, order rows and tripped breakers
          broker  \* the broker's side of every order

vars == <<db, broker>>

Local == {"proposed", "approved"}
AtBroker == {"submitting", "live"}
NoOrder == [status |-> "none", qty |-> 0, booked |-> 0, gen |-> 0,
            planned |-> FALSE, cancel |-> "none", gap |-> FALSE]

TypeOK ==
    /\ db.plan.status \in {"proposed", "approved", "protection_required",
                           "completed", "canceled"}
    /\ db.rule \in [Rules -> {"none", "pending", "active", "processing",
                              "triggered", "canceled", "failed"}]
    /\ db.trips \subseteq {"drift", "global"}
    /\ \A o \in Orders :
           /\ db.order[o].status \in Local \cup AtBroker \cup {"none", "done"}
           /\ db.order[o].cancel \in {"none", "requested", "indeterminate", "settled"}
           /\ db.order[o].booked <= broker[o].filled
           /\ broker[o].filled <= db.order[o].qty

Init ==
    /\ db = [plan |-> [status |-> "proposed", gen |-> 0, entry |-> 0, exit |-> 0],
             rule |-> [r \in Rules |-> "none"],
             qty |-> [r \in Rules |-> 0],
             group |-> [g \in Groups |-> [state |-> "none", latched |-> FALSE]],
             order |-> [o \in Orders |-> NoOrder],
             trips |-> {}]
    /\ broker = [o \in Orders |-> [state |-> "none", filled |-> 0]]

-----------------------------------------------------------------------------
(* What the rows say *)

OrdersOf(d, r) == {o \in Orders : o[1] = r /\ d.order[o].status # "none"}

(* _order_requires_exact_reconciliation *)
Nonterminal(d, o) ==
    d.order[o].status \in Local \cup AtBroker \/ d.order[o].gap

FilledBy(d, r) == MapThenSumSet(LAMBDA o : d.order[o].booked, OrdersOf(d, r))
EntryFilled(d) == MapThenSumSet(LAMBDA r : FilledBy(d, r), Entries)
ExitFilled(d) == MapThenSumSet(LAMBDA r : FilledBy(d, r), ExitRules)
Residual(d) == EntryFilled(d) - ExitFilled(d)

(* _plan_execution_truth: groups that have orders and are latched. *)
ReconciliationRequired(d) ==
    \E o \in Orders : d.order[o].status # "none" /\ d.group[GroupOf(o[1])].latched

PlanLatched(d) == \E g \in Groups : d.group[g].latched
AllExact(d, r) ==
    OrdersOf(d, r) # {} /\ \A o \in OrdersOf(d, r) : ~Nonterminal(d, o)

Trip(d, scopes) == [d EXCEPT !.trips = @ \cup scopes]

-----------------------------------------------------------------------------
(* reconcile_plan_lifecycle_in_session, phase by phase *)

(* The totals of the trusted fills; a change starts a new generation. *)
Totals(d) ==
    LET e == EntryFilled(d)
        x == ExitFilled(d)
        p == IF d.plan.entry # e \/ d.plan.exit # x
             THEN [d.plan EXCEPT !.entry = e, !.exit = x, !.gen = @ + 1]
             ELSE d.plan
    IN  IF x > e THEN Trip([d EXCEPT !.plan = p], {"drift"})
                 ELSE [d EXCEPT !.plan = p]

(* Entry rules whose orders have all ended exactly. *)
SettleEntries(d) ==
    LET ended == {r \in Entries : d.rule[r] = "processing" /\ AllExact(d, r)}
        outcome(r) == IF FilledBy(d, r) > 0 THEN "triggered"
                      ELSE IF \E o \in OrdersOf(d, r) : d.order[o].planned
                           THEN "canceled" ELSE "failed"
    IN  [d EXCEPT
           !.rule = [r \in Rules |-> IF r \in ended THEN outcome(r) ELSE @[r]],
           !.group = [g \in Groups |-> IF g \in ended
                                       THEN [@[g] EXCEPT !.state = outcome(g)]
                                       ELSE @[g]]]

(* Intents that have not left this process: entries once an exit has       *)
(* filled, exits of an older generation.                                   *)
StaleIntent(d, o) ==
    /\ d.order[o].status \in Local
    /\ \/ o[1] \in Entries /\ ExitFilled(d) > 0
       \/ o[1] \in ExitRules /\ d.order[o].gen < d.plan.gen

DropStale(d) ==
    LET stale == {o \in Orders : StaleIntent(d, o)}
        entries == {r \in Entries : <<r, 1>> \in stale}
    IN  [d EXCEPT
           !.order = [o \in Orders |-> IF o \in stale
                                       THEN [@[o] EXCEPT !.status = "done",
                                                         !.planned = TRUE]
                                       ELSE @[o]],
           !.rule = [r \in Rules |-> IF r \in entries THEN "canceled" ELSE @[r]],
           !.group = [g \in Groups |-> IF g \in entries
                                       THEN [@[g] EXCEPT !.state = "canceled"]
                                       ELSE @[g]]]

LateIgnored(d) == d \* Mutant: a closed plan stays closed

(* A closed plan that owns shares after all is opened again. *)
LateResidual(d) ==
    IF Residual(d) <= 0 \/ d.plan.status \notin {"completed", "canceled"} THEN d
    ELSE [Trip(d, {"drift", "global"}) EXCEPT
             !.plan.status = "protection_required",
             !.rule = [r \in Rules |-> IF r \in Protective THEN "active" ELSE @[r]],
             !.group[ExitGroup] = [state |-> "active", latched |-> PlanLatched(d)]]

(* Exits whose orders have all ended exactly without closing the plan. *)
RearmExits(d) ==
    LET open == \E o \in Orders : Nonterminal(d, o)
        ended == {r \in ExitRules :
                     /\ d.rule[r] = "processing" /\ AllExact(d, r)
                     /\ ~(FilledBy(d, r) > 0 /\ Residual(d) <= 0 /\ ~open)}
        spent == {r \in ended \cap Intermediate : FilledBy(d, r) > 0}
        armed == ended \ spent
    IN  [d EXCEPT
           !.rule = [r \in Rules |-> IF r \in armed THEN "active"
                                     ELSE IF r \in spent THEN "triggered" ELSE @[r]],
           !.group[ExitGroup].state = IF armed # {} THEN "active" ELSE @,
           !.trips = IF armed # {} THEN @ \cup {"global"} ELSE @]

(* The quantity an exit should carry for the shares the plan owns. *)
Desired(d, r) ==
    LET share == ((EntryFilled(d) * Percent) \div 100) - FilledBy(d, r)
    IN  IF r \in Intermediate
        THEN Min({Residual(d), Max({0, share})}) ELSE Residual(d)

Resize(d) ==
    LET sized == {r \in ExitRules : /\ Residual(d) > 0
                                /\ d.rule[r] \in {"pending", "active"}
                                /\ Desired(d, r) > 0}
        touched == {r \in sized : d.rule[r] = "pending" \/ d.qty[r] # Desired(d, r)}
    IN  [d EXCEPT
           !.rule = [r \in Rules |-> IF r \in sized THEN "active" ELSE @[r]],
           !.qty = [r \in Rules |-> IF r \in sized THEN Desired(d, r) ELSE @[r]],
           !.group[ExitGroup].state =
               IF touched # {} /\ @ = "pending" THEN "active" ELSE @]

(* Flat by trusted fills, and nothing open: the plan is complete. *)
Complete(d) ==
    IF ~(/\ EntryFilled(d) > 0 /\ ExitFilled(d) > 0 /\ Residual(d) = 0
         /\ \A o \in Orders : ~Nonterminal(d, o)
         /\ ~PlanLatched(d))
    THEN d
    ELSE LET winner == Max({r \in ExitRules : FilledBy(d, r) > 0})
         IN  [d EXCEPT
                !.rule = [r \in Rules |->
                             IF r = winner THEN "triggered"
                             ELSE IF @[r] \in {"pending", "active", "processing"}
                                  THEN "canceled" ELSE @[r]],
                !.group = [g \in Groups |->
                             IF g = ExitGroup THEN [@[g] EXCEPT !.state = "triggered"]
                             ELSE IF @[g].state = "triggered" THEN @[g]
                                  ELSE [@[g] EXCEPT !.state = "canceled"]],
                !.plan.status = IF @ \in {"approved", "protection_required"}
                                THEN "completed" ELSE @]

(* The phases, one after the other. *)
Lifecycle(d) ==
    LET settled == {SettleEntries(x) : x \in {Totals(d)}}
        dropped == {DropStale(x) : x \in settled}
        reopened == {LateResidual(x) : x \in dropped}
        armed == {RearmExits(x) : x \in reopened}
        sized == {Resize(x) : x \in armed}
    IN  IF \A r \in Rules : d.rule[r] = "none" THEN d
        ELSE CHOOSE x \in {Complete(y) : y \in sized} : TRUE

-----------------------------------------------------------------------------
(* The plan: approval and cancellation *)

(* _decompose: entries for a tranche each, exits for all that was bought,  *)
(* waiting for the first entry fill.                                       *)
Decomposed == [r \in Rules |-> IF r \in Entries THEN "active" ELSE "pending"]

(* persist_commands: a group waits when its rules do. *)
PersistedGroups ==
    [g \in Groups |-> [state |-> IF g = ExitGroup THEN "pending" ELSE "active",
                       latched |-> FALSE]]

(* approve_plan: the compare-and-set of the plan and its rules, in one     *)
(* transaction.                                                            *)
ApprovePlan ==
    /\ db.plan.status = "proposed"
    /\ db' = [db EXCEPT !.plan.status = "approved",
                        !.rule = Decomposed,
                        !.qty = [r \in Rules |-> EntryQty],
                        !.group = PersistedGroups]
    /\ UNCHANGED broker

CancelableByRow == \* Mutant: the plan row stands for the fills
    /\ db.plan.status \in {"proposed", "approved"}
    /\ db.plan.entry = db.plan.exit

(* plan_cancellation_blocker finds nothing. *)
Cancelable ==
    /\ db.plan.status \in {"proposed", "approved"}
    /\ ~ReconciliationRequired(db)
    /\ \A o \in Orders : ~db.order[o].gap
    /\ Residual(db) = 0

(* RuleRepository.cancel_plan, after the orders are quiesced. *)
CancelPlan ==
    /\ Cancelable
    /\ \A o \in Orders : ~Nonterminal(db, o)
    /\ db' = [db EXCEPT
                !.plan.status = "canceled",
                !.rule = [r \in Rules |->
                             IF /\ db.group[GroupOf(r)].state \in {"pending", "active"}
                                /\ @[r] \in {"pending", "active", "processing"}
                             THEN "canceled" ELSE @[r]],
                !.group = [g \in Groups |->
                             IF @[g].state \in {"pending", "active"}
                             THEN [@[g] EXCEPT !.state = "canceled"] ELSE @[g]]]
    /\ UNCHANGED broker

-----------------------------------------------------------------------------
(* Proposals *)

PlanPosition ==
    MapThenSumSet(LAMBDA o : broker[o].filled, {o \in Orders : o[1] \in Entries})
    - MapThenSumSet(LAMBDA o : broker[o].filled, {o \in Orders : o[1] \in ExitRules})

Position == PlanPosition + Other

Unreserved(S) ==
    Position - MapThenSumSet(LAMBDA o : db.order[o].qty - db.order[o].booked,
                             {o \in S : /\ o[1] \in ExitRules
                                        /\ db.order[o].status \in
                                               {"approved", "submitting", "live"}})

(* claim_proposal: the group is at work and has no open intent. *)
Claimable(r) ==
    /\ db.rule[r] = "active"
    /\ db.group[GroupOf(r)].state = "active"
    /\ ~db.group[GroupOf(r)].latched
    /\ \A o \in Orders : GroupOf(o[1]) = GroupOf(r) => ~Nonterminal(db, o)

(* propose_from_lease for a plan rule, with its lifecycle pass; the risk   *)
(* check may reject the order it inserts.                                  *)
ProposeQty(r, qty) ==
    /\ Claimable(r)
    /\ \E o \in Orders, status \in {"proposed", "done"} :
         /\ o[1] = r /\ db.order[o].status = "none"
         /\ \A k \in 1 .. (o[2] - 1) : db.order[<<r, k>>].status # "none"
         /\ db' = Lifecycle([db EXCEPT
                      !.rule[r] = "processing",
                      !.order[o] = [NoOrder EXCEPT !.status = status, !.qty = qty,
                                                   !.gen = db.plan.gen]])
    /\ UNCHANGED broker

ProposeEntry(r) == r \in Entries /\ ProposeQty(r, EntryQty)

(* An exit is proposed once the entry orders are quiesced, for no more     *)
(* than the shares that are not reserved.                                  *)
ProposeExit(r) ==
    /\ r \in ExitRules
    /\ \A o \in Orders : o[1] \in Entries => ~Nonterminal(db, o)
    /\ Unreserved(Orders) > 0
    /\ ProposeQty(r, Min({db.qty[r], Unreserved(Orders)}))

ApproveOrder(o) ==
    /\ db.order[o].status = "proposed"
    /\ db' = [db EXCEPT !.order[o].status = "approved"]
    /\ UNCHANGED broker

(* reject_order and the refusals of submit leave the plan to the next      *)
(* pass; expire_stale_proposals settles it at once.                        *)
EndIntent(o) ==
    /\ db.order[o].status \in Local
    /\ LET ended == [db EXCEPT !.order[o].status = "done"]
       IN  db' \in {ended, Lifecycle(ended)}
    /\ UNCHANGED broker

-----------------------------------------------------------------------------
(* Submission *)

(* validate_plan_exit_submission *)
PlanExitValid(o) ==
    /\ db.plan.status \in {"approved", "protection_required"}
    /\ db.rule[o[1]] = "processing"
    /\ db.group[ExitGroup].state = "active"
    /\ db.order[o].gen = db.plan.gen
    /\ \A p \in Orders \ {o} : ~Nonterminal(db, p)
    /\ db.order[o].qty <= Residual(db)
    /\ Residual(db) <= Position

(* The risk check: every breaker stops an entry; an exit that only reduces *)
(* passes the operator's.                                                  *)
RiskAllows(o) ==
    /\ \A p \in Orders : db.order[p].status # "submitting" /\ ~db.order[p].gap
    /\ IF o[1] \in Entries THEN db.trips = {}
       ELSE "drift" \notin db.trips /\ db.order[o].qty <= Unreserved(Orders \ {o})

(* submit: the claim latches the group and the order is sent. *)
Submit(o) ==
    /\ db.order[o].status = "approved"
    /\ ~db.group[GroupOf(o[1])].latched
    /\ RiskAllows(o)
    /\ o[1] \in ExitRules => PlanExitValid(o)
    /\ db' = [db EXCEPT !.order[o].status = "submitting",
                        !.group[GroupOf(o[1])].latched = TRUE]
    /\ broker' = [broker EXCEPT ![o].state = "working"]

(* The broker's answer arrives: accepted, or refused with nothing done. *)
Answer(o) ==
    /\ db.order[o].status = "submitting"
    /\ \/ /\ broker[o].state # "none"
          /\ db' = [db EXCEPT !.order[o].status = "live"]
          /\ UNCHANGED broker
       \/ /\ broker[o] = [state |-> "working", filled |-> 0]
          /\ db' = [db EXCEPT !.order[o].status = "done"]
          /\ broker' = [broker EXCEPT ![o].state = "refused"]

-----------------------------------------------------------------------------
(* The broker *)

Execute(o) ==
    /\ broker[o].state = "working"
    /\ broker' = [broker EXCEPT ![o] =
                     [state |-> IF @.filled + 1 = db.order[o].qty THEN "filled"
                                ELSE "working",
                      filled |-> @.filled + 1]]
    /\ UNCHANGED db

EndOrder(o) ==
    /\ broker[o].state = "working"
    /\ broker' = [broker EXCEPT ![o].state = "canceled"]
    /\ UNCHANGED db

(* An execution the broker reports after the order ended. *)
LateFill(o) ==
    /\ o[1] \in LateRules
    /\ broker[o].state = "canceled" /\ broker[o].filled < db.order[o].qty
    /\ db.order[o].status = "done"
    /\ broker' = [broker EXCEPT ![o].filled = @ + 1]
    /\ UNCHANGED db

-----------------------------------------------------------------------------
(* Reconciliation and cancellation of orders *)

Unlatch(d) ==
    [d EXCEPT !.group = [g \in Groups |->
        [@[g] EXCEPT !.latched =
            @ /\ \E o \in Orders : /\ GroupOf(o[1]) = g
                                   /\ d.order[o].status = "submitting"
                                      \/ d.order[o].gap]]]

ImportTrusting(d, o, b, n) == \* Mutant: an ended exit is taken for exact
    LET ended == b.state \in {"filled", "canceled"}
        s == [d.order[o] EXCEPT !.booked = n,
                                !.gap = ended /\ n < b.filled /\ o[1] \in Entries,
                                !.status = IF ended THEN "done" ELSE "live"]
    IN  Unlatch([d EXCEPT !.order[o] = s])

(* A pass over one order that sees n of its executed shares; an ended      *)
(* order whose fills are incomplete is held.                               *)
Imported(d, o, b, n) ==
    LET ended == b.state \in {"filled", "canceled"}
        gap == ended /\ n < b.filled
        s == [d.order[o] EXCEPT !.booked = n, !.gap = gap,
                                !.status = IF ended THEN "done" ELSE "live"]
    IN  Unlatch([d EXCEPT !.order[o] = s,
                          !.trips = IF gap THEN @ \cup {"drift"} ELSE @])

Reached(o) ==
    broker[o].state \notin {"none", "refused"} /\ db.order[o].status \in AtBroker \cup {"done"}

Import(o) ==
    /\ Reached(o)
    /\ \E n \in db.order[o].booked .. (broker[o].filled - 1) :
           db' = Imported(db, o, broker[o], n)
    /\ UNCHANGED broker

(* A pass that sees everything. *)
ImportExact(o) ==
    /\ Reached(o)
    /\ db' = Imported(db, o, broker[o], broker[o].filled)
    /\ db' # db
    /\ UNCHANGED broker

(* refresh_fill_activated_rules *)
Refresh ==
    /\ db' = Lifecycle(db)
    /\ db' # db
    /\ UNCHANGED broker

(* plan_order_ids_requiring_broker_cancel and the intents left over. *)
CancelAfterFill(o) ==
    \/ /\ db.order[o].status \in AtBroker
       /\ \/ o[1] \in Entries /\ ExitFilled(db) > 0
          \/ ExitFilled(db) > 0 /\ Residual(db) <= 0
          \/ o[1] \in ExitRules /\ db.order[o].gen < db.plan.gen
    \/ db.order[o].cancel \in {"requested", "indeterminate"}

(* Who may ask for an order of the plan to be quiesced: an exit that       *)
(* fires, the operator who cancels the plan, or the pass after a fill.     *)
Quiescing(o) ==
    \/ Nonterminal(db, o) /\ o[1] \in Entries /\ \E r \in ExitRules : Claimable(r)
    \/ Nonterminal(db, o) /\ Cancelable
    \/ CancelAfterFill(o)

Requested(o) ==
    [db.order[o] EXCEPT !.cancel = IF @ = "indeterminate" THEN @ ELSE "requested"]

(* An intent that never left this process ends at once; so does the intent *)
(* to cancel an order that has meanwhile ended exactly.                    *)
QuiesceLocal(o) ==
    /\ Quiescing(o)
    /\ \/ /\ db.order[o].status \in Local
          /\ db' = [db EXCEPT !.order[o] = [@ EXCEPT !.status = "done", !.planned = TRUE,
                                                     !.cancel = "settled"]]
       \/ /\ db.order[o].status = "done" /\ ~db.order[o].gap
          /\ db' = [db EXCEPT !.order[o].cancel = "settled"]
    /\ UNCHANGED broker

(* An order whose outcome is open cannot be canceled: the request is       *)
(* recorded and the drift breaker trips.                                   *)
QuiesceUncertain(o) ==
    /\ Quiescing(o)
    /\ db.order[o].status = "submitting" \/ (db.order[o].status = "done" /\ db.order[o].gap)
    /\ db' = Trip([db EXCEPT !.order[o] = Requested(o)], {"drift"})
    /\ UNCHANGED broker

(* A live order: the request is committed, then the broker is asked, then  *)
(* a pass imports the order.  The process may die after the request, the   *)
(* broker may be out of reach, and fills may be seen late.                 *)
QuiesceLive(o) ==
    /\ Quiescing(o)
    /\ db.order[o].status = "live"
    /\ LET asked == [Requested(o) EXCEPT !.planned = TRUE]
           b == [broker[o] EXCEPT !.state = IF @ = "working" THEN "canceled" ELSE @]
       IN  \/ /\ db' = [db EXCEPT !.order[o] = asked]
              /\ broker' \in {broker, [broker EXCEPT ![o] = b]}
           \/ /\ db' = Trip([db EXCEPT !.order[o] =
                               [asked EXCEPT !.cancel = "indeterminate", !.gap = TRUE,
                                             !.planned = FALSE]], {"drift"})
              /\ broker' \in {broker, [broker EXCEPT ![o] = b]}
           \/ /\ broker' = [broker EXCEPT ![o] = b]
              /\ \E n \in db.order[o].booked .. b.filled :
                   LET d == Imported([db EXCEPT !.order[o] = asked], o, b, n)
                   IN  db' = IF n = b.filled
                             THEN [d EXCEPT !.order[o].cancel = "settled"]
                             ELSE Trip(d, {"drift"})

(* The operator resets the breakers once the books are clean. *)
ResetBreakers ==
    /\ db.trips # {}
    /\ \A o \in Orders : db.order[o].status # "submitting" /\ ~db.order[o].gap
    /\ db' = [db EXCEPT !.trips = {}]
    /\ UNCHANGED broker

OrderStep(o) ==
    \/ ApproveOrder(o) \/ EndIntent(o) \/ Submit(o) \/ Answer(o)
    \/ Execute(o) \/ EndOrder(o) \/ LateFill(o)
    \/ Import(o) \/ ImportExact(o)
    \/ QuiesceLocal(o) \/ QuiesceUncertain(o) \/ QuiesceLive(o)

Next ==
    \/ ApprovePlan \/ CancelPlan \/ Refresh \/ ResetBreakers
    \/ \E r \in Rules : ProposeEntry(r) \/ ProposeExit(r)
    \/ \E o \in Orders : OrderStep(o)

Spec == Init /\ [][Next]_vars

(* The monitor's reconciliation pass runs for ever. *)
Fairness ==
    WF_vars(Refresh) /\ \A o \in Orders : WF_vars(ImportExact(o))

-----------------------------------------------------------------------------
(* The exits of a plan never sell more than its entries bought, although   *)
(* targets and stops compete for the same shares, fills are booked late    *)
(* and orders are canceled while they execute.                             *)
NoOverExit == PlanPosition >= 0

(* While the plan row is up to date with the fills and shows shares that   *)
(* are owned, the plan is open and every protective rule is active for all *)
(* of them, or has an order under way.                                     *)
Protected ==
    LET owned == Residual(db)
    IN  owned > 0 /\ db.plan.entry = EntryFilled(db) /\ db.plan.exit = ExitFilled(db) =>
            /\ db.plan.status \in {"approved", "protection_required"}
            /\ db.group[ExitGroup].state = "active"
            /\ \A r \in Protective :
                  \/ db.rule[r] = "active" /\ db.qty[r] = owned
                  \/ db.rule[r] = "processing"

(* A completed or canceled plan has no order at work at the broker, none   *)
(* waiting here, and no rule that could propose one.                       *)
ClosedIsQuiet ==
    db.plan.status \in {"completed", "canceled"} =>
        /\ \A o \in Orders : db.order[o].status \in {"none", "done"}
                             /\ broker[o].state # "working"
        /\ \A r \in Rules : db.rule[r] \notin {"pending", "active", "processing"}

(* A plan that closes has booked every share its orders executed and is    *)
(* flat: neither completion nor cancellation hides a fill that raced it.   *)
ClosesFlatStep ==
    db.plan.status \notin {"completed", "canceled"}
    /\ db'.plan.status \in {"completed", "canceled"}
    => Residual(db') = 0 /\ PlanPosition = 0

(* Shares that a plan comes to own after it was closed get protection      *)
(* again.                                                                  *)
LateSharesProtected ==
    (db.plan.status \in {"completed", "canceled"} /\ PlanPosition > 0)
        ~> db.plan.status \notin {"completed", "canceled"}
=============================================================================
