------------------------------ MODULE RuleGroups ------------------------------
(***************************************************************************)
(* One group of standalone conditional rules (rules/repository.py,         *)
(* rules/worker.py, rules/application.py): workers lease the group,        *)
(* evaluate its rules against a quote, and either release the lease or     *)
(* turn the first rule that fires into a proposed order.  A terminal rule  *)
(* closes the group and cancels its siblings; an intermediate target, or   *)
(* an exit the risk check rejects, only consumes the rule.  Every          *)
(* transaction runs under the submission barrier, so it is one step; what  *)
(* a worker read before is as old as the model lets it be.                 *)
(*                                                                         *)
(* The orders of the group are followed as far as the group's latch and    *)
(* the position depend on them.                                            *)
(***************************************************************************)
EXTENDS Integers, FiniteSets, FiniteSetsExt

CONSTANTS Workers,      \* rule workers, each with a lease owner of its own
          N,            \* rules 1..N, in the order of their ids
          Trailing,     \* rules with a TrailingCondition
          Below,        \* rules that fire below (not above) their level
          Exits,        \* targets, stops, trailing and time rules
          Intermediate, \* targets with terminal_on_trigger = False
          Level,        \* price level of each rule that is not trailing
          Percent,      \* drop that fires a trailing rule
          Prices,       \* quotes a worker may read
          Size,         \* action.qty of each rule
          Held,         \* initial position
          TTL,          \* lease time
          MaxTime,      \* bound on the clock
          MaxVersion,   \* bound on the group's version
          Nobody        \* no lease owner

Rules == 1 .. N

RuleAssumption ==
    /\ N \in Nat \ {0} /\ Trailing \subseteq Rules /\ Below \subseteq Rules
    /\ Exits \subseteq Rules /\ Intermediate \subseteq Exits
    /\ Level \in [Rules -> Nat] /\ Size \in [Rules -> Nat \ {0}]
    /\ Percent \in 1 .. 100 /\ Prices \subseteq Nat \ {0}
    /\ Held \in Nat /\ TTL \in Nat \ {0} /\ MaxTime \in Nat /\ MaxVersion \in Nat
    /\ Nobody \notin Workers

VARIABLES now,      \* the clock
          group,    \* the RuleGroup row
          rule,     \* state of each Rule row
          mark,     \* Rule.hwm, 0 for NULL
          order,    \* the order of each rule's proposal
          worker,   \* what each worker is doing and what it has read
          position  \* shares held at the broker

vars == <<now, group, rule, mark, order, worker, position>>

RuleStates == {"active", "triggered", "canceled", "failed"}
OrderStates == {"none", "rejected", "proposed", "approved", "submitting",
                "live", "done"}
NoOrder == [status |-> "none", qty |-> 0, filled |-> 0, booked |-> 0]
Idle == [pc |-> "idle", at |-> 0, version |-> 0, loaded |-> {},
         seen |-> [r \in Rules |-> 0], fired |-> 0]

TypeOK ==
    /\ now \in 0 .. MaxTime
    /\ group \in [state : RuleStates, version : 0 .. MaxVersion,
                  owner : Workers \cup {Nobody},
                  expires : 0 .. MaxTime + TTL, updated : 0 .. MaxTime,
                  latched : BOOLEAN, winner : Rules \cup {0}]
    /\ rule \in [Rules -> RuleStates]
    /\ mark \in [Rules -> Prices \cup {0}]
    /\ \A r \in Rules : /\ order[r].status \in OrderStates
                        /\ order[r].booked <= order[r].filled
                        /\ order[r].filled <= order[r].qty
    /\ \A w \in Workers :
           /\ worker[w].pc \in {"idle", "sampled", "leased", "loaded",
                                "release", "fired"}
           /\ worker[w].seen \in [Rules -> Prices \cup {0}]
    /\ position \in Nat

Init ==
    /\ now = 0
    /\ group = [state |-> "active", version |-> 0, owner |-> Nobody,
                expires |-> 0, updated |-> 0, latched |-> FALSE, winner |-> 0]
    /\ rule = [r \in Rules |-> "active"]
    /\ mark = [r \in Rules |-> 0]
    /\ order = [r \in Rules |-> NoOrder]
    /\ worker = [w \in Workers |-> Idle]
    /\ position = Held

-----------------------------------------------------------------------------
(* Helpers *)

Unresolved == \E r \in Rules : order[r].status = "submitting"

OwnsActive(w) == \* Mutant: neither the owner nor the version is compared
    group.state = "active"

(* The conditions under which an UPDATE of the group made for this lease   *)
(* finds its row.                                                          *)
Owns(w) ==
    /\ group.state = "active"
    /\ group.owner = w
    /\ group.version = worker[w].version

(* load_rules: nothing when the lease is lost or the group is latched. *)
Loadable(w) ==
    IF Owns(w) /\ ~group.latched
    THEN {r \in Rules : rule[r] = "active"} ELSE {}

Unleased(g, at) ==
    [g EXCEPT !.owner = Nobody, !.expires = 0, !.version = @ + 1, !.updated = at]

(* _fires: the mark a rule would get from a price, and whether it fires. *)
MarkFrom(old, price) == IF old > price THEN old ELSE price
Fires(r, old, price) ==
    IF r \in Trailing
    THEN 100 * price <= MarkFrom(old, price) * (100 - Percent)
    ELSE IF r \in Below THEN price < Level[r] ELSE price > Level[r]

(* Quantity that orders which may still execute hold back: those the       *)
(* local rows show as approved, being sent or at work.                     *)
Reserving == {"approved", "submitting", "live"}
ReservedBy(S) ==
    MapThenSumSet(LAMBDA r : order[r].qty - order[r].booked,
                  {r \in S \cap Exits : order[r].status \in Reserving})
AvailableReduceQty ==
    LET free == position - ReservedBy(Rules) IN IF free > 0 THEN free ELSE 0

-----------------------------------------------------------------------------
(* The worker *)

(* tick: the worker finds the group active and samples its clock. *)
StartTick(w) ==
    /\ worker[w].pc = "idle"
    /\ group.state = "active"
    /\ worker' = [worker EXCEPT ![w] = [Idle EXCEPT !.pc = "sampled", !.at = now]]
    /\ UNCHANGED <<now, group, rule, mark, order, position>>

(* lease_group with a sample older than the group row. *)
LeaseTooOld(w) ==
    /\ worker[w].pc = "sampled"
    /\ worker[w].at < group.updated
    /\ worker' = [worker EXCEPT ![w] = Idle]
    /\ UNCHANGED <<now, group, rule, mark, order, position>>

LeaseFree(at) == group.owner = Nobody \/ group.expires <= at

(* lease_group: latch the group if an outcome is open, then compare and    *)
(* set the lease.                                                          *)
LeaseGroup(w) ==
    LET at == worker[w].at
        g == IF Unresolved /\ ~group.latched
             THEN [group EXCEPT !.latched = TRUE, !.updated = at] ELSE group
        granted == g.state = "active" /\ ~g.latched /\ LeaseFree(at)
    IN  /\ worker[w].pc = "sampled"
        /\ at >= group.updated
        /\ group.version < MaxVersion
        /\ group' = IF granted
                    THEN [g EXCEPT !.owner = w, !.expires = at + TTL,
                                   !.version = @ + 1, !.updated = at]
                    ELSE g
        /\ worker' = [worker EXCEPT ![w] =
                         IF granted THEN [@ EXCEPT !.pc = "leased",
                                                   !.version = group.version + 1]
                                    ELSE Idle]
        /\ UNCHANGED <<now, rule, mark, order, position>>

LoadRules(w) ==
    /\ worker[w].pc = "leased"
    /\ worker' = [worker EXCEPT ![w] =
                     [@ EXCEPT !.pc = IF Loadable(w) = {} THEN "release" ELSE "loaded",
                               !.loaded = Loadable(w),
                               !.seen = IF Loadable(w) = {} THEN Idle.seen ELSE mark]]
    /\ UNCHANGED <<now, group, rule, mark, order, position>>

(* The load fails, the market is closed, the quote is stale or denied, or  *)
(* a value is invalid: the lease is released and no mark moves.            *)
EvaluateNothing(w) ==
    /\ worker[w].pc \in {"leased", "loaded", "fired"}
    /\ worker' = [worker EXCEPT ![w] =
                     [@ EXCEPT !.pc = "release", !.loaded = {}, !.seen = Idle.seen]]
    /\ UNCHANGED <<now, group, rule, mark, order, position>>

(* Any other exception: the lease is left to expire. *)
EvaluateFails(w) ==
    /\ worker[w].pc \in {"loaded", "fired"}
    /\ worker' = [worker EXCEPT ![w] = Idle]
    /\ UNCHANGED <<now, group, rule, mark, order, position>>

(* The loop over the stored rules with one quote, up to the first that     *)
(* fires; seen becomes the marks it would store.                           *)
Evaluate(w) ==
    /\ worker[w].pc = "loaded"
    /\ \E price \in Prices :
         LET seen == worker[w].seen
             firing == {r \in worker[w].loaded : Fires(r, seen[r], price)}
             first == IF firing = {} THEN 0 ELSE Min(firing)
             marks == [r \in Rules |->
                          IF r \in worker[w].loaded \cap Trailing
                                 /\ (first = 0 \/ r <= first)
                          THEN MarkFrom(seen[r], price) ELSE 0]
         IN  worker' = [worker EXCEPT ![w] =
                 [@ EXCEPT !.pc = IF first = 0 THEN "release" ELSE "fired",
                           !.fired = first,
                           !.seen = marks]]
    /\ UNCHANGED <<now, group, rule, mark, order, position>>

(* release_group with the marks of the evaluation. *)
ReleaseGroup(w) ==
    /\ worker[w].pc = "release"
    /\ group.version < MaxVersion
    /\ worker' = [worker EXCEPT ![w] = Idle]
    /\ IF Owns(w)
       THEN /\ group' = Unleased(group, worker[w].at)
            /\ mark' = [r \in Rules |->
                           IF worker[w].seen[r] # 0 /\ rule[r] = "active"
                           THEN worker[w].seen[r] ELSE mark[r]]
       ELSE UNCHANGED <<group, mark>>
    /\ UNCHANGED <<now, rule, order, position>>

(* propose_from_lease: the rule is no longer this worker's to fire; the    *)
(* lease stays as it is.                                                   *)
ProposeConflict(w) ==
    /\ worker[w].pc = "fired"
    /\ worker[w].fired \notin Loadable(w)
    /\ worker' = [worker EXCEPT ![w] = Idle]
    /\ UNCHANGED <<now, group, rule, mark, order, position>>

(* A quote of the snapshot is denied: the lease is released with the marks. *)
ProposeDenied(w) ==
    /\ worker[w].pc = "fired"
    /\ worker[w].fired \in Loadable(w)
    /\ worker' = [worker EXCEPT ![w].pc = "release"]
    /\ UNCHANGED <<now, group, rule, mark, order, position>>

(* _bounded_action leaves nothing to exit: the lease is released. *)
ProposeNoPosition(w) ==
    /\ worker[w].pc = "fired"
    /\ worker[w].fired \in Loadable(w) \cap Exits
    /\ AvailableReduceQty = 0
    /\ group.version < MaxVersion
    /\ group' = Unleased(group, worker[w].at)
    /\ worker' = [worker EXCEPT ![w] = Idle]
    /\ UNCHANGED <<now, rule, mark, order, position>>

BoundedQty(r) ==
    IF r \in Exits THEN Min({Size[r], AvailableReduceQty}) ELSE Size[r]

ClaimTerminalAlone(r, outcome, at) == \* Mutant: the siblings stay active
    /\ group' = [Unleased(group, at) EXCEPT !.state = outcome, !.winner = r]
    /\ rule' = [rule EXCEPT ![r] = outcome]

(* claim_terminal: the group closes with its winner and the siblings that  *)
(* could still fire are canceled.                                          *)
ClaimTerminal(r, outcome, at) ==
    /\ group' = [Unleased(group, at) EXCEPT !.state = outcome, !.winner = r]
    /\ rule' = [q \in Rules |-> IF q = r THEN outcome
                                ELSE IF rule[q] = "active" THEN "canceled"
                                     ELSE rule[q]]

(* claim_progress: only the rule is consumed. *)
ClaimProgress(r, outcome, at) ==
    /\ group' = Unleased(group, at)
    /\ rule' = [rule EXCEPT ![r] = outcome]

(* A rejected exit and an intermediate target leave the group at work. *)
TerminalGroup(r, rejected) == r \notin Intermediate /\ (~rejected \/ r \notin Exits)

InsertOrder(r, rejected) ==
    order' = [order EXCEPT ![r] =
                 [status |-> IF rejected THEN "rejected" ELSE "proposed",
                  qty |-> BoundedQty(r), filled |-> 0, booked |-> 0]]

(* The transaction of propose_from_lease: the claim, then the order, as    *)
(* the risk check decided.                                                 *)
Propose(w) ==
    LET r == worker[w].fired
        at == worker[w].at
    IN  /\ worker[w].pc = "fired"
        /\ r \in Loadable(w)
        /\ r \in Exits => AvailableReduceQty > 0
        /\ group.version < MaxVersion
        /\ \E rejected \in BOOLEAN :
             LET outcome == IF rejected THEN "failed" ELSE "triggered"
             IN  /\ \/ TerminalGroup(r, rejected) /\ ClaimTerminal(r, outcome, at)
                    \/ ~TerminalGroup(r, rejected) /\ ClaimProgress(r, outcome, at)
                 /\ InsertOrder(r, rejected)
        /\ mark' = [mark EXCEPT ![r] =
                       IF worker[w].seen[r] # 0 THEN worker[w].seen[r] ELSE @]
        /\ worker' = [worker EXCEPT ![w] = Idle]
        /\ UNCHANGED <<now, position>>

Crash(w) ==
    /\ worker[w].pc # "idle"
    /\ worker' = [worker EXCEPT ![w] = Idle]
    /\ UNCHANGED <<now, group, rule, mark, order, position>>

-----------------------------------------------------------------------------
(* The operator: cancel_rule closes the group with its last open rule. *)
CancelRule(r) ==
    /\ rule[r] = "active" /\ group.state = "active"
    /\ group.version < MaxVersion
    /\ rule' = [rule EXCEPT ![r] = "canceled"]
    /\ group' = IF \E q \in Rules \ {r} : rule[q] = "active"
                THEN group
                ELSE [Unleased(group, now) EXCEPT !.state = "canceled", !.winner = 0]
    /\ UNCHANGED <<now, mark, order, worker, position>>

(* The orders of the group, as OrderOutbox models them in detail. *)
ApproveOrder(r) ==
    /\ order[r].status = "proposed"
    /\ order' = [order EXCEPT ![r].status = "approved"]
    /\ UNCHANGED <<now, group, rule, mark, worker, position>>

ClaimUnlatched(r) == \* Mutant: the claim does not latch the group
    /\ order[r].status = "approved"
    /\ ~Unresolved /\ ~group.latched
    /\ order' = [order EXCEPT ![r].status = "submitting"]
    /\ UNCHANGED <<now, group, rule, mark, worker, position>>

(* The risk check of a sell against what the others reserve. *)
WithinPosition(r) ==
    r \in Exits => order[r].qty <= position - ReservedBy(Rules \ {r})

(* submit: claim_submission latches the group in the same transaction. *)
ClaimSubmission(r) ==
    /\ order[r].status = "approved"
    /\ ~Unresolved /\ ~group.latched
    /\ WithinPosition(r)
    /\ order' = [order EXCEPT ![r].status = "submitting"]
    /\ group' = [group EXCEPT !.latched = TRUE, !.updated = now]
    /\ UNCHANGED <<now, rule, mark, worker, position>>

(* A rejection by risk or by the operator, or an expiry. *)
DropOrder(r) ==
    /\ order[r].status \in {"proposed", "approved"}
    /\ order' = [order EXCEPT ![r].status = "rejected"]
    /\ UNCHANGED <<now, group, rule, mark, worker, position>>

(* The broker executes one share. *)
Execute(r) ==
    /\ order[r].status \in {"submitting", "live"}
    /\ order[r].filled < order[r].qty
    /\ order' = [order EXCEPT ![r].filled = @ + 1]
    /\ position' = IF r \in Exits THEN position - 1 ELSE position + 1
    /\ UNCHANGED <<now, group, rule, mark, worker>>

(* A reconciliation pass books the fills, moves the status and releases    *)
(* the group once no outcome is open; the order ends when it is filled or  *)
(* canceled.                                                               *)
Reconcile(r) ==
    /\ order[r].status \in {"submitting", "live"}
    /\ \E next \in {"live", "done"} :
         /\ next = "live" => order[r].filled < order[r].qty
         /\ order' = [order EXCEPT ![r].booked = order[r].filled, ![r].status = next]
    /\ group' = IF group.latched /\ \A q \in Rules \ {r} : order[q].status # "submitting"
                THEN [group EXCEPT !.latched = FALSE, !.updated = now] ELSE group
    /\ UNCHANGED <<now, rule, mark, worker, position>>

Tick ==
    /\ now < MaxTime
    /\ now' = now + 1
    /\ UNCHANGED <<group, rule, mark, order, worker, position>>

WorkerStep(w) ==
    \/ StartTick(w) \/ LeaseTooOld(w) \/ LeaseGroup(w) \/ LoadRules(w)
    \/ EvaluateNothing(w) \/ EvaluateFails(w) \/ Evaluate(w)
    \/ ReleaseGroup(w) \/ ProposeConflict(w) \/ ProposeDenied(w)
    \/ ProposeNoPosition(w) \/ Propose(w) \/ Crash(w)

OrderStep(r) ==
    \/ CancelRule(r) \/ ApproveOrder(r) \/ ClaimSubmission(r)
    \/ DropOrder(r) \/ Execute(r) \/ Reconcile(r)

Next ==
    \/ \E w \in Workers : WorkerStep(w)
    \/ \E r \in Rules : OrderStep(r)
    \/ Tick

Spec == Init /\ [][Next]_vars

-----------------------------------------------------------------------------
(* One shot: whatever workers and operators do to the group, a rule that   *)
(* has become an order never fires again, a group closed by a winner has   *)
(* no rule left to fire, and its winner is the rule whose state closed it. *)
OneShot ==
    /\ \A r \in Rules : order[r].status # "none" => rule[r] \in {"triggered", "failed"}
    /\ group.state # "active" =>
           /\ \A r \in Rules : rule[r] # "active"
           /\ group.owner = Nobody
           /\ group.winner # 0 => rule[group.winner] = group.state

(* A rule never becomes an order while the outcome of another order of its *)
(* group is open at the broker, although the lease was granted before that *)
(* order was sent (the latch set by claim_submission).                     *)
NoProposalWhileUncertainStep ==
    \A r \in Rules :
       order[r].status = "none" /\ order'[r].status # "none" => ~Unresolved

(* No step of the group lets a rule become an order past an open outcome.  *)
NoProposalWhileUncertain == [][NoProposalWhileUncertainStep]_vars

(* The high-water mark of a trailing stop never falls: a worker whose      *)
(* lease ran out while it evaluated cannot store the older mark it read    *)
(* (release_group compares owner and version).                             *)
MarkNeverFallsStep ==
    \A r \in Rules : mark'[r] >= mark[r]

(* No step of the group lowers a stored mark (release_group).              *)
MarkNeverFalls == [][MarkNeverFallsStep]_vars

(* Exits never reverse the position: what the exits at the broker may      *)
(* still sell is held, although several exits of the group were proposed   *)
(* against the same shares and fills are booked late.                      *)
NoReversal ==
    MapThenSumSet(LAMBDA r : order[r].qty - order[r].filled,
                  {r \in Exits : order[r].status \in {"submitting", "live"}})
        <= position
=============================================================================
