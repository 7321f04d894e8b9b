------------------------------ MODULE Autopilot ------------------------------
(***************************************************************************)
(* The autonomous paper-trading loop of autopilot.py: each cycle heals     *)
(* transient breakers, counts the day's orders in the database, and goes   *)
(* through its universe, proposing and approving at most one order per     *)
(* symbol.  Midnight, the operator, failing calls and kills come in        *)
(* between.  The trading service is represented by what its calls may      *)
(* answer; its own checks are the subject of ExposureLimits and            *)
(* OrderOutbox.                                                            *)
(***************************************************************************)
EXTENDS Naturals, Sequences, SequencesExt

CONSTANTS Universe,          \* the symbols, a sequence
          TransientScopes,   \* data and liquidity scopes, a sequence
          HumanScopes,       \* drift, loss, drawdown and operator scopes
          max_orders_per_day,
          MaxDay, MaxTrips   \* bounds

AutopilotAssumption ==
    /\ Universe # <<>>
    /\ max_orders_per_day \in Nat \ {0}
    /\ {MaxDay, MaxTrips} \subseteq Nat
    /\ Range(TransientScopes) \cap HumanScopes = {}

Scopes == Range(TransientScopes) \cup HumanScopes

VARIABLES
    day,        \* the UTC day
    approvals,  \* orders approved by an autopilot actor, by day of approved_at
    order,      \* the state of the order proposed last
    breaker,    \* [tripped, generation] of each scope
    mode,       \* "loop", "once" or "dry"
    pc, index,
    placed,     \* the count the cycle goes by
    isOpen,     \* the cached answer of the market's clock
    target,     \* the side to be submitted
    seen,       \* the generation of the breaker looked at
    killed      \* the process did not end by itself

vars == <<day, approvals, order, breaker, mode, pc, index, placed, isOpen, target, seen, killed>>

PCs == {"off", "sleep", "heal", "reset", "count", "symbol", "propose", "approve", "submit"}
Missing == 0
Averages == {Missing, 1, 2}

TypeOK ==
    /\ day \in 0..MaxDay
    /\ approvals \in [0..MaxDay -> Nat]
    /\ order \in {"none", "proposed", "approval_recorded", "decided"}
    /\ breaker \in [Scopes -> [tripped : BOOLEAN, generation : 0..MaxTrips]]
    /\ mode \in {"loop", "once", "dry"}
    /\ pc \in PCs
    /\ index \in 1..(IF pc \in {"heal", "reset"} THEN Len(TransientScopes) ELSE Len(Universe))
    /\ placed \in 0..max_orders_per_day
    /\ isOpen \in {"unasked", "open", "closed"}
    /\ target \in {"none", "buy", "sell"}
    /\ killed \in BOOLEAN

Init ==
    /\ day = 0
    /\ approvals = [d \in 0..MaxDay |-> 0]
    /\ order = "none"
    /\ breaker = [s \in Scopes |-> [tripped |-> FALSE, generation |-> 0]]
    /\ mode = "loop"
    /\ pc = "off"
    /\ index = 1
    /\ placed = 0
    /\ isOpen = "unasked"
    /\ target = "none"
    /\ seen = 0
    /\ killed = FALSE

store == <<approvals, order, breaker>>

-----------------------------------------------------------------------------
(* The world around it. *)
Midnight ==
    /\ day < MaxDay
    /\ day' = day + 1
    /\ UNCHANGED <<store, mode, pc, index, placed, isOpen, target, seen, killed>>

Trip(s) ==
    /\ breaker[s].generation < MaxTrips
    /\ breaker' = [breaker EXCEPT ![s] =
                     [tripped |-> TRUE, generation |-> @.generation + 1]]
    /\ UNCHANGED <<day, approvals, order, mode, pc, index, placed, isOpen, target, seen, killed>>

(* The operator approves or rejects a proposal, or it expires. *)
OperatorDecides ==
    /\ order = "proposed"
    /\ order' \in {"approval_recorded", "decided"}
    /\ UNCHANGED <<day, approvals, breaker, mode, pc, index, placed, isOpen, target, seen, killed>>

Kill ==
    /\ pc # "off"
    /\ pc' = "off"
    /\ killed' = TRUE
    /\ index' = 1 /\ placed' = 0 /\ isOpen' = "unasked" /\ target' = "none" /\ seen' = 0
    /\ UNCHANGED <<day, store, mode>>

-----------------------------------------------------------------------------

(* A cycle begins; a dry run heals nothing. *)
run_once(m) ==
    /\ pc' = IF m = "dry" THEN "count" ELSE "heal"
    /\ index' = 1
    /\ placed' = 0
    /\ isOpen' = "unasked"
    /\ target' = "none"
    /\ seen' = 0

main ==
    /\ pc = "off"
    /\ \E m \in {"loop", "once", "dry"} : mode' = m /\ run_once(m)
    /\ killed' = FALSE
    /\ UNCHANGED <<day, store>>

(* The loop sleeps for the poll interval and goes on. *)
Wake ==
    /\ pc = "sleep"
    /\ run_once(mode)
    /\ UNCHANGED <<day, store, mode, killed>>

(* The cycle is over: the loop sleeps, a single cycle is the end. *)
EndCycle ==
    /\ pc' = IF mode = "loop" THEN "sleep" ELSE "off"
    /\ index' = 1 /\ placed' = 0 /\ isOpen' = "unasked" /\ target' = "none" /\ seen' = 0

(* An exception leaves the cycle; the loop logs it and goes on. *)
CycleFails == EndCycle

-----------------------------------------------------------------------------
(* _heal_transient_breakers *)
Scope == TransientScopes[index]

NextScope ==
    /\ pc' = IF index < Len(TransientScopes) THEN "heal" ELSE "count"
    /\ index' = IF index < Len(TransientScopes) THEN index + 1 ELSE 1
    /\ seen' = 0

LookAtBreaker ==
    /\ pc = "heal"
    /\ \/ NextScope   \* unreadable
       \/ ~breaker[Scope].tripped /\ NextScope
       \/ /\ breaker[Scope].tripped
          /\ seen' = breaker[Scope].generation
          /\ pc' = "reset"
          /\ UNCHANGED index
    /\ UNCHANGED <<day, store, mode, placed, isOpen, target, killed>>

(* Mutant: the breaker is cleared whatever its generation is by now. *)
ClearRegardless ==
    /\ pc = "reset"
    /\ breaker' = [breaker EXCEPT ![Scope].tripped = FALSE]
    /\ NextScope
    /\ UNCHANGED <<day, approvals, order, mode, placed, isOpen, target, killed>>

(* The reset is refused when the market cannot be read or the breaker has  *)
(* tripped again since.                                                    *)
reset_killswitch ==
    /\ pc = "reset"
    /\ \/ UNCHANGED breaker
       \/ /\ breaker[Scope].generation = seen
          /\ breaker' = [breaker EXCEPT ![Scope].tripped = FALSE]
    /\ NextScope
    /\ UNCHANGED <<day, approvals, order, mode, placed, isOpen, target, killed>>

-----------------------------------------------------------------------------

(* Approvals by an autopilot actor since UTC midnight. *)
OrdersToday == approvals[day]

CountOrders ==
    /\ pc = "count"
    /\ \/ /\ placed' = OrdersToday
          /\ pc' = "symbol"
          /\ UNCHANGED <<index, isOpen, target, seen>>
       \/ CycleFails
    /\ UNCHANGED <<day, store, mode, killed>>

(* Long while the fast average leads the slow one and the price holds the  *)
(* long trend; missing inputs are flat.                                    *)
sma_crossover_decision(sma_20, sma_50, sma_200, last_close) ==
    IF /\ Missing \notin {sma_20, sma_50}
       /\ sma_20 > sma_50
       /\ ~(Missing \notin {sma_200, last_close} /\ last_close < sma_200)
    THEN "long" ELSE "flat"

Side(decision, held) ==
    CASE decision = "long" /\ ~held -> "buy"
      [] decision = "flat" /\ held -> "sell"
      [] OTHER -> "none"

NextSymbol ==
    IF index < Len(Universe)
    THEN /\ index' = index + 1
         /\ pc' = "symbol"
         /\ target' = "none"
         /\ UNCHANGED <<isOpen, seen>>
    ELSE EndCycle

CapReached ==
    /\ pc = "symbol"
    /\ placed >= max_orders_per_day
    /\ EndCycle
    /\ UNCHANGED <<day, store, mode, killed>>

(* The market's clock is asked once per cycle; a failure reads as closed. *)
AskMarket ==
    /\ pc = "symbol"
    /\ placed < max_orders_per_day
    /\ isOpen = "unasked"
    /\ isOpen' \in {"open", "closed"}
    /\ UNCHANGED <<day, store, mode, pc, index, placed, target, seen, killed>>

(* A closed market, features or positions that cannot be read, or nothing  *)
(* to do.                                                                  *)
Skip ==
    /\ pc = "symbol"
    /\ placed < max_orders_per_day
    /\ isOpen # "unasked"
    /\ NextSymbol
    /\ placed' = IF index < Len(Universe) THEN placed ELSE 0
    /\ UNCHANGED <<day, store, mode, killed>>

Decide ==
    /\ pc = "symbol"
    /\ placed < max_orders_per_day
    /\ isOpen = "open"
    /\ \E a, b, c, p \in Averages, held \in BOOLEAN :
         target' = Side(sma_crossover_decision(a, b, c, p), held)
    /\ target' # "none"
    /\ pc' = "propose"
    /\ UNCHANGED <<day, store, mode, index, placed, isOpen, seen, killed>>

-----------------------------------------------------------------------------
(* _submit: a dry run only reports what it would do. *)
Placed ==
    /\ NextSymbol
    /\ placed' = IF index < Len(Universe) THEN placed + 1 ELSE 0

SubmitDry ==
    /\ pc = "propose"
    /\ mode = "dry"
    /\ Placed
    /\ UNCHANGED <<day, store, mode, killed>>

(* The proposal is refused by the risk engine, accepted, or the call       *)
(* fails.                                                                  *)
propose_order ==
    /\ pc = "propose"
    /\ mode # "dry"
    /\ \/ /\ order' = "decided"
          /\ NextSymbol
          /\ placed' = IF index < Len(Universe) THEN placed ELSE 0
       \/ /\ order' = "proposed"
          /\ pc' = "approve"
          /\ UNCHANGED <<index, placed, isOpen, target, seen>>
       \/ CycleFails /\ UNCHANGED order
    /\ UNCHANGED <<day, approvals, breaker, mode, killed>>

(* Approval is recorded once, from the proposed state; an order somebody   *)
(* else approved meanwhile goes on to submission as it is.                 *)
approve_order ==
    /\ pc = "approve"
    /\ \/ /\ order = "proposed"
          /\ order' = "approval_recorded"
          /\ approvals' = [approvals EXCEPT ![day] = @ + 1]
          /\ pc' = "submit"
          /\ UNCHANGED <<index, placed, isOpen, target, seen>>
       \/ /\ order = "approval_recorded"
          /\ pc' = "submit"
          /\ UNCHANGED <<approvals, order, index, placed, isOpen, target, seen>>
       \/ /\ order = "decided"
          /\ Placed
          /\ UNCHANGED <<approvals, order>>
       \/ /\ CycleFails
          /\ UNCHANGED <<approvals, order>>
    /\ UNCHANGED <<day, breaker, mode, killed>>

(* The outbox submits, or refuses, or a dependency fails: the approval     *)
(* stands.                                                                 *)
Submission ==
    /\ pc = "submit"
    /\ order' \in {order, "decided"}
    /\ Placed \/ CycleFails
    /\ UNCHANGED <<day, approvals, breaker, mode, killed>>

Step ==
    \/ Wake \/ LookAtBreaker \/ reset_killswitch \/ CountOrders \/ CapReached
    \/ AskMarket \/ Skip \/ Decide \/ SubmitDry \/ propose_order \/ approve_order
    \/ Submission

Next == main \/ Step \/ Midnight \/ (\E s \in Scopes : Trip(s)) \/ OperatorDecides \/ Kill

Spec == Init /\ [][Next]_vars

(* The process runs, its calls end and its sleeps are over in time. *)
Fairness == WF_vars(Step)

-----------------------------------------------------------------------------
(* However cycles fail, processes are killed and started again and days    *)
(* change in mid-cycle, no UTC day sees more approvals by the autopilot    *)
(* than the configured cap.                                                *)
DailyCap == \A d \in 0..MaxDay : approvals[d] <= max_orders_per_day

(* Whatever the autopilot clears is a transient breaker in the very        *)
(* generation it looked at: neither a latch kept for a human nor a trip    *)
(* that came after the look.                                               *)
ClearsOnlyWhatItSawStep ==
    \A s \in Scopes :
      breaker[s].tripped /\ ~breaker'[s].tripped =>
         /\ s \notin HumanScopes
         /\ breaker[s].generation = seen

(* A dry run approves nothing, proposes nothing and clears nothing: what   *)
(* changes while it runs was changed by somebody else.                     *)
DryRunTouchesNothingStep ==
    mode = "dry" /\ pc' # pc => UNCHANGED store

(* The loop goes on to another cycle after every failure, unless it is     *)
(* killed.                                                                 *)
LoopGoesOn == [](mode = "loop" /\ pc # "off" => <>(pc = "sleep" \/ killed))

=============================================================================
