--------------------------- MODULE ExposureLimits ---------------------------
(***************************************************************************)
(* The execution snapshot of orders/snapshot.py and the risk engine of     *)
(* risk/engine.py and risk/rules.py, in the submissions, proposals,        *)
(* cancellations and reconciliations they decide about.  The snapshot is   *)
(* put together from several reads: the account, then the positions, then  *)
(* the local orders and fills.  The barrier keeps local writers out in the *)
(* meantime, but the broker goes on executing.                             *)
(*                                                                         *)
(* Quantities are shares; a symbol's last and ask price stay put, so that  *)
(* a limit can only be passed by what is bought.  The broker is external.  *)
(***************************************************************************)
EXTENDS Integers, FiniteSets, FiniteSetsExt

CONSTANTS Orders, Symbols,
          Ticker, Side, Qty,     \* what each order asks for
          Last, Ask,             \* the symbol's quote
          Held,                  \* the account's positions at the start
          Cash,                  \* its buying power at the start
          MaxNotional, MaxPosition, MaxExposure, \* the configured limits
          MaxLost,               \* bound: answers lost and processes killed
          MaxTurns               \* bound: turns of the market

ExposureAssumption ==
    /\ Ticker \in [Orders -> Symbols]
    /\ Side \in [Orders -> {"buy", "sell"}]
    /\ Qty \in [Orders -> Nat \ {0}]
    /\ Last \in [Symbols -> Nat \ {0}]
    /\ Ask \in [Symbols -> Nat \ {0}]
    /\ Held \in [Symbols -> Int]
    /\ {Cash, MaxNotional, MaxPosition, MaxExposure, MaxLost, MaxTurns} \subseteq Nat

VARIABLES
    status,   \* Order.status
    ledger,   \* quantity in the order's trusted fills
    latched,  \* orders whose fills await reconciliation
    tripped,  \* active circuit breakers
    current,  \* the newest startup generation is reconciled
    remote,   \* what the broker has made of the order
    filled,   \* quantity it has executed
    pos,      \* the account's positions
    cash,     \* its buying power
    losing,   \* the day's loss is past its limit
    stage,    \* where the holder of the barrier is
    job,      \* what it does: a kind and an order
    seen,     \* what the holder has read
    lost, turns

local == <<status, ledger, latched, tripped, current>>
broker == <<remote, filled, pos, cash>>
bounds == <<lost, turns>>
vars == <<local, broker, losing, stage, job, seen, bounds>>

NoOrder == "no_order"
NoJob == [kind |-> "none", order |-> NoOrder]
NothingSeen == [cash |-> 0, losing |-> FALSE, fresh |-> TRUE,
                pos |-> [s \in Symbols |-> 0]]

Scopes == {"operator_global", "loss", "broker_drift", "data"}
Pending == {"approval_recorded", "submitting", "acceptance_unknown",
            "submitted", "partially_filled"}
Unreconciled == {"submitting", "acceptance_unknown"}
Terminal == {"filled", "canceled", "rejected"}
Statuses == {"none", "proposed"} \cup Pending \cup Terminal
Shown == {"open", "filled", "canceled"}
Stages == {"idle", "account", "positions", "check", "send", "answered",
           "unanswered", "refused", "cancel", "fills", "statuses"}

TypeOK ==
    /\ status \in [Orders -> Statuses]
    /\ ledger \in [Orders -> Nat]
    /\ latched \subseteq Orders
    /\ tripped \subseteq Scopes
    /\ current \in BOOLEAN
    /\ remote \in [Orders -> {"none", "inflight", "gone"} \cup Shown]
    /\ \A o \in Orders : ledger[o] <= filled[o] /\ filled[o] <= Qty[o]
    /\ pos \in [Symbols -> Int]
    /\ stage \in Stages
    /\ (stage = "idle") = (job = NoJob)
    /\ job \in [kind : {"propose", "submit", "cancel", "sync"},
                order : Orders \cup {NoOrder}] \cup {NoJob}
    /\ lost \in 0..MaxLost
    /\ turns \in 0..MaxTurns

Init ==
    /\ status = [o \in Orders |-> "none"]
    /\ ledger = [o \in Orders |-> 0]
    /\ latched = {}
    /\ tripped = {}
    /\ current = TRUE
    /\ remote = [o \in Orders |-> "none"]
    /\ filled = [o \in Orders |-> 0]
    /\ pos = Held
    /\ cash = Cash
    /\ losing = FALSE
    /\ stage = "idle"
    /\ job = NoJob
    /\ seen = NothingSeen
    /\ lost = 0
    /\ turns = 0

-----------------------------------------------------------------------------
(* The snapshot: what pending orders reserve, apart from the order that is *)
(* being decided, and what the account holds.                              *)

PendingOrders(x) == {o \in Orders \ {x} : status[o] \in Pending}

(* Mutant: what the broker reports as executed is taken off, not what the  *)
(* local ledger holds.                                                     *)
RemainingAtBroker(o) == Qty[o] - filled[o]

RemainingQty(o) == Max({Qty[o] - ledger[o], 0})

BuyPrice(s) == Max({Ask[s], Last[s]})

PendingBuys(x, s) ==
    MapThenSumSet(LAMBDA o : RemainingQty(o) * BuyPrice(s),
        {o \in PendingOrders(x) : Side[o] = "buy" /\ Ticker[o] = s})

ReservedSells(x, s) ==
    MapThenSumSet(RemainingQty,
        {o \in PendingOrders(x) : Side[o] = "sell" /\ Ticker[o] = s})

BrokerReconciled ==
    /\ current
    /\ \A o \in Orders : status[o] \notin Unreconciled
    /\ latched = {}
    /\ "broker_drift" \notin tripped

(* effective_signed_value and gross_exposure_with_pending *)
EffectiveValue(x, s) == seen.pos[s] * Last[s] + PendingBuys(x, s)

Abs(n) == IF n < 0 THEN -n ELSE n

GrossExposure(x) == MapThenSumSet(LAMBDA s : Abs(EffectiveValue(x, s)), Symbols)

(* OrderRequest.risk_notional *)
RiskNotional(x) ==
    Qty[x] * (IF Side[x] = "buy" THEN BuyPrice(Ticker[x]) ELSE Last[Ticker[x]])

-----------------------------------------------------------------------------
(* The engine's checks, each true when it has no objection. *)

ProjectedValue(x) ==
    Abs(EffectiveValue(x, Ticker[x])
        + (IF Side[x] = "buy" THEN RiskNotional(x) ELSE -RiskNotional(x)))

WithinNotional(x) == RiskNotional(x) <= MaxNotional

WithinPosition(x) == ProjectedValue(x) <= MaxPosition

WithinPortfolio(x) ==
    GrossExposure(x) - Abs(EffectiveValue(x, Ticker[x])) + ProjectedValue(x)
        <= MaxExposure

Affordable(x) ==
    Side[x] = "buy" =>
        RiskNotional(x) <= seen.cash
            - MapThenSumSet(LAMBDA s : PendingBuys(x, s), Symbols)

Owned(x) ==
    Side[x] = "sell" =>
        Qty[x] <= Max({seen.pos[Ticker[x]], 0}) - ReservedSells(x, Ticker[x])

AccountComplete == seen.cash > 0

(* strictly_reduce_only: in shares, a cover counting the buys that are out *)
Reducible(x) ==
    LET s == Ticker[x] IN
    IF Side[x] = "sell"
    THEN Max({seen.pos[s], 0}) - ReservedSells(x, s)
    ELSE -seen.pos[s] - (PendingBuys(x, s) \div Last[s])

StrictlyReduceOnly(x) == BrokerReconciled /\ Qty[x] <= Reducible(x)

Bypassable == {"operator_global", "loss"}

Blocking(x) == tripped \ (IF StrictlyReduceOnly(x) THEN Bypassable ELSE {})

Trips == (IF seen.losing THEN {"loss"} ELSE {}) \cup (IF seen.fresh THEN {} ELSE {"data"})

Approved(x) ==
    /\ WithinNotional(x) /\ WithinPosition(x) /\ WithinPortfolio(x)
    /\ Affordable(x) /\ Owned(x)
    /\ AccountComplete
    /\ seen.fresh
    /\ BrokerReconciled
    /\ Blocking(x) = {}
    /\ seen.losing => StrictlyReduceOnly(x)

-----------------------------------------------------------------------------
(* The barrier's holder.  A proposal and a submission read the account,    *)
(* then the positions, and then decide over the local rows.                *)

Begin(kind, o, to) ==
    /\ stage = "idle"
    /\ stage' = to
    /\ job' = [kind |-> kind, order |-> o]

Leave ==
    /\ stage' = "idle"
    /\ job' = NoJob
    /\ seen' = NothingSeen

propose_order(o) ==
    /\ status[o] = "none"
    /\ Begin("propose", o, "account")
    /\ UNCHANGED <<local, broker, losing, seen, bounds>>

approve(o) ==
    /\ stage = "idle"
    /\ status[o] = "proposed"
    /\ status' = [status EXCEPT ![o] = "approval_recorded"]
    /\ UNCHANGED <<ledger, latched, tripped, current, broker, losing, stage,
                   job, seen, bounds>>

submit(o) ==
    /\ status[o] = "approval_recorded"
    /\ Begin("submit", o, "account")
    /\ UNCHANGED <<local, broker, losing, seen, bounds>>

ReadAccount ==
    /\ stage = "account"
    /\ stage' = "positions"
    /\ seen' = [seen EXCEPT !.cash = cash]
    /\ UNCHANGED <<local, broker, losing, job, bounds>>

ReadPositions ==
    /\ stage = "positions"
    /\ stage' = "check"
    /\ seen' = [seen EXCEPT !.pos = pos, !.losing = losing]
    /\ UNCHANGED <<local, broker, losing, job, bounds>>

(* The account, the positions, the market clock or a quote is not to be    *)
(* had, or is out of date: what is being submitted stays approved.         *)
RequiredUnavailable ==
    /\ stage \in {"account", "positions"}
    /\ lost < MaxLost
    /\ lost' = lost + 1
    /\ Leave
    /\ UNCHANGED <<local, broker, losing, turns>>

(* A proposal goes on without the quotes it does not get. *)
ReadWithoutQuotes ==
    /\ stage = "positions"
    /\ job.kind = "propose"
    /\ lost < MaxLost
    /\ lost' = lost + 1
    /\ stage' = "check"
    /\ seen' = [seen EXCEPT !.pos = pos, !.losing = losing, !.fresh = FALSE]
    /\ UNCHANGED <<local, broker, losing, job, turns>>

(* A proposal is kept whatever the verdict, and what it saw is tripped. *)
DecideProposal ==
    /\ stage = "check"
    /\ job.kind = "propose"
    /\ status' = [status EXCEPT ![job.order] =
                    IF Approved(job.order) THEN "proposed" ELSE "rejected"]
    /\ tripped' = tripped \cup Trips
    /\ Leave
    /\ UNCHANGED <<ledger, latched, current, broker, losing, bounds>>

RejectBeforeClaim ==
    /\ stage = "check"
    /\ job.kind = "submit"
    /\ ~Approved(job.order)
    /\ status' = [status EXCEPT ![job.order] = "rejected"]
    /\ tripped' = tripped \cup Trips
    /\ Leave
    /\ UNCHANGED <<ledger, latched, current, broker, losing, bounds>>

(* A writer announced itself while the risk was judged: the submission     *)
(* gives the lock up and starts again from the first read.                 *)
Yield ==
    /\ stage = "check"
    /\ job.kind = "submit"
    /\ Approved(job.order)
    /\ Leave
    /\ UNCHANGED <<local, broker, losing, bounds>>

Claim ==
    /\ stage = "check"
    /\ job.kind = "submit"
    /\ Approved(job.order)
    /\ status' = [status EXCEPT ![job.order] = "submitting"]
    /\ tripped' = tripped \cup Trips
    /\ stage' = "send"
    /\ UNCHANGED <<ledger, latched, current, broker, losing, job, seen, bounds>>

(* The request reaches the broker, is refused, or its answer is lost while *)
(* it may still be on its way.                                             *)
SendAccepted ==
    /\ stage = "send"
    /\ remote' = [remote EXCEPT ![job.order] = "open"]
    /\ stage' = "answered"
    /\ UNCHANGED <<local, filled, pos, cash, losing, job, seen, bounds>>

SendRefused ==
    /\ stage = "send"
    /\ remote' = [remote EXCEPT ![job.order] = "gone"]
    /\ stage' = "refused"
    /\ UNCHANGED <<local, filled, pos, cash, losing, job, seen, bounds>>

SendLost ==
    /\ stage = "send"
    /\ lost < MaxLost
    /\ \E r \in {"open", "inflight"} : remote' = [remote EXCEPT ![job.order] = r]
    /\ stage' = "unanswered"
    /\ lost' = lost + 1
    /\ UNCHANGED <<local, filled, pos, cash, losing, job, seen, turns>>

RemoteStatus(o) ==
    CASE remote[o] = "open" /\ filled[o] = 0 -> "submitted"
      [] remote[o] = "open" /\ filled[o] > 0 -> "partially_filled"
      [] remote[o] = "filled" -> "filled"
      [] remote[o] = "canceled" -> "canceled"

NeedsFills(o) == RemoteStatus(o) \in {"filled", "partially_filled"} \/ filled[o] > ledger[o]

(* An answer that reports executions is reconciled within the interval. *)
PersistAnswer ==
    LET o == job.order IN
    /\ stage = "answered"
    /\ status' = [status EXCEPT ![o] = RemoteStatus(o)]
    /\ latched' = IF NeedsFills(o) THEN latched \cup {o} ELSE latched
    /\ IF RemoteStatus(o) \in {"filled", "partially_filled"}
       THEN stage' = "fills" /\ UNCHANGED <<job, seen>>
       ELSE Leave
    /\ UNCHANGED <<ledger, tripped, current, broker, losing, bounds>>

PersistRefusal ==
    /\ stage = "refused"
    /\ status' = [status EXCEPT ![job.order] = "rejected"]
    /\ Leave
    /\ UNCHANGED <<ledger, latched, tripped, current, broker, losing, bounds>>

PersistUnknown ==
    /\ stage = "unanswered"
    /\ status' = [status EXCEPT ![job.order] = "acceptance_unknown"]
    /\ Leave
    /\ UNCHANGED <<ledger, latched, tripped, current, broker, losing, bounds>>

-----------------------------------------------------------------------------
(* cancel_live_order: the broker is asked, and asked again for the status  *)
(* when the request fails; then everything is reconciled.                  *)

cancel_live_order(o) ==
    /\ status[o] \in {"submitted", "partially_filled"}
    /\ Begin("cancel", o, "cancel")
    /\ UNCHANGED <<local, broker, losing, seen, bounds>>

CancelAnswered ==
    /\ stage = "cancel"
    /\ remote' = [remote EXCEPT ![job.order] = IF @ = "open" THEN "canceled" ELSE @]
    /\ stage' = "fills"
    /\ UNCHANGED <<local, filled, pos, cash, losing, job, seen, bounds>>

CancelIndeterminate ==
    /\ stage = "cancel"
    /\ lost < MaxLost
    /\ \E r \in {"open", "canceled"} :
         remote' = [remote EXCEPT ![job.order] = IF @ = "open" THEN r ELSE @]
    /\ tripped' = tripped \cup {"broker_drift"}
    /\ latched' = latched \cup {job.order}
    /\ lost' = lost + 1
    /\ Leave
    /\ UNCHANGED <<status, ledger, current, filled, pos, cash, losing, turns>>

-----------------------------------------------------------------------------
(* A reconciliation: unknown acceptances are looked up and the executions  *)
(* imported, and then the statuses applied.                                *)

sync_open_orders ==
    /\ Begin("sync", NoOrder, "fills")
    /\ \E o \in Orders : status[o] \in Pending
    /\ UNCHANGED <<local, broker, losing, seen, bounds>>

Known(o) == status[o] \notin {"none", "proposed", "approval_recorded"} /\ remote[o] \in Shown

ImportFills ==
    /\ stage = "fills"
    /\ stage' = "statuses"
    /\ status' = [o \in Orders |-> IF status[o] \in Unreconciled /\ Known(o)
                                   THEN RemoteStatus(o) ELSE status[o]]
    /\ ledger' = [o \in Orders |-> IF Known(o) THEN filled[o] ELSE ledger[o]]
    /\ latched' = latched \cup {o \in Orders : status[o] \in Unreconciled
                                                /\ Known(o) /\ NeedsFills(o)}
    /\ UNCHANGED <<tripped, current, broker, losing, job, seen, bounds>>

Exact(o) == filled[o] = ledger[o]

Synced == {o \in Orders : Known(o) /\ (status[o] \in {"submitted", "partially_filled"} \/ o \in latched)}

ApplyStatuses ==
    /\ stage = "statuses"
    /\ status' = [o \in Orders |-> IF o \in Synced THEN RemoteStatus(o) ELSE status[o]]
    /\ latched' = (latched \ Synced) \cup {o \in Synced : ~Exact(o)}
    /\ LET faults == \/ \E o \in Orders : status[o] \in Unreconciled
                     \/ latched' # {} IN
       /\ tripped' = tripped \cup (IF faults THEN {"broker_drift"} ELSE {})
       /\ current' = (current \/ (~faults /\ job.kind = "sync"))
    /\ Leave
    /\ UNCHANGED <<ledger, broker, losing, bounds>>

-----------------------------------------------------------------------------
(* Risk writers, a process that dies and starts again, and the world.      *)

TripGlobal ==
    /\ stage = "idle"
    /\ "operator_global" \notin tripped
    /\ tripped' = tripped \cup {"operator_global"}
    /\ UNCHANGED <<status, ledger, latched, current, broker, losing, stage,
                   job, seen, bounds>>

(* An operator resets a scope whose health the code can confirm. *)
Reset(scope) ==
    /\ stage = "idle"
    /\ scope \in tripped
    /\ scope = "loss" => ~losing /\ BrokerReconciled
    /\ scope = "broker_drift" =>
         /\ latched = {}
         /\ \A o \in Orders : status[o] \notin Unreconciled
    /\ tripped' = tripped \ {scope}
    /\ UNCHANGED <<status, ledger, latched, current, broker, losing, stage,
                   job, seen, bounds>>

Killed ==
    /\ stage # "idle"
    /\ lost < MaxLost
    /\ lost' = lost + 1
    /\ current' = FALSE
    /\ Leave
    /\ UNCHANGED <<status, ledger, latched, tripped, broker, losing, turns>>

Arrive(o) ==
    /\ remote[o] = "inflight"
    /\ \E r \in {"open", "gone"} : remote' = [remote EXCEPT ![o] = r]
    /\ UNCHANGED <<local, filled, pos, cash, losing, stage, job, seen, bounds>>

Execute(o) ==
    LET s == Ticker[o] IN
    /\ remote[o] = "open"
    /\ filled' = [filled EXCEPT ![o] = @ + 1]
    /\ remote' = [remote EXCEPT ![o] = IF filled'[o] = Qty[o] THEN "filled" ELSE @]
    /\ IF Side[o] = "buy"
       THEN /\ pos' = [pos EXCEPT ![s] = @ + 1]
            /\ cash' = cash - BuyPrice(s)
       ELSE /\ pos' = [pos EXCEPT ![s] = @ - 1]
            /\ cash' = cash + Last[s]
    /\ UNCHANGED <<local, losing, stage, job, seen, bounds>>

End(o) ==
    /\ remote[o] = "open"
    /\ remote' = [remote EXCEPT ![o] = "canceled"]
    /\ UNCHANGED <<local, filled, pos, cash, losing, stage, job, seen, bounds>>

Turn ==
    /\ turns < MaxTurns
    /\ turns' = turns + 1
    /\ losing' = ~losing
    /\ UNCHANGED <<local, broker, stage, job, seen, lost>>

Next ==
    \/ \E o \in Orders : \/ propose_order(o) \/ approve(o) \/ submit(o)
                         \/ cancel_live_order(o)
                         \/ Arrive(o) \/ Execute(o) \/ End(o)
    \/ ReadAccount \/ ReadPositions \/ RequiredUnavailable
    \/ ReadWithoutQuotes \/ DecideProposal
    \/ RejectBeforeClaim \/ Yield \/ Claim
    \/ SendAccepted \/ SendRefused \/ SendLost
    \/ PersistAnswer \/ PersistRefusal \/ PersistUnknown
    \/ CancelAnswered \/ CancelIndeterminate
    \/ sync_open_orders \/ ImportFills \/ ApplyStatuses
    \/ TripGlobal \/ (\E scope \in Scopes : Reset(scope))
    \/ Killed \/ Turn

Spec == Init /\ [][Next]_vars

-----------------------------------------------------------------------------
(* What the account may come to, whichever open requests are executed. *)

MayExecute(o) == IF remote[o] \in {"open", "inflight"} THEN Qty[o] - filled[o] ELSE 0

Outstanding(side, s) ==
    MapThenSumSet(MayExecute, {o \in Orders : Side[o] = side /\ Ticker[o] = s})

WorstPosition(s) ==
    Max({Abs(pos[s] + Outstanding("buy", s)), Abs(pos[s] - Outstanding("sell", s))})

(* The limits hold for what the account may come to, not only for what it  *)
(* holds: no choice of executions, at any time before, during or after a   *)
(* risk check, takes a position or the portfolio over its limit            *)
(* (check_max_position, check_portfolio_exposure over the snapshot's       *)
(* reservations).  For accounts that start long and within the limits.     *)
LimitsHold ==
    (\A s \in Symbols : Held[s] >= 0) =>
        /\ \A s \in Symbols : WorstPosition(s) * Last[s] <= MaxPosition
        /\ MapThenSumSet(LAMBDA s : WorstPosition(s) * Last[s], Symbols) <= MaxExposure

(* No order is sold from shares another open sale may still take: the      *)
(* account never goes short (the unreserved-position check).               *)
NeverShort ==
    \A s \in Symbols : Held[s] >= 0 => pos[s] - Outstanding("sell", s) >= 0

(* Whatever is executed, it is paid for: open buys never exceed the buying *)
(* power that is left.                                                     *)
NeverOverspent ==
    cash >= MapThenSumSet(LAMBDA s : Outstanding("buy", s) * BuyPrice(s), Symbols)

(* While a stop or the loss breaker is active nothing a submission does    *)
(* lets a position grow or change its side (the reduce-only exception).    *)
StopOnlyReducesStep ==
    tripped # {} =>
      \A s \in Symbols :
         /\ WorstPosition(s)' <= WorstPosition(s)
         /\ pos[s] >= 0 => (pos[s] - Outstanding("sell", s))' >= Min({0, pos[s] - Outstanding("sell", s)})
         /\ pos[s] <= 0 => (pos[s] + Outstanding("buy", s))' <= Max({0, pos[s] + Outstanding("buy", s)})

=============================================================================
