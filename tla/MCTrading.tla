----------------------------- MODULE MCTrading ------------------------------
(***************************************************************************)
(* What the assistant trades by: the rules of a group and the proposals    *)
(* they raise, the life of a plan from its entry to a flat position, the   *)
(* ledger of broker fills and the profit computed from fills.  The parts   *)
(* share no state, so a behaviour moves one of them and leaves the others  *)
(* as they start.  A plan is explored with an intermediate target, and     *)
(* with an exit that is tried again.                                       *)
(***************************************************************************)
EXTENDS RuleGroups, Integers, TLC

VARIABLES
    part,   \* the part that moves
    db, targetBroker,
    rows, fillsOrder, cursor, drift, pass, fillsBroker, crashes, offered,
    fills

(* The levels and sizes of the three rules; the second rule trails. *)
Levels == <<5, 0, 5>>
Sizes == <<1, 2, 1>>

(* Two fills of one order and one of another, the first at an older time.  *)
FillOrder == 1 :> "a" @@ 2 :> "a" @@ 3 :> "b"
FillQty == 1 :> 1 @@ 2 :> 1 @@ 3 :> 2
FillTime == 1 :> 2 @@ 2 :> 3 @@ 3 :> 1

(* What older versions may have left for order a, and for none. *)
LeftRows == 11 :> [order |-> "a", qty |-> 1, state |-> "blank"]
            @@ 12 :> [order |-> "none", qty |-> 1, state |-> "blank"]

Target == INSTANCE PlanLifecycle WITH
    Entries <- {1}, Intermediate <- {2}, Protective <- {3}, EntryQty <- 2,
    Percent <- 50, Other <- 1, Attempts <- 1, LateRules <- {},
    broker <- targetBroker

Retry == INSTANCE PlanLifecycle WITH
    Entries <- {1}, Intermediate <- {}, Protective <- {3}, EntryQty <- 2,
    Percent <- 50, Other <- 1, Attempts <- 2, LateRules <- {},
    broker <- targetBroker

Fills == INSTANCE FillLedger WITH
    Orders <- {"a", "b"}, OrderQty <- 2, Executions <- 1..3,
    OrderOf <- FillOrder, QtyOf <- FillQty, TimeOf <- FillTime,
    Old <- {11, 12}, OldRows <- LeftRows, Past <- {1}, Tagged <- {},
    Foreign <- "foreign", NoOrder <- "none", Overlap <- 2, Distortions <- 1,
    Crashes <- 1, order <- fillsOrder, broker <- fillsBroker

Profit == INSTANCE PnLLedger WITH
    Tickers <- {"X", "Y"}, Quantities <- {1, 2}, Prices <- {1, 3},
    MaxFills <- 3, Week <- 14

ASSUME Constants ==
    /\ RuleAssumption
    /\ Target!PlanAssumption
    /\ Retry!PlanAssumption
    /\ Fills!LedgerAssumption
    /\ Profit!LedgerAssumption

targetVars == <<db, targetBroker>>
fillsVars == <<rows, fillsOrder, cursor, drift, pass, fillsBroker, crashes,
              offered>>
profitVars == <<fills>>
allVars == <<part, vars, targetVars, fillsVars, profitVars>>

MCInit ==
    /\ part \in {"rule", "target", "retry", "fills", "profit"}
    /\ Init
    /\ CASE part = "retry" -> Retry!Init
           [] OTHER -> Target!Init
    /\ Fills!Init
    /\ Profit!Init

OnlyRule ==
    part = "rule" /\ UNCHANGED <<part, targetVars, fillsVars, profitVars>>
OnlyTarget ==
    part = "target" /\ UNCHANGED <<part, vars, fillsVars, profitVars>>
OnlyRetry ==
    part = "retry" /\ UNCHANGED <<part, vars, fillsVars, profitVars>>
OnlyFills ==
    part = "fills" /\ UNCHANGED <<part, vars, targetVars, profitVars>>
OnlyProfit ==
    part = "profit" /\ UNCHANGED <<part, vars, targetVars, fillsVars>>

MCNext ==
    \/ OnlyRule /\ Next
    \/ OnlyTarget /\ Target!Next
    \/ OnlyRetry /\ Retry!Next
    \/ OnlyFills /\ Fills!Next
    \/ OnlyProfit /\ Profit!Next
    \/ /\ part \in {"rule", "target", "retry", "fills", "profit"}   \* may come to an end
       /\ UNCHANGED allVars

MCSpec == MCInit /\ [][MCNext]_allVars

-----------------------------------------------------------------------------
(* The part that moves keeps its types. *)
Types ==
    /\ TypeOK
    /\ part = "target" => Target!TypeOK
    /\ part = "retry" => Retry!TypeOK
    /\ part = "fills" => Fills!TypeOK
    /\ part = "profit" => Profit!TypeOK

(* Exits sell what is held and no more: the exits of a group never reverse the
   position, those of a plan never sell more than its entries bought, shares
   that are owned are protected by every protective rule, and a plan that has
   ended has no order at work and no rule that could propose one. *)
ExitsAreCovered ==
    /\ NoReversal
    /\ part = "target" => Target!NoOverExit
    /\ part = "retry" => Retry!NoOverExit
    /\ part = "target" => Target!Protected
    /\ part = "retry" => Retry!Protected
    /\ part = "target" => Target!ClosedIsQuiet
    /\ part = "retry" => Retry!ClosedIsQuiet

(* The books say what was executed: no execution counts twice, a settled order
   has exactly its shares, the import's cursor passes nothing that was
   refused, and the realized gain is that of cash and cost since the latest
   weekday open, whatever the order in which fills arrive. *)
FillsAreBooked ==
    /\ Types
    /\ part = "fills" => Fills!NoDoubleCount
    /\ part = "fills" => Fills!SettledIsExact
    /\ part = "fills" => Fills!NothingPassedOver
    /\ part = "profit" => Profit!LedgerIsFifo
    /\ part = "profit" => Profit!BoundaryIsLatest

(* A plan that closes has booked every share its orders executed and is flat:
   neither completion nor cancellation hides a fill that raced it. *)
ClosesFlat ==
    [][/\ part = "target" => Target!ClosesFlatStep
       /\ part = "retry" => Retry!ClosesFlatStep]_allVars

=============================================================================
