------------------------------- MODULE MCRisk -------------------------------
(***************************************************************************)
(* What keeps the assistant from trading: the emergency stop and the       *)
(* breakers it latches, the exposure limits, the gate a starting runtime   *)
(* passes and the safety status that is reported.  The parts share no      *)
(* state, so a behaviour moves one of them and leaves the others as they   *)
(* start.  The exposure limits are explored for buys, for sells and for    *)
(* covering buys.                                                          *)
(***************************************************************************)
EXTENDS StartupGate, Integers, TLC

VARIABLES
    part,   \* the part that moves
    ord, rule, breaker, net, beyond, panic, panics, verdict, panicSeen, health,
    status, ledger, latched, buysTripped, current, remote, filled, pos, cash,
    losing, stage, job, buysSeen, lost, turns,
    item, held, truthTripped, garbled, beat, truthNow, at, view, observed,
    found, unknown, report, faults

OrderTicker(O) == [o \in O |-> IF o = "c" THEN "Y" ELSE "X"]
OrderQty(O) == [o \in O |-> IF o = "a" THEN 2 ELSE 1]
All(O, side) == [o \in O |-> side]
Each(n) == [s \in {"X"} |-> n]
XY(x, y) == [s \in {"X", "Y"} |-> IF s = "X" THEN x ELSE y]

Panic == INSTANCE EmergencyStop WITH
    Orders <- {"entry", "exit"}, ByRule <- {"entry"}, Exits <- {"exit"},
    Scopes <- {"operator_global", "broker_drift"}, Operators <- {"op"},
    Qty <- 2, MaxGen <- 2, Panics <- 1, seen <- panicSeen

Reset == INSTANCE EmergencyStop WITH
    Orders <- {"entry"}, ByRule <- {"entry"}, Exits <- {},
    Scopes <- {"operator_global", "broker_drift", "loss"},
    Operators <- {"op"}, Qty <- 1, MaxGen <- 3, Panics <- 1, seen <- panicSeen

Buys == INSTANCE ExposureLimits WITH
    Symbols <- {"X", "Y"}, Orders <- {"a", "b", "c"},
    Ticker <- OrderTicker({"a", "b", "c"}), Qty <- OrderQty({"a", "b", "c"}),
    Last <- XY(1, 1), Ask <- XY(1, 2), MaxNotional <- 2, MaxPosition <- 3,
    MaxLost <- 1, Side <- All({"a", "b", "c"}, "buy"), Held <- XY(1, 0),
    Cash <- 3, MaxExposure <- 5, MaxTurns <- 0, tripped <- buysTripped,
    seen <- buysSeen

Sells == INSTANCE ExposureLimits WITH
    Symbols <- {"X"}, Orders <- {"a", "b"}, Ticker <- OrderTicker({"a", "b"}),
    Qty <- OrderQty({"a", "b"}), Last <- Each(1), Ask <- Each(1),
    MaxNotional <- 2, MaxPosition <- 3, MaxLost <- 1,
    Side <- All({"a", "b"}, "sell"), Held <- Each(2), Cash <- 4,
    MaxExposure <- 4, MaxTurns <- 2, tripped <- buysTripped, seen <- buysSeen

Covers == INSTANCE ExposureLimits WITH
    Symbols <- {"X"}, Orders <- {"a", "b"}, Ticker <- OrderTicker({"a", "b"}),
    Qty <- OrderQty({"a", "b"}), Last <- Each(1), Ask <- Each(1),
    MaxNotional <- 2, MaxPosition <- 3, MaxLost <- 1,
    Side <- All({"a", "b"}, "buy"), Held <- Each(-2), Cash <- 4,
    MaxExposure <- 4, MaxTurns <- 2, tripped <- buysTripped, seen <- buysSeen

Truth == INSTANCE SafetyTruth WITH
    Items <- {"i1"}, Scopes <- {"global"}, Parts <- 2, MaxTime <- 2,
    MaxFaults <- 1, tripped <- truthTripped, now <- truthNow

ASSUME Constants ==
    /\ GateAssumption
    /\ Panic!StopAssumption
    /\ Reset!StopAssumption
    /\ Buys!ExposureAssumption
    /\ Sells!ExposureAssumption
    /\ Covers!ExposureAssumption
    /\ Truth!TruthAssumption

panicVars == <<ord, rule, breaker, net, beyond, panic, panics, verdict,
              panicSeen, health>>
buysVars == <<status, ledger, latched, buysTripped, current, remote, filled,
             pos, cash, losing, stage, job, buysSeen, lost, turns>>
truthVars == <<item, held, truthTripped, garbled, beat, truthNow, at, view,
              observed, found, unknown, report, faults>>
allVars == <<part, vars, panicVars, buysVars, truthVars>>

MCInit ==
    /\ part \in {"gate", "panic", "reset", "buys", "sells", "covers",
                       "truth"}
    /\ Init
    /\ CASE part = "reset" -> Reset!Init
           [] OTHER -> Panic!Init
    /\ CASE part = "sells" -> Sells!Init
           [] part = "covers" -> Covers!Init
           [] OTHER -> Buys!Init
    /\ Truth!Init

OnlyGate ==
    part = "gate" /\ UNCHANGED <<part, panicVars, buysVars, truthVars>>
OnlyPanic ==
    part = "panic" /\ UNCHANGED <<part, vars, buysVars, truthVars>>
OnlyReset ==
    part = "reset" /\ UNCHANGED <<part, vars, buysVars, truthVars>>
OnlyBuys ==
    part = "buys" /\ UNCHANGED <<part, vars, panicVars, truthVars>>
OnlySells ==
    part = "sells" /\ UNCHANGED <<part, vars, panicVars, truthVars>>
OnlyCovers ==
    part = "covers" /\ UNCHANGED <<part, vars, panicVars, truthVars>>
OnlyTruth ==
    part = "truth" /\ UNCHANGED <<part, vars, panicVars, buysVars>>

MCNext ==
    \/ OnlyGate /\ Next
    \/ OnlyPanic /\ Panic!Next
    \/ OnlyReset /\ Reset!Next
    \/ OnlyBuys /\ Buys!Next
    \/ OnlySells /\ Sells!Next
    \/ OnlyCovers /\ Covers!Next
    \/ OnlyTruth /\ Truth!Next
    \/ /\ part \in {"gate", "panic", "reset", "buys", "sells", "covers"}   \* may come to an end
       /\ UNCHANGED allVars

MCSpec == MCInit /\ [][MCNext]_allVars

-----------------------------------------------------------------------------
(* The part that moves keeps its types. *)
Types ==
    /\ TypeOK
    /\ part = "panic" => Panic!TypeOK
    /\ part = "reset" => Reset!TypeOK
    /\ part = "buys" => Buys!TypeOK
    /\ part = "sells" => Sells!TypeOK
    /\ part = "covers" => Covers!TypeOK
    /\ part = "truth" => Truth!TypeOK

(* Orders that are judged one by one while others fill keep the limits
   together: no choice of executions takes a position or the portfolio over
   its limit, open buys never exceed the buying power left, and no sale takes
   shares that another may still take. *)
LimitsHold ==
    /\ part = "buys" => Buys!LimitsHold
    /\ part = "buys" => Buys!NeverOverspent
    /\ part = "sells" => Sells!NeverShort

(* What is reported of the safety state is so: a panic that reports safe has
   nothing open at the broker or on its way there, an order that ended has its
   shares booked or is latched, the status was so at the one moment it names,
   and a heartbeat that could be read is not set aside as coming from the
   future. *)
StatusIsTrue ==
    /\ Types
    /\ part = "panic" => Panic!SafeIsQuiet
    /\ part = "reset" => Reset!SafeIsQuiet
    /\ part = "panic" => Panic!EndedIsBooked
    /\ part = "truth" => Truth!ReportIsTrue
    /\ part = "truth" => Truth!HeartbeatBelieved

(* A stop is not undone by the way: a reset clears the trips it was shown and
   no later one, and while trading is stopped only orders that reduce a
   position pass. *)
StopsHold ==
    [][/\ part = "panic" => Panic!ResetClearsWhatWasSeenStep
       /\ part = "reset" => Reset!ResetClearsWhatWasSeenStep
       /\ part = "covers" => Covers!StopOnlyReducesStep]_allVars

=============================================================================
