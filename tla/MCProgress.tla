----------------------------- MODULE MCProgress -----------------------------
(***************************************************************************)
(* What must come to an end or go on: the submission barrier under the     *)
(* fairness of its locks, and the requests, starts, chats, loops and       *)
(* tenures that must end.  The parts share no state, so a behaviour moves  *)
(* one of them and leaves the others as they start; each property assumes  *)
(* the fairness of its own part.                                           *)
(***************************************************************************)
EXTENDS SubmissionBarrier, TLC

VARIABLES
    part,   \* the part that moves
    tenureRow, proc, txn, tenureSeen, dirty,
    clock, lease, latch, tradesReceipt, tradesReq, truth, doubt, faults,
    tradesCrashes,
    drafted, fresh, queueReceipt, nonce, queueTarget, made, queueReq, writer,
    queueCrashes,
    session, token, menuOrder, plan, menuBreaker, menuPc, item, reviewed,
    unknown, quote, posture, slot, submitted, shown, lost,
    now, gateRow, gatePc, stamp, holder, gateTarget, agrees, proved, submits,
    kills, drifts,
    chat, used, reads, decisions,
    main, why, worker, task, lock, guard, monitorRow, tool, tripped, daily,
    monitorDay, runs,
    pilotDay, approvals, pilotOrder, pilotBreaker, mode, pilotPc, index,
    placed, isOpen, pilotTarget, pilotSeen, killed

All(R, path) == [r \in R |-> path]
RuleWords == [key |-> "k1", cand |-> "u", reason |-> "r1"]

Tenure == INSTANCE RuntimeTenure WITH
    Procs <- {"a1", "a2", "m1"},
    RoleOf <- "a1" :> "app" @@ "a2" :> "app" @@ "m1" :> "maintenance",
    Ttl <- 1, row <- tenureRow, seen <- tenureSeen

Trades == INSTANCE RouteInterlock WITH
    Requests <- {"first", "second"}, Legacy <- "none", Ttl <- 2, MaxTime <- 2,
    Faults <- 1, Crashes <- 1, PathOf <- All({"first", "second"}, "order"),
    receipt <- tradesReceipt, req <- tradesReq, crashes <- tradesCrashes

Tests == INSTANCE RouteInterlock WITH
    Requests <- {"first", "second"}, Legacy <- "none", Ttl <- 2, MaxTime <- 2,
    Faults <- 1, Crashes <- 0, PathOf <- All({"first", "second"}, "backtest"),
    receipt <- tradesReceipt, req <- tradesReq, crashes <- tradesCrashes

Inherited == INSTANCE RouteInterlock WITH
    Requests <- {"first", "second"}, Legacy <- "reset", Ttl <- 2,
    MaxTime <- 2, Faults <- 0, Crashes <- 1,
    PathOf <- "first" :> "panic" @@ "second" :> "reset",
    receipt <- tradesReceipt, req <- tradesReq, crashes <- tradesCrashes

Queue == INSTANCE CandidateQueue WITH
    Candidates <- {"u"}, KindOf <- "u" :> "rule", Keys <- {"k1"},
    Requests <- {"first", "second"},
    RequestOf <- All({"first", "second"}, RuleWords), MaxCrashes <- 1,
    receipt <- queueReceipt, target <- queueTarget, req <- queueReq,
    crashes <- queueCrashes

Menu == INSTANCE OperatorMenu WITH
    Orders <- {"o1"}, Plans <- {}, Choices <- {"approve"}, Ttl <- 2,
    Recent <- 1, Fresh <- 1, MaxGen <- 0, MaxEdits <- 0, MaxLost <- 1,
    order <- menuOrder, breaker <- menuBreaker, pc <- menuPc

Gate == INSTANCE StartupGate WITH
    Runtimes <- {"app", "daemon"}, Apps <- {"app"}, MaxTime <- 2,
    MaxKills <- 1, MaxDrifts <- 1, MaxGenerations <- 2, row <- gateRow,
    pc <- gatePc, target <- gateTarget

Chat == INSTANCE AgentChat WITH
    Chats <- {"c1"}, max_turns <- 2, ReadLimit <- 3, MaxCandidates <- 1,
    MaxBlocks <- 2

Monitor == INSTANCE MonitorCycle WITH
    MaxRuns <- 1, MaxDay <- 1, Slots <- {"core1"}, row <- monitorRow,
    day <- monitorDay

Pilot == INSTANCE Autopilot WITH
    Universe <- <<"AAPL", "MSFT">>, TransientScopes <- <<"data:equity">>,
    HumanScopes <- {"broker_drift"}, max_orders_per_day <- 2, MaxDay <- 1,
    MaxTrips <- 1, day <- pilotDay, order <- pilotOrder,
    breaker <- pilotBreaker, pc <- pilotPc, target <- pilotTarget,
    seen <- pilotSeen

ASSUME Constants ==
    /\ Tenure!TenureAssumption
    /\ Trades!RouteAssumption
    /\ Tests!RouteAssumption
    /\ Inherited!RouteAssumption
    /\ Queue!QueueAssumption
    /\ Menu!MenuAssumption
    /\ Gate!GateAssumption
    /\ Chat!AgentAssumption
    /\ Monitor!MonitorAssumption
    /\ Pilot!AutopilotAssumption

tenureVars == <<tenureRow, proc, txn, tenureSeen, dirty>>
tradesVars == <<clock, lease, latch, tradesReceipt, tradesReq, truth, doubt,
               faults, tradesCrashes>>
queueVars == <<drafted, fresh, queueReceipt, nonce, queueTarget, made,
              queueReq, writer, queueCrashes>>
menuVars == <<session, token, menuOrder, plan, menuBreaker, menuPc, item,
             reviewed, unknown, quote, posture, slot, submitted, shown, lost>>
gateVars == <<now, gateRow, gatePc, stamp, holder, gateTarget, agrees, proved,
             submits, kills, drifts>>
chatVars == <<chat, used, reads, decisions>>
monitorVars == <<main, why, worker, task, lock, guard, monitorRow, tool,
                tripped, daily, monitorDay, runs>>
pilotVars == <<pilotDay, approvals, pilotOrder, pilotBreaker, mode, pilotPc,
              index, placed, isOpen, pilotTarget, pilotSeen, killed>>
allVars == <<part, vars, tenureVars, tradesVars, queueVars, menuVars,
             gateVars, chatVars, monitorVars, pilotVars>>

MCInit ==
    /\ part \in {"barrier", "tenure", "trades", "tests", "inherited",
                       "queue", "menu", "gate", "chat", "monitor", "pilot"}
    /\ Init
    /\ Tenure!Init
    /\ CASE part = "tests" -> Tests!Init
           [] part = "inherited" -> Inherited!Init
           [] OTHER -> Trades!Init
    /\ Queue!Init
    /\ Menu!Init
    /\ Gate!Init
    /\ Chat!Init
    /\ Monitor!Init
    /\ Pilot!Init

OnlyBarrier ==
    part = "barrier" /\ UNCHANGED <<part, tenureVars, tradesVars, queueVars,
                                    menuVars, gateVars, chatVars, monitorVars,
                                    pilotVars>>
OnlyTenure ==
    part = "tenure" /\ UNCHANGED <<part, vars, tradesVars, queueVars,
                                   menuVars, gateVars, chatVars, monitorVars,
                                   pilotVars>>
OnlyTrades ==
    part = "trades" /\ UNCHANGED <<part, vars, tenureVars, queueVars,
                                   menuVars, gateVars, chatVars, monitorVars,
                                   pilotVars>>
OnlyTests ==
    part = "tests" /\ UNCHANGED <<part, vars, tenureVars, queueVars, menuVars,
                                  gateVars, chatVars, monitorVars, pilotVars>>
OnlyInherited ==
    part = "inherited" /\ UNCHANGED <<part, vars, tenureVars, queueVars,
                                      menuVars, gateVars, chatVars,
                                      monitorVars, pilotVars>>
OnlyQueue ==
    part = "queue" /\ UNCHANGED <<part, vars, tenureVars, tradesVars,
                                  menuVars, gateVars, chatVars, monitorVars,
                                  pilotVars>>
OnlyMenu ==
    part = "menu" /\ UNCHANGED <<part, vars, tenureVars, tradesVars,
                                 queueVars, gateVars, chatVars, monitorVars,
                                 pilotVars>>
OnlyGate ==
    part = "gate" /\ UNCHANGED <<part, vars, tenureVars, tradesVars,
                                 queueVars, menuVars, chatVars, monitorVars,
                                 pilotVars>>
OnlyChat ==
    part = "chat" /\ UNCHANGED <<part, vars, tenureVars, tradesVars,
                                 queueVars, menuVars, gateVars, monitorVars,
                                 pilotVars>>
OnlyMonitor ==
    part = "monitor" /\ UNCHANGED <<part, vars, tenureVars, tradesVars,
                                    queueVars, menuVars, gateVars, chatVars,
                                    pilotVars>>
OnlyPilot ==
    part = "pilot" /\ UNCHANGED <<part, vars, tenureVars, tradesVars,
                                  queueVars, menuVars, gateVars, chatVars,
                                  monitorVars>>

MCNext ==
    \/ OnlyBarrier /\ Next
    \/ OnlyTenure /\ Tenure!Next
    \/ OnlyTrades /\ Trades!Next
    \/ OnlyTests /\ Tests!Next
    \/ OnlyInherited /\ Inherited!Next
    \/ OnlyQueue /\ Queue!Next
    \/ OnlyMenu /\ Menu!Next
    \/ OnlyGate /\ Gate!Next
    \/ OnlyChat /\ Chat!Next
    \/ OnlyMonitor /\ Monitor!Next
    \/ OnlyPilot /\ Pilot!Next
    \/ /\ part \in {"tenure", "trades", "tests", "inherited", "queue", "menu",
                    "gate", "chat"}   \* may come to an end
       /\ UNCHANGED allVars

MCSpec == MCInit /\ [][MCNext]_allVars

(* SubmissionBarrier's fairness while the barrier moves. *)
FairMCSpec ==
    /\ MCSpec
    /\ \A t \in Threads : /\ WF_allVars(OnlyBarrier /\ Writer(t))
                          /\ WF_allVars(OnlyBarrier /\ Submission(t))

-----------------------------------------------------------------------------
(* Whoever asks is answered: under fair scheduling every request of the
   routes, every decision on a candidate, every chat and every menu that is
   leaving comes to its end, whatever crashes, faults and overtaking requests
   it meets. *)
RequestsEnd ==
    /\ (part = "trades" /\ Trades!Fairness) => Trades!EveryRequestEnds
    /\ (part = "tests" /\ Tests!Fairness) => Tests!EveryRequestEnds
    /\ (part = "inherited" /\ Inherited!Fairness) => Inherited!EveryRequestEnds
    /\ (part = "queue" /\ Queue!Fairness) => Queue!EveryRequestEnds
    /\ (part = "menu" /\ Menu!Fairness) => Menu!Ends
    /\ (part = "chat" /\ Chat!Fairness) => Chat!ChatEnds

(* Nothing that runs is stuck for good: the successor of a dead process gets
   its tenure unless maintenance comes first, a start comes to serve or ends,
   a daemon that is going down ends, and the autopilot's loop goes on to
   another cycle after every failure. *)
RuntimesGoOn ==
    /\ (part = "tenure" /\ Tenure!Fairness) => Tenure!SuccessorStarts
    /\ (part = "gate" /\ Gate!Fairness) => Gate!StartEnds
    /\ (part = "monitor" /\ Monitor!Fairness) => Monitor!GoesDown
    /\ (part = "pilot" /\ Pilot!Fairness) => Pilot!LoopGoesOn

=============================================================================
