------------------------------ MODULE MCAdvice ------------------------------
(***************************************************************************)
(* What the language model is asked, and what may come of it: the budget   *)
(* of a provider, the rate windows of the routes, the chat with its tools, *)
(* the shadow calls and their grades, and the autopilot.  The parts share  *)
(* no state, so a behaviour moves one of them and leaves the others as     *)
(* they start.  The budget is explored with a wait for the write lock and  *)
(* with a lock granted at once, shadow mode for two symbols and for two    *)
(* threads of one day.                                                     *)
(***************************************************************************)
EXTENDS ProviderBudget, TLC

VARIABLES
    part,   \* the part that moves
    promptNow, promptStore, promptPc, promptLag, promptCalled,
    clock, row, request, granted,
    chat, used, reads, decisions,
    shadowDay, version, plans, calls, thread,
    pilotDay, approvals, order, breaker, mode, pilotPc, index, placed, isOpen,
    target, seen, killed

Limits == "principal_window" :> 1 @@ "global_window" :> 2
          @@ "principal_day" :> 3 @@ "global_day" :> 4

Prompt == INSTANCE ProviderBudget WITH
    Attempts <- {"a1", "a2"}, CallLimit <- 2, TokenLimit <- 4, TTL <- 1,
    Sizes <- {2}, Usages <- {0, 3}, DayLength <- 2, LockWait <- 0,
    MaxTime <- 3, now <- promptNow, store <- promptStore, pc <- promptPc,
    lag <- promptLag, called <- promptCalled

Rate == INSTANCE RateWindows WITH
    Principals <- {"alice", "bob"}, Requests <- {"r1", "r2"}, Window <- 2,
    Day <- 3, MaxTime <- 3, Ceiling <- Limits

Chat == INSTANCE AgentChat WITH
    Chats <- {"c1", "c2"}, max_turns <- 2, ReadLimit <- 3, MaxCandidates <- 1,
    MaxBlocks <- 2

Shadow == INSTANCE ShadowMode WITH
    Symbols <- {"s1", "s2"}, Versions <- {"v2", "v3"}, TopN <- 2,
    Horizon <- 1, MaxDay <- 2, MaxPlans <- 2, Threads <- {"t1"},
    Overlap <- FALSE, day <- shadowDay

Grading == INSTANCE ShadowMode WITH
    Symbols <- {"s1"}, Versions <- {"v2"}, TopN <- 1, Horizon <- 1,
    MaxDay <- 3, MaxPlans <- 2, Threads <- {"t1", "t2"}, Overlap <- TRUE,
    day <- shadowDay

Pilot == INSTANCE Autopilot WITH
    Universe <- <<"AAPL", "MSFT">>, TransientScopes <- <<"data:equity">>,
    HumanScopes <- {"broker_drift"}, max_orders_per_day <- 2, MaxDay <- 1,
    MaxTrips <- 2, day <- pilotDay, pc <- pilotPc

ASSUME Constants ==
    /\ Rate!RateAssumption
    /\ Chat!AgentAssumption
    /\ Shadow!ShadowAssumption
    /\ Grading!ShadowAssumption
    /\ Pilot!AutopilotAssumption

promptVars == <<promptNow, promptStore, promptPc, promptLag, promptCalled>>
rateVars == <<clock, row, request, granted>>
chatVars == <<chat, used, reads, decisions>>
shadowVars == <<shadowDay, version, plans, calls, thread>>
pilotVars == <<pilotDay, approvals, order, breaker, mode, pilotPc, index,
              placed, isOpen, target, seen, killed>>
allVars == <<part, vars, promptVars, rateVars, chatVars, shadowVars, pilotVars>>

MCInit ==
    /\ part \in {"budget", "prompt", "rate", "chat", "shadow", "grading",
                       "pilot"}
    /\ Init
    /\ Prompt!Init
    /\ Rate!Init
    /\ Chat!Init
    /\ CASE part = "grading" -> Grading!Init
           [] OTHER -> Shadow!Init
    /\ Pilot!Init
    /\ part = "shadow" \/ version = "v2"

OnlyBudget ==
    part = "budget" /\ UNCHANGED <<part, promptVars, rateVars, chatVars,
                                   shadowVars, pilotVars>>
OnlyPrompt ==
    part = "prompt" /\ UNCHANGED <<part, vars, rateVars, chatVars, shadowVars,
                                   pilotVars>>
OnlyRate ==
    part = "rate" /\ UNCHANGED <<part, vars, promptVars, chatVars, shadowVars,
                                 pilotVars>>
OnlyChat ==
    part = "chat" /\ UNCHANGED <<part, vars, promptVars, rateVars, shadowVars,
                                 pilotVars>>
OnlyShadow ==
    part = "shadow" /\ UNCHANGED <<part, vars, promptVars, rateVars, chatVars,
                                   pilotVars>>
OnlyGrading ==
    part = "grading" /\ UNCHANGED <<part, vars, promptVars, rateVars,
                                    chatVars, pilotVars>>
OnlyPilot ==
    part = "pilot" /\ UNCHANGED <<part, vars, promptVars, rateVars, chatVars,
                                  shadowVars>>

MCNext ==
    \/ OnlyBudget /\ Next
    \/ OnlyPrompt /\ Prompt!Next
    \/ OnlyRate /\ Rate!Next
    \/ OnlyChat /\ Chat!Next
    \/ OnlyShadow /\ Shadow!Next
    \/ OnlyGrading /\ Grading!Next
    \/ OnlyPilot /\ Pilot!Next
    \/ /\ part \in {"rate", "chat"}   \* may come to an end
       /\ UNCHANGED allVars

MCSpec == MCInit /\ [][MCNext]_allVars

-----------------------------------------------------------------------------
(* The part that moves keeps its types. *)
Types ==
    /\ TypeOK
    /\ part = "prompt" => Prompt!TypeOK
    /\ part = "rate" => Rate!TypeOK
    /\ part = "chat" => Chat!TypeOK
    /\ part = "shadow" => Shadow!TypeOK
    /\ part = "grading" => Grading!TypeOK
    /\ part = "pilot" => Pilot!TypeOK

(* What is asked and done on advice stays within what was granted, and the
   records of it are exact: no settlement finds the budget corrupt when it
   read the clock in its transaction; no stretch lets more than two windows'
   worth of requests through, denied requests are charged nothing and are told
   exactly when to come back, and an inspection agrees; every broker read of a
   chat is paid for; a symbol is called once a day and its call is graded
   once; and no UTC day sees more approvals by the autopilot than its cap. *)
UsageIsBounded ==
    /\ Types
    /\ part = "prompt" => Prompt!NoFalseAlarm
    /\ part = "rate" => Rate!BurstBound
    /\ part = "rate" => Rate!AllOrNothing
    /\ part = "rate" => Rate!RetryIsExact
    /\ part = "rate" => Rate!InspectionIsTrue
    /\ part = "chat" => Chat!BrokerReadsPaid
    /\ part = "shadow" => Shadow!OneCallPerDay
    /\ part = "grading" => Grading!GradedOnce
    /\ part = "pilot" => Pilot!DailyCap

(* The autopilot takes nothing out of human hands: it clears only a transient
   breaker in the very generation it looked at, and a dry run approves,
   proposes and clears nothing. *)
PilotKeepsOut ==
    [][/\ part = "pilot" => Pilot!ClearsOnlyWhatItSawStep
       /\ part = "pilot" => Pilot!DryRunTouchesNothingStep]_allVars

=============================================================================
