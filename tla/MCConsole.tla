----------------------------- MODULE MCConsole ------------------------------
(***************************************************************************)
(* What an operator works with: the interlock of the routes that change    *)
(* the account, the queue of agent candidates and the menu.  The parts     *)
(* share no state, so a behaviour moves one of them and leaves the others  *)
(* as they start.  The interlock is explored for two panics, for a panic   *)
(* and a reset, and for reconciliations; the menu for orders, for plans    *)
(* and for the operations on the account.                                  *)
(***************************************************************************)
EXTENDS CandidateQueue, Integers, TLC

VARIABLES
    part,   \* the part that moves
    clock, lease, latch, panicsReceipt, panicsReq, truth, doubt, faults,
    panicsCrashes,
    session, token, order, plan, breaker, pc, item, reviewed, unknown, quote,
    posture, slot, submitted, shown, lost

All(R, path) == [r \in R |-> path]

(* Two requests that repeat one decision, one under the same key with      *)
(* other words, and one under a key of its own.                            *)
Words(key, reason) == [key |-> key, cand |-> "o", reason |-> reason]
Decisions == "a" :> Words("k1", "r1") @@ "b" :> Words("k1", "r1")
             @@ "c" :> Words("k1", "r2") @@ "d" :> Words("k2", "r1")
OrderKind == "o" :> "order"

Panics == INSTANCE RouteInterlock WITH
    Requests <- {"first", "second"}, Legacy <- "none", Ttl <- 2, MaxTime <- 2,
    Faults <- 1, Crashes <- 1, PathOf <- All({"first", "second"}, "panic"),
    receipt <- panicsReceipt, req <- panicsReq, crashes <- panicsCrashes

Resets == INSTANCE RouteInterlock WITH
    Requests <- {"first", "reset"}, Legacy <- "none", Ttl <- 2, MaxTime <- 3,
    Faults <- 1, Crashes <- 1,
    PathOf <- "first" :> "panic" @@ "reset" :> "reset",
    receipt <- panicsReceipt, req <- panicsReq, crashes <- panicsCrashes

Reconciles == INSTANCE RouteInterlock WITH
    Requests <- {"first", "second"}, Legacy <- "none", Ttl <- 2, MaxTime <- 2,
    Faults <- 1, Crashes <- 1,
    PathOf <- All({"first", "second"}, "reconcile"), receipt <- panicsReceipt,
    req <- panicsReq, crashes <- panicsCrashes

Tickets == INSTANCE OperatorMenu WITH
    Ttl <- 3, Recent <- 2, Fresh <- 1, MaxEdits <- 0, MaxLost <- 2,
    Orders <- {"o1"}, Plans <- {}, Choices <- {"approve", "reject", "cancel"},
    MaxGen <- 1

Reviews == INSTANCE OperatorMenu WITH
    Ttl <- 3, Recent <- 2, Fresh <- 1, MaxEdits <- 1, MaxLost <- 1,
    Orders <- {}, Plans <- {"p1"},
    Choices <- {"review", "plan_approve", "plan_cancel"}, MaxGen <- 0

Account == INSTANCE OperatorMenu WITH
    Ttl <- 2, Recent <- 1, Fresh <- 1, MaxEdits <- 0, MaxLost <- 1,
    Orders <- {}, Plans <- {},
    Choices <- {"reset", "panic", "reconcile", "sync"}, MaxGen <- 2

ASSUME Constants ==
    /\ QueueAssumption
    /\ Panics!RouteAssumption
    /\ Resets!RouteAssumption
    /\ Reconciles!RouteAssumption
    /\ Tickets!MenuAssumption
    /\ Reviews!MenuAssumption
    /\ Account!MenuAssumption

panicsVars == <<clock, lease, latch, panicsReceipt, panicsReq, truth, doubt,
               faults, panicsCrashes>>
ticketsVars == <<session, token, order, plan, breaker, pc, item, reviewed,
                unknown, quote, posture, slot, submitted, shown, lost>>
allVars == <<part, vars, panicsVars, ticketsVars>>

MCInit ==
    /\ part \in {"queue", "panics", "resets", "reconciles", "tickets",
                       "reviews", "account"}
    /\ Init
    /\ CASE part = "resets" -> Resets!Init
           [] part = "reconciles" -> Reconciles!Init
           [] OTHER -> Panics!Init
    /\ CASE part = "reviews" -> Reviews!Init
           [] part = "account" -> Account!Init
           [] OTHER -> Tickets!Init

OnlyQueue ==
    part = "queue" /\ UNCHANGED <<part, panicsVars, ticketsVars>>
OnlyPanics ==
    part = "panics" /\ UNCHANGED <<part, vars, ticketsVars>>
OnlyResets ==
    part = "resets" /\ UNCHANGED <<part, vars, ticketsVars>>
OnlyReconciles ==
    part = "reconciles" /\ UNCHANGED <<part, vars, ticketsVars>>
OnlyTickets ==
    part = "tickets" /\ UNCHANGED <<part, vars, panicsVars>>
OnlyReviews ==
    part = "reviews" /\ UNCHANGED <<part, vars, panicsVars>>
OnlyAccount ==
    part = "account" /\ UNCHANGED <<part, vars, panicsVars>>

MCNext ==
    \/ OnlyQueue /\ Next
    \/ OnlyPanics /\ Panics!Next
    \/ OnlyResets /\ Resets!Next
    \/ OnlyReconciles /\ Reconciles!Next
    \/ OnlyTickets /\ Tickets!Next
    \/ OnlyReviews /\ Reviews!Next
    \/ OnlyAccount /\ Account!Next
    \/ /\ part \in {"queue", "panics", "resets", "reconciles", "tickets",
                    "reviews", "account"}   \* may come to an end
       /\ UNCHANGED allVars

MCSpec == MCInit /\ [][MCNext]_allVars

-----------------------------------------------------------------------------
(* The part that moves keeps its types. *)
Types ==
    /\ TypeOK
    /\ part = "panics" => Panics!TypeOK
    /\ part = "resets" => Resets!TypeOK
    /\ part = "reconciles" => Reconciles!TypeOK
    /\ part = "tickets" => Tickets!TypeOK
    /\ part = "reviews" => Reviews!TypeOK
    /\ part = "account" => Account!TypeOK

(* Operations that exclude each other do: two mutations of one resource never
   run together, none runs while an earlier one is in doubt, a panic and a
   reset keep apart, an order whose approval is repeated goes to the broker
   once, and no request is admitted after its session's logout was
   answered. *)
OneAtATime ==
    /\ Types
    /\ part = "panics" => Panics!OneMutation
    /\ part = "reconciles" => Reconciles!OneMutation
    /\ part = "panics" => Panics!DoubtBlocks
    /\ part = "resets" => Resets!DoubtBlocks
    /\ part = "reconciles" => Reconciles!DoubtBlocks
    /\ part = "resets" => Resets!PanicAndResetApart
    /\ part = "tickets" => Tickets!SubmittedOnce
    /\ part = "tickets" => Tickets!LoggedOut
    /\ part = "reviews" => Reviews!LoggedOut
    /\ part = "account" => Account!LoggedOut

(* Nothing is done on evidence that has changed since: a panic request is told
   safe only by a panic of its own lease's time and after the resets before
   it, an approval leaves the menu only while its quote is fresh, a plan is
   approved as it was last read, and a breaker is reset in the generation that
   was shown. *)
ActsOnWhatItRead ==
    [][/\ part = "panics" => Panics!SafeIsFreshStep
       /\ part = "resets" => Resets!SafeIsFreshStep
       /\ part = "tickets" => Tickets!SentFreshStep
       /\ part = "reviews" => Reviews!ApprovedAsReadStep
       /\ part = "account" => Account!ResetAsSeenStep]_allVars

=============================================================================
