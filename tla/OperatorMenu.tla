------------------------------ MODULE OperatorMenu ------------------------------
(***************************************************************************)
(* The operator's terminal menu over the HTTP interface: the menu          *)
(* (ops/operator_terminal.py), its client (ops/operator_api.py), the       *)
(* session behind the requests (app/auth.py, app/security.py) and the      *)
(* routes (app/main.py), down to the service calls they make.              *)
(*                                                                         *)
(* The menu reads something, shows it, has the operator type their secret  *)
(* and a phrase, and only then sends the mutation; meanwhile others act,   *)
(* evidence ages and sessions expire. A request that times out at the      *)
(* client may still be handled later. Reads change nothing: each is one    *)
(* step, which may fail.                                                   *)
(***************************************************************************)
EXTENDS Integers, FiniteSets

CONSTANTS Orders, Plans, Choices,  \* the orders and plans, and the menu entries in use
          Ttl, Recent, Fresh,      \* lifetimes of a session, a reauthentication and a quote
          MaxGen, MaxEdits, MaxLost \* bounds: breaker trips, plan edits, lost answers

OrderOps == {"approve", "reject", "cancel"}
PlanOps == {"review", "plan_approve", "plan_cancel"}
OtherOps == {"reset", "panic", "reconcile", "sync"}

MenuAssumption ==
    /\ Choices \subseteq OrderOps \cup PlanOps \cup OtherOps
    /\ {Ttl, Recent, Fresh} \subseteq Nat \ {0}
    /\ {MaxGen, MaxEdits, MaxLost} \subseteq Nat

VARIABLES session, \* the auth_session row: not revoked, time to live, time left of the reauthentication
          token,   \* the client has the session's cookie and CSRF token
          order, plan, breaker, \* the server's rows
          pc, item, \* where the menu is, and the entry it works on
          reviewed, \* plan reviews at hand
          unknown,  \* orders of which the menu knows that acceptance is unknown
          quote,    \* time left of the confirmation's quote
          posture,  \* the breaker as the posture report showed it
          slot,     \* requests at the server: the one waited for and an abandoned one
          submitted, \* history: broker submissions of each order
          shown,    \* history: what the operator last read of each plan, and of the breaker
          lost

vars == <<session, token, order, plan, breaker, pc, item, reviewed, unknown, quote, posture, slot,
          submitted, shown, lost>>

Rows == <<order, plan, breaker, submitted>>
Memory == <<reviewed, unknown, shown>>
Auth == <<session, token>>

None == -1
NoItem == [op |-> "none", target |-> "none", arg |-> None]
Free == [op |-> "none", target |-> "none", arg |-> None, at |-> "free", answer |-> "none"]
Slots == {1, 2}
Answers == {"none", "ok", "unauthorized", "stale_login", "conflict", "unknown", "denied"}
Targets == Orders \cup Plans \cup {"none"}

TypeOK ==
    /\ session \in [live : BOOLEAN, ttl : 0 .. Ttl, recent : 0 .. Recent]
    /\ token \in BOOLEAN
    /\ order \in [Orders -> {"proposed", "submitted", "unknown", "closed"}]
    /\ plan \in [Plans -> [status : {"proposed", "approved", "cancelled"}, digest : 0 .. MaxEdits]]
    /\ breaker \in [on : BOOLEAN, gen : 0 .. MaxGen]
    /\ pc \in {"login", "menu", "health", "secret", "phrase", "wait", "status", "leave", "ended"}
    /\ item.op \in {"none", "reauth", "logout"} \cup Choices /\ item.target \in Targets
    /\ reviewed \in [Plans -> None .. MaxEdits] /\ unknown \subseteq Orders
    /\ quote \in 0 .. Fresh /\ posture \in [on : BOOLEAN, gen : 0 .. MaxGen]
    /\ \A s \in Slots : slot[s].at \in {"free", "sent", "admitted", "answered", "dropped", "late"}
                          /\ slot[s].answer \in Answers
    /\ submitted \in [Orders -> 0 .. 2] /\ lost \in 0 .. MaxLost

Init ==
    /\ session = [live |-> FALSE, ttl |-> 0, recent |-> 0] /\ token = FALSE
    /\ order = [o \in Orders |-> "proposed"]
    /\ plan = [p \in Plans |-> [status |-> "proposed", digest |-> 0]]
    /\ breaker = [on |-> FALSE, gen |-> 0]
    /\ pc = "login" /\ item = NoItem
    /\ reviewed = [p \in Plans |-> None] /\ unknown = {}
    /\ quote = 0 /\ posture = breaker
    /\ slot = [s \in Slots |-> Free]
    /\ submitted = [o \in Orders |-> 0]
    /\ shown = [plan |-> [p \in Plans |-> None], gen |-> None]
    /\ lost = 0

-----------------------------------------------------------------------------
(* Sessions *)

Authenticates == token /\ session.live /\ session.ttl > 0
IsRecent == session.recent > 0

LoginSucceeds ==
    /\ pc = "login"
    /\ session' = [live |-> TRUE, ttl |-> Ttl, recent |-> Recent]
    /\ token' = TRUE /\ pc' = "menu"
    /\ UNCHANGED <<Rows, Memory, item, quote, posture, slot, lost>>

LoginFails ==
    /\ pc = "login"
    /\ pc' = "ended"
    /\ UNCHANGED <<Rows, Memory, Auth, item, quote, posture, slot, lost>>

-----------------------------------------------------------------------------
(* The client *)

Idle == pc = "menu"
ToMenu == pc' = "menu" /\ item' = NoItem

(* A 401 makes the client forget the session, and the menu leave. *)
Unauthorized ==
    /\ token' = FALSE
    /\ pc' = "leave" /\ item' = NoItem
    /\ UNCHANGED session

(* A read is not answered: nothing is known, and the menu goes on. *)
ReadFails ==
    /\ lost < MaxLost
    /\ \/ Idle /\ UNCHANGED item
       \/ pc \in {"health", "status"} /\ item' = NoItem
    /\ pc' = "menu" /\ lost' = lost + 1
    /\ UNCHANGED <<Rows, Memory, Auth, quote, posture, slot>>

ReadRefused ==
    /\ pc \in {"menu", "health", "status"} /\ ~Authenticates
    /\ Unauthorized
    /\ UNCHANGED <<Rows, Memory, quote, posture, slot, lost>>

Reads == Authenticates /\ UNCHANGED <<Rows, Auth, slot, lost>>

FreeSlot == CHOOSE s \in Slots : slot[s].at = "free"

(* A request is sent only with a session; the menu waits for its answer. *)
Send(op, target, arg) ==
    /\ token /\ \E s \in Slots : slot[s].at = "free"
    /\ slot' = [slot EXCEPT ![FreeSlot] = [op |-> op, target |-> target, arg |-> arg,
                                           at |-> "sent", answer |-> "none"]]
    /\ pc' = "wait"

-----------------------------------------------------------------------------
(* Menu entries that read before they ask *)

NewItem(op, target, arg) ==
    /\ op \in Choices
    /\ item' = [op |-> op, target |-> target, arg |-> arg]

Confirmation(o) == order[o] = "proposed" /\ ~breaker.on
FetchConfirmation(o) ==
    /\ Idle /\ o \notin unknown /\ Reads
    /\ NewItem("approve", o, None)
    /\ Confirmation(o) /\ quote' = Fresh
    /\ pc' = "secret"
    /\ UNCHANGED <<Memory, posture>>

(* Looking at a plan remembers what was shown. *)
ReviewPlan(p) ==
    /\ Idle /\ Reads /\ "review" \in Choices
    /\ reviewed' = [reviewed EXCEPT ![p] = plan[p].digest]
    /\ shown' = [shown EXCEPT !.plan[p] = plan[p].digest]
    /\ UNCHANGED <<pc, item, unknown, quote, posture>>

Refreshed(p) == plan[p].digest = reviewed[p] /\ plan[p].status = "proposed"

RefreshPlan(p) ==
    /\ Idle /\ reviewed[p] # None /\ Reads
    /\ Refreshed(p)
    /\ NewItem("plan_approve", p, reviewed[p])
    /\ pc' = "secret"
    /\ UNCHANGED <<Memory, quote, posture>>

ReviewIsStale(p) ==
    /\ Idle /\ "plan_approve" \in Choices /\ reviewed[p] # None /\ Reads
    /\ ~Refreshed(p)
    /\ reviewed' = [reviewed EXCEPT ![p] = None]
    /\ UNCHANGED <<pc, item, unknown, shown, quote, posture>>

(* The breaker is read twice, from the posture and from the health report, which must agree. *)
FetchPosture ==
    /\ Idle /\ Reads
    /\ NewItem("reset", "none", None)
    /\ posture' = breaker
    /\ pc' = "health"
    /\ UNCHANGED <<Memory, quote>>

Agrees == posture.on /\ breaker.on /\ posture.gen >= breaker.gen
FetchHealth ==
    /\ pc = "health" /\ Reads
    /\ IF Agrees
       THEN /\ item' = [item EXCEPT !.arg = breaker.gen]
            /\ shown' = [shown EXCEPT !.gen = breaker.gen]
            /\ pc' = "secret"
       ELSE ToMenu /\ UNCHANGED shown
    /\ UNCHANGED <<reviewed, unknown, quote, posture>>

(* Entries that only ask for a reason, with or without the secret *)
AskSecret(op) ==
    /\ Idle /\ op \in {"panic", "reconcile"}
    /\ NewItem(op, "none", None)
    /\ pc' = "secret"
    /\ UNCHANGED <<Rows, Memory, Auth, quote, posture, slot, lost>>

Plain(op, target) ==
    /\ Idle
    /\ NewItem(op, target, None)
    /\ Send(op, target, None)
    /\ reviewed' = IF op = "plan_cancel" THEN [reviewed EXCEPT ![target] = None] ELSE reviewed
    /\ UNCHANGED <<Rows, unknown, shown, Auth, quote, posture, lost>>

-----------------------------------------------------------------------------
(* The secret, the phrase, the mutation *)

SendSecret ==
    /\ pc = "secret"
    /\ Send("reauth", "none", None)
    /\ UNCHANGED <<Rows, Memory, Auth, item, quote, posture, lost>>

GiveUp ==
    /\ pc = "secret" \/ (pc = "phrase" /\ item.op # "reconcile")
    /\ ToMenu
    /\ UNCHANGED <<Rows, Memory, Auth, quote, posture, slot, lost>>

StillFresh == item.op = "approve" => quote > 0

SendMutation ==
    /\ pc = "phrase" /\ StillFresh
    /\ Send(item.op, item.target, item.arg)
    /\ reviewed' = IF item.op = "plan_approve" THEN [reviewed EXCEPT ![item.target] = None]
                   ELSE reviewed
    /\ UNCHANGED <<Rows, unknown, shown, Auth, item, quote, posture, lost>>

NoLongerFresh ==
    /\ pc = "phrase" /\ ~StillFresh
    /\ ToMenu
    /\ UNCHANGED <<Rows, Memory, Auth, quote, posture, slot, lost>>

-----------------------------------------------------------------------------
(* Answers *)

Answered(s) == pc = "wait" /\ slot[s].at = "answered"

SecretAccepted(s) ==
    /\ Answered(s) /\ slot[s].op = "reauth" /\ slot[s].answer = "ok"
    /\ slot' = [slot EXCEPT ![s] = Free] /\ pc' = "phrase"
    /\ UNCHANGED <<Rows, Memory, Auth, item, quote, posture, lost>>

TellUnknown(s) == IF slot[s].answer = "unknown" THEN unknown \cup {slot[s].target} ELSE unknown

(* A conflict is shown with the system's status; the mutation is not repeated. *)
AfterAnswer(s) ==
    IF slot[s].answer = "conflict" /\ slot[s].op \in OtherOps THEN "status" ELSE "menu"

MutationAnswered(s) ==
    /\ Answered(s) /\ slot[s].answer # "unauthorized"
    /\ slot[s].op # "logout" /\ (slot[s].op = "reauth" => slot[s].answer # "ok")
    /\ slot' = [slot EXCEPT ![s] = Free]
    /\ unknown' = TellUnknown(s)
    /\ pc' = AfterAnswer(s) /\ item' = NoItem
    /\ UNCHANGED <<Rows, reviewed, shown, Auth, quote, posture, lost>>

Refusal(s) ==
    /\ Answered(s) /\ slot[s].answer = "unauthorized" /\ slot[s].op # "logout"
    /\ slot' = [slot EXCEPT ![s] = Free]
    /\ Unauthorized
    /\ UNCHANGED <<Rows, Memory, quote, posture, lost>>

ShowStatus ==
    /\ pc = "status" /\ Reads
    /\ ToMenu
    /\ UNCHANGED <<Memory, quote, posture>>

Abandoned(r) == IF r.at = "answered" THEN Free
                ELSE [r EXCEPT !.at = IF @ = "sent" THEN "dropped" ELSE "late"]

(* The client stops waiting; the request may still reach its handler, or be there. *)
TimesOut(s) ==
    /\ pc = "wait" /\ slot[s].at \in {"sent", "admitted", "answered"}
    /\ slot[s].op # "logout" => lost < MaxLost /\ lost' = lost + 1
    /\ slot[s].op = "logout" => UNCHANGED lost
    /\ slot' = [slot EXCEPT ![s] = Abandoned(@)]
    /\ IF slot[s].op = "logout"
       THEN pc' = "ended" /\ item' = NoItem /\ token' = FALSE
       ELSE ToMenu /\ UNCHANGED token
    /\ UNCHANGED <<Rows, Memory, session, quote, posture>>

(* Leaving *)

(* also by an interrupt at a prompt *)
Leave ==
    /\ pc \in {"menu", "secret", "phrase"}
    /\ pc' = "leave" /\ item' = NoItem
    /\ UNCHANGED <<Rows, Memory, Auth, quote, posture, slot, lost>>

SendLogout ==
    /\ pc = "leave" /\ Send("logout", "none", None)
    /\ item' = [NoItem EXCEPT !.op = "logout"]
    /\ UNCHANGED <<Rows, Memory, Auth, quote, posture, lost>>

(* Without a session there is nothing to end. *)
NothingToEnd ==
    /\ pc = "leave" /\ ~token
    /\ pc' = "ended"
    /\ UNCHANGED <<Rows, Memory, Auth, item, quote, posture, slot, lost>>

LogoutAnswered(s) ==
    /\ Answered(s) /\ slot[s].op = "logout"
    /\ slot' = [slot EXCEPT ![s] = Free]
    /\ token' = FALSE /\ pc' = "ended" /\ item' = NoItem
    /\ UNCHANGED <<Rows, Memory, session, quote, posture, lost>>

-----------------------------------------------------------------------------
(* The server *)

NeedsRecent(op) == op \in {"approve", "plan_approve", "reset", "panic", "reconcile"}

Settle(s, answer) ==
    slot' = [slot EXCEPT ![s] = IF @.at \in {"dropped", "late"} THEN Free
                                ELSE [@ EXCEPT !.at = "answered", !.answer = answer]]

(* The route's dependencies: the session, its CSRF token and, for some, its recency *)
Admit(s) ==
    /\ slot[s].at \in {"sent", "dropped"}
    /\ IF ~session.live \/ session.ttl = 0 THEN Settle(s, "unauthorized")
       ELSE IF NeedsRecent(slot[s].op) /\ ~IsRecent THEN Settle(s, "stale_login")
       ELSE slot' = [slot EXCEPT ![s].at = IF @ = "sent" THEN "admitted" ELSE "late"]
    /\ UNCHANGED <<Rows, Memory, Auth, pc, item, quote, posture, lost>>

Handles(s, op) == slot[s].at \in {"admitted", "late"} /\ slot[s].op = op
HandlerLeaves == UNCHANGED <<Memory, token, pc, item, quote, posture, lost>>

(* A wrong secret is refused like a wrong session. *)
Reauthenticate(s) ==
    /\ Handles(s, "reauth")
    /\ \/ /\ session.live /\ session' = [session EXCEPT !.recent = Recent]
          /\ Settle(s, "ok")
       \/ UNCHANGED session /\ Settle(s, "unauthorized")
    /\ UNCHANGED Rows /\ HandlerLeaves

Logout(s) ==
    /\ Handles(s, "logout")
    /\ session' = [session EXCEPT !.live = FALSE]
    /\ Settle(s, "ok")
    /\ UNCHANGED Rows /\ HandlerLeaves

Approvable(o) == order[o] = "proposed"

(* The order is submitted, of unknown acceptance, or denied. *)
Approve(s) ==
    LET o == slot[s].target IN
    /\ Handles(s, "approve")
    /\ IF Approvable(o)
       THEN \E outcome \in {"submitted", "unknown", "closed"} :
              /\ order' = [order EXCEPT ![o] = outcome]
              /\ submitted' = IF outcome = "closed" THEN submitted
                              ELSE [submitted EXCEPT ![o] = @ + 1]
              /\ Settle(s, CASE outcome = "submitted" -> "ok" [] outcome = "closed" -> "denied"
                             [] OTHER -> "unknown")
       ELSE Settle(s, "conflict") /\ UNCHANGED <<order, submitted>>
    /\ UNCHANGED <<session, plan, breaker>> /\ HandlerLeaves

CloseOrder(s) ==
    LET o == slot[s].target IN
    /\ \/ Handles(s, "reject") /\ order[o] = "proposed" /\ order' = [order EXCEPT ![o] = "closed"]
          /\ Settle(s, "ok")
       \/ Handles(s, "cancel") /\ order[o] = "submitted" /\ order' = [order EXCEPT ![o] = "closed"]
          /\ Settle(s, "ok")
       \/ Handles(s, "reject") /\ order[o] # "proposed" /\ UNCHANGED order /\ Settle(s, "conflict")
       \/ Handles(s, "cancel") /\ UNCHANGED order /\ Settle(s, "conflict")
    /\ UNCHANGED <<session, plan, breaker, submitted>> /\ HandlerLeaves

Current(p, digest) == plan[p].status = "proposed" /\ plan[p].digest = digest

ApprovePlan(s) ==
    LET p == slot[s].target IN
    /\ Handles(s, "plan_approve")
    /\ IF Current(p, slot[s].arg)
       THEN plan' = [plan EXCEPT ![p].status = "approved"] /\ Settle(s, "ok")
       ELSE UNCHANGED plan /\ Settle(s, "conflict")
    /\ UNCHANGED <<session, order, breaker, submitted>> /\ HandlerLeaves

CancelPlan(s) ==
    LET p == slot[s].target IN
    /\ Handles(s, "plan_cancel")
    /\ IF plan[p].status = "cancelled"
       THEN UNCHANGED plan /\ Settle(s, "conflict")
       ELSE plan' = [plan EXCEPT ![p].status = "cancelled"] /\ Settle(s, "ok")
    /\ UNCHANGED <<session, order, breaker, submitted>> /\ HandlerLeaves

ResetAny(gen) == breaker.on \* Mutant: whatever its generation
Resettable(gen) == breaker.on /\ breaker.gen = gen

ResetBreaker(s) ==
    /\ Handles(s, "reset")
    /\ IF Resettable(slot[s].arg)
       THEN breaker' = [breaker EXCEPT !.on = FALSE] /\ Settle(s, "ok")
       ELSE UNCHANGED breaker /\ Settle(s, "conflict")
    /\ UNCHANGED <<session, order, plan, submitted>> /\ HandlerLeaves

Tripped == [on |-> TRUE, gen |-> breaker.gen + 1]
CanTrip == breaker.gen < MaxGen

(* A panic trips the breaker, whether or not it can confirm that all is safe. *)
Panic(s) ==
    /\ Handles(s, "panic") /\ CanTrip
    /\ breaker' = Tripped /\ (Settle(s, "ok") \/ Settle(s, "denied"))
    /\ UNCHANGED <<session, order, plan, submitted>> /\ HandlerLeaves

(* Reconciling, and pulling orders, may find drift and trip the breaker. *)
Reconcile(s) ==
    /\ Handles(s, "reconcile") \/ Handles(s, "sync")
    /\ \/ CanTrip /\ breaker' = Tripped /\ Settle(s, "ok")
       \/ UNCHANGED breaker /\ (Settle(s, "ok") \/ Settle(s, "conflict"))
    /\ UNCHANGED <<session, order, plan, submitted>> /\ HandlerLeaves

-----------------------------------------------------------------------------
(* The daemon, the browser, and time *)

Elsewhere == UNCHANGED <<Memory, Auth, pc, item, quote, posture, slot, lost>>

OtherOrder ==
    /\ \E o \in Orders :
         /\ order[o] = "proposed"
         /\ \/ order' = [order EXCEPT ![o] = "submitted"]
               /\ submitted' = [submitted EXCEPT ![o] = @ + 1]
            \/ order' = [order EXCEPT ![o] = "closed"] /\ UNCHANGED submitted
    /\ UNCHANGED <<plan, breaker>> /\ Elsewhere

OtherPlan ==
    /\ \E p \in Plans :
         /\ plan[p].status = "proposed"
         /\ \/ plan' = [plan EXCEPT ![p].status = "cancelled"]
            \/ plan[p].digest < MaxEdits /\ plan' = [plan EXCEPT ![p].digest = @ + 1]
    /\ UNCHANGED <<order, breaker, submitted>> /\ Elsewhere

OtherBreaker ==
    /\ \/ CanTrip /\ breaker' = Tripped
       \/ breaker.on /\ breaker' = [breaker EXCEPT !.on = FALSE]
    /\ UNCHANGED <<order, plan, submitted>> /\ Elsewhere

Less(n) == IF n = 0 THEN 0 ELSE n - 1
Tick ==
    /\ session.live /\ session.ttl > 0
    /\ session' = [session EXCEPT !.ttl = Less(@), !.recent = Less(@)]
    /\ quote' = Less(quote)
    /\ UNCHANGED <<Rows, Memory, token, pc, item, posture, slot, lost>>

Client ==
    \/ ReadFails \/ ReadRefused
    \/ \E o \in Orders : FetchConfirmation(o) \/ \E op \in {"reject", "cancel"} : Plain(op, o)
    \/ \E p \in Plans : ReviewPlan(p) \/ RefreshPlan(p) \/ ReviewIsStale(p) \/ Plain("plan_cancel", p)
    \/ FetchPosture \/ FetchHealth \/ (\E op \in {"panic", "reconcile"} : AskSecret(op))
    \/ Plain("sync", "none")
    \/ SendSecret \/ GiveUp \/ SendMutation \/ NoLongerFresh \/ ShowStatus
    \/ LoginSucceeds \/ LoginFails \/ Leave

Leaving == SendLogout \/ NothingToEnd \/ \E s \in Slots : TimesOut(s) \/ LogoutAnswered(s)

Replies == \E s \in Slots : SecretAccepted(s) \/ MutationAnswered(s) \/ Refusal(s)

Server ==
    \E s \in Slots :
        \/ Admit(s) \/ Reauthenticate(s) \/ Logout(s) \/ Approve(s) \/ CloseOrder(s)
        \/ ApprovePlan(s) \/ CancelPlan(s) \/ ResetBreaker(s) \/ Panic(s) \/ Reconcile(s)

Next == Client \/ Leaving \/ Replies \/ Server \/ OtherOrder \/ OtherPlan \/ OtherBreaker \/ Tick

Spec == Init /\ [][Next]_vars

(* The client's waits end and its own steps are taken; nothing is assumed of the server. *)
Fairness == WF_vars(Leaving) /\ WF_vars(Replies)

-----------------------------------------------------------------------------
(* Properties *)

(* However often an approval is repeated after an answer was lost, by this menu or elsewhere, an
   order goes to the broker at most once. *)
SubmittedOnce == \A o \in Orders : submitted[o] <= 1

(* An approval request leaves the menu only while the quote that the operator was shown is fresh,
   although typing the secret and the phrase takes time. *)
SentFreshStep ==
    \A s \in Slots : slot[s].at = "free" /\ slot'[s].op = "approve" => quote > 0

(* A plan is approved through the menu only as the operator last read it, however late the request
   reaches its handler. *)
ApprovedAsReadStep ==
    \A p \in Plans : plan[p].status = "proposed" /\ plan'[p].status = "approved"
                       => plan[p].digest = shown.plan[p]

(* A breaker is reset through the menu only in the generation that the operator was shown: a trip
   that came since is not undone. *)
ResetAsSeenStep ==
    \A s \in Slots : slot[s].op = "reset" /\ slot'[s] # slot[s] /\ breaker.on /\ ~breaker'.on
                       => breaker.gen = shown.gen

(* When a logout was answered, no later request is admitted in that session, a reauthentication that
   comes late included. *)
LoggedOut == \A s \in Slots : slot[s].op = "logout" /\ slot[s].answer = "ok" => ~session.live

(* A menu that is leaving ends, also when the server never answers. *)
Ends == pc = "leave" ~> pc = "ended"
=============================================================================
