------------------------------- MODULE ShadowMode -------------------------------
(***************************************************************************)
(* Shadow mode (analyst/shadow.py): once a day the daemon grades the calls *)
(* whose horizon has passed, screens the market and has the best           *)
(* candidates analysed; every analysis becomes a plan that is only graded. *)
(* The analysis stores its plan in one transaction and the shadow runner   *)
(* marks it in another. A run may be killed anywhere, and may be repeated  *)
(* on the same day by a restarted daemon.                                  *)
(***************************************************************************)
EXTENDS Integers, Sequences, FiniteSets

CONSTANTS Symbols, Versions, \* what may be analysed, and by which analyst
          TopN,      \* candidates that a screening returns at most
          Horizon,   \* days until a call may be graded
          MaxDay, MaxPlans,
          Threads, Overlap \* daily threads, and whether one may outlive its day

ShadowAssumption ==
    /\ IsFiniteSet(Symbols) /\ IsFiniteSet(Threads) /\ "none" \notin Symbols
    /\ {TopN, Horizon, MaxDay, MaxPlans} \subseteq Nat \ {0}
    /\ Overlap \in BOOLEAN

VARIABLES day, version, \* the date and the configured analyst
          plans,    \* trade_plans
          calls,    \* analysis_reports with their shadow_calls and graded_calls
          thread    \* the daily threads

vars == <<day, version, plans, calls, thread>>

Plan == [symbol : Symbols, shadow : BOOLEAN]
Call == [symbol : Symbols, day : 1 .. MaxDay, created : 1 .. MaxDay, version : Versions,
         plan : 1 .. MaxPlans, grades : 0 .. 2, correct : BOOLEAN]

Idle == [at |-> "idle", due |-> {}, left |-> {}, symbol |-> "none", plan |-> 0, day |-> 0]

TypeOK ==
    /\ day \in 1 .. MaxDay /\ version \in Versions
    /\ plans \in Seq(Plan) /\ Len(plans) <= MaxPlans
    /\ calls \in Seq(Call)
    /\ \A t \in Threads :
           /\ thread[t].at \in {"idle", "grade", "screen", "analyze", "record"}
           /\ thread[t].due \subseteq DOMAIN calls /\ thread[t].left \subseteq Symbols
           /\ thread[t].symbol \in Symbols \cup {"none"}
           /\ thread[t].plan \in 0 .. MaxPlans /\ thread[t].day \in 0 .. MaxDay

Init ==
    /\ day = 1 /\ version \in Versions
    /\ plans = <<>> /\ calls = <<>>
    /\ thread = [t \in Threads |-> Idle]

Set(t, f) == thread' = [thread EXCEPT ![t] = f]

-----------------------------------------------------------------------------
(* grade_due *)

Graded(i) == calls[i].grades > 0
Due == {i \in DOMAIN calls : ~Graded(i) /\ day >= calls[i].created + Horizon}

(* The thread reads what is due; a call without a price is left for another day. *)
Begin(t) ==
    /\ thread[t].at = "idle"
    /\ Overlap \/ \A u \in Threads : thread[u].at = "idle"
    /\ \E priced \in SUBSET Due : Set(t, [Idle EXCEPT !.at = "grade", !.due = priced])
    /\ UNCHANGED <<day, version, plans, calls>>

(* All grades are committed together. A report takes one grade: one that another run has graded is
   passed over, or, if that run committed only just now, the database refuses the second grade and
   the whole of the day's shadow work is given up. *)
GradeDue(t) ==
    /\ thread[t].at = "grade"
    /\ \/ /\ \E i \in thread[t].due : Graded(i)
          /\ Set(t, Idle) /\ UNCHANGED calls
       \/ /\ \E correct \in BOOLEAN :
                 calls' = [i \in DOMAIN calls |->
                             IF i \in thread[t].due /\ ~Graded(i)
                             THEN [calls[i] EXCEPT !.grades = @ + 1, !.correct = correct]
                             ELSE calls[i]]
          /\ Set(t, [Idle EXCEPT !.at = "screen"])
    /\ UNCHANGED <<day, version, plans>>

-----------------------------------------------------------------------------
(* run_once *)

(* Symbols that this analyst has called since the day began *)
Completed(d) ==
    {calls[i].symbol : i \in {j \in DOMAIN calls :
                                calls[j].created >= d /\ calls[j].version = version}}

Candidates == {c \in SUBSET Symbols : Cardinality(c) <= TopN}

Screen(t) ==
    /\ thread[t].at = "screen"
    /\ \E candidates \in Candidates :
           LET left == candidates \ Completed(day)
           IN  Set(t, IF left = {} THEN Idle
                      ELSE [Idle EXCEPT !.at = "analyze", !.left = left, !.day = day])
    /\ UNCHANGED <<day, version, plans, calls>>

Done(t, symbol) ==
    IF thread[t].left = {symbol} THEN Idle
    ELSE [thread[t] EXCEPT !.at = "analyze", !.left = @ \ {symbol}, !.symbol = "none", !.plan = 0]

(* PlanningService.analyze: the plan is stored like any other, open to approval. An analysis that
   fails is left out and the batch goes on. *)
Analyze(t) ==
    /\ thread[t].at = "analyze"
    /\ \E symbol \in thread[t].left :
           \/ /\ Len(plans) < MaxPlans
              /\ plans' = Append(plans, [symbol |-> symbol, shadow |-> FALSE])
              /\ Set(t, [thread[t] EXCEPT !.at = "record", !.symbol = symbol,
                                          !.plan = Len(plans) + 1])
           \/ Set(t, Done(t, symbol)) /\ UNCHANGED plans
    /\ UNCHANGED <<day, version, calls>>

Record(t) ==
    /\ thread[t].at = "record"
    /\ plans' = [plans EXCEPT ![thread[t].plan].shadow = TRUE]
    /\ calls' = Append(calls, [symbol |-> thread[t].symbol, day |-> thread[t].day,
                               created |-> day, version |-> version, plan |-> thread[t].plan,
                               grades |-> 0, correct |-> FALSE])
    /\ Set(t, Done(t, thread[t].symbol))
    /\ UNCHANGED <<day, version>>

-----------------------------------------------------------------------------
(* The rest of the system *)

(* The daemon is killed, and may come back with another analyst. *)
Restart ==
    /\ thread' = [t \in Threads |-> Idle]
    /\ version' \in Versions
    /\ UNCHANGED <<day, plans, calls>>

NextDay ==
    /\ day < MaxDay /\ day' = day + 1
    /\ Overlap \/ \A t \in Threads : thread[t].at = "idle"
    /\ UNCHANGED <<version, plans, calls, thread>>

Next ==
    \/ \E t \in Threads : Begin(t) \/ GradeDue(t) \/ Screen(t) \/ Analyze(t) \/ Record(t)
    \/ Restart \/ NextDay

Spec == Init /\ [][Next]_vars

-----------------------------------------------------------------------------
(* Properties *)

(* A symbol is called once a day by an analyst, however often the daemon is restarted. *)
OneCallPerDay ==
    \A i, j \in DOMAIN calls :
        (calls[i].symbol = calls[j].symbol /\ calls[i].day = calls[j].day
           /\ calls[i].version = calls[j].version) => i = j

(* A call is graded at most once, also by two runs that grade side by side. *)
GradedOnce == \A i \in DOMAIN calls : calls[i].grades <= 1

=============================================================================
