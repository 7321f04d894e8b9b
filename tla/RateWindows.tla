------------------------------ MODULE RateWindows ------------------------------
(***************************************************************************)
(* The durable request limiter (app/limits.py, DurableRateLimiter).  A     *)
(* request is charged to four fixed windows in one transaction: its        *)
(* principal's and the global one, of some seconds and of the UTC day.     *)
(* The clock is read before the transaction has the database, so a         *)
(* request may be charged by an old reading after one with a newer has     *)
(* moved the window on.                                                    *)
(***************************************************************************)
EXTENDS Integers, FiniteSets, FiniteSetsExt

CONSTANTS Principals, Requests, \* a request in flight is a slot of Requests
          Window, Day,          \* lengths, in ticks of the clock
          Ceiling,              \* of each kind of bucket
          MaxTime               \* bound on the clock

Kinds == {"principal_window", "global_window", "principal_day", "global_day"}
Global == {"global_window", "global_day"}
Daily == {"principal_day", "global_day"}

RateAssumption ==
    /\ "all" \notin Principals
    /\ Window \in Nat \ {0} /\ Day \in Nat \ {0} /\ MaxTime \in Nat
    /\ Ceiling \in [Kinds -> Nat \ {0}]

VARIABLES clock,
          row,      \* the rows of rate_window
          request,  \* who asks, and the time read for them
          granted   \* how many requests were let through with each reading

vars == <<clock, row, request, granted>>

Keys == {<<k, "all">> : k \in Global} \cup ((Kinds \ Global) \X Principals)
NoRow == [hits |-> 0, started |-> 0, expires |-> 0]
None == [p |-> "all", now |-> 0]
MaxHits == Max({Ceiling[k] : k \in Kinds})

TypeOK ==
    /\ clock \in 0 .. MaxTime
    /\ row \in [Keys -> [hits : 0 .. MaxHits, started : 0 .. MaxTime,
                         expires : 0 .. MaxTime + Window + Day]]
    /\ \A b \in Keys : row[b].hits <= Ceiling[b[1]]
    /\ request \in [Requests -> [p : Principals \cup {"all"}, now : 0 .. MaxTime]]
    /\ granted \in [0 .. MaxTime -> Nat]

Init ==
    /\ clock = 0
    /\ row = [b \in Keys |-> NoRow]
    /\ request = [r \in Requests |-> None]
    /\ granted = [t \in 0 .. MaxTime |-> 0]

-----------------------------------------------------------------------------
(* The four buckets of a request, and the window each would open *)

Buckets(p) == {<<k, IF k \in Global THEN "all" ELSE p>> : k \in Kinds}

DayStart(now) == now - (now % Day)
Fresh(b, now) ==
    IF b[1] \in Daily
    THEN [hits |-> 1, started |-> DayStart(now), expires |-> DayStart(now) + Day]
    ELSE [hits |-> 1, started |-> now, expires |-> now + Window]

Expired(b, now) == row[b].expires <= now

Consumed(b, now) ==
    IF Expired(b, now) THEN Fresh(b, now) ELSE [row[b] EXCEPT !.hits = @ + 1]

Full(b, now) == ~Expired(b, now) /\ row[b].hits >= Ceiling[b[1]]

-----------------------------------------------------------------------------
(* Reading the limits *)

Remaining(b, now) == IF Expired(b, now) THEN Ceiling[b[1]] ELSE Ceiling[b[1]] - row[b].hits

(* inspect_pair *)
Inspection(p, now) == Min({Remaining(b, now) : b \in Buckets(p)})

(* reset_at of a denial: when the last full bucket ends *)
RetryFirst(p, now) == Min({row[b].expires : b \in {c \in Buckets(p) : Full(c, now)}}) \* Mutant
RetryAt(p, now) == Max({row[b].expires : b \in {c \in Buckets(p) : Full(c, now)}})

-----------------------------------------------------------------------------
Arrive(r, p) ==
    /\ request[r] = None
    /\ request' = [request EXCEPT ![r] = [p |-> p, now |-> clock]]
    /\ UNCHANGED <<clock, row, granted>>

Asks(r) == request[r].p \in Principals

Allow(r) ==
    LET p == request[r].p
        now == request[r].now
    IN  /\ Asks(r)
        /\ \A b \in Buckets(p) : ~Full(b, now)
        /\ row' = [b \in Keys |-> IF b \in Buckets(p) THEN Consumed(b, now) ELSE row[b]]
        /\ granted' = [granted EXCEPT ![now] = @ + 1]
        /\ request' = [request EXCEPT ![r] = None]
        /\ UNCHANGED clock

Denied(r) == Asks(r) /\ \E b \in Buckets(request[r].p) : Full(b, request[r].now)

Deny(r) ==
    /\ Denied(r)
    /\ request' = [request EXCEPT ![r] = None]
    /\ UNCHANGED <<clock, row, granted>>

(* prune_expired; its limit of 500 rows is not reached *)
Prune ==
    LET old == {b \in Keys : row[b] # NoRow /\ Expired(b, clock)} IN
    /\ old # {}
    /\ row' = [b \in Keys |-> IF b \in old THEN NoRow ELSE row[b]]
    /\ UNCHANGED <<clock, request, granted>>

Tick ==
    /\ clock < MaxTime
    /\ clock' = clock + 1
    /\ UNCHANGED <<row, request, granted>>

Next ==
    \/ \E r \in Requests : (\E p \in Principals : Arrive(r, p)) \/ Allow(r) \/ Deny(r)
    \/ Prune
    \/ Tick

Spec == Init /\ [][Next]_vars

-----------------------------------------------------------------------------
(* Properties *)

(* However requests interleave and windows are pruned, no stretch of Window ticks lets more
   than two windows' worth of requests through, and those in flight at its end: consume_pair
   charges every request it lets through to a bucket that has room, and a clock read too early
   only ever joins or reopens an old window. *)
BurstBound ==
    \A t \in 0 .. MaxTime :
        MapThenSumSet(LAMBDA u : granted[u], (t .. t + Window - 1) \cap (0 .. MaxTime))
          <= 2 * Ceiling["global_window"] + Cardinality(Requests)

(* A denied request is charged to nothing: what the principals' windows of the present day hold
   is never more than what the global one holds (the rollback of consume_pair in the middle of
   its four buckets). *)
AllOrNothing ==
    LET Live(b) == IF Expired(b, clock) THEN 0 ELSE row[b].hits IN
    MapThenSumSet(LAMBDA p : Live(<<"principal_day", p>>), Principals)
      <= Live(<<"global_day", "all">>)

(* The retry advice of a denial (_denied_decision) is exact: the request is still refused at any
   time before it and, if nobody else comes first, let through at that time. *)
RetryIsExact ==
    \A p \in Principals :
        (\E b \in Buckets(p) : Full(b, clock)) =>
            LET at == RetryAt(p, clock) IN
            /\ \A t \in clock .. at - 1 : \E b \in Buckets(p) : Full(b, t)
            /\ \A b \in Buckets(p) : ~Full(b, at)

(* inspect_pair reads the windows as consume_pair would charge them now: it reports nothing left
   just when a request would be refused. *)
InspectionIsTrue ==
    \A p \in Principals :
        (Inspection(p, clock) = 0) <=> \E b \in Buckets(p) : Full(b, clock)
=============================================================================
