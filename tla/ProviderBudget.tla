---------------------------- MODULE ProviderBudget ----------------------------
(***************************************************************************)
(* llm/budget.py and BudgetedLLMBackend.create of llm/base.py: the durable *)
(* daily budget of one LLM provider.  An attempt reserves calls and        *)
(* tokens, marks the reservation started, calls the provider and settles   *)
(* the reservation with the usage the response reports, or marks it        *)
(* unknown.  Every method is one BEGIN IMMEDIATE transaction.  Its         *)
(* `current` time is read before the transaction has the write lock, so    *)
(* it may be older than what an earlier transaction has written.           *)
(*                                                                         *)
(* Input and output tokens are handled alike by every line and are one     *)
(* count here.  The clock never steps back.                                *)
(***************************************************************************)
EXTENDS Integers, FiniteSets, FiniteSetsExt

CONSTANTS Attempts,    \* calls of BudgetedLLMBackend.create
          CallLimit,   \* BudgetLimits.calls
          TokenLimit,  \* BudgetLimits.input_tokens and output_tokens
          TTL,         \* BudgetLimits.reservation_ttl_seconds
          Sizes,       \* tokens an attempt may reserve
          Usages,      \* tokens a response may report
          DayLength,   \* time units of a UTC day
          LockWait,    \* longest wait for the write lock (busy_timeout)
          MaxTime      \* bound on the clock

ASSUME BudgetAssumption ==
    /\ CallLimit \in Nat /\ TokenLimit \in Nat /\ TTL \in Nat \ {0}
    /\ Sizes \subseteq Nat /\ Usages \subseteq Nat
    /\ DayLength \in Nat \ {0} /\ LockWait \in Nat /\ MaxTime \in Nat

VARIABLES now,     \* the clock
          store,   \* provider_reservations and provider_budget_days
          pc,      \* the next call each attempt makes
          lag,     \* how long ago it got there, at most LockWait
          called   \* attempts whose request may have reached the provider

vars == <<now, store, pc, lag, called>>

DayOf(t) == t \div DayLength
Days == 0 .. DayOf(MaxTime)

States == {"none", "reserved", "started", "settled", "unknown", "released"}
Phases == {"idle", "reserve", "start", "call", "calling", "settle",
           "unknown", "done"}

(* reconciliation_code: "" exactly when reconciliation_required is false. *)
Codes == {"", "usage_over_reservation", "started_usage_unknown"}

Row == [state : States, day : Days, reserved : Sizes \cup {0},
        used : Usages \cup {0}, expires : 0 .. MaxTime + TTL]
Day == [calls : Nat, tokens : Nat, code : Codes, updated : 0 .. MaxTime]

TypeOK ==
    /\ now \in 0 .. MaxTime
    /\ store.rows \in [Attempts -> Row]
    /\ store.days \in [Days -> Day]
    /\ pc \in [Attempts -> Phases]
    /\ lag \in [Attempts -> 0 .. LockWait]
    /\ called \in SUBSET Attempts

Init ==
    /\ now = 0
    /\ store = [rows |-> [a \in Attempts |-> [state |-> "none", day |-> 0,
                             reserved |-> 0, used |-> 0, expires |-> 0]],
                days |-> [d \in Days |-> [calls |-> 0, tokens |-> 0,
                             code |-> "", updated |-> 0]]]
    /\ pc = [a \in Attempts |-> "idle"]
    /\ lag = [a \in Attempts |-> 0]
    /\ called = {}

-----------------------------------------------------------------------------
(* What a reservation is charged. *)
Charge(r) == IF r.state = "settled" THEN r.used ELSE r.reserved

(* The reservations that count towards a day. *)
ChargedTo(s, d) ==
    {a \in Attempts : /\ s.rows[a].day = d
                      /\ s.rows[a].state \notin {"none", "released"}}

Overrun(s, d) ==
    \E a \in ChargedTo(s, d) : /\ s.rows[a].state = "settled"
                               /\ s.rows[a].used > s.rows[a].reserved

(* An unknown reservation that had expired when its day was last updated. *)
StaleEvidence(s, d) ==
    \E a \in ChargedTo(s, d) : /\ s.rows[a].state = "unknown"
                               /\ s.rows[a].expires <= s.days[d].updated

(* _validate_provider_aggregates: what every method asserts of the store   *)
(* before it commits; a store that fails it is rolled back as corrupt.     *)
Valid(s) ==
    \A d \in Days :
        /\ s.days[d].calls = Cardinality(ChargedTo(s, d))
        /\ s.days[d].tokens = MapThenSumSet(LAMBDA a : Charge(s.rows[a]),
                                            ChargedTo(s, d))
        /\ Overrun(s, d) => s.days[d].code = "usage_over_reservation"
        /\ ~Overrun(s, d) /\ s.days[d].code # "" =>
               /\ s.days[d].code = "started_usage_unknown"
               /\ StaleEvidence(s, d)

Latched(s) == \E d \in Days : s.days[d].code # ""

UnstartedOrStarted(s, current) == \* Mutant: refunds started calls as well
    {a \in Attempts : /\ s.rows[a].state \in {"reserved", "started"}
                      /\ s.rows[a].expires <= current}

(* The reservations _release_expired_unstarted selects. *)
Unstarted(s, current) ==
    {a \in Attempts : /\ s.rows[a].state = "reserved"
                      /\ s.rows[a].expires <= current}

Release(s, current) ==
    LET gone == Unstarted(s, current)
        of(d) == {a \in gone : s.rows[a].day = d}
    IN  [rows |-> [a \in Attempts |->
                      IF a \in gone THEN [s.rows[a] EXCEPT !.state = "released"]
                                    ELSE s.rows[a]],
         days |-> [d \in Days |->
                      IF of(d) = {} THEN s.days[d]
                      ELSE [s.days[d] EXCEPT
                              !.calls = @ - Cardinality(of(d)),
                              !.tokens = @ - MapThenSumSet(
                                  LAMBDA a : s.rows[a].reserved, of(d)),
                              !.updated = current]]]

(* The reservations _sweep_expired_ambiguous selects. *)
Ambiguous(s, current) ==
    {a \in Attempts : /\ s.rows[a].state \in {"started", "unknown"}
                      /\ s.rows[a].expires <= current}

(* Marks the reservations of `lost` unknown and latches the days of those  *)
(* that have expired (_latch_expired_unknown_reconciliation).              *)
Lose(s, lost, current) ==
    [rows |-> [a \in Attempts |->
                  IF a \in lost THEN [s.rows[a] EXCEPT !.state = "unknown"]
                                ELSE s.rows[a]],
     days |-> [d \in Days |->
                  IF \E a \in lost : /\ s.rows[a].day = d
                                     /\ s.rows[a].expires <= current
                  THEN [s.days[d] EXCEPT
                          !.code = IF @ = "" THEN "started_usage_unknown" ELSE @,
                          !.updated = current]
                  ELSE s.days[d]]]

SweepStarted(s, current) == \* Mutant: leaves calls already unknown unlatched
    Lose(s, {a \in Ambiguous(s, current) : s.rows[a].state = "started"}, current)

Sweep(s, current) == Lose(s, Ambiguous(s, current), current)

(* The last write of reserve: the day is charged and the row inserted. *)
Insert(s, a, size, current) ==
    LET d == DayOf(current)
    IN  [rows |-> [s.rows EXCEPT ![a] =
                      [state |-> "reserved", day |-> d, reserved |-> size,
                       used |-> 0, expires |-> current + TTL]],
         days |-> [s.days EXCEPT
                      ![d].calls = @ + 1,
                      ![d].tokens = @ + size,
                      ![d].updated = current]]

(* The writes of settle: the day is charged the reported usage. *)
Settled(s, a, usage, current) ==
    LET r == s.rows[a]
    IN  [rows |-> [s.rows EXCEPT ![a].state = "settled", ![a].used = usage],
         days |-> [s.days EXCEPT
                      ![r.day].tokens = @ - r.reserved + usage,
                      ![r.day].code = IF usage > r.reserved
                                      THEN "usage_over_reservation" ELSE @,
                      ![r.day].updated = current]]

-----------------------------------------------------------------------------
(* The clock readings a method that was called up to `wait` ago may work   *)
(* with once it has the write lock.                                        *)
Readings(wait) == {current \in 0 .. now : current >= now - wait}

GoTo(a, phase) ==
    /\ pc' = [pc EXCEPT ![a] = phase]
    /\ lag' = [lag EXCEPT ![a] = 0]

(* BudgetedLLMBackend.create is called. *)
Create(a) ==
    /\ pc[a] = "idle"
    /\ GoTo(a, "reserve")
    /\ UNCHANGED <<now, store, called>>

(* reserve: expired reservations are released, expired calls of unknown    *)
(* use latched, and the request refused or charged, in one transaction.    *)
Cleaned(current) == Sweep(Release(store, current), current)

CleanupSound(current) ==
    Valid(Release(store, current)) /\ Valid(Cleaned(current))

OverLimitByOne(s, size, current) == \* Mutant: the new call is not counted
    \/ s.days[DayOf(current)].calls > CallLimit
    \/ s.days[DayOf(current)].tokens + size > TokenLimit

OverLimit(s, size, current) ==
    \/ s.days[DayOf(current)].calls + 1 > CallLimit
    \/ s.days[DayOf(current)].tokens + size > TokenLimit

ReserveAdmitted(a) ==
    /\ pc[a] = "reserve"
    /\ \E current \in Readings(lag[a]), size \in Sizes :
          LET s == Cleaned(current)
          IN  /\ CleanupSound(current)
              /\ ~Latched(s)
              /\ ~OverLimit(s, size, current)
              /\ Valid(Insert(s, a, size, current))
              /\ store' = Insert(s, a, size, current)
    /\ GoTo(a, "start")
    /\ UNCHANGED <<now, called>>

(* A refused reserve still commits the cleanup. *)
ReserveRefused(a) ==
    /\ pc[a] = "reserve"
    /\ \E current \in Readings(lag[a]), size \in Sizes :
          /\ CleanupSound(current)
          /\ \/ Latched(Cleaned(current))
             \/ OverLimit(Cleaned(current), size, current)
          /\ store' = Cleaned(current)
    /\ GoTo(a, "done")
    /\ UNCHANGED <<now, called>>

(* mark_started.  An interruption after the commit leaves the reservation  *)
(* started and the provider uncalled.                                      *)
MarkStarted(a) ==
    /\ pc[a] = "start"
    /\ \E current \in Readings(lag[a]) :
          /\ store.rows[a].state = "reserved"
          /\ current < store.rows[a].expires
    /\ store' = [store EXCEPT !.rows[a].state = "started"]
    /\ GoTo(a, "call") \/ GoTo(a, "unknown")
    /\ UNCHANGED <<now, called>>

(* mark_started refuses a reservation that expired or was released. *)
StartRefused(a) ==
    /\ pc[a] = "start"
    /\ \E current \in Readings(lag[a]) :
          \/ store.rows[a].state # "reserved"
          \/ current >= store.rows[a].expires
    /\ GoTo(a, "unknown")
    /\ UNCHANGED <<now, store, called>>

(* The delegate's create sends the request... *)
CallProvider(a) ==
    /\ pc[a] = "call"
    /\ called' = called \cup {a}
    /\ GoTo(a, "calling")
    /\ UNCHANGED <<now, store>>

(* ... and returns a response with usage, or none, or raises. *)
Respond(a) ==
    /\ pc[a] = "calling"
    /\ GoTo(a, "settle") \/ GoTo(a, "unknown")
    /\ UNCHANGED <<now, store, called>>

(* settle; an interruption after the commit marks the settled row unknown, *)
(* which mark_unknown leaves settled.                                      *)
Settle(a) ==
    /\ pc[a] = "settle"
    /\ store.rows[a].state = "started"
    /\ \E current \in Readings(lag[a]), usage \in Usages :
          /\ Valid(Settled(store, a, usage, current))
          /\ store' = Settled(store, a, usage, current)
    /\ GoTo(a, "done") \/ GoTo(a, "unknown")
    /\ UNCHANGED <<now, called>>

(* settle refuses a reservation a sweep has marked unknown, or finds the   *)
(* store it has written corrupt and rolls back.                            *)
SettleRefused(a) ==
    /\ pc[a] = "settle"
    /\ \/ store.rows[a].state # "started"
       \/ \E current \in Readings(lag[a]), usage \in Usages :
             ~Valid(Settled(store, a, usage, current))
    /\ GoTo(a, "unknown")
    /\ UNCHANGED <<now, store, called>>

(* mark_unknown: only a started or unknown reservation changes. *)
MarkUnknown(a) ==
    /\ pc[a] = "unknown"
    /\ \E current \in Readings(lag[a]) :
          /\ store' = IF store.rows[a].state \in {"started", "unknown"}
                      THEN Lose(store, {a}, current)
                      ELSE store
          /\ Valid(store')
    /\ GoTo(a, "done")
    /\ UNCHANGED <<now, called>>

(* A reserve whose cleanup is found corrupt, and any method that cannot    *)
(* get the write lock in time, fails without effect.                       *)
StoreUnavailable(a) ==
    /\ \/ pc[a] \in {"start", "settle"} /\ GoTo(a, "unknown")
       \/ pc[a] \in {"reserve", "unknown"} /\ GoTo(a, "done")
    /\ UNCHANGED <<now, store, called>>

(* The process dies. *)
Crash(a) ==
    /\ pc[a] \notin {"idle", "done"}
    /\ GoTo(a, "done")
    /\ UNCHANGED <<now, store, called>>

(* status, and the maintenance entry points: a sweep or a release alone. *)
StatusSweep ==
    /\ \E current \in Readings(LockWait) :
          /\ Valid(Sweep(store, current))
          /\ store' = Sweep(store, current)
    /\ UNCHANGED <<now, pc, lag, called>>

ReleaseSweep ==
    /\ \E current \in Readings(LockWait) :
          /\ Valid(Release(store, current))
          /\ store' = Release(store, current)
    /\ UNCHANGED <<now, pc, lag, called>>

Tick ==
    /\ now < MaxTime
    /\ now' = now + 1
    /\ lag' = [a \in Attempts |-> Min({lag[a] + 1, LockWait})]
    /\ UNCHANGED <<store, pc, called>>

Next ==
    \/ \E a \in Attempts :
          \/ Create(a) \/ ReserveAdmitted(a) \/ ReserveRefused(a)
          \/ MarkStarted(a) \/ StartRefused(a) \/ CallProvider(a)
          \/ Respond(a) \/ Settle(a) \/ SettleRefused(a) \/ MarkUnknown(a)
          \/ StoreUnavailable(a) \/ Crash(a)
    \/ StatusSweep \/ ReleaseSweep \/ Tick

Spec == Init /\ [][Next]_vars

-----------------------------------------------------------------------------
(* Two attempts racing through reserve, refunds, settlements and midnight  *)
(* never put a day over its ceilings, except by usage above its own        *)
(* reservation, which latches the day: a day that is over its token        *)
(* ceiling is latched, and its calls never exceed theirs.                  *)
CeilingHeld ==
    \A d \in Days : /\ store.days[d].calls <= CallLimit
                    /\ \/ store.days[d].tokens <= TokenLimit
                       \/ store.days[d].code # ""

(* A call that may have reached the provider stays charged: whatever       *)
(* expires, crashes, or sweeps concurrently, its reservation is never      *)
(* refunded (_release_expired_unstarted racing mark_started).              *)
CalledIsCharged ==
    \A a \in called : store.rows[a].state \in {"started", "settled", "unknown"}

(* reserve admits nothing while a call of unknown use has expired (by more *)
(* than the wait for the lock), even when a failure marked it unknown      *)
(* before it expired and nothing has latched its day since.                *)
AmbiguityBlocks ==
    [][(\E a \in Attempts : /\ store.rows[a].state = "none"
                            /\ store'.rows[a].state = "reserved")
       => Ambiguous(store, now - LockWait) = {}]_vars

(* _validate_provider_aggregates asserts a consistent store, so on a store *)
(* that only this service writes, settling a started reservation within    *)
(* its transaction must never find it corrupt.                             *)
NoFalseAlarm ==
    \A a \in Attempts :
        pc[a] = "settle" /\ store.rows[a].state = "started" =>
            \A current \in Readings(lag[a]), usage \in Usages :
                Valid(Settled(store, a, usage, current))
==============================================================================
