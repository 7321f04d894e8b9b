------------------------- MODULE ProviderBudgetProofs -------------------------
(***************************************************************************)
(* A provider call is never refunded, an expired call of unknown use keeps *)
(* reserve closed, and no day goes beyond its ceilings, for every number of *)
(* attempts, every limit, every expiry time and every wait for the write   *)
(* lock.  The first needs only the states of the reservations; the second  *)
(* that every reservation has its day row; the third what the sum of a     *)
(* refund is, by a smallest counterexample over the sets it adds up.       *)
(***************************************************************************)
EXTENDS ProviderBudget, FiniteSetTheorems, TLAPS

Charged == {"started", "settled", "unknown"}

(* The shape of the store, without the values of the day rows. *)
Fields == [state : States, day : Int, reserved : Int, used : Int, expires : Int]

Shape ==
    /\ store = [rows |-> store.rows, days |-> store.days]
    /\ store.rows \in [Attempts -> Fields]
    /\ pc \in [Attempts -> Phases]
    /\ now \in Nat
    /\ called \in SUBSET Attempts

(* An attempt about to call the provider has committed mark_started. *)
AboutToCall == \A a \in Attempts : pc[a] = "call" => store.rows[a].state \in Charged

(* A reservation is inserted before its call, so never over a charged one. *)
NotYetCalled == \A a \in Attempts : pc[a] \in {"idle", "reserve"} => a \notin called

IInv == Shape /\ AboutToCall /\ NotYetCalled /\ CalledIsCharged

(* No write of the service takes a reservation out of the charged states. *)
KeepsCharges(rows) ==
    /\ rows \in [Attempts -> Fields]
    /\ \A a \in Attempts : store.rows[a].state \in Charged => rows[a].state \in Charged

(* _release_expired_unstarted selects reserved rows only. *)
LEMMA ReleaseKeeps ==
    ASSUME NEW s, NEW current, s.rows \in [Attempts -> Fields]
    PROVE  /\ Release(s, current).rows \in [Attempts -> Fields]
           /\ \A a \in Attempts : s.rows[a].state \in Charged =>
                                  Release(s, current).rows[a].state \in Charged
<1> DEFINE gone == Unstarted(s, current)
           rows == [a \in Attempts |->
                      IF a \in gone THEN [s.rows[a] EXCEPT !.state = "released"]
                                    ELSE s.rows[a]]
<1>1. Release(s, current).rows = rows
  BY DEF Release
<1>2. rows \in [Attempts -> Fields]
  BY DEF Fields, States
<1>3. \A a \in Attempts : s.rows[a].state \in Charged => rows[a].state \in Charged
  BY DEF Unstarted, Charged
<1> QED
  BY <1>1, <1>2, <1>3

(* _sweep_expired_ambiguous and mark_unknown only write "unknown". *)
LEMMA LoseKeeps ==
    ASSUME NEW s, NEW lost, NEW current, s.rows \in [Attempts -> Fields]
    PROVE  /\ Lose(s, lost, current).rows \in [Attempts -> Fields]
           /\ \A a \in Attempts : s.rows[a].state \in Charged =>
                                  Lose(s, lost, current).rows[a].state \in Charged
<1> DEFINE rows == [a \in Attempts |->
                      IF a \in lost THEN [s.rows[a] EXCEPT !.state = "unknown"]
                                    ELSE s.rows[a]]
<1>1. Lose(s, lost, current).rows = rows
  BY DEF Lose
<1>2. rows \in [Attempts -> Fields]
  BY DEF Fields, States
<1>3. \A a \in Attempts : s.rows[a].state \in Charged => rows[a].state \in Charged
  BY DEF Charged, Fields
<1> QED
  BY <1>1, <1>2, <1>3

(* The cleanup of reserve keeps every charged reservation charged. *)
LEMMA CleanedKeeps ==
    ASSUME NEW current, store.rows \in [Attempts -> Fields]
    PROVE  KeepsCharges(Cleaned(current).rows)
<1>1. /\ Release(store, current).rows \in [Attempts -> Fields]
      /\ \A a \in Attempts : store.rows[a].state \in Charged =>
                             Release(store, current).rows[a].state \in Charged
  BY ReleaseKeeps
<1> DEFINE s == Release(store, current)
<1> HIDE DEF s
<1>2. s.rows \in [Attempts -> Fields]
  BY <1>1 DEF s
<1>3. /\ Sweep(s, current).rows \in [Attempts -> Fields]
      /\ \A a \in Attempts : s.rows[a].state \in Charged =>
                             Sweep(s, current).rows[a].state \in Charged
  BY <1>2, LoseKeeps DEF Sweep
<1>4. Cleaned(current) = Sweep(s, current)
  BY DEF Cleaned, s
<1> QED
  BY <1>1, <1>3, <1>4 DEF KeepsCharges, s

(* IInv holds before any attempt is made. *)
LEMMA InitIInv == Init => IInv
<1> SUFFICES ASSUME Init PROVE IInv
  OBVIOUS
<1>1. store.rows = [a \in Attempts |-> [state |-> "none", day |-> 0,
                       reserved |-> 0, used |-> 0, expires |-> 0]]
  BY DEF Init
<1>2. store.rows \in [Attempts -> Fields]
  BY <1>1 DEF Fields, States
<1>3. store = [rows |-> store.rows, days |-> store.days]
  BY DEF Init
<1>4. /\ pc \in [Attempts -> Phases] /\ now \in Nat /\ called \in SUBSET Attempts
      /\ \A a \in Attempts : pc[a] = "idle" /\ a \notin called
      /\ called = {}
  BY DEF Init, Phases
<1> QED
  BY <1>2, <1>3, <1>4
     DEF IInv, Shape, AboutToCall, NotYetCalled, CalledIsCharged

(* A step that moves no attempt to the call keeps IInv, if it keeps every  *)
(* reservation charged that an attempt relies on.                          *)
LEMMA QuietStep ==
    ASSUME IInv, NEW rows, NEW days, NEW a \in Attempts, NEW phase \in Phases,
           phase \notin {"idle", "call"}, phase = "reserve" => a \notin called,
           store' = [rows |-> rows, days |-> days],
           rows \in [Attempts -> Fields],
           \A b \in Attempts : /\ store.rows[b].state \in Charged
                               /\ b \in called \/ b # a
                               => rows[b].state \in Charged,
           pc' = [pc EXCEPT ![a] = phase], now' = now, called' = called
    PROVE  IInv'
<1>1. Shape'
  BY DEF IInv, Shape
<1>2. AboutToCall'
  BY DEF IInv, Shape, AboutToCall
<1>3. NotYetCalled'
  BY DEF IInv, Shape, NotYetCalled
<1>4. CalledIsCharged'
  BY DEF IInv, Shape, CalledIsCharged, Charged
<1> QED
  BY <1>1, <1>2, <1>3, <1>4 DEF IInv

(* A sweep between the attempts' calls keeps IInv. *)
LEMMA SweepStep ==
    ASSUME IInv, NEW rows, NEW days, KeepsCharges(rows),
           store' = [rows |-> rows, days |-> days],
           pc' = pc, now' \in Nat, called' = called
    PROVE  IInv'
<1>1. store'.rows = rows
  OBVIOUS
<1>2. Shape'
  BY <1>1 DEF IInv, Shape, KeepsCharges
<1>3. AboutToCall' /\ NotYetCalled'
  BY <1>1 DEF IInv, AboutToCall, NotYetCalled, KeepsCharges
<1>4. CalledIsCharged'
  BY <1>1 DEF IInv, Shape, CalledIsCharged, KeepsCharges, Charged
<1> QED
  BY <1>2, <1>3, <1>4 DEF IInv

(* The stores the actions write are records of rows and days. *)
LEMMA StoreShapes ==
    ASSUME NEW s, NEW lost, NEW a, NEW n, NEW current
    PROVE  /\ Release(s, current) = [rows |-> Release(s, current).rows,
                                     days |-> Release(s, current).days]
           /\ Lose(s, lost, current) = [rows |-> Lose(s, lost, current).rows,
                                        days |-> Lose(s, lost, current).days]
           /\ Insert(s, a, n, current) = [rows |-> Insert(s, a, n, current).rows,
                                          days |-> Insert(s, a, n, current).days]
           /\ Settled(s, a, n, current) = [rows |-> Settled(s, a, n, current).rows,
                                           days |-> Settled(s, a, n, current).days]
<1>1. Release(s, current) = [rows |-> Release(s, current).rows,
                             days |-> Release(s, current).days]
  BY Zenon DEF Release
<1>2. Lose(s, lost, current) = [rows |-> Lose(s, lost, current).rows,
                                days |-> Lose(s, lost, current).days]
  BY Zenon DEF Lose
<1>3. Insert(s, a, n, current) = [rows |-> Insert(s, a, n, current).rows,
                                  days |-> Insert(s, a, n, current).days]
  BY Zenon DEF Insert
<1>4. Settled(s, a, n, current) = [rows |-> Settled(s, a, n, current).rows,
                                   days |-> Settled(s, a, n, current).days]
  BY Zenon DEF Settled
<1> QED
  BY <1>1, <1>2, <1>3, <1>4

(* The steps of one attempt keep IInv. *)
LEMMA AttemptStep ==
    ASSUME IInv, NEW a \in Attempts,
           \/ Create(a) \/ ReserveAdmitted(a) \/ ReserveRefused(a)
           \/ MarkStarted(a) \/ StartRefused(a) \/ CallProvider(a)
           \/ Respond(a) \/ Settle(a) \/ SettleRefused(a) \/ MarkUnknown(a)
           \/ StoreUnavailable(a) \/ Crash(a)
    PROVE  IInv'
<1>0. /\ store = [rows |-> store.rows, days |-> store.days]
      /\ store.rows \in [Attempts -> Fields]
      /\ now \in Nat
      /\ pc \in [Attempts -> Phases]
  BY DEF IInv, Shape
<1>1. CASE Create(a)
  <2>1. a \notin called
    BY <1>1 DEF Create, IInv, NotYetCalled
  <2> QED
    BY <1>0, <1>1, <2>1, QuietStep DEF Create, GoTo, Phases
<1>2. CASE ReserveAdmitted(a)
  <2>1. a \notin called
    BY <1>2 DEF ReserveAdmitted, IInv, NotYetCalled
  <2>2. PICK current \in Readings(lag[a]), size \in Sizes :
            store' = Insert(Cleaned(current), a, size, current)
    BY <1>2 DEF ReserveAdmitted
  <2> DEFINE s == Cleaned(current)
             row == [state |-> "reserved", day |-> DayOf(current),
                     reserved |-> size, used |-> 0, expires |-> current + TTL]
             rows == [s.rows EXCEPT ![a] = row]
  <2>3. KeepsCharges(s.rows)
    BY <1>0, CleanedKeeps
  <2>4. row \in Fields
    BY BudgetAssumption DEF Readings, DayOf, Fields, States
  <2>5. store'.rows = rows
    BY <2>2, Zenon DEF Insert
  <2> HIDE DEF s, row
  <2>6. rows \in [Attempts -> Fields]
    BY <2>3, <2>4 DEF KeepsCharges
  <2>7. \A b \in Attempts : b # a => rows[b] = s.rows[b]
    BY <2>3 DEF KeepsCharges
  <2>8. \A b \in Attempts : /\ store.rows[b].state \in Charged
                            /\ b \in called \/ b # a
                            => rows[b].state \in Charged
    BY <2>1, <2>3, <2>7 DEF KeepsCharges
  <2>9. store' = [rows |-> rows, days |-> store'.days]
    BY <2>2, <2>5, StoreShapes
  <2>10. /\ pc' = [pc EXCEPT ![a] = "start"] /\ now' = now /\ called' = called
         /\ "start" \in Phases
    BY <1>2 DEF ReserveAdmitted, GoTo, Phases
  <2> HIDE DEF rows
  <2> QED
    BY <2>6, <2>8, <2>9, <2>10, QuietStep
<1>3. CASE ReserveRefused(a)
  <2>1. PICK current \in Readings(lag[a]) : store' = Cleaned(current)
    BY <1>3 DEF ReserveRefused
  <2>2. KeepsCharges(store'.rows)
    BY <1>0, <2>1, CleanedKeeps
  <2>3. store' = [rows |-> store'.rows, days |-> store'.days]
    BY <2>1, StoreShapes DEF Cleaned, Sweep
  <2>4. /\ pc' = [pc EXCEPT ![a] = "done"] /\ now' = now /\ called' = called
        /\ "done" \in Phases
    BY <1>3 DEF ReserveRefused, GoTo, Phases
  <2> QED
    BY <2>2, <2>3, <2>4, QuietStep DEF KeepsCharges
<1>4. CASE MarkStarted(a)
  <2> DEFINE rows == [store.rows EXCEPT ![a].state = "started"]
  <2>1. store' = [rows |-> rows, days |-> store.days]
    BY <1>0, <1>4 DEF MarkStarted
  <2>2. rows \in [Attempts -> Fields]
    BY <1>0 DEF Fields, States
  <2>3. \A b \in Attempts : store.rows[b].state \in Charged => rows[b].state \in Charged
    BY <1>0 DEF Charged, Fields
  <2>4. rows[a].state \in Charged
    BY <1>0 DEF Charged, Fields
  <2>5. now' = now /\ called' = called
    BY <1>4 DEF MarkStarted
  <2> HIDE DEF rows
  <2>6. CASE pc' = [pc EXCEPT ![a] = "call"]
    <3>1. Shape'
      BY <1>0, <2>1, <2>2, <2>5, <2>6 DEF IInv, Shape, Phases
    <3>2. AboutToCall'
      BY <1>0, <2>1, <2>3, <2>4, <2>6 DEF IInv, AboutToCall
    <3>3. NotYetCalled'
      BY <1>0, <2>5, <2>6 DEF IInv, NotYetCalled
    <3>4. CalledIsCharged'
      BY <2>1, <2>3, <2>5 DEF IInv, Shape, CalledIsCharged, Charged
    <3> QED
      BY <3>1, <3>2, <3>3, <3>4 DEF IInv
  <2>7. CASE pc' = [pc EXCEPT ![a] = "unknown"]
    BY <2>1, <2>2, <2>3, <2>5, <2>7, QuietStep DEF Phases
  <2> QED
    BY <1>4, <2>6, <2>7 DEF MarkStarted, GoTo
<1>5. CASE StartRefused(a) \/ Respond(a) \/ SettleRefused(a)
           \/ StoreUnavailable(a) \/ Crash(a)
  <2>1. PICK phase \in {"settle", "unknown", "done"} :
            /\ pc' = [pc EXCEPT ![a] = phase]
            /\ now' = now /\ called' = called /\ store' = store
    BY <1>5 DEF StartRefused, Respond, SettleRefused, StoreUnavailable, Crash, GoTo
  <2>2. phase \in Phases /\ phase \notin {"idle", "call", "reserve"}
    BY <2>1 DEF Phases
  <2> QED
    BY <1>0, <2>1, <2>2, QuietStep
<1>6. CASE CallProvider(a)
  <2>1. /\ pc[a] = "call" /\ pc' = [pc EXCEPT ![a] = "calling"]
        /\ called' = called \cup {a} /\ store' = store /\ now' = now
    BY <1>6 DEF CallProvider, GoTo
  <2>2. Shape' /\ AboutToCall' /\ NotYetCalled'
    BY <1>0, <2>1 DEF IInv, Shape, AboutToCall, NotYetCalled, Phases
  <2>3. CalledIsCharged'
    BY <2>1 DEF IInv, AboutToCall, CalledIsCharged, Charged
  <2> QED
    BY <2>2, <2>3 DEF IInv
<1>7. CASE Settle(a)
  <2>1. PICK current \in Readings(lag[a]), usage \in Usages :
            store' = Settled(store, a, usage, current)
    BY <1>7 DEF Settle
  <2> DEFINE rows == [store.rows EXCEPT ![a].state = "settled", ![a].used = usage]
  <2>2. store' = [rows |-> rows, days |-> store'.days]
    BY <2>1, Zenon DEF Settled
  <2>3. usage \in Int
    BY BudgetAssumption
  <2>4. rows \in [Attempts -> Fields]
    BY <1>0, <2>3 DEF Fields, States
  <2>5. \A b \in Attempts : store.rows[b].state \in Charged => rows[b].state \in Charged
    BY <1>0 DEF Charged, Fields
  <2>6. PICK phase \in {"done", "unknown"} : pc' = [pc EXCEPT ![a] = phase]
    BY <1>7 DEF Settle, GoTo
  <2>7. now' = now /\ called' = called
    BY <1>7 DEF Settle
  <2>8. phase \in Phases /\ phase \notin {"idle", "call", "reserve"}
    BY <2>6 DEF Phases
  <2> HIDE DEF rows
  <2> QED
    BY <2>2, <2>4, <2>5, <2>6, <2>7, <2>8, QuietStep
<1>8. CASE MarkUnknown(a)
  <2>1. PICK current \in Readings(lag[a]) :
            store' = store \/ store' = Lose(store, {a}, current)
    BY <1>8 DEF MarkUnknown
  <2>2. KeepsCharges(store'.rows)
    BY <1>0, <2>1, LoseKeeps DEF KeepsCharges
  <2>3. store' = [rows |-> store'.rows, days |-> store'.days]
    BY <1>0, <2>1, StoreShapes
  <2>4. /\ pc' = [pc EXCEPT ![a] = "done"] /\ now' = now /\ called' = called
        /\ "done" \in Phases
    BY <1>8 DEF MarkUnknown, GoTo, Phases
  <2> QED
    BY <2>2, <2>3, <2>4, QuietStep DEF KeepsCharges
<1> QED
  BY <1>1, <1>2, <1>3, <1>4, <1>5, <1>6, <1>7, <1>8

(* Every step of the service keeps IInv. *)
LEMMA NextIInv == IInv /\ [Next]_vars => IInv'
<1> SUFFICES ASSUME IInv, [Next]_vars PROVE IInv'
  OBVIOUS
<1>0. /\ store = [rows |-> store.rows, days |-> store.days]
      /\ store.rows \in [Attempts -> Fields]
      /\ now \in Nat
  BY DEF IInv, Shape
<1>1. CASE StatusSweep
  <2>1. PICK current \in Readings(LockWait) : store' = Sweep(store, current)
    BY <1>1 DEF StatusSweep
  <2>2. KeepsCharges(store'.rows)
    BY <1>0, <2>1, LoseKeeps DEF Sweep, KeepsCharges
  <2>3. store' = [rows |-> store'.rows, days |-> store'.days]
    BY <2>1, StoreShapes DEF Sweep
  <2>4. pc' = pc /\ now' \in Nat /\ called' = called
    BY <1>0, <1>1 DEF StatusSweep
  <2> QED
    BY <2>2, <2>3, <2>4, SweepStep
<1>2. CASE ReleaseSweep
  <2>1. PICK current \in Readings(LockWait) : store' = Release(store, current)
    BY <1>2 DEF ReleaseSweep
  <2>2. KeepsCharges(store'.rows)
    BY <1>0, <2>1, ReleaseKeeps DEF KeepsCharges
  <2>3. store' = [rows |-> store'.rows, days |-> store'.days]
    BY <2>1, StoreShapes
  <2>4. pc' = pc /\ now' \in Nat /\ called' = called
    BY <1>0, <1>2 DEF ReleaseSweep
  <2> QED
    BY <2>2, <2>3, <2>4, SweepStep
<1>3. CASE Tick \/ UNCHANGED vars
  <2>1. pc' = pc /\ now' \in Nat /\ called' = called /\ store' = store
    BY <1>0, <1>3 DEF Tick, vars
  <2>2. KeepsCharges(store.rows)
    BY <1>0 DEF KeepsCharges
  <2> QED
    BY <1>0, <2>1, <2>2, SweepStep
<1> QED
  BY <1>1, <1>2, <1>3, AttemptStep DEF Next

(* A call that may have reached the provider stays charged: no release of  *)
(* expired reservations, sweep, crash or late clock reading ever refunds a *)
(* reservation whose attempt has called the provider.                      *)
THEOREM CalledStaysCharged == Spec => []CalledIsCharged
<1>1. IInv => CalledIsCharged
  BY DEF IInv
<1> QED
  BY <1>1, InitIInv, NextIInv, PTL DEF Spec
-----------------------------------------------------------------------------
(* Nothing is admitted over an expired call of unknown use.  That reserve  *)
(* latches such a call before it decides rests on the call's day having a  *)
(* row to latch, and on its clock reading being at most LockWait old.      *)
DayFields == {"calls", "tokens", "code", "updated"}

DatedStore(s) ==
    /\ \A b \in Attempts : s.rows[b].day \in Days
    /\ s.days = [d \in Days |-> s.days[d]]
    /\ \A d \in Days : DOMAIN s.days[d] = DayFields

Dated ==
    /\ now <= MaxTime
    /\ lag \in [Attempts -> 0 .. LockWait]
    /\ DatedStore(store)

(* A later time is not on an earlier day.                                  *)
LEMMA DayOfMonotone ==
    ASSUME NEW t \in Nat, NEW u \in Nat, t <= u
    PROVE  DayOf(t) \in Nat /\ DayOf(t) <= DayOf(u)
<1> DEFINE n == DayLength  p == t \div n  q == u \div n
<1>1. n \in Nat \ {0}
  BY BudgetAssumption
<1> HIDE DEF n
<1>2. p \in Nat /\ q \in Nat
  BY <1>1
<1>3. n * p <= t /\ u < n * (q + 1)
  BY <1>1
<1> HIDE DEF p, q
<1>4. ASSUME p > q PROVE FALSE
  <2>1. PICK k \in Nat : p = q + 1 + k
    <3>1. p - q - 1 \in Nat /\ p = q + 1 + (p - q - 1)
      BY <1>2, <1>4
    <3> QED
      BY <3>1
  <2>2. n * k \in Nat /\ n * (q + 1 + k) = n * (q + 1) + n * k
    BY <1>1, <1>2
  <2>3. n * (q + 1) \in Int
    BY <1>1, <1>2
  <2>4. n * p = n * (q + 1) + n * k
    BY <2>1, <2>2
  <2> HIDE DEF n
  <2> QED
    BY <1>3, <2>2, <2>3, <2>4
<1> QED
  BY <1>2, <1>4 DEF DayOf, p, q, n

(* Releases and sweeps write the day rows that are there, and move no      *)
(* reservation to another day.                                             *)
LEMMA CleanupDated ==
    ASSUME NEW s, NEW lost, NEW current,
           s.rows \in [Attempts -> Fields], DatedStore(s)
    PROVE  DatedStore(Release(s, current)) /\ DatedStore(Lose(s, lost, current))
<1>1. \A b \in Attempts : s.rows[b] \in Fields
  OBVIOUS
<1>2. \A b \in Attempts : /\ Release(s, current).rows[b].day = s.rows[b].day
                          /\ Lose(s, lost, current).rows[b].day = s.rows[b].day
  BY <1>1 DEF Release, Lose, Fields
<1>3. \A d \in Days : /\ DOMAIN Release(s, current).days[d] = DOMAIN s.days[d]
                      /\ DOMAIN Lose(s, lost, current).days[d] = DOMAIN s.days[d]
  BY Zenon DEF Release, Lose
<1>4. /\ Release(s, current).days = [d \in Days |-> Release(s, current).days[d]]
      /\ Lose(s, lost, current).days = [d \in Days |-> Lose(s, lost, current).days[d]]
  BY DEF Release, Lose
<1> QED
  BY <1>2, <1>3, <1>4 DEF DatedStore

(* Insert charges the day of its clock reading.                            *)
LEMMA InsertDated ==
    ASSUME NEW s, NEW a \in Attempts, NEW size, NEW current,
           s.rows \in [Attempts -> Fields], DatedStore(s), DayOf(current) \in Days
    PROVE  DatedStore(Insert(s, a, size, current))
<1> DEFINE d0 == DayOf(current)
           row == [state |-> "reserved", day |-> d0, reserved |-> size,
                   used |-> 0, expires |-> current + TTL]
           days == [s.days EXCEPT ![d0].calls = @ + 1, ![d0].tokens = @ + size,
                                  ![d0].updated = current]
<1>1. Insert(s, a, size, current) = [rows |-> [s.rows EXCEPT ![a] = row], days |-> days]
  BY DEF Insert
<1>2. row.day = d0
  OBVIOUS
<1> HIDE DEF row, d0
<1>3. \A b \in Attempts : [s.rows EXCEPT ![a] = row][b].day \in Days
  BY <1>2 DEF DatedStore, d0
<1>4. days = [d \in Days |-> days[d]] /\ \A d \in Days : DOMAIN days[d] = DayFields
  BY DEF DatedStore
<1> HIDE DEF days
<1> QED
  BY <1>1, <1>3, <1>4 DEF DatedStore

(* Settled writes the day row of its reservation.                          *)
LEMMA SettledDated ==
    ASSUME NEW a \in Attempts, NEW usage, NEW current,
           store.rows \in [Attempts -> Fields], DatedStore(store)
    PROVE  DatedStore(Settled(store, a, usage, current))
<1> DEFINE r == store.rows[a]
           rows == [store.rows EXCEPT ![a].state = "settled", ![a].used = usage]
           days == [store.days EXCEPT ![r.day].tokens = @ - r.reserved + usage,
                                      ![r.day].code = IF usage > r.reserved
                                                      THEN "usage_over_reservation" ELSE @,
                                      ![r.day].updated = current]
<1>1. Settled(store, a, usage, current) = [rows |-> rows, days |-> days]
  BY DEF Settled
<1>2. \A b \in Attempts : rows[b].day = store.rows[b].day
  BY DEF Fields
<1>3. days = [d \in Days |-> days[d]] /\ \A d \in Days : DOMAIN days[d] = DayFields
  BY DEF DatedStore
<1> HIDE DEF rows, days
<1> QED
  BY <1>1, <1>2, <1>3 DEF DatedStore

(* A reservation made by nobody's reserve is not new.                      *)
NoNewRow(s) ==
    \A b \in Attempts : s.rows[b].state = "reserved" => store.rows[b].state = "reserved"

(* What a method may read of the clock is a time of the past.              *)
LEMMA ReadingIsDated ==
    ASSUME now \in Nat, now <= MaxTime, NEW wait, NEW current \in Readings(wait)
    PROVE  current \in Nat /\ DayOf(current) \in Days
<1>1. current \in Nat /\ current <= MaxTime
  BY BudgetAssumption DEF Readings
<1>2. DayOf(current) \in Nat /\ DayOf(current) <= DayOf(MaxTime)
  BY <1>1, BudgetAssumption, DayOfMonotone
<1>3. DayOf(MaxTime) \in Nat
  BY BudgetAssumption, DayOfMonotone
<1> QED
  BY <1>1, <1>2, <1>3 DEF Days

(* The cleanup of reserve keeps the store dated and makes no reservation.  *)
LEMMA CleanedDated ==
    ASSUME IInv, Dated, NEW current
    PROVE  /\ DatedStore(Cleaned(current))
           /\ Cleaned(current).rows \in [Attempts -> Fields]
<1> DEFINE s == Release(store, current)
<1>1. store.rows \in [Attempts -> Fields] /\ DatedStore(store)
  BY DEF IInv, Shape, Dated
<1>2. s.rows \in [Attempts -> Fields] /\ DatedStore(s)
  BY <1>1, ReleaseKeeps, CleanupDated
<1> HIDE DEF s
<1>3. DatedStore(Sweep(s, current)) /\ Sweep(s, current).rows \in [Attempts -> Fields]
  BY <1>2, LoseKeeps, CleanupDated DEF Sweep
<1> QED
  BY <1>3 DEF Cleaned, s

(* Every write but the one of an admitted reserve changes the state of     *)
(* existing reservations only, and all of them keep the store dated.       *)
LEMMA StoreStep ==
    ASSUME IInv, Dated, [Next]_vars
    PROVE  /\ DatedStore(store')
           /\ NoNewRow(store') \/ \E a \in Attempts : ReserveAdmitted(a)
<1>0. /\ store = [rows |-> store.rows, days |-> store.days]
      /\ store.rows \in [Attempts -> Fields] /\ DatedStore(store)
      /\ now \in Nat /\ now <= MaxTime
  BY DEF IInv, Shape, Dated
<1>a. \A s, current : s.rows \in [Attempts -> Fields] =>
          \A b \in Attempts : Release(s, current).rows[b].state = "reserved" =>
                              s.rows[b].state = "reserved"
  BY DEF Release, Fields
<1>b. \A s, lost, current : s.rows \in [Attempts -> Fields] =>
          \A b \in Attempts : Lose(s, lost, current).rows[b].state = "reserved" =>
                              s.rows[b].state = "reserved"
  BY DEF Lose, Fields
<1>1. ASSUME NEW a \in Attempts, ReserveAdmitted(a) PROVE DatedStore(store')
  <2>1. PICK current \in Readings(lag[a]), size \in Sizes :
            store' = Insert(Cleaned(current), a, size, current)
    BY <1>1 DEF ReserveAdmitted
  <2>2. DayOf(current) \in Days
    BY <1>0, ReadingIsDated
  <2> QED
    BY <2>1, <2>2, CleanedDated, InsertDated
<1>2. ASSUME NEW a \in Attempts, ReserveRefused(a)
      PROVE  DatedStore(store') /\ NoNewRow(store')
  <2>1. PICK current \in Readings(lag[a]) : store' = Cleaned(current)
    BY <1>2 DEF ReserveRefused
  <2> DEFINE s == Release(store, current)
  <2>2. s.rows \in [Attempts -> Fields]
    BY <1>0, ReleaseKeeps
  <2>3. \A b \in Attempts : s.rows[b].state = "reserved" => store.rows[b].state = "reserved"
    BY <1>0, <1>a
  <2>4. store' = Sweep(s, current)
    BY <2>1 DEF Cleaned
  <2> HIDE DEF s
  <2>5. NoNewRow(store')
    BY <2>2, <2>3, <2>4, <1>b DEF Sweep, NoNewRow
  <2> QED
    BY <2>1, <2>5, CleanedDated
<1>3. ASSUME NEW a \in Attempts, MarkStarted(a)
      PROVE  DatedStore(store') /\ NoNewRow(store')
  <2> DEFINE rows == [store.rows EXCEPT ![a].state = "started"]
  <2>1. store' = [rows |-> rows, days |-> store.days]
    BY <1>0, <1>3 DEF MarkStarted
  <2>2. \A b \in Attempts : /\ rows[b].day = store.rows[b].day
                            /\ rows[b].state = "reserved" => store.rows[b].state = "reserved"
    BY <1>0 DEF Fields
  <2> HIDE DEF rows
  <2> QED
    BY <1>0, <2>1, <2>2 DEF DatedStore, NoNewRow
<1>4. ASSUME NEW a \in Attempts, Settle(a)
      PROVE  DatedStore(store') /\ NoNewRow(store')
  <2>1. PICK current \in Readings(lag[a]), usage \in Usages :
            store' = Settled(store, a, usage, current)
    BY <1>4 DEF Settle
  <2> DEFINE rows == [store.rows EXCEPT ![a].state = "settled", ![a].used = usage]
  <2>2. store'.rows = rows
    BY <2>1, Zenon DEF Settled
  <2>3. \A b \in Attempts : rows[b].state = "reserved" => store.rows[b].state = "reserved"
    BY <1>0 DEF Fields
  <2> HIDE DEF rows
  <2>4. NoNewRow(store')
    BY <2>2, <2>3 DEF NoNewRow
  <2> QED
    BY <1>0, <2>1, <2>4, SettledDated
<1>5. ASSUME NEW a \in Attempts, MarkUnknown(a)
      PROVE  DatedStore(store') /\ NoNewRow(store')
  <2>1. PICK current \in Readings(lag[a]) :
            store' = store \/ store' = Lose(store, {a}, current)
    BY <1>5 DEF MarkUnknown
  <2> QED
    BY <1>0, <1>b, <2>1, CleanupDated DEF NoNewRow
<1>6. ASSUME StatusSweep \/ ReleaseSweep
      PROVE  DatedStore(store') /\ NoNewRow(store')
  <2>1. PICK current \in Readings(LockWait) :
            store' = Sweep(store, current) \/ store' = Release(store, current)
    BY <1>6 DEF StatusSweep, ReleaseSweep
  <2> QED
    BY <1>0, <1>a, <1>b, <2>1, CleanupDated DEF NoNewRow, Sweep
<1>7. ASSUME store' = store PROVE DatedStore(store') /\ NoNewRow(store')
  BY <1>0, <1>7 DEF NoNewRow
<1>8. ASSUME NEW a \in Attempts,
             Create(a) \/ StartRefused(a) \/ CallProvider(a) \/ Respond(a)
             \/ SettleRefused(a) \/ StoreUnavailable(a) \/ Crash(a)
      PROVE  store' = store
  BY <1>8 DEF Create, StartRefused, CallProvider, Respond, SettleRefused,
              StoreUnavailable, Crash
<1>9. Tick \/ UNCHANGED vars => store' = store
  BY DEF Tick, vars
<1> QED
  BY <1>1, <1>2, <1>3, <1>4, <1>5, <1>6, <1>7, <1>8, <1>9 DEF Next

(* Dated holds at the start and is kept by every step.                     *)
LEMMA DatedInvariance ==
    /\ Init => Dated
    /\ IInv /\ Dated /\ [Next]_vars => Dated'
<1>1. Init => Dated
  <2> SUFFICES ASSUME Init PROVE Dated
    OBVIOUS
  <2>1. 0 \in Days
    <3>1. DayOf(MaxTime) \in Nat
      BY BudgetAssumption, DayOfMonotone
    <3> QED
      BY <3>1 DEF Days
  <2>2. now <= MaxTime /\ lag \in [Attempts -> 0 .. LockWait]
    <3>1. now = 0 /\ lag = [a \in Attempts |-> 0]
      BY DEF Init
    <3> QED
      BY <3>1, BudgetAssumption
  <2>3. DatedStore(store)
    BY <2>1 DEF Init, DatedStore, DayFields
  <2> QED
    BY <2>2, <2>3 DEF Dated
<1>2. ASSUME IInv, Dated, [Next]_vars PROVE Dated'
  <2>0. now \in Nat /\ now <= MaxTime /\ lag \in [Attempts -> 0 .. LockWait]
    BY <1>2 DEF IInv, Shape, Dated
  <2>1. DatedStore(store')
    BY <1>2, StoreStep
  <2>2. CASE Tick
    <3>1. now' <= MaxTime
      BY <2>0, <2>2, BudgetAssumption DEF Tick
    <3>2. \A l \in 0 .. LockWait : Min({l + 1, LockWait}) \in 0 .. LockWait
      <4> TAKE l \in 0 .. LockWait
      <4> DEFINE S == {l + 1, LockWait}
      <4>1. l + 1 \in Nat /\ LockWait \in Nat
        BY BudgetAssumption
      <4>2. \E x \in S : \A y \in S : x <= y
        BY <4>1
      <4>3. Min(S) \in S /\ \A y \in S : Min(S) <= y
        BY <4>2 DEF Min
      <4> QED
        BY <4>1, <4>3
    <3>3. lag' = [a \in Attempts |-> Min({lag[a] + 1, LockWait})]
      BY <2>2 DEF Tick
    <3>4. lag' \in [Attempts -> 0 .. LockWait]
      BY <2>0, <3>2, <3>3
    <3> QED
      BY <2>1, <3>1, <3>4 DEF Dated
  <2>3. CASE StatusSweep \/ ReleaseSweep \/ UNCHANGED vars
    BY <2>0, <2>1, <2>3 DEF StatusSweep, ReleaseSweep, vars, Dated
  <2>4. ASSUME NEW a \in Attempts, now' = now, lag' = [lag EXCEPT ![a] = 0]
        PROVE  Dated'
    <3>1. 0 \in 0 .. LockWait
      BY BudgetAssumption
    <3>2. lag' \in [Attempts -> 0 .. LockWait]
      BY <2>0, <2>4, <3>1
    <3> QED
      BY <2>0, <2>1, <2>4, <3>2 DEF Dated
  <2>5. ASSUME NEW a \in Attempts,
               \/ Create(a) \/ ReserveAdmitted(a) \/ ReserveRefused(a)
               \/ MarkStarted(a) \/ StartRefused(a) \/ CallProvider(a)
               \/ Respond(a) \/ Settle(a) \/ SettleRefused(a) \/ MarkUnknown(a)
               \/ StoreUnavailable(a) \/ Crash(a)
        PROVE  now' = now /\ lag' = [lag EXCEPT ![a] = 0]
    BY <2>5 DEF Create, ReserveAdmitted, ReserveRefused, MarkStarted, StartRefused,
                CallProvider, Respond, Settle, SettleRefused, MarkUnknown,
                StoreUnavailable, Crash, GoTo
  <2> QED
    BY <1>2, <2>2, <2>3, <2>4, <2>5 DEF Next
<1> QED
  BY <1>1, <1>2

(* reserve latches the day of every call of unknown use that has expired   *)
(* by its clock reading, so a store it finds without a latch has none.     *)
LEMMA UnlatchedIsClear ==
    ASSUME IInv, Dated, NEW a \in Attempts, ReserveAdmitted(a)
    PROVE  Ambiguous(store, now - LockWait) = {}
<1>1. PICK current \in Readings(lag[a]) : ~Latched(Cleaned(current))
  BY DEF ReserveAdmitted
<1>0. /\ store.rows \in [Attempts -> Fields] /\ DatedStore(store)
      /\ now \in Nat /\ lag[a] \in 0 .. LockWait
  BY DEF IInv, Shape, Dated
<1>2. current \in Nat /\ now - LockWait <= current
  BY <1>0, BudgetAssumption DEF Readings
<1> DEFINE s == Release(store, current)
<1> SUFFICES ASSUME NEW b \in Ambiguous(store, now - LockWait) PROVE FALSE
  OBVIOUS
<1>3. /\ b \in Attempts /\ store.rows[b].state \in {"started", "unknown"}
      /\ store.rows[b].expires <= current
  <2>1. /\ b \in Attempts /\ store.rows[b].state \in {"started", "unknown"}
        /\ store.rows[b].expires <= now - LockWait
    BY DEF Ambiguous
  <2>2. store.rows[b].expires \in Int
    BY <1>0, <2>1 DEF Fields
  <2> QED
    BY <1>0, <1>2, <2>1, <2>2, BudgetAssumption
<1>4. s.rows[b] = store.rows[b]
  BY <1>3 DEF Release, Unstarted
<1>5. s.rows \in [Attempts -> Fields] /\ DatedStore(s)
  BY <1>0, ReleaseKeeps, CleanupDated
<1>6. Cleaned(current) = Sweep(s, current)
  BY DEF Cleaned
<1> HIDE DEF s
<1>7. b \in Ambiguous(s, current)
  BY <1>3, <1>4 DEF Ambiguous
<1> DEFINE d == s.rows[b].day
           row == s.days[d]
<1>8. d \in Days /\ "code" \in DOMAIN row
  BY <1>3, <1>5 DEF DatedStore, DayFields
<1>9. Sweep(s, current).days[d] =
          [row EXCEPT !.code = IF @ = "" THEN "started_usage_unknown" ELSE @,
                      !.updated = current]
  BY <1>3, <1>4, <1>7, <1>8 DEF Sweep, Lose
<1> HIDE DEF d, row
<1>10. Sweep(s, current).days[d].code # ""
  BY <1>8, <1>9
<1> QED
  BY <1>1, <1>6, <1>8, <1>10 DEF Latched

(* reserve admits nothing while a call of unknown use has expired (by more *)
(* than the wait for the lock), for any number of attempts and days: a     *)
(* reservation appears in no other way, and reserve has latched the day of *)
(* such a call before it looks for a latch.                                *)
THEOREM AmbiguityHoldsReserve == Spec => AmbiguityBlocks
<1>1. IInv /\ Dated /\ [Next]_vars =>
        [(\E a \in Attempts : /\ store.rows[a].state = "none"
                              /\ store'.rows[a].state = "reserved")
         => Ambiguous(store, now - LockWait) = {}]_vars
  BY StoreStep, UnlatchedIsClear DEF NoNewRow
<1> QED
  BY <1>1, InitIInv, NextIInv, DatedInvariance, PTL DEF Spec, AmbiguityBlocks

-----------------------------------------------------------------------------
(* The ceilings.  The refund of a release is a sum over a set; that it is  *)
(* never negative is shown by looking at a smallest set of which it would  *)
(* be.  Pick is the element the fold of MapThenSumSet takes first, and     *)
(* Sums says that g has the sum of every subset of T.                      *)
Pick(s) == CHOOSE x \in s : TRUE
Sums(g, rows, T) ==
    g = [s \in SUBSET T |->
            IF s = {} THEN 0 ELSE rows[Pick(s)].reserved + g[s \ {Pick(s)}]]

(* A non-empty set of subsets of a finite set has a smallest one. *)
LEMMA SmallestSubset ==
    ASSUME NEW T, IsFiniteSet(T), NEW B, B \subseteq SUBSET T, B # {}
    PROVE  \E X \in B : \A Y \in B : Y \subseteq X => Y = X
<1> DEFINE R == StrictSubsetOrdering(T)
<1>1. IsWellFoundedOn(R, SUBSET T)
  BY FS_FiniteSubsetsOfFinite, FS_StrictSubsetOrderingWellFounded
<1> HIDE DEF R
<1>2. PICK X \in B : \A Y \in B : <<Y, X>> \notin R
  BY <1>1, WFMin
<1>3. \A Y \in B : Y \subseteq X /\ Y # X => <<Y, X>> \in R
  BY DEF R, StrictSubsetOrdering
<1>4. \A Y \in B : Y \subseteq X => Y = X
  BY <1>2, <1>3
<1> QED
  BY <1>4

(* Sums over two sets agree on what is in both. *)
LEMMA SumsAgree ==
    ASSUME NEW rows, NEW T, NEW U \in SUBSET T, IsFiniteSet(U), NEW g, NEW h,
           Sums(g, rows, T), Sums(h, rows, U)
    PROVE  \A X \in SUBSET U : g[X] = h[X]
<1> DEFINE B == {X \in SUBSET U : g[X] # h[X]}
<1> SUFFICES ASSUME B # {} PROVE FALSE
  OBVIOUS
<1>0. B \subseteq SUBSET U
  OBVIOUS
<1> HIDE DEF B
<1>1. PICK X \in B : \A Y \in B : Y \subseteq X => Y = X
  BY <1>0, SmallestSubset
<1> USE DEF B
<1>2. X # {}
  BY <1>1 DEF Sums
<1>3. Pick(X) \in X
  BY <1>2 DEF Pick
<1>4. g[X \ {Pick(X)}] = h[X \ {Pick(X)}]
  BY <1>1, <1>3
<1>5. /\ g[X] = rows[Pick(X)].reserved + g[X \ {Pick(X)}]
      /\ h[X] = rows[Pick(X)].reserved + h[X \ {Pick(X)}]
  BY <1>1, <1>2 DEF Sums
<1> QED
  BY <1>1, <1>4, <1>5

(* There is a sum over every finite set. *)
LEMMA SumsExist ==
    ASSUME NEW rows, NEW A, IsFiniteSet(A)
    PROVE  \E g : Sums(g, rows, A)
<1> DEFINE B == {T \in SUBSET A : ~ \E g : Sums(g, rows, T)}
<1> SUFFICES ASSUME B # {} PROVE FALSE
  OBVIOUS
<1>0. B \subseteq SUBSET A
  OBVIOUS
<1> HIDE DEF B
<1>1. PICK T \in B : \A Y \in B : Y \subseteq T => Y = T
  BY <1>0, SmallestSubset
<1> USE DEF B
<1> DEFINE on(U) == CHOOSE g : Sums(g, rows, U)
           g == [s \in SUBSET T |->
                    IF s = {} THEN 0
                    ELSE rows[Pick(s)].reserved + on(s \ {Pick(s)})[s \ {Pick(s)}]]
<1>2. \A U \in SUBSET T : U # T => Sums(on(U), rows, U)
  BY <1>1
<1> HIDE DEF on
<1>3. ASSUME NEW s \in SUBSET T, s # {}
      PROVE  g[s \ {Pick(s)}] = on(s \ {Pick(s)})[s \ {Pick(s)}]
  <2> DEFINE U == s \ {Pick(s)}  V == U \ {Pick(U)}
  <2>1. U \in SUBSET T /\ U # T /\ V \in SUBSET U /\ V # T
    BY <1>3 DEF Pick
  <2>2. Sums(on(U), rows, U) /\ Sums(on(V), rows, V)
    BY <1>2, <2>1
  <2>3. IsFiniteSet(V)
    BY <1>1, <2>1, FS_Subset
  <2>4. on(U)[V] = on(V)[V]
    <3> HIDE DEF U, V
    <3>1. \A X \in SUBSET V : on(U)[X] = on(V)[X]
      BY <2>1, <2>2, <2>3, SumsAgree
    <3> QED
      BY <3>1
  <2>5. on(U)[U] = IF U = {} THEN 0 ELSE rows[Pick(U)].reserved + on(U)[V]
    BY <2>2 DEF Sums
  <2>6. g[U] = IF U = {} THEN 0 ELSE rows[Pick(U)].reserved + on(V)[V]
    BY <2>1
  <2> QED
    BY <2>4, <2>5, <2>6
<1>4. Sums(g, rows, T)
  <2>1. \A s \in SUBSET T : g[s] = IF s = {} THEN 0
                                   ELSE rows[Pick(s)].reserved + g[s \ {Pick(s)}]
    BY <1>3
  <2>2. g = [s \in SUBSET T |-> g[s]]
    OBVIOUS
  <2> HIDE DEF g
  <2> QED
    BY <2>1, <2>2 DEF Sums
<1> QED
  BY <1>1, <1>4

(* The tokens a release of the reservations A gives back. *)
Refund(rows, A) == MapThenSumSet(LAMBDA a : rows[a].reserved, A)

(* A refund is a natural number. *)
LEMMA RefundIsNat ==
    ASSUME NEW rows, NEW A, IsFiniteSet(A), \A a \in A : rows[a].reserved \in Nat
    PROVE  Refund(rows, A) \in Nat
<1> DEFINE g == CHOOSE g : Sums(g, rows, A)
<1>1. Refund(rows, A) = g[A]
  BY DEF Refund, MapThenSumSet, MapThenFoldSet, Sums, Pick
<1>2. Sums(g, rows, A)
  BY SumsExist
<1> HIDE DEF g
<1> DEFINE B == {X \in SUBSET A : g[X] \notin Nat}
<1>3. ASSUME B # {} PROVE FALSE
  <2>0. B \subseteq SUBSET A
    OBVIOUS
  <2> HIDE DEF B
  <2>1. PICK X \in B : \A Y \in B : Y \subseteq X => Y = X
    BY <1>3, <2>0, SmallestSubset
  <2> USE DEF B
  <2>2. X # {}
    BY <1>2, <2>1 DEF Sums
  <2>3. Pick(X) \in X
    BY <2>2 DEF Pick
  <2>4. g[X \ {Pick(X)}] \in Nat
    BY <2>1, <2>3
  <2>5. g[X] = rows[Pick(X)].reserved + g[X \ {Pick(X)}]
    BY <1>2, <2>1, <2>2 DEF Sums
  <2> QED
    BY <2>1, <2>3, <2>4, <2>5
<1> QED
  BY <1>1, <1>3

(* What the day rows of a store are charged is within the ceilings, unless *)
(* the day is latched.                                                     *)
Booked(s) ==
    /\ \A b \in Attempts : s.rows[b].reserved \in Nat
    /\ \A d \in Days :
          /\ s.days[d].calls \in Int /\ s.days[d].calls <= CallLimit
          /\ s.days[d].tokens \in Int
          /\ s.days[d].tokens <= TokenLimit \/ s.days[d].code # ""

(* A release only lowers what is charged. *)
LEMMA ReleaseBooked ==
    ASSUME IsFiniteSet(Attempts), NEW s, NEW current, s.rows \in [Attempts -> Fields],
           DatedStore(s), Booked(s)
    PROVE  Booked(Release(s, current))
<1> DEFINE gone == Unstarted(s, current)
           of(d) == {a \in gone : s.rows[a].day = d}
           calls(d) == Cardinality(of(d))
           tokens(d) == Refund(s.rows, of(d))
           new(d) == Release(s, current).days[d]
<1>1. \A b \in Attempts : Release(s, current).rows[b].reserved = s.rows[b].reserved
  BY DEF Release, Fields
<1>2. ASSUME NEW d \in Days
      PROVE  /\ new(d).calls \in Int /\ new(d).calls <= s.days[d].calls
             /\ new(d).tokens \in Int /\ new(d).tokens <= s.days[d].tokens
             /\ new(d).code = s.days[d].code
  <2>1. of(d) \in SUBSET Attempts
    BY DEF Unstarted
  <2>2. IsFiniteSet(of(d))
    BY <2>1, FS_Subset
  <2>3. calls(d) \in Nat
    BY <2>2, FS_CardinalityType
  <2>4. \A a \in of(d) : s.rows[a].reserved \in Nat
    BY <2>1 DEF Booked
  <2>5. tokens(d) \in Nat
    BY <2>2, <2>4, RefundIsNat
  <2>6. new(d) = IF of(d) = {} THEN s.days[d]
                 ELSE [s.days[d] EXCEPT !.calls = @ - calls(d),
                                        !.tokens = @ - tokens(d),
                                        !.updated = current]
    BY Zenon DEF Release, Refund
  <2> HIDE DEF new, of, calls, tokens
  <2>7. /\ DOMAIN s.days[d] = DayFields
        /\ s.days[d].calls \in Int /\ s.days[d].tokens \in Int
    BY DEF DatedStore, Booked
  <2> DEFINE day == s.days[d]
  <2> HIDE DEF day
  <2> QED
    BY <2>3, <2>5, <2>6, <2>7 DEF day, DayFields
<1> HIDE DEF new
<1>3. \A d \in Days : /\ new(d).calls \in Int /\ new(d).calls <= CallLimit
                      /\ new(d).tokens \in Int
                      /\ new(d).tokens <= TokenLimit \/ new(d).code # ""
  <2> TAKE d \in Days
  <2> DEFINE day == s.days[d]  day2 == new(d)
  <2>1. /\ day2.calls \in Int /\ day2.calls <= day.calls
        /\ day2.tokens \in Int /\ day2.tokens <= day.tokens
        /\ day2.code = day.code
    BY <1>2
  <2>2. /\ day.calls \in Int /\ day.calls <= CallLimit
        /\ day.tokens \in Int
        /\ day.tokens <= TokenLimit \/ day.code # ""
    BY DEF Booked
  <2> HIDE DEF day, day2
  <2>3. /\ day2.calls \in Int /\ day2.calls <= CallLimit
        /\ day2.tokens \in Int
        /\ day2.tokens <= TokenLimit \/ day2.code # ""
    <3>0. /\ day.calls \in Int /\ day2.calls \in Int
          /\ day2.calls <= day.calls /\ day.calls <= CallLimit
          /\ day.tokens \in Int /\ day2.tokens \in Int
          /\ day2.tokens <= day.tokens
      BY <2>1, <2>2, Zenon
    <3>1. day2.calls \in Int /\ day2.calls <= CallLimit /\ day2.tokens \in Int
      BY <3>0, BudgetAssumption
    <3>2. day.tokens <= TokenLimit => day2.tokens <= TokenLimit
      BY <3>0, BudgetAssumption
    <3>3. day.code # "" => day2.code # ""
      BY <2>1, Zenon
    <3> QED
      BY <2>2, <3>1, <3>2, <3>3, Zenon
  <2> QED
    BY <2>3 DEF day2
<1> QED
  BY <1>1, <1>3 DEF Booked, new

(* A sweep charges nothing, and takes no latch away. *)
LEMMA LoseBooked ==
    ASSUME NEW s, NEW lost, NEW current, s.rows \in [Attempts -> Fields],
           DatedStore(s), Booked(s)
    PROVE  Booked(Lose(s, lost, current))
<1> DEFINE new(d) == Lose(s, lost, current).days[d]
<1>1. \A b \in Attempts : Lose(s, lost, current).rows[b].reserved = s.rows[b].reserved
  BY DEF Lose, Fields
<1>2. ASSUME NEW d \in Days
      PROVE  /\ new(d).calls = s.days[d].calls /\ new(d).tokens = s.days[d].tokens
             /\ s.days[d].code # "" => new(d).code # ""
  <2> DEFINE day == s.days[d]
  <2>1. \/ new(d) = day
        \/ new(d) = [day EXCEPT !.code = IF @ = "" THEN "started_usage_unknown" ELSE @,
                                !.updated = current]
    BY DEF Lose
  <2>2. DOMAIN day = DayFields
    BY DEF DatedStore
  <2> HIDE DEF new, day
  <2>3. /\ new(d).calls = day.calls /\ new(d).tokens = day.tokens
        /\ day.code # "" => new(d).code # ""
    BY <2>1, <2>2 DEF DayFields
  <2> QED
    BY <2>3 DEF day
<1> HIDE DEF new
<1>3. \A d \in Days : /\ new(d).calls \in Int /\ new(d).calls <= CallLimit
                      /\ new(d).tokens \in Int
                      /\ new(d).tokens <= TokenLimit \/ new(d).code # ""
  BY <1>2 DEF Booked
<1> QED
  BY <1>1, <1>3 DEF Booked, new

(* An admitted reserve charges what the ceilings leave. *)
LEMMA InsertBooked ==
    ASSUME NEW s, NEW a \in Attempts, NEW size \in Nat, NEW current,
           s.rows \in [Attempts -> Fields], DatedStore(s), Booked(s),
           DayOf(current) \in Days, ~OverLimit(s, size, current)
    PROVE  Booked(Insert(s, a, size, current))
<1> DEFINE d0 == DayOf(current)
           row == [state |-> "reserved", day |-> d0, reserved |-> size,
                   used |-> 0, expires |-> current + TTL]
           day == s.days[d0]
           day2 == [day EXCEPT !.calls = @ + 1, !.tokens = @ + size, !.updated = current]
           new == Insert(s, a, size, current)
<1>1. new.rows = [s.rows EXCEPT ![a] = row]
  BY DEF Insert
<1>2. row.reserved = size
  OBVIOUS
<1>3. d0 \in Days /\ s.days = [d \in Days |-> s.days[d]] /\ DOMAIN day = DayFields
  BY DEF DatedStore
<1>4. /\ day.calls \in Int /\ day.tokens \in Int
      /\ day.calls + 1 <= CallLimit /\ day.tokens + size <= TokenLimit
  <2>1. day.calls \in Int /\ day.tokens \in Int
    BY <1>3 DEF Booked
  <2>2. ~(day.calls + 1 > CallLimit) /\ ~(day.tokens + size > TokenLimit)
    BY DEF OverLimit
  <2> HIDE DEF day
  <2> QED
    BY <2>1, <2>2, BudgetAssumption
<1>5. new.days = [s.days EXCEPT ![d0].calls = @ + 1, ![d0].tokens = @ + size,
                                ![d0].updated = current]
  BY DEF Insert
<1> HIDE DEF row, d0
<1>6. new.days[d0] = day2 /\ \A d \in Days : d # d0 => new.days[d] = s.days[d]
  <2> HIDE DEF new
  <2> QED
    BY <1>3, <1>5
<1>7. \A b \in Attempts : new.rows[b].reserved \in Nat
  BY <1>1, <1>2 DEF Booked
<1>8. day2.calls = day.calls + 1 /\ day2.tokens = day.tokens + size
  <2> HIDE DEF day
  <2> QED
    BY <1>3 DEF DayFields
<1> HIDE DEF new, day, day2
<1>9. ASSUME NEW d \in Days
      PROVE  /\ new.days[d].calls \in Int /\ new.days[d].calls <= CallLimit
             /\ new.days[d].tokens \in Int
             /\ new.days[d].tokens <= TokenLimit \/ new.days[d].code # ""
  <2>1. CASE d = d0
    <3>1. /\ day2.calls \in Int /\ day2.calls <= CallLimit
          /\ day2.tokens \in Int /\ day2.tokens <= TokenLimit
      BY <1>4, <1>8
    <3> QED
      BY <1>6, <2>1, <3>1
  <2>2. CASE d # d0
    BY <1>6, <2>2 DEF Booked
  <2> QED
    BY <2>1, <2>2
<1> QED
  BY <1>7, <1>9 DEF Booked, new

(* A settlement charges no more than was reserved, or latches the day. *)
LEMMA SettledBooked ==
    ASSUME NEW a \in Attempts, NEW usage \in Nat, NEW current,
           store.rows \in [Attempts -> Fields], DatedStore(store), Booked(store)
    PROVE  Booked(Settled(store, a, usage, current))
<1> DEFINE r == store.rows[a]
           day == store.days[r.day]
           day2 == [day EXCEPT !.tokens = @ - r.reserved + usage,
                               !.code = IF usage > r.reserved
                                        THEN "usage_over_reservation" ELSE @,
                               !.updated = current]
           new == Settled(store, a, usage, current)
           rows == [store.rows EXCEPT ![a].state = "settled", ![a].used = usage]
<1>1. new.rows = rows
  BY Zenon DEF Settled
<1>2. \A b \in Attempts : rows[b].reserved = store.rows[b].reserved
  BY DEF Fields
<1>3. /\ r.day \in Days /\ store.days = [d \in Days |-> store.days[d]]
      /\ DOMAIN day = DayFields /\ r.reserved \in Nat
  BY DEF DatedStore, Booked
<1>4. /\ day.calls \in Int /\ day.calls <= CallLimit /\ day.tokens \in Int
      /\ day.tokens <= TokenLimit \/ day.code # ""
  BY <1>3 DEF Booked
<1>5. new.days = [store.days EXCEPT ![r.day].tokens = @ - r.reserved + usage,
                                    ![r.day].code = IF usage > r.reserved
                                                    THEN "usage_over_reservation" ELSE @,
                                    ![r.day].updated = current]
  BY DEF Settled
<1>6. new.days[r.day] = day2 /\ \A d \in Days : d # r.day => new.days[d] = store.days[d]
  <2> HIDE DEF new, r
  <2> QED
    BY <1>3, <1>5
<1> HIDE DEF rows
<1>7. \A b \in Attempts : new.rows[b].reserved \in Nat
  BY <1>1, <1>2 DEF Booked
<1>8. /\ day2.calls = day.calls /\ day2.tokens = day.tokens - r.reserved + usage
      /\ day2.code = IF usage > r.reserved THEN "usage_over_reservation" ELSE day.code
  <2> HIDE DEF day, r
  <2> QED
    BY <1>3 DEF DayFields
<1> HIDE DEF new, day, day2, r
<1>9. /\ day2.calls \in Int /\ day2.calls <= CallLimit /\ day2.tokens \in Int
      /\ day2.tokens <= TokenLimit \/ day2.code # ""
  <2>1. day2.calls \in Int /\ day2.calls <= CallLimit /\ day2.tokens \in Int
    <3>1. day2.calls \in Int /\ day2.calls <= CallLimit
      BY <1>4, <1>8, Zenon
    <3>2. day2.tokens = day.tokens - r.reserved + usage
      BY <1>8
    <3>3. day.tokens \in Int /\ r.reserved \in Nat
      BY <1>3, <1>4
    <3> QED
      BY <3>1, <3>2, <3>3
  <2>2. CASE usage > r.reserved
    <3>1. day2.code # ""
      BY <1>8, <2>2
    <3> QED
      BY <2>1, <3>1, Zenon
  <2>3. CASE ~(usage > r.reserved)
    <3>1. day2.code = day.code
      BY <1>8, <2>3, Zenon
    <3>2. day2.tokens <= day.tokens
      <4>1. day2.tokens = day.tokens - r.reserved + usage
        BY <1>8
      <4>2. day.tokens \in Int /\ r.reserved \in Nat
        BY <1>3, <1>4
      <4> QED
        BY <2>3, <4>1, <4>2
    <3>3. day.tokens <= TokenLimit => day2.tokens <= TokenLimit
      <4>1. day.tokens \in Int /\ day2.tokens \in Int
        BY <1>4, <2>1
      <4> QED
        BY <3>2, <4>1, BudgetAssumption
    <3> QED
      BY <1>4, <2>1, <3>1, <3>3, Zenon
  <2> QED
    BY <2>2, <2>3
<1>10. ASSUME NEW d \in Days
       PROVE  /\ new.days[d].calls \in Int /\ new.days[d].calls <= CallLimit
              /\ new.days[d].tokens \in Int
              /\ new.days[d].tokens <= TokenLimit \/ new.days[d].code # ""
  <2>1. CASE d = r.day
    BY <1>6, <1>9, <2>1
  <2>2. CASE d # r.day
    BY <1>6, <2>2 DEF Booked
  <2> QED
    BY <2>1, <2>2
<1> QED
  BY <1>7, <1>10 DEF Booked, new

(* Every write of the service keeps the day rows within the ceilings. *)
LEMMA BookedStep ==
    ASSUME IsFiniteSet(Attempts), IInv, Dated, Booked(store), [Next]_vars
    PROVE  Booked(store')
<1>0. /\ store = [rows |-> store.rows, days |-> store.days]
      /\ store.rows \in [Attempts -> Fields] /\ DatedStore(store)
      /\ now \in Nat /\ now <= MaxTime
  BY DEF IInv, Shape, Dated
<1>1. ASSUME NEW current PROVE Booked(Cleaned(current))
  <2> DEFINE s == Release(store, current)
  <2>1. s.rows \in [Attempts -> Fields] /\ DatedStore(s) /\ Booked(s)
    BY <1>0, ReleaseKeeps, CleanupDated, ReleaseBooked
  <2> HIDE DEF s
  <2>2. Booked(Sweep(s, current))
    BY <2>1, LoseBooked DEF Sweep
  <2> QED
    BY <2>2 DEF Cleaned, s
<1>2. ASSUME NEW a \in Attempts, ReserveAdmitted(a) PROVE Booked(store')
  <2>1. PICK current \in Readings(lag[a]), size \in Sizes :
            /\ ~OverLimit(Cleaned(current), size, current)
            /\ store' = Insert(Cleaned(current), a, size, current)
    BY <1>2 DEF ReserveAdmitted
  <2>2. DayOf(current) \in Days /\ size \in Nat
    BY <1>0, ReadingIsDated, BudgetAssumption
  <2> QED
    BY <1>1, <2>1, <2>2, CleanedDated, InsertBooked
<1>3. ASSUME NEW a \in Attempts, ReserveRefused(a) PROVE Booked(store')
  BY <1>1, <1>3 DEF ReserveRefused
<1>4. ASSUME NEW a \in Attempts, MarkStarted(a) PROVE Booked(store')
  <2> DEFINE rows == [store.rows EXCEPT ![a].state = "started"]
  <2>1. store' = [rows |-> rows, days |-> store.days]
    BY <1>0, <1>4 DEF MarkStarted
  <2>2. \A b \in Attempts : rows[b].reserved = store.rows[b].reserved
    BY <1>0 DEF Fields
  <2> HIDE DEF rows
  <2>3. store'.rows = rows /\ store'.days = store.days
    BY <2>1
  <2> QED
    BY <2>2, <2>3 DEF Booked
<1>5. ASSUME NEW a \in Attempts, Settle(a) PROVE Booked(store')
  <2>1. PICK current \in Readings(lag[a]), usage \in Usages :
            store' = Settled(store, a, usage, current)
    BY <1>5 DEF Settle
  <2>2. usage \in Nat
    BY BudgetAssumption
  <2> QED
    BY <1>0, <2>1, <2>2, SettledBooked
<1>6. ASSUME NEW a \in Attempts, MarkUnknown(a) PROVE Booked(store')
  <2>1. PICK current \in Readings(lag[a]) :
            store' = store \/ store' = Lose(store, {a}, current)
    BY <1>6 DEF MarkUnknown
  <2> QED
    BY <1>0, <2>1, LoseBooked
<1>7. ASSUME StatusSweep \/ ReleaseSweep PROVE Booked(store')
  <2>1. PICK current \in Readings(LockWait) :
            store' = Sweep(store, current) \/ store' = Release(store, current)
    BY <1>7 DEF StatusSweep, ReleaseSweep
  <2> QED
    BY <1>0, <2>1, LoseBooked, ReleaseBooked DEF Sweep
<1>8. ASSUME NEW a \in Attempts,
             Create(a) \/ StartRefused(a) \/ CallProvider(a) \/ Respond(a)
             \/ SettleRefused(a) \/ StoreUnavailable(a) \/ Crash(a)
      PROVE  store' = store
  BY <1>8 DEF Create, StartRefused, CallProvider, Respond, SettleRefused,
              StoreUnavailable, Crash
<1>9. Tick \/ UNCHANGED vars => store' = store
  BY DEF Tick, vars
<1> QED
  BY <1>2, <1>3, <1>4, <1>5, <1>6, <1>7, <1>8, <1>9 DEF Next

(* However reservations, refunds, settlements and midnights interleave, no *)
(* day is charged more calls than its ceiling, and none more tokens unless *)
(* it is latched, for any finite number of attempts and every ceiling.     *)
THEOREM CeilingsHold == ASSUME IsFiniteSet(Attempts) PROVE Spec => []CeilingHeld
<1>1. ASSUME Init PROVE Booked(store)
  <2>1. /\ \A b \in Attempts : store.rows[b].reserved = 0
        /\ \A d \in Days : store.days[d].calls = 0 /\ store.days[d].tokens = 0
    BY <1>1 DEF Init
  <2>2. \A d \in Days : /\ store.days[d].calls \in Int
                        /\ store.days[d].calls <= CallLimit
                        /\ store.days[d].tokens \in Int
                        /\ store.days[d].tokens <= TokenLimit
    BY <2>1, BudgetAssumption
  <2>3. \A b \in Attempts : store.rows[b].reserved \in Nat
    BY <2>1
  <2> QED
    BY <2>2, <2>3, Zenon DEF Booked
<1>2. IInv /\ Dated /\ Booked(store) /\ [Next]_vars => Booked(store)'
  BY BookedStep
<1>3. Booked(store) => CeilingHeld
  BY DEF Booked, CeilingHeld
<1> QED
  BY <1>1, <1>2, <1>3, InitIInv, NextIInv, DatedInvariance, PTL DEF Spec

==============================================================================
