------------------------------ MODULE PnLLedger ------------------------------
(***************************************************************************)
(* The first-in-first-out ledger of risk/pnl.py: fills are imported in any *)
(* order, replayed in the order of their times, and every closing chunk is *)
(* attributed to the time of the fill that closes it.  The daily loss      *)
(* limit rests on the sum since the day's boundary.                        *)
(***************************************************************************)
EXTENDS Integers, Sequences, FiniteSets, FiniteSetsExt, SequencesExt

CONSTANTS Tickers, Quantities, Prices,
          MaxFills,   \* bound; fills have the times 1..MaxFills
          Week        \* days of the calendar the boundaries are checked on (bound)

LedgerAssumption ==
    /\ Quantities \subseteq Nat \ {0}
    /\ Prices \subseteq Nat
    /\ {MaxFills, Week} \subseteq Nat

VARIABLE fills   \* the fills imported so far, with different times

Times == 1..MaxFills
Fills == [ticker : Tickers, side : {"buy", "sell"}, qty : Quantities, price : Prices,
          filled_at : Times]

TypeOK == fills \subseteq Fills /\ IsFiniteSet(fills)

Init == fills = {}

(* Reconciliation imports a fill, perhaps an old one after younger ones. *)
Import(f) ==
    /\ \A g \in fills : g.filled_at # f.filled_at
    /\ fills' = fills \cup {f}

Next == \E f \in Fills : Import(f)
Spec == Init /\ [][Next]_fills

-----------------------------------------------------------------------------
Sorted(fs) == SetToSortSeq(fs, LAMBDA f, g : f.filled_at < g.filled_at)

Delta(f) == IF f.side = "buy" THEN f.qty ELSE -f.qty
Least(a, b) == IF a < b THEN a ELSE b
Magnitude(n) == IF n < 0 THEN -n ELSE n
Towards0(n, by) == IF n < 0 THEN n + by ELSE n - by

(* What closing part of a lot earns. *)
Gain(lot, close_qty, price) ==
    IF lot.qty > 0 THEN (price - lot.price) * close_qty ELSE (lot.price - price) * close_qty

(* The oldest lot with what is left of it. *)
AfterClosing(book, lot) == IF lot.qty = 0 THEN Tail(book) ELSE <<lot>> \o Tail(book)

(* Close lots of the other sign while there are any, oldest first; what    *)
(* remains of the fill opens a lot.                                        *)
RECURSIVE Replay(_, _, _, _)
Replay(book, delta, price, earned) ==
    IF delta # 0 /\ book # <<>> /\ (Head(book).qty > 0) # (delta > 0)
    THEN LET lot == Head(book)
             close_qty == Least(Magnitude(lot.qty), Magnitude(delta))
         IN  Replay(AfterClosing(book, [lot EXCEPT !.qty = Towards0(@, close_qty)]),
                    Towards0(delta, close_qty), price, earned + Gain(lot, close_qty, price))
    ELSE [book |-> IF delta = 0 THEN book
                   ELSE Append(book, [qty |-> delta, price |-> price]),
          earned |-> earned]

(* Books by ticker and the chunks earned, fill by fill. *)
ReplayFill(state, f) ==
    LET r == Replay(state.books[f.ticker], Delta(f), f.price, 0)
    IN  [books |-> [state.books EXCEPT ![f.ticker] = r.book],
         events |-> Append(state.events, [at |-> f.filled_at, pnl |-> r.earned])]

Ledger(fs) ==
    FoldLeft(ReplayFill, [books |-> [t \in Tickers |-> <<>>], events |-> <<>>], Sorted(fs))

Since(events, since) == SelectSeq(events, LAMBDA e : e.at >= since)

realized_pnl(fs, since) ==
    FoldLeft(LAMBDA sum, e : sum + e.pnl, 0, Since(Ledger(fs).events, since))

-----------------------------------------------------------------------------
(* The daily boundaries.  Time is counted in thirds of a day: before the   *)
(* open, the open, after it.  Day 0 is a Monday.                           *)
Weekday(day) == day % 7 < 5
OpenOf(day) == 3 * day + 1

RECURSIVE RollBack(_)
RollBack(day) == IF Weekday(day) THEN day ELSE RollBack(day - 1)

(* Today's open, or yesterday's before it; weekends roll back to Friday. *)
most_recent_regular_open(now) ==
    LET day == now \div 3 IN
    OpenOf(RollBack(IF OpenOf(day) > now THEN day - 1 ELSE day))

-----------------------------------------------------------------------------
(* Reference: the account's cash, and of every ticker the most recent      *)
(* units of the side it is on, as many as are held: first in, first out    *)
(* leaves just these.                                                      *)
Side(fs, t, s) == {f \in fs : f.ticker = t /\ f.side = s}
Quantity(fs) == MapThenSumSet(LAMBDA f : f.qty, fs)
Position(fs, t) == Quantity(Side(fs, t, "buy")) - Quantity(Side(fs, t, "sell"))
Younger(fs, f) == {g \in fs : g.filled_at > f.filled_at}

(* How many of the last n units of the fills fs are units of f. *)
Left(fs, n, f) ==
    LET rest == n - Quantity(Younger(fs, f)) IN
    IF rest <= 0 THEN 0 ELSE Least(rest, f.qty)

CostOfHeld(fs, t) ==
    LET n == Position(fs, t)
        kept == Side(fs, t, IF n > 0 THEN "buy" ELSE "sell")
    IN  MapThenSumSet(LAMBDA f : Left(kept, Magnitude(n), f) * f.price, kept)
          * (IF n > 0 THEN 1 ELSE -1)

Cash(fs) == MapThenSumSet(LAMBDA f : -Delta(f) * f.price, fs)
Earned(fs) == Cash(fs) + MapThenSumSet(LAMBDA t : CostOfHeld(fs, t), Tickers)

(* Whatever the order in which fills arrive, and for every boundary, the   *)
(* realized gain since the boundary is the account's: cash received plus   *)
(* the cost of the units still held, less the same as of the boundary.     *)
LedgerIsFifo ==
    \A since \in 0..MaxFills + 1 :
      realized_pnl(fills, since) =
        Earned(fills) - Earned({f \in fills : f.filled_at < since})

(* The day's boundary is the latest weekday open at or before the moment,  *)
(* whatever the weekday and the time of day.                               *)
BoundaryIsLatest ==
    \A now \in 22..3 * Week :
      LET b == most_recent_regular_open(now)
          opens == {OpenOf(d) : d \in {e \in 0..Week : Weekday(e)}}
      IN  /\ b \in opens /\ b <= now
          /\ \A o \in opens : o <= now => o <= b

=============================================================================
