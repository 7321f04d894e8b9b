------------------------------ MODULE FillLedger ------------------------------
(***************************************************************************)
(* The fill ledger and its cursor (orders/reconciliation.py): how a        *)
(* reconciliation pass imports the broker's fill activities, row by row,   *)
(* beside the rows that older versions of the program left behind, and     *)
(* when the quantity of an order counts as settled.                        *)
(*                                                                         *)
(* A pass runs under the submission barrier, so there is one at a time,    *)
(* but it is several transactions with broker reads between them: the      *)
(* broker executes, shows activities late, repeats and corrects them in    *)
(* between, and the process may die after every commit.                    *)
(***************************************************************************)
EXTENDS OrderLifecycle, Integers, Sequences, FiniteSets, SequencesExt, FiniteSetsExt

CONSTANTS Orders,     \* orders of this program
          OrderQty,  \* the quantity each asks for
          Executions, \* the broker's executions, also their activity ids
          OrderOf,    \* execution |-> its order (Foreign: not one of ours)
          QtyOf,      \* execution |-> its quantity
          TimeOf,     \* execution |-> its exchange time
          Old,        \* rows of older versions
          OldRows,    \* their contents
          Past,       \* executions from before this version
          Tagged,     \* those of them it booked without trust
          Foreign, NoOrder,
          Overlap,    \* how far behind the cursor a query reaches
          Distortions, \* bound on wrong reports of the broker
          Crashes      \* bound on deaths of the process

RowIds == Executions \cup Old

LedgerAssumption ==
    /\ OrderQty \in Nat \ {0}
    /\ OrderOf \in [Executions -> Orders \cup {Foreign}]
    /\ QtyOf \in [Executions -> Nat \ {0}]
    /\ TimeOf \in [Executions -> Nat \ {0}]
    /\ RowIds \subseteq Int /\ Executions \cap Old = {} /\ Tagged \subseteq Past
    /\ Past \subseteq Executions
    /\ OldRows \in [Old -> [order : Orders \cup {NoOrder}, qty : Nat,
                            state : {"blank", "synthetic"}]]
    /\ Overlap \in Nat \ {0} /\ Distortions \in Nat /\ Crashes \in Nat

VARIABLES rows,    \* the fills table
          order,   \* what the local order rows say
          cursor,  \* time of the fill cursor, 0 before the first
          drift,   \* the broker_drift breaker
          pass,    \* the running reconciliation pass
          broker,  \* executions, what the feed shows of them, ended orders
          crashes, \* deaths so far
          offered  \* executions a committed import was given (history)

vars == <<rows, order, cursor, drift, pass, broker, crashes, offered>>

(* "blank" has no broker fill id; "synthetic" has one made up from the     *)
(* cumulative quantity; "trusted" has the id of an activity.               *)
RowStates == {"absent", "blank", "synthetic", "trusted", "quarantined", "superseded"}
Reports == {"true", "wrong", "invalid", "garbled"}
Errors == {"", "indeterminate_cancel", "other"}
NoPass == [at |-> "idle", faults |-> FALSE, complete |-> FALSE, blocked |-> {},
           todo |-> {}]

TypeOK ==
    /\ \A k \in RowIds : /\ rows[k].order \in Orders \cup {NoOrder}
                         /\ rows[k].qty \in Nat /\ rows[k].state \in RowStates
    /\ order \in [Orders -> [known : BOOLEAN, status : Statuses, latched : BOOLEAN,
                             error : Errors]]
    /\ cursor \in {0} \cup {TimeOf[e] : e \in Executions}
    /\ drift \in BOOLEAN
    /\ pass.at \in {"idle", "resolve", "fills", "statuses", "finish"}
    /\ pass.blocked \cup pass.todo \subseteq Orders
    /\ broker.done \subseteq Executions /\ broker.shown \subseteq broker.done
    /\ broker.here \cup broker.ended \subseteq Orders
    /\ broker.report \in [Executions -> Reports] /\ offered \subseteq Executions
    /\ crashes \in 0 .. Crashes

(* Orders with an old row were sent long ago and are known; the others     *)
(* have just been claimed, and their request may still be on its way.      *)
HasPast(o) == (\E k \in Old : OldRows[k].order = o) \/ (\E e \in Past : OrderOf[e] = o)

Init ==
    /\ rows = [k \in RowIds |->
                  IF k \in Old THEN OldRows[k]
                  ELSE IF k \in Tagged
                       THEN [order |-> OrderOf[k], qty |-> QtyOf[k], state |-> "quarantined"]
                       ELSE [order |-> NoOrder, qty |-> 0, state |-> "absent"]]
    /\ order = [o \in Orders |->
                   [known |-> HasPast(o), latched |-> \E e \in Tagged : OrderOf[e] = o,
                    status |-> IF HasPast(o) THEN "SUBMITTED" ELSE "ACCEPTANCE_UNKNOWN",
                    error |-> IF \E e \in Tagged : OrderOf[e] = o THEN "other" ELSE ""]]
    /\ cursor = 0 /\ drift = FALSE /\ pass = NoPass /\ offered = {} /\ crashes = 0
    /\ broker = [done |-> Past, shown |-> {}, ended |-> {},
                 here |-> {o \in Orders : HasPast(o)},
                 report |-> [e \in Executions |-> "true"], distortions |-> 0]

-----------------------------------------------------------------------------
(* What the broker does; what its answers say *)

Executed(o) ==
    MapThenSumSet(LAMBDA e : QtyOf[e], {e \in broker.done : OrderOf[e] = o})

Arrive(o) ==
    /\ o \notin broker.here
    /\ broker' = [broker EXCEPT !.here = @ \cup {o}]
    /\ UNCHANGED <<rows, order, cursor, drift, pass, crashes, offered>>

Execute(e) ==
    /\ e \notin broker.done
    /\ OrderOf[e] # Foreign => OrderOf[e] \in broker.here \ broker.ended
    /\ broker' = [broker EXCEPT
                    !.done = @ \cup {e},
                    !.ended = @ \cup {o \in Orders : /\ o = OrderOf[e]
                                                     /\ Executed(o) + QtyOf[e] >= OrderQty}]
    /\ UNCHANGED <<rows, order, cursor, drift, pass, crashes, offered>>

(* Activities appear in any order, long after other ones too. *)
Show(e) ==
    /\ e \in broker.done \ broker.shown
    /\ broker' = [broker EXCEPT !.shown = @ \cup {e}]
    /\ UNCHANGED <<rows, order, cursor, drift, pass, crashes, offered>>

EndOrder(o) ==
    /\ o \in broker.here \ broker.ended
    /\ broker' = [broker EXCEPT !.ended = @ \cup {o}]
    /\ UNCHANGED <<rows, order, cursor, drift, pass, crashes, offered>>

Distort(e, how) ==
    /\ e \in broker.shown /\ broker.distortions < Distortions
    /\ how # broker.report[e]
    /\ broker' = [broker EXCEPT !.report[e] = how, !.distortions = @ + 1]
    /\ UNCHANGED <<rows, order, cursor, drift, pass, crashes, offered>>

(* A cancellation whose outcome stayed open (service.py). *)
CancelInDoubt(o) ==
    /\ pass.at = "idle" /\ order[o].known /\ ~order[o].latched
    /\ order[o].status = "SUBMITTED"
    /\ order' = [order EXCEPT ![o].latched = TRUE, ![o].error = "indeterminate_cancel"]
    /\ UNCHANGED <<rows, cursor, drift, pass, broker, crashes, offered>>

RemoteStatus(o) ==
    IF o \in broker.ended THEN IF Executed(o) >= OrderQty THEN "FILLED" ELSE "CANCELED"
    ELSE IF Executed(o) > 0 THEN "PARTIALLY_FILLED" ELSE "SUBMITTED"

(* get_fill_activities *)
Feed(after) == {e \in broker.shown : after = 0 \/ TimeOf[e] > after - Overlap}
ReportedQty(e) == IF broker.report[e] = "wrong" THEN QtyOf[e] + 1 ELSE QtyOf[e]

-----------------------------------------------------------------------------
(* Quantities of the ledger; t is a fills table *)

RowsOf(t, o) == {k \in RowIds : t[k].order = o}
SumOf(t, ks) == MapThenSumSet(LAMBDA k : t[k].qty, ks)
TrustedExactQty(t, o) == SumOf(t, {k \in RowsOf(t, o) : t[k].state = "trusted"})
RecordedQty(t, o) ==
    SumOf(t, {k \in RowsOf(t, o) : t[k].state \in {"trusted", "synthetic"}})
Unmatched(t, o) == {k \in RowsOf(t, o) : t[k].state \in {"blank", "quarantined"}}
Overfilled(t, o) == TrustedExactQty(t, o) > OrderQty

Latch(ords, os) == [o \in Orders |-> IF o \in os THEN [ords[o] EXCEPT !.latched = TRUE,
                                                                     !.error = "other"]
                                     ELSE ords[o]]

-----------------------------------------------------------------------------
(* A reconciliation pass *)

QuarantineRows ==
    [k \in RowIds |-> IF rows[k].state = "blank" THEN [rows[k] EXCEPT !.state = "quarantined"]
                      ELSE rows[k]]
QuarantineLegacyFills ==
    /\ pass.at = "idle"
    /\ rows' = QuarantineRows
    /\ order' = Latch(order, {o \in Orders : Unmatched(rows, o) # {}})
    /\ pass' = [NoPass EXCEPT !.at = "resolve"]
    /\ UNCHANGED <<cursor, drift, broker, crashes, offered>>

(* The answer to a lookup by client id, for every order in doubt: a fill   *)
(* quantity latches the order.                                             *)
ResolveUnknown ==
    LET doubt == {o \in Orders : order[o].status = "ACCEPTANCE_UNKNOWN"}
        found == doubt \cap broker.here
    IN  /\ pass.at = "resolve"
        /\ order' = [o \in Orders |->
                        IF o \notin found THEN order[o]
                        ELSE [known |-> TRUE, status |-> RemoteStatus(o),
                              latched |-> Executed(o) > 0, error |-> ""]]
        /\ pass' = [pass EXCEPT !.at = "fills", !.faults = @ \/ doubt # found]
        /\ UNCHANGED <<rows, cursor, drift, broker, crashes, offered>>

(* s collects what one import changes. *)
Start == [rows |-> rows, order |-> order, drift |-> FALSE, faults |-> FALSE,
          advance |-> TRUE, blocked |-> {}, inserted |-> <<>>]

Refuse(s, os) == [s EXCEPT !.order = Latch(@, os), !.blocked = @ \cup os,
                           !.faults = TRUE, !.advance = FALSE]

LatchOverfill(s, o) ==
    IF ~Overfilled(s.rows, o) THEN s
    ELSE [s EXCEPT !.order = Latch(@, {o}), !.blocked = @ \cup {o},
                   !.faults = TRUE, !.drift = TRUE]

(* _duplicate_fill_validation_error *)
ReplayDiffers(s, e) ==
    s.rows[e].state # "absent"
        /\ (s.rows[e].order # OrderOf[e] \/ s.rows[e].qty # ReportedQty(e))

BookRow(e) == [order |-> OrderOf[e], qty |-> ReportedQty(e), state |-> "trusted"]

Duplicate(s, e) ==
    LET promoted == [s EXCEPT !.rows[e] = BookRow(e), !.inserted = Append(@, e)]
    IN  LatchOverfill(IF s.rows[e].state = "trusted" THEN s ELSE promoted, OrderOf[e])

(* _remove_synthetic_fills *)
WithoutSynthetic(t, o) ==
    [k \in RowIds |-> IF t[k].order = o /\ t[k].state = "synthetic"
                      THEN [t[k] EXCEPT !.state = "absent", !.order = NoOrder, !.qty = 0]
                      ELSE t[k]]

(* _supersede_matching_quarantined_fill: rows of the order before rows     *)
(* of none, then the oldest.                                               *)
Supersede(t, o, q) ==
    LET like == {k \in RowIds : t[k].state = "quarantined" /\ t[k].qty = q
                                /\ t[k].order \in {o, NoOrder}}
        own == like \cap RowsOf(t, o)
        chosen == IF own # {} THEN Min(own) ELSE Min(like)
    IN  IF like = {} THEN t
        ELSE [t EXCEPT ![chosen].order = o, ![chosen].state = "superseded"]

Insert(s, e) ==
    LET o == OrderOf[e]
        t == Supersede(WithoutSynthetic(s.rows, o), o, ReportedQty(e))
    IN  LatchOverfill([s EXCEPT !.rows = [t EXCEPT ![e] = BookRow(e)],
                                !.inserted = Append(@, e)], o)

(* One activity of the batch. *)
Apply(s, e) ==
    IF OrderOf[e] = Foreign \/ ~s.order[OrderOf[e]].known THEN Refuse(s, {})
    ELSE IF broker.report[e] = "invalid" \/ ReplayDiffers(s, e) THEN Refuse(s, {OrderOf[e]})
    ELSE IF s.rows[e].state # "absent" THEN Duplicate(s, e)
    ELSE Insert(s, e)

Batch == SetToSortSeq(Feed(cursor), LAMBDA a, b : TimeOf[a] < TimeOf[b]
                                                  \/ (TimeOf[a] = TimeOf[b] /\ a < b))

(* The cursor goes to the last activity of a first import, later to the    *)
(* last new one that is not behind it.                                     *)
Candidate(s, batch) ==
    LET ahead == SelectSeq(s.inserted, LAMBDA e : TimeOf[e] >= cursor)
    IN  IF cursor = 0 THEN TimeOf[Last(batch)]
        ELSE IF ahead = <<>> THEN cursor ELSE TimeOf[Last(ahead)]

ToStatuses(ords, complete, blocked, faults) ==
    pass' = [at |-> "statuses", faults |-> faults, complete |-> complete, blocked |-> blocked,
             todo |-> {o \in Orders : ords[o].known /\
                          (ords[o].latched \/ ords[o].status \in {"SUBMITTED", "PARTIALLY_FILLED"})}]

FillsEmpty ==
    /\ pass.at = "fills" /\ Feed(cursor) = {}
    /\ ToStatuses(order, TRUE, {}, pass.faults)
    /\ UNCHANGED <<rows, order, cursor, drift, broker, crashes, offered>>

(* One unreadable activity makes the whole answer unusable. *)
FillsUnreadable ==
    LET e == Batch[CHOOSE i \in DOMAIN Batch : broker.report[Batch[i]] = "garbled"]
        os == {o \in Orders : o = OrderOf[e] /\ order[o].known}
    IN  /\ pass.at = "fills"
        /\ \E d \in Feed(cursor) : broker.report[d] = "garbled"
        /\ order' = Latch(order, os)
        /\ ToStatuses(order', FALSE, os, TRUE)
        /\ UNCHANGED <<rows, cursor, drift, broker, crashes, offered>>

(* Rows, latches, breaker and cursor are one transaction. *)
ImportFills ==
    /\ pass.at = "fills" /\ Feed(cursor) # {}
    /\ \A e \in Feed(cursor) : broker.report[e] # "garbled"
    /\ \E s \in {FoldLeft(Apply, Start, Batch)} :
          /\ rows' = s.rows /\ order' = s.order
          /\ drift' = (drift \/ s.drift)
          /\ cursor' = IF s.advance THEN Candidate(s, Batch) ELSE cursor
          /\ ToStatuses(s.order, s.advance, s.blocked, pass.faults \/ s.faults)
    /\ offered' = offered \cup Feed(cursor)
    /\ UNCHANGED <<broker, crashes>>

(* The status of one order is read and settled.                            *)
ZeroFillResolved(o) ==
    /\ order[o].error = "indeterminate_cancel" /\ RemoteStatus(o) = "CANCELED"
    /\ Executed(o) = 0 /\ RecordedQty(rows, o) = 0 /\ pass.complete

Contradicted(o) ==
    Overfilled(rows, o) \/ Executed(o) < TrustedExactQty(rows, o)

MustBeExact(o) ==
    \/ order[o].latched
    \/ RemoteStatus(o) \in FillStatuses \/ Executed(o) > TrustedExactQty(rows, o)

ExactTrusting(o) == \* Mutant: an incomplete activity stream is not asked for
    /\ Executed(o) = RecordedQty(rows, o)

Exact(o) ==
    /\ Unmatched(rows, o) = {} /\ o \notin pass.blocked /\ pass.complete
    /\ Executed(o) > 0 \/ ZeroFillResolved(o)
    /\ TrustedExactQty(rows, o) = RecordedQty(rows, o)
    /\ Executed(o) = TrustedExactQty(rows, o)

Moved(o) == MoveIfLegal(order[o].status, RemoteStatus(o))

StatusContradicted(o) ==
    /\ Contradicted(o)
    /\ order' = Latch(order, {o})
    /\ drift' = (drift \/ Overfilled(rows, o))

StatusPending(o) ==
    /\ ~Contradicted(o) /\ MustBeExact(o) /\ ~Exact(o)
    /\ order' = [order EXCEPT ![o].latched = TRUE,
                    ![o].status = IF RemoteStatus(o) \in FillStatuses
                                     \/ Executed(o) > TrustedExactQty(rows, o)
                                  THEN Moved(o) ELSE @,
                    ![o].error = IF Unmatched(rows, o) # {} THEN "other" ELSE @]
    /\ UNCHANGED drift

(* Made-up rows above the broker's quantity contradict it as well. *)
StatusBehindRecorded(o) ==
    /\ ~Contradicted(o) /\ ~MustBeExact(o) /\ Executed(o) < RecordedQty(rows, o)
    /\ order' = Latch(order, {o})
    /\ UNCHANGED drift

StatusSettled(o) ==
    /\ ~Contradicted(o)
    /\ IF MustBeExact(o) THEN Exact(o) ELSE Executed(o) >= RecordedQty(rows, o)
    /\ order' = [order EXCEPT ![o].latched = FALSE, ![o].status = Moved(o),
                              ![o].error = IF MustBeExact(o) THEN "" ELSE @]
    /\ UNCHANGED drift

ReconcileStatus(o) ==
    /\ pass.at = "statuses" /\ o \in pass.todo
    /\ \/ StatusContradicted(o)
       \/ StatusPending(o)
       \/ StatusBehindRecorded(o)
       \/ StatusSettled(o)
    /\ pass' = [pass EXCEPT !.todo = @ \ {o},
                            !.faults = @ \/ order'[o].latched]
    /\ UNCHANGED <<rows, cursor, broker, crashes, offered>>

StatusesDone ==
    /\ pass.at = "statuses" /\ pass.todo = {}
    /\ pass' = [pass EXCEPT !.at = "finish",
                  !.faults = @ \/ \E k \in RowIds : rows[k].state = "quarantined"]
    /\ UNCHANGED <<rows, order, cursor, drift, broker, crashes, offered>>

TripFaults ==
    /\ pass.at = "finish"
    /\ drift' = (drift \/ pass.faults)
    /\ pass' = NoPass
    /\ UNCHANGED <<rows, order, cursor, broker, crashes, offered>>

Crash ==
    /\ pass.at # "idle" /\ crashes < Crashes
    /\ pass' = NoPass
    /\ crashes' = crashes + 1
    /\ UNCHANGED <<rows, order, cursor, drift, broker, offered>>

PassStep ==
    \/ QuarantineLegacyFills \/ ResolveUnknown
    \/ FillsEmpty \/ FillsUnreadable \/ ImportFills
    \/ \E o \in Orders : ReconcileStatus(o)
    \/ StatusesDone \/ TripFaults

Next ==
    \/ PassStep \/ Crash
    \/ \E o \in Orders : Arrive(o) \/ EndOrder(o) \/ CancelInDoubt(o)
    \/ \E e \in Executions : Execute(e) \/ Show(e) \/ \E how \in Reports : Distort(e, how)

Spec == Init /\ [][Next]_vars

(* Passes go on: the worker calls one every cycle.  A step of a pass is    *)
(* always possible, so this is its weak fairness.                          *)
Fairness == []<><<PassStep>>_vars

-----------------------------------------------------------------------------
(* Properties *)

Honest == broker.distortions = 0

(* While the broker's reports are true, the recorded quantity of an order  *)
(* never exceeds what was executed: an execution that an old row, a        *)
(* made-up row and a repeated activity all tell of is counted once.        *)
NoDoubleCount ==
    Honest => \A o \in Orders : RecordedQty(rows, o) <= Executed(o)

(* An order is settled (ended, not latched) only when the trusted rows     *)
(* hold exactly what the broker executed, whatever the order in which      *)
(* activities appeared, and no old row of it is unmatched.                 *)
SettledIsExact ==
    \A o \in Orders :
        (order[o].status \in Terminal /\ ~order[o].latched) =>
            /\ TrustedExactQty(rows, o) = Executed(o)
            /\ RecordedQty(rows, o) = Executed(o)
            /\ Unmatched(rows, o) = {}

(* An activity a committed import was given and did not book is given      *)
(* again: the cursor does not pass what was refused.                       *)
NothingPassedOver ==
    \A e \in offered : rows[e].state = "trusted" \/ e \in Feed(cursor)

(* Executions of an ended order that the ledger does not have, because the *)
(* feed shows them late, behind the cursor or not at all, are noticed: the *)
(* order is latched and the drift breaker is tripped.                      *)
MissingIsNoticed ==
    \A o \in Orders :
        (o \in broker.ended /\ TrustedExactQty(rows, o) < Executed(o))
            ~> (TrustedExactQty(rows, o) >= Executed(o) \/ (order[o].latched /\ drift))
=============================================================================
