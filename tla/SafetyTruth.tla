----------------------------- MODULE SafetyTruth -----------------------------
(***************************************************************************)
(* The report on durable local safety of orders/safety_state.py: five      *)
(* categories of rows, the circuit breakers and the daemon's heartbeat,    *)
(* read one after the other in one read transaction while other processes  *)
(* go on writing, and the health answer built on it.                       *)
(*                                                                         *)
(* An item of risk is a rule that comes to an order.  Time is counted in   *)
(* parts of the database clock's tick: the database tells only whole ticks *)
(* while heartbeats carry the finer time.                                  *)
(***************************************************************************)
EXTENDS Naturals, FiniteSets, Sequences, SequencesExt

CONSTANTS Items,     \* rules, and the orders they propose
          Scopes,    \* breaker scopes
          Parts,     \* times told apart within one tick of the database clock
          MaxTime, MaxFaults   \* bounds

TruthAssumption ==
    /\ Parts \in Nat \ {0}
    /\ {MaxTime, MaxFaults} \subseteq Nat

(* The order in which the categories are read. *)
Categories == <<"live_or_unknown_orders", "latched_orders", "unsafe_fills",
                "active_rules", "unsafe_rule_groups", "active_breakers",
                "heartbeat">>

VARIABLES
    item,     \* where each item stands
    held,     \* items whose rule group awaits reconciliation
    tripped,  \* active breakers
    garbled,  \* some breaker row is not canonical
    beat,     \* the time in the daemon's heartbeat row; 0: none yet
    now,
    at,       \* the category to be read next; 0: no report is being made
    view,     \* what the read transaction sees
    observed, \* the time bound of the transaction
    found,    \* some category read held rows
    unknown,  \* categories that could not be read
    report,   \* the last report
    faults

db == <<item, held, tripped, garbled, beat>>
vars == <<db, now, at, view, observed, found, unknown, report, faults>>

Standings == {"idle", "armed", "proposed", "live", "latched", "quarantined", "settled"}

(* The rows of each category, from the current database. *)
Rows ==
    [c \in Range(Categories) |->
        CASE c = "live_or_unknown_orders" -> {i \in Items : item[i] = "live"}
          [] c = "latched_orders" -> {i \in Items : item[i] \in {"latched", "quarantined"}}
          [] c = "unsafe_fills" -> {i \in Items : item[i] = "quarantined"}
          [] c = "active_rules" -> {i \in Items : item[i] = "armed"}
          [] c = "unsafe_rule_groups" -> {i \in Items : item[i] = "armed"} \cup held
          [] c = "active_breakers" -> tripped
          [] c = "heartbeat" -> {}]

Snapshot == [rows |-> Rows, garbled |-> garbled, beat |-> beat]
Unread == [rows |-> [c \in Range(Categories) |-> {}], garbled |-> FALSE, beat |-> 0]

(* A report, with what was so when its transaction began and the queries   *)
(* that failed kept beside it for the properties.                          *)
NoReport == [state |-> "none", unknown |-> {}, wasUnsafe |-> FALSE, wasGarbled |-> FALSE,
             failed |-> {}]

TypeOK ==
    /\ item \in [Items -> Standings]
    /\ held \subseteq Items
    /\ tripped \subseteq Scopes
    /\ beat <= now /\ now <= MaxTime
    /\ at \in 0..Len(Categories)
    /\ unknown \subseteq Range(Categories)
    /\ report.state \in {"none", "unsafe", "unknown", "locally_clear"}
    /\ report.unknown \subseteq Range(Categories)
    /\ found \in BOOLEAN
    /\ faults \in 0..MaxFaults

Init ==
    /\ item = [i \in Items |-> "idle"]
    /\ held = {}
    /\ tripped = {}
    /\ garbled = FALSE
    /\ beat = 0
    /\ now = 0
    /\ at = 0
    /\ view = Unread
    /\ observed = 0
    /\ found = FALSE
    /\ unknown = {}
    /\ report = NoReport
    /\ faults = 0

reader == <<at, view, observed, found, unknown, report>>

-----------------------------------------------------------------------------
(* The writers, each a transaction of its own: a rule is armed and fires,  *)
(* its order is approved, ends with fills that do not add up, and is       *)
(* settled.                                                                *)
Moves == {<<"idle", "armed">>, <<"armed", "proposed">>, <<"proposed", "live">>,
          <<"live", "latched">>, <<"live", "settled">>, <<"latched", "settled">>,
          <<"latched", "quarantined">>, <<"quarantined", "settled">>,
          <<"settled", "idle">>}

Write(i) ==
    /\ \E m \in Moves :
         /\ item[i] = m[1]
         /\ item' = [item EXCEPT ![i] = m[2]]
         /\ held' = CASE m[2] = "latched" -> held \cup {i}
                      [] m[2] = "settled" -> held \ {i}
                      [] OTHER -> held
    /\ UNCHANGED <<tripped, garbled, beat, now, reader, faults>>

Trip(s) ==
    /\ tripped' = IF s \in tripped THEN tripped \ {s} ELSE tripped \cup {s}
    /\ UNCHANGED <<item, held, garbled, beat, now, reader, faults>>

Garble ==
    /\ faults < MaxFaults
    /\ faults' = faults + 1
    /\ garbled' = TRUE
    /\ UNCHANGED <<item, held, tripped, beat, now, reader>>

write_heartbeat ==
    /\ beat' = now
    /\ beat # now
    /\ UNCHANGED <<item, held, tripped, garbled, now, reader, faults>>

Tick ==
    /\ now < MaxTime
    /\ now' = now + 1
    /\ UNCHANGED <<db, reader, faults>>

-----------------------------------------------------------------------------

(* _normalize_database_utc: the end of the database clock's tick, so that  *)
(* nothing committed within the tick seems to come later.                  *)
UpperBound(t) == (t \div Parts) * Parts + (Parts - 1)

(* One statement begins the transaction and reads its time. *)
BeginSnapshot ==
    /\ at = 0
    /\ at' = 1
    /\ view' = Snapshot
    /\ observed' = UpperBound(now)
    /\ found' = FALSE
    /\ unknown' = {}
    /\ report' = NoReport
    /\ UNCHANGED <<db, now, faults>>

Seen == view

(* A category is read, or its query fails on its own, which leaves the     *)
(* category unknown and never empty.                                       *)
QueryCategory ==
    LET c == Categories[at] IN
    /\ at \in 1..6
    /\ at' = at + 1
    /\ found' = (found \/ Seen.rows[c] # {})
    /\ UNCHANGED <<db, now, view, observed, unknown, report, faults>>

QueryFails ==
    /\ at \in 1..6
    /\ faults < MaxFaults
    /\ faults' = faults + 1
    /\ at' = at + 1
    /\ unknown' = unknown \cup {Categories[at]}
    /\ UNCHANGED <<db, now, view, observed, found, report>>

Unsafe(t) == \E c \in Range(Categories) : t.rows[c] # {}

Finish(state, missing, failed) ==
    /\ at' = 0
    /\ report' = [state |-> state, unknown |-> missing, wasUnsafe |-> Unsafe(view),
                  wasGarbled |-> view.garbled, failed |-> failed]
    /\ view' = Unread
    /\ observed' = 0
    /\ found' = FALSE
    /\ unknown' = {}
    /\ UNCHANGED <<db, now>>

(* The heartbeat is read last.  One that seems to lie ahead is not         *)
(* believed, and a breaker row that is not canonical leaves its category   *)
(* unknown.                                                                *)
Conclude(heard) ==
    LET missing == unknown
           \cup (IF heard /\ Seen.beat <= observed THEN {} ELSE {"heartbeat"})
           \cup (IF Seen.garbled THEN {"active_breakers"} ELSE {}) IN
    /\ at = 7
    /\ Finish(CASE found -> "unsafe"
                [] ~found /\ missing # {} -> "unknown"
                [] ~found /\ missing = {} -> "locally_clear",
              missing, unknown \cup (IF heard THEN {} ELSE {"heartbeat"}))

ConcludeHeard == Conclude(TRUE) /\ UNCHANGED faults

ConcludeUnheard ==
    /\ faults < MaxFaults
    /\ faults' = faults + 1
    /\ Conclude(FALSE)

(* The read as a whole fails: everything is unknown. *)
unknown_persisted_safety_truth ==
    /\ at > 0
    /\ faults < MaxFaults
    /\ faults' = faults + 1
    /\ Finish("unknown", Range(Categories), Range(Categories))

Next ==
    \/ \E i \in Items : Write(i)
    \/ \E s \in Scopes : Trip(s)
    \/ Garble \/ write_heartbeat \/ Tick
    \/ BeginSnapshot \/ QueryCategory \/ QueryFails
    \/ ConcludeHeard \/ ConcludeUnheard \/ unknown_persisted_safety_truth

Spec == Init /\ [][Next]_vars

-----------------------------------------------------------------------------
(* What the report says was so at the one moment it names: "locally clear" *)
(* when nothing at all was unsafe, "unsafe" only when something was,       *)
(* however writers moved risk from category to category during the read    *)
(* and whichever queries failed.                                           *)
ReportIsTrue ==
    /\ report.state = "locally_clear" => ~report.wasUnsafe /\ ~report.wasGarbled
    /\ report.state = "unsafe" => report.wasUnsafe

(* A heartbeat that could be read is never set aside as coming from the    *)
(* future: what was committed before the read is within its time bound.    *)
HeartbeatBelieved ==
    report.state # "none" /\ "heartbeat" \notin report.failed =>
        "heartbeat" \notin report.unknown

=============================================================================
