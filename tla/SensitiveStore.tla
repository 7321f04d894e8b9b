----------------------------- MODULE SensitiveStore -----------------------------
(***************************************************************************)
(* Writes of registered sensitive columns (security/sensitive_fields.py).  *)
(* A value is sealed for one exact row, so a row whose key the database    *)
(* generates is written twice: first sealed for a placeholder, then, once  *)
(* the key is known, for the row.  Guards on the session and a boundary on *)
(* the SQL of the connection keep every other value out.  Each session     *)
(* works on one object it creates and on one it has loaded.                *)
(***************************************************************************)
EXTENDS FiniteSets, TLC

CONSTANTS Sessions,  \* sessions of the process, each in a context of its own
          Rows,      \* primary keys of one registered table
          OldRow,    \* the row that is there at first
          Nullable   \* whether the column accepts NULL

StoreAssumption ==
    /\ OldRow \in Rows /\ Nullable \in BOOLEAN
    /\ {"null", "plain", "pending", "absent", "same", "none"} \cap (Rows \cup Sessions) = {}

VARIABLES db,        \* the committed column: a row, standing for a value sealed for it,
                     \* or "null", "plain", "pending" (sealed for a placeholder), "absent"
          tx,        \* what a session has written and not committed
          obj,       \* the objects of a session, as the process holds them
          at,        \* where a session is inside SensitiveFieldStore.write
          staged,    \* sessions with staged fields
          active,    \* sessions with an active operation
          granted,   \* contexts that hold the engine's write capability
          mode,      \* closed; open: in a transaction; broken: it must be rolled back
          lock       \* the session that holds the database's write lock

vars == <<db, tx, obj, at, staged, active, granted, mode, lock>>

Values == Rows \cup {"null", "plain", "pending"}
Objects == {"new", "old"}
Untouched == [r \in Rows |-> "same"]
NewObject == [row |-> "none", val |-> "null", state |-> "transient"]
Loaded == [row |-> OldRow, val |-> OldRow, state |-> "clean"]

TypeOK ==
    /\ db \in [Rows -> Values \cup {"absent"}]
    /\ tx \in [Sessions -> [Rows -> Values \cup {"same", "absent"}]]
    /\ obj \in [Sessions -> [Objects -> [row : Rows \cup {"none"}, val : Values,
                                         state : {"transient", "pending", "dirty", "clean"}]]]
    /\ at \in [Sessions -> {"idle", "insert", "seal", "update"}]
    /\ staged \in SUBSET Sessions /\ active \in SUBSET Sessions
    /\ granted \in SUBSET Sessions
    /\ mode \in [Sessions -> {"closed", "open", "broken"}]
    /\ lock \in Sessions \cup {"none"}

Init ==
    /\ db = [r \in Rows |-> IF r = OldRow THEN r ELSE "absent"]
    /\ tx = [s \in Sessions |-> Untouched]
    /\ obj = [s \in Sessions |-> "new" :> NewObject @@ "old" :> Loaded]
    /\ at = [s \in Sessions |-> "idle"]
    /\ staged = {} /\ active = {} /\ granted = {}
    /\ mode = [s \in Sessions |-> "closed"]
    /\ lock = "none"

-----------------------------------------------------------------------------
(* The guards *)

Candidates(s) == {o \in Objects : obj[s][o].state \in {"pending", "dirty"}}

\* _verify_registered_values: sealed for its row, or staged by the operation
\* that is active in this session
Verified(s) ==
    /\ s \in staged <=> s \in active
    /\ \A o \in Candidates(s) : LET x == obj[s][o] IN
           \/ x.val = "null" /\ Nullable
           \/ x.val = x.row
           \/ o = "new" /\ s \in staged /\ x.val = "pending"

CanLock(s) == lock \in {"none", s}

Denied(s) == s \notin granted

Put(s, r, v) ==
    /\ tx' = [tx EXCEPT ![s][r] = v]
    /\ lock' = s

Keep(s, o, x) == obj' = [obj EXCEPT ![s][o] = x]

-----------------------------------------------------------------------------
(* The transaction around the writes *)

Open(s) ==
    /\ mode[s] = "closed"
    /\ mode' = [mode EXCEPT ![s] = "open"]
    /\ Keep(s, "old", [Loaded EXCEPT !.val = IF db[OldRow] = "null" THEN "null" ELSE @])
    /\ UNCHANGED <<db, tx, at, staged, active, granted, lock>>

\* after_transaction_end of the outermost transaction; the session is closed
\* and the next unit of work loads its objects afresh
End(s) ==
    /\ tx' = [tx EXCEPT ![s] = Untouched]
    /\ mode' = [mode EXCEPT ![s] = "closed"]
    /\ lock' = IF lock = s THEN "none" ELSE lock
    /\ obj' = [obj EXCEPT ![s] = "new" :> NewObject @@ "old" :> Loaded]
    /\ staged' = staged \ {s} /\ active' = active \ {s}

Merge(s) == [r \in Rows |-> IF tx[s][r] = "same" THEN db[r] ELSE tx[s][r]]

Commit(s) ==
    /\ mode[s] = "open" /\ at[s] = "idle"
    /\ s \notin staged \cup active
    /\ Verified(s)
    /\ Candidates(s) = {} \* the flush of a commit has no capability
    /\ db' = Merge(s)
    /\ End(s)
    /\ UNCHANGED <<at, granted>>

Rollback(s) ==
    /\ mode[s] # "closed" /\ at[s] = "idle"
    /\ End(s)
    /\ UNCHANGED <<db, at, granted>>

\* a savepoint that is rolled back takes the inserted row with it; the guard
\* state stays until the outermost transaction ends
RollbackSavepoint(s) ==
    /\ mode[s] = "open" /\ at[s] = "idle" /\ s \in staged
    /\ tx[s] # Untouched
    /\ tx' = [tx EXCEPT ![s] = Untouched]
    /\ obj' = [obj EXCEPT ![s]["new"] = NewObject]
    /\ UNCHANGED <<db, at, staged, active, granted, mode, lock>>

-----------------------------------------------------------------------------
(* SensitiveFieldStore.write of a row whose key is generated *)

Ready(s) == mode[s] = "open" /\ at[s] = "idle"

Stage(s) ==
    /\ Ready(s) /\ s \notin staged \cup active
    /\ obj[s]["new"].row = "none" /\ obj[s]["new"].val = "null"
    /\ Keep(s, "new", [row |-> "none", val |-> "pending", state |-> "pending"])
    /\ staged' = staged \cup {s} /\ active' = active \cup {s}
    /\ granted' = granted \cup {s}
    /\ at' = [at EXCEPT ![s] = "insert"]
    /\ UNCHANGED <<db, tx, mode, lock>>

Insert(s) ==
    /\ at[s] = "insert" /\ Verified(s) /\ ~Denied(s) /\ CanLock(s)
    /\ \E r \in Rows :
           /\ Merge(s)[r] = "absent"
           /\ Put(s, r, obj[s]["new"].val)
           /\ Keep(s, "new", [row |-> r, val |-> "pending", state |-> "clean"])
    /\ at' = [at EXCEPT ![s] = "seal"]
    /\ UNCHANGED <<db, staged, active, granted, mode>>

Seal(s) ==
    /\ at[s] = "seal"
    /\ Keep(s, "new", [obj[s]["new"] EXCEPT !.val = obj[s]["new"].row, !.state = "dirty"])
    /\ at' = [at EXCEPT ![s] = "update"]
    /\ UNCHANGED <<db, tx, staged, active, granted, mode, lock>>

Update(s) ==
    /\ at[s] = "update" /\ Verified(s) /\ ~Denied(s)
    /\ Put(s, obj[s]["new"].row, obj[s]["new"].val)
    /\ Keep(s, "new", [obj[s]["new"] EXCEPT !.state = "clean"])
    /\ staged' = staged \ {s} /\ active' = active \ {s} /\ granted' = granted \ {s}
    /\ at' = [at EXCEPT ![s] = "idle"]
    /\ UNCHANGED <<db, mode>>

\* the cipher or a guard raises: only the operation token is given back
Fail(s) ==
    /\ at[s] # "idle"
    /\ at' = [at EXCEPT ![s] = "idle"]
    /\ active' = active \ {s} /\ granted' = granted \ {s}
    /\ UNCHANGED <<db, tx, obj, staged, mode, lock>>

\* the database raises inside a flush: it has rolled back what was flushed
FlushFails(s) ==
    /\ at[s] \in {"insert", "update"}
    /\ at' = [at EXCEPT ![s] = "idle"]
    /\ active' = active \ {s} /\ granted' = granted \ {s}
    /\ mode' = [mode EXCEPT ![s] = "broken"]
    /\ tx' = [tx EXCEPT ![s] = Untouched]
    /\ lock' = IF lock = s THEN "none" ELSE lock
    /\ UNCHANGED <<db, obj, staged>>

-----------------------------------------------------------------------------
(* The other operations of the store, and code that goes round it *)

StoreOld(s, v) == \* the flush of one loaded object, checked and authorised
    /\ Ready(s) /\ s \notin staged \cup active /\ CanLock(s)
    /\ \A o \in Candidates(s) \ {"old"} :
           obj[s][o].val = obj[s][o].row \/ (obj[s][o].val = "null" /\ Nullable)
    /\ Put(s, OldRow, v)
    /\ UNCHANGED <<db, at, staged, active, granted, mode>>

WriteOld(s) ==
    /\ Merge(s)[OldRow] # "absent"
    /\ StoreOld(s, OldRow)
    /\ Keep(s, "old", Loaded)

Clear(s) ==
    /\ Nullable /\ Merge(s)[OldRow] # "absent"
    /\ StoreOld(s, "null")
    /\ Keep(s, "old", [Loaded EXCEPT !.val = "null"])

Delete(s) ==
    /\ Merge(s)[OldRow] # "absent"
    /\ StoreOld(s, "absent")
    /\ Keep(s, "old", Loaded)

\* code that assigns the attribute of a mapped object itself, or gives it the
\* value of another row
Assign(s, o, v) ==
    /\ Ready(s)
    /\ v \in {"plain", obj[s]["old"].val}
    /\ Keep(s, o, [obj[s][o] EXCEPT !.val = v,
                   !.state = IF @ \in {"transient", "pending"} THEN "pending" ELSE "dirty"])
    /\ UNCHANGED <<db, tx, at, staged, active, granted, mode, lock>>

\* the flush before a query: without the capability the boundary refuses it
Autoflush(s) ==
    /\ Ready(s) /\ Candidates(s) # {} /\ Verified(s)
    /\ mode' = [mode EXCEPT ![s] = "broken"]
    /\ tx' = [tx EXCEPT ![s] = Untouched]
    /\ lock' = IF lock = s THEN "none" ELSE lock
    /\ UNCHANGED <<db, obj, at, staged, active, granted>>

\* SQL text of its own, which the boundary lets through only with the capability
RawSql(s) ==
    /\ Ready(s) /\ CanLock(s)
    /\ IF Denied(s) THEN UNCHANGED <<tx, lock>> ELSE Put(s, OldRow, "plain")
    /\ UNCHANGED <<db, obj, at, staged, active, granted, mode>>

-----------------------------------------------------------------------------

WriteStep(s) == Insert(s) \/ Seal(s) \/ Update(s)

Next ==
    \E s \in Sessions :
        \/ Open(s) \/ Commit(s) \/ Rollback(s) \/ RollbackSavepoint(s)
        \/ Stage(s) \/ WriteStep(s) \/ Fail(s) \/ FlushFails(s)
        \/ WriteOld(s) \/ Clear(s) \/ Delete(s) \/ Autoflush(s) \/ RawSql(s)
        \/ \E o \in Objects, v \in Values : Assign(s, o, v)

Spec == Init /\ [][Next]_vars

\* a write ends, and the block around a session ends its transaction
Fairness ==
    /\ \A s \in Sessions : WF_vars(WriteStep(s) \/ Fail(s)) /\ SF_vars(Rollback(s))

-----------------------------------------------------------------------------
(* Properties *)

\* Whatever fails and whatever the code around the store assigns, a committed
\* value is NULL or sealed for exactly the row that holds it.
CommittedIsSealed ==
    \A r \in Rows : db[r] \in {r, "absent"} \cup (IF Nullable THEN {"null"} ELSE {})

\* A value sealed for the placeholder is in the database only while its session
\* has it staged, which is what keeps the transaction from being committed.
PlaceholderIsStaged ==
    \A s \in Sessions : (\E r \in Rows : tx[s][r] = "pending") => s \in staged

\* The capability and the operation token belong to the write under way, and a
\* new transaction finds neither them nor a staged field.
NothingIsLeft ==
    \A s \in Sessions :
        /\ (s \in granted \/ s \in active) => at[s] # "idle"
        /\ mode[s] = "closed" => s \notin staged

\* A session that a failed write has blocked is usable again in the end.
BlockedIsFreed == \A s \in Sessions : (s \in staged) ~> (s \notin staged)
=================================================================================
