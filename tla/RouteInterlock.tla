----------------------------- MODULE RouteInterlock -----------------------------
(***************************************************************************)
(* How a mutating request gets to its handler and out again                *)
(* (app/policy.py, app/limits.py).  A request looks at the durable         *)
(* interlocks of its resource, acquires an expiring lease, claims a        *)
(* non-expiring interlock, runs its handler while the lease is renewed,    *)
(* and settles and releases both.  Panics that meet a running panic wait   *)
(* for its receipt.                                                        *)
(*                                                                         *)
(* Every store operation is one transaction and may fail; requests         *)
(* interleave between any two of them; a handler may outlive its lease;    *)
(* the process may die at any point.                                       *)
(***************************************************************************)
EXTENDS Integers, FiniteSets

CONSTANTS Requests, PathOf, \* the requests that may come, and their routes
          Legacy,           \* operation of an interlock of an older version, or "none"
          Ttl,              \* of a lease
          MaxTime, Faults, Crashes \* bounds on the clock, store failures, crashes

Paths == {"order", "reconcile", "backtest", "reset", "panic"}

RouteAssumption ==
    /\ PathOf \in [Requests -> Paths]
    /\ Legacy \in {"none", "reset", "panic"}
    /\ Ttl \in Nat \ {0} /\ MaxTime \in Nat /\ Faults \in Nat /\ Crashes \in Nat

VARIABLES clock,
          lease,    \* concurrency_lease
          latch,    \* mutation_interlock
          receipt,  \* panic_receipt
          req,      \* the requests
          truth,    \* what each panic's handler established, when, and whether a reset came after
          doubt,    \* interlock keys whose last mutation did not end well
          faults, crashes

vars == <<clock, lease, latch, receipt, req, truth, doubt, faults, crashes>>

-----------------------------------------------------------------------------
(* Keys *)

LeaseKey(path) ==
    CASE path \in {"reset", "panic"} -> "account"
      [] path = "reconcile" -> "portfolio"
      [] OTHER -> path
InterlockKey(path) ==
    CASE path = "reset" -> "account:reset"
      [] path = "panic" -> "account:panic"
      [] OTHER -> LeaseKey(path)
Companion(path) == IF path = "reset" THEN "account:panic" ELSE "account:reset"

UsedKeys(path) ==
    {LeaseKey(path), InterlockKey(path)}
      \cup CASE path \in {"reset", "panic"} -> {Companion(path)}
            [] path = "reconcile" -> {"control"}
            [] OTHER -> {}
LeaseKeys == UNION {UsedKeys(PathOf[r]) : r \in Requests}

NoLease == [owner |-> "none", gen |-> 0, expires |-> 0]
NoLatch == [owner |-> "none", gen |-> 0, op |-> "none", state |-> "none", finished |-> FALSE]
NoReceipt == [owner |-> "none", gen |-> 0, state |-> "none", says |-> "none", expires |-> 0]
Fresh == [pc |-> "new", saw |-> NoLatch, companion |-> NoLatch, key |-> "none",
          ilk |-> "none", gen |-> 0, expires |-> 0, renewal |-> "ok", result |-> "none",
          target |-> NoLatch, owner |-> "none", before |-> {}, beside |-> {}, answer |-> "none"]

Init ==
    /\ clock = 0
    /\ lease = [k \in LeaseKeys |-> NoLease]
    /\ latch = [k \in LeaseKeys |-> IF k = "account" /\ Legacy # "none"
                               THEN [owner |-> "older", gen |-> 1, op |-> Legacy,
                                     state |-> "uncertain", finished |-> TRUE]
                               ELSE NoLatch]
    /\ receipt = NoReceipt
    /\ req = [r \in Requests |-> Fresh]
    /\ truth = [r \in Requests |-> [says |-> "none", at |-> 0, undone |-> FALSE]]
    /\ doubt = {}
    /\ faults = 0 /\ crashes = 0

storeVars == <<lease, latch, receipt>>
otherVars == <<clock, truth, doubt, faults, crashes>>

(* The request is over: only its answer, and what came before it, matter. *)
Answer(r, a) ==
    req' = [req EXCEPT ![r] = [Fresh EXCEPT !.pc = "done", !.answer = a,
                                            !.before = req[r].before]]
Goto(r, pc) == req' = [req EXCEPT ![r].pc = pc]

Running(r) == req[r].pc = "run"

-----------------------------------------------------------------------------
(* Leases (ConcurrencyLeaseService) *)

LiveLease(k) == lease[k].expires > clock
Owns(r, k) == lease[k].owner = r /\ lease[k].gen = req[r].gen
Released(k) == [lease EXCEPT ![k] = [owner |-> "", gen |-> @.gen + 1, expires |-> 0]]

(* Interlocks (MutationInterlockService) *)

Holds(r) == latch[req[r].ilk].owner = r /\ latch[req[r].ilk].gen = req[r].gen
MarkUncertain(r) ==
    IF Holds(r)
    THEN [latch EXCEPT ![req[r].ilk].state = "uncertain", ![req[r].ilk].finished = TRUE]
    ELSE latch

-----------------------------------------------------------------------------
(* Before the lease: what the durable interlocks say *)

Arrive(r) ==
    /\ req[r].pc = "new"
    /\ req' = [req EXCEPT ![r] =
           [@ EXCEPT !.pc = IF PathOf[r] = "reconcile" THEN "control" ELSE "existing",
                     !.key = LeaseKey(PathOf[r]), !.ilk = InterlockKey(PathOf[r]),
                     !.before = {q \in Requests : truth[q].undone},
                     !.beside = {q \in Requests : Running(q)}]]
    /\ UNCHANGED <<storeVars, otherVars>>

InspectControl(r) ==
    /\ req[r].pc = "control"
    /\ IF latch["control"] # NoLatch THEN Answer(r, "denied") ELSE Goto(r, "existing")
    /\ UNCHANGED <<storeVars, otherVars>>

(* A plain mutation is refused by any interlock; the others go on to look further. *)
InspectExisting(r) ==
    LET there == latch[req[r].ilk] IN
    /\ req[r].pc = "existing"
    /\ CASE PathOf[r] \in {"reset", "panic"} ->
              req' = [req EXCEPT ![r].saw = there, ![r].pc = "companion"]
         [] there = NoLatch /\ PathOf[r] \notin {"reset", "panic"} -> Goto(r, "acquire")
         [] there # NoLatch /\ PathOf[r] = "backtest" /\ there.state = "active" ->
              req' = [req EXCEPT ![r].saw = there, ![r].pc = "probe"]
         [] there # NoLatch /\ PathOf[r] = "reconcile" /\ there.finished ->
              req' = [req EXCEPT ![r].target = there, ![r].key = "control",
                                 ![r].ilk = "control", ![r].pc = "acquire"]
         [] OTHER -> Answer(r, "denied")
    /\ UNCHANGED <<storeVars, otherVars>>

InspectCompanion(r) ==
    /\ req[r].pc = "companion"
    /\ req' = [req EXCEPT ![r].companion = latch[Companion(PathOf[r])], ![r].pc = "legacy"]
    /\ UNCHANGED <<storeVars, otherVars>>

(* The last look, and the decision of a reset: nothing may be there. *)
ResetOverPanic(r, legacy) == req[r].saw = NoLatch /\ legacy = NoLatch \* Mutant
ResetMayRun(r, legacy) ==
    req[r].saw = NoLatch /\ req[r].companion = NoLatch /\ legacy = NoLatch
DecideReset(r) ==
    /\ req[r].pc = "legacy" /\ PathOf[r] = "reset"
    /\ IF ResetMayRun(r, latch["account"]) THEN Goto(r, "acquire") ELSE Answer(r, "denied")
    /\ UNCHANGED <<storeVars, otherVars>>

(* A panic overtakes a reset that is over, and joins a panic that is running. *)
DecidePanic(r) ==
    LET old == latch["account"]
        resets == {b \in {req[r].companion, old} : b.op = "reset"}
        existing == IF req[r].saw = NoLatch /\ old.op = "panic" THEN old ELSE req[r].saw
    IN  /\ req[r].pc = "legacy" /\ PathOf[r] = "panic"
        /\ CASE \E b \in resets : ~b.finished -> Answer(r, "incomplete")
             [] (\A b \in resets : b.finished) /\ existing = NoLatch -> Goto(r, "acquire")
             [] (\A b \in resets : b.finished) /\ existing.state = "active" ->
                  req' = [req EXCEPT ![r].saw = existing, ![r].pc = "probe"]
             [] OTHER -> Answer(r, "incomplete")
        /\ UNCHANGED <<storeVars, otherVars>>

(* The lease behind an active interlock *)
SameTenure(r) ==
    LET k == req[r].key IN
    LiveLease(k) /\ lease[k].owner = req[r].saw.owner /\ lease[k].gen = req[r].saw.gen

ProbePanic(r) ==
    /\ req[r].pc = "probe" /\ PathOf[r] = "panic"
    /\ IF SameTenure(r)
       THEN req' = [req EXCEPT ![r].owner = req[r].saw.owner, ![r].gen = req[r].saw.gen,
                               ![r].pc = "wait"]
       ELSE Answer(r, "incomplete")
    /\ UNCHANGED <<storeVars, otherVars>>

ProbeBacktest(r) ==
    /\ req[r].pc = "probe" /\ PathOf[r] = "backtest"
    /\ CASE SameTenure(r) -> Answer(r, "busy")
         [] ~SameTenure(r) /\ LiveLease(req[r].key) -> Answer(r, "denied")
         [] OTHER -> Goto(r, "reclaim")
    /\ UNCHANGED <<storeVars, otherVars>>

(* release_expired_backtest *)
ReclaimBacktest(r) ==
    LET k == req[r].key
        exact == /\ lease[k].owner = req[r].saw.owner /\ lease[k].gen = req[r].saw.gen
                 /\ ~LiveLease(k)
                 /\ latch[k].owner = req[r].saw.owner /\ latch[k].gen = req[r].saw.gen
                 /\ latch[k].state = "active" /\ ~latch[k].finished
    IN  /\ req[r].pc = "reclaim"
        /\ IF exact
           THEN latch' = [latch EXCEPT ![k] = NoLatch] /\ Goto(r, "acquire")
           ELSE Answer(r, "denied") /\ UNCHANGED latch
        /\ UNCHANGED <<lease, receipt, otherVars>>

-----------------------------------------------------------------------------
(* Lease, interlock, receipt *)

Acquire(r) ==
    LET k == req[r].key IN
    /\ req[r].pc = "acquire" /\ ~LiveLease(k)
    /\ lease' = [lease EXCEPT ![k] = [owner |-> r, gen |-> @.gen + 1, expires |-> clock + Ttl]]
    /\ req' = [req EXCEPT ![r] =
           [@ EXCEPT !.gen = lease[k].gen + 1, !.expires = clock + Ttl, !.saw = NoLatch,
                     !.companion = NoLatch,
                     !.pc = "claim"]]
    /\ UNCHANGED <<latch, receipt, otherVars>>

Contend(r) ==
    LET k == req[r].key IN
    /\ req[r].pc = "acquire" /\ LiveLease(k)
    /\ IF PathOf[r] = "panic"
       THEN req' = [req EXCEPT ![r].owner = lease[k].owner, ![r].gen = lease[k].gen,
                               ![r].pc = "wait"]
       ELSE Answer(r, "busy")
    /\ UNCHANGED <<storeVars, otherVars>>

Claim(r) ==
    /\ req[r].pc = "claim"
    /\ IF latch[req[r].ilk] = NoLatch
       THEN /\ latch' = [latch EXCEPT ![req[r].ilk] =
                            [owner |-> r, gen |-> req[r].gen, op |-> PathOf[r],
                             state |-> "active", finished |-> FALSE]]
            /\ Goto(r, IF PathOf[r] = "panic" THEN "start" ELSE "run")
       ELSE Goto(r, "refused") /\ UNCHANGED latch
    /\ UNCHANGED <<lease, receipt, otherVars>>

(* A request that may not run is refused; one that the store kept from running is told so. *)
Refusal(r) ==
    IF req[r].pc \in {"unclaimed", "unstarted"} THEN "store"
    ELSE IF PathOf[r] = "panic" THEN "incomplete" ELSE "denied"

(* The lease of a claim that failed is given back. *)
GiveBack(r) ==
    LET k == req[r].key IN
    /\ req[r].pc \in {"refused", "unclaimed"}
    /\ lease' = IF Owns(r, k) /\ LiveLease(k) THEN Released(k) ELSE lease
    /\ Answer(r, Refusal(r))
    /\ UNCHANGED <<latch, receipt, otherVars>>

StartReceipt(r) ==
    /\ req[r].pc = "start"
    /\ IF receipt.expires > clock /\ receipt.state # "completed"
       THEN Goto(r, "notstarted") /\ UNCHANGED receipt
       ELSE /\ receipt' = [owner |-> r, gen |-> req[r].gen, state |-> "started",
                           says |-> "none", expires |-> req[r].expires]
            /\ Goto(r, "run")
    /\ UNCHANGED <<lease, latch, otherVars>>

NotStarted(r) ==
    /\ req[r].pc \in {"notstarted", "unstarted"}
    /\ latch' = MarkUncertain(r)
    /\ Answer(r, Refusal(r))
    /\ UNCHANGED <<lease, receipt, otherVars>>

-----------------------------------------------------------------------------
(* The handler, and the renewal beside it *)

Results(path) ==
    CASE path = "panic" -> {"safe", "unsafe", "failed", "empty", "error"}
      [] path = "reconcile" -> {"ok", "proof", "error"}
      [] OTHER -> {"ok", "error"}

(* A reset that succeeds also forgets the receipts of completed panics. *)
HandlerEnds(r) ==
    /\ req[r].pc = "run"
    /\ \E x \in Results(PathOf[r]) :
           /\ req' = [req EXCEPT ![r].result = x, ![r].pc = "ended"]
           /\ truth' = CASE PathOf[r] = "panic" ->
                               [truth EXCEPT ![r] = [says |-> x, at |-> clock, undone |-> FALSE]]
                         [] PathOf[r] = "reset" /\ x = "ok" ->
                               [q \in Requests |->
                                    [truth[q] EXCEPT !.undone = @ \/ req[q].pc = "done"]]
                         [] OTHER -> truth
           /\ doubt' = IF x = "error" THEN doubt \cup {req[r].ilk} ELSE doubt
           /\ receipt' = IF PathOf[r] = "reset" /\ x = "ok" /\ receipt.state = "completed"
                         THEN NoReceipt ELSE receipt
    /\ UNCHANGED <<clock, lease, latch, faults, crashes>>

RenewLease(r) ==
    LET k == req[r].key IN
    /\ req[r].pc = "run" /\ req[r].renewal = "ok"
    /\ clock < req[r].expires /\ req[r].expires < clock + Ttl
    /\ IF Owns(r, k) /\ LiveLease(k)
       THEN /\ lease' = [lease EXCEPT ![k].expires = clock + Ttl]
            /\ req' = [req EXCEPT ![r].expires = clock + Ttl,
                                  ![r].renewal = IF PathOf[r] = "panic" THEN "half" ELSE "ok"]
       ELSE req' = [req EXCEPT ![r].renewal = "lost"] /\ UNCHANGED lease
    /\ UNCHANGED <<latch, receipt, otherVars>>

(* _panic_lease_is_authoritative *)
Authoritative(r) ==
    LET k == req[r].key IN
    Owns(r, k) /\ LiveLease(k) /\ lease[k].expires = req[r].expires
MyReceipt(r) == receipt.owner = r /\ receipt.gen = req[r].gen

RenewReceipt(r) ==
    /\ req[r].pc \in {"run", "ended"} /\ req[r].renewal = "half" /\ clock < req[r].expires
    /\ IF Authoritative(r) /\ MyReceipt(r) /\ receipt.state = "started"
       THEN /\ receipt' = [receipt EXCEPT !.expires = req[r].expires]
            /\ req' = [req EXCEPT ![r].renewal = "ok"]
       ELSE req' = [req EXCEPT ![r].renewal = "lost"] /\ UNCHANGED receipt
    /\ UNCHANGED <<lease, latch, otherVars>>

(* The store failed, or nobody came to renew, until the lease was over. *)
RenewalLate(r) ==
    /\ req[r].pc \in {"run", "ended"} /\ clock >= req[r].expires
    /\ req[r].renewal = "half" \/ (req[r].renewal = "ok" /\ req[r].pc = "run")
    /\ req' = [req EXCEPT ![r].renewal = "store"]
    /\ UNCHANGED <<storeVars, otherVars>>

-----------------------------------------------------------------------------
(* After the handler *)

OwnAnswer(r) ==
    IF req[r].result = "error" THEN "error"
    ELSE IF PathOf[r] # "panic" THEN "ok"
    ELSE IF req[r].result = "safe" THEN "safe" ELSE "incomplete"

Resume(r) ==
    /\ req[r].pc = "ended" /\ req[r].renewal # "half"
    /\ CASE req[r].result = "error" \/ req[r].renewal # "ok" ->
              Goto(r, IF PathOf[r] = "panic" THEN "unsure" ELSE "latch")
         [] PathOf[r] = "panic" /\ req[r].result # "error" /\ req[r].renewal = "ok" ->
              Goto(r, "finish")
         [] OTHER -> Goto(r, IF req[r].target # NoLatch /\ req[r].result = "proof"
                             THEN "clear" ELSE "settle")
    /\ UNCHANGED <<storeVars, otherVars>>

(* _finish_panic_receipt; an answer that is no receipt discards the row *)
Finish(r) ==
    /\ req[r].pc = "finish"
    /\ CASE req[r].result = "empty" /\ MyReceipt(r) -> receipt' = NoReceipt /\ Goto(r, "settle")
         [] req[r].result # "empty" /\ Authoritative(r) /\ MyReceipt(r)
              /\ receipt.state = "started" ->
              /\ receipt' = [receipt EXCEPT
                     !.state = IF req[r].result = "failed" THEN "failed" ELSE "completed",
                     !.says = req[r].result, !.expires = req[r].expires]
              /\ Goto(r, "settle")
         [] OTHER -> Goto(r, "unsure") /\ UNCHANGED receipt
    /\ UNCHANGED <<lease, latch, otherVars>>

(* _mark_panic_uncertain *)
UncertainReceipt(r) ==
    LET longer == IF req[r].expires > clock + Ttl THEN req[r].expires ELSE clock + Ttl IN
    IF MyReceipt(r)
    THEN [receipt EXCEPT !.state = "failed", !.says = "none", !.expires = longer]
    ELSE receipt
MarkReceipt(r) ==
    /\ req[r].pc \in {"unsure", "unsurelast"}
    /\ receipt' = UncertainReceipt(r)
    /\ IF req[r].pc = "unsure" THEN Goto(r, "latch") ELSE Answer(r, OwnAnswer(r))
    /\ UNCHANGED <<lease, latch, otherVars>>

MarkLatch(r) ==
    /\ req[r].pc \in {"latch", "cleanup"}
    /\ latch' = MarkUncertain(r)
    /\ IF req[r].pc = "cleanup" /\ PathOf[r] = "panic"
       THEN Goto(r, "unsurelast") ELSE Answer(r, OwnAnswer(r))
    /\ UNCHANGED <<lease, receipt, otherVars>>

(* reconcile_clear, with portfolio truth proven *)
Clear(r) ==
    LET t == latch["portfolio"]
        exact == t.owner = req[r].target.owner /\ t.gen = req[r].target.gen /\ t.finished
    IN  /\ req[r].pc = "clear"
        /\ latch' = IF exact THEN [latch EXCEPT !["portfolio"] = NoLatch] ELSE latch
        /\ doubt' = IF exact THEN doubt \ {"portfolio"} ELSE doubt
        /\ Goto(r, "settle")
        /\ UNCHANGED <<clock, lease, receipt, truth, faults, crashes>>

Settle(r) ==
    /\ req[r].pc = "settle"
    /\ IF Holds(r) /\ latch[req[r].ilk].state = "active"
       THEN /\ latch' = [latch EXCEPT ![req[r].ilk].state = "settled",
                                      ![req[r].ilk].finished = TRUE]
            /\ Goto(r, "release")
       ELSE Goto(r, "cleanup") /\ UNCHANGED latch
    /\ UNCHANGED <<lease, receipt, otherVars>>

(* release_settled: both or neither *)
ReleaseRetrying(r) == \* Mutant: it is tried again
    LET k == req[r].key IN
    /\ req[r].pc = "release"
    /\ IF Owns(r, k) /\ LiveLease(k) /\ Holds(r) /\ latch[req[r].ilk].state = "settled"
       THEN /\ lease' = Released(k)
            /\ latch' = [latch EXCEPT ![req[r].ilk] = NoLatch]
            /\ Answer(r, OwnAnswer(r))
       ELSE UNCHANGED <<lease, latch, req>>
    /\ UNCHANGED <<receipt, otherVars>>
ReleaseSettled(r) ==
    LET k == req[r].key IN
    /\ req[r].pc = "release"
    /\ IF Owns(r, k) /\ LiveLease(k) /\ Holds(r) /\ latch[req[r].ilk].state = "settled"
       THEN /\ lease' = Released(k)
            /\ latch' = [latch EXCEPT ![req[r].ilk] = NoLatch]
            /\ Answer(r, OwnAnswer(r))
       ELSE Goto(r, "cleanup") /\ UNCHANGED <<lease, latch>>
    /\ UNCHANGED <<receipt, otherVars>>

-----------------------------------------------------------------------------
(* A panic that joined another waits for its receipt. *)

Fence(r) ==
    LET k == req[r].key
        mine == receipt.owner = req[r].owner /\ receipt.gen = req[r].gen
        active == lease[k].owner = req[r].owner /\ lease[k].gen = req[r].gen /\ LiveLease(k)
        over == receipt.state \in {"completed", "failed"}
        released == /\ over /\ receipt.expires > clock
                    /\ lease[k].owner = "" /\ lease[k].gen = req[r].gen + 1 /\ ~LiveLease(k)
    IN  /\ lease[k] # NoLease
        /\ receipt = NoReceipt \/ mine
        /\ active \/ released
        /\ over /\ active => receipt.expires = lease[k].expires

WaitEnds(r) ==
    /\ req[r].pc = "wait"
    /\ CASE ~Fence(r) -> Answer(r, "incomplete")
         [] Fence(r) /\ receipt.state \in {"completed", "failed"} ->
              Answer(r, IF receipt.state = "completed" /\ receipt.says = "safe"
                        THEN "safe" ELSE "incomplete")
         [] OTHER -> FALSE
    /\ UNCHANGED <<storeVars, otherVars>>

(* request_timeout_seconds *)
WaitTimesOut(r) ==
    /\ req[r].pc = "wait"
    /\ Answer(r, "incomplete")
    /\ UNCHANGED <<storeVars, otherVars>>

-----------------------------------------------------------------------------
(* The store, the process and time *)

(* What a request does when the store is unavailable *)
StoreFails(r) ==
    /\ faults < Faults /\ faults' = faults + 1
    /\ CASE req[r].pc \in {"control", "existing", "companion", "legacy", "probe", "reclaim",
                            "acquire", "wait"} -> Answer(r, "store")
         [] req[r].pc = "claim" -> Goto(r, "unclaimed")
         [] req[r].pc = "start" -> Goto(r, "unstarted")
         [] req[r].pc \in {"refused", "unclaimed", "notstarted", "unstarted"} ->
              Answer(r, Refusal(r))
         [] req[r].pc = "finish" -> Goto(r, "unsure")
         [] req[r].pc = "unsure" -> Goto(r, "latch")
         [] req[r].pc = "clear" -> Goto(r, "settle")
         [] req[r].pc \in {"settle", "release"} -> Goto(r, "cleanup")
         [] req[r].pc = "cleanup" /\ PathOf[r] = "panic" -> Goto(r, "unsurelast")
         [] req[r].pc \in {"latch", "cleanup", "unsurelast"}
              /\ ~(req[r].pc = "cleanup" /\ PathOf[r] = "panic") -> Answer(r, OwnAnswer(r))
         [] OTHER -> FALSE
    /\ UNCHANGED <<storeVars, clock, truth, doubt, crashes>>

Crash ==
    /\ crashes < Crashes /\ crashes' = crashes + 1
    /\ req' = [r \in Requests |-> IF req[r].pc \in {"new", "done"} THEN req[r]
                                 ELSE [Fresh EXCEPT !.pc = "done"]]
    /\ doubt' = doubt \cup {req[r].ilk : r \in {q \in Requests : Running(q)}}
    /\ UNCHANGED <<clock, storeVars, truth, faults>>

(* prune_expired: not the leases of interlocked resources *)
Prune ==
    LET old == {k \in LeaseKeys : lease[k] # NoLease /\ ~LiveLease(k) /\ latch[k] = NoLatch} IN
    /\ old # {}
    /\ lease' = [k \in LeaseKeys |-> IF k \in old THEN NoLease ELSE lease[k]]
    /\ UNCHANGED <<latch, receipt, req, otherVars>>

Tick ==
    /\ clock < MaxTime
    /\ clock' = clock + 1
    /\ UNCHANGED <<storeVars, req, truth, doubt, faults, crashes>>

Step(r) ==
    \/ InspectControl(r) \/ InspectExisting(r) \/ InspectCompanion(r) \/ DecideReset(r)
    \/ DecidePanic(r) \/ ProbePanic(r) \/ ProbeBacktest(r) \/ ReclaimBacktest(r)
    \/ Acquire(r) \/ Contend(r) \/ Claim(r) \/ GiveBack(r) \/ StartReceipt(r) \/ NotStarted(r)
    \/ HandlerEnds(r) \/ RenewReceipt(r) \/ RenewalLate(r)
    \/ Resume(r) \/ Finish(r) \/ MarkReceipt(r) \/ MarkLatch(r) \/ Clear(r)
    \/ Settle(r) \/ ReleaseSettled(r) \/ WaitEnds(r) \/ WaitTimesOut(r)

Next ==
    \/ \E r \in Requests : Arrive(r) \/ Step(r) \/ RenewLease(r) \/ StoreFails(r)
    \/ Crash
    \/ Prune
    \/ Tick

Spec == Init /\ [][Next]_vars
Fairness == \A r \in Requests : WF_vars(Step(r))

-----------------------------------------------------------------------------
(* Properties *)

TypeOK ==
    /\ clock \in 0 .. MaxTime /\ faults \in 0 .. Faults /\ crashes \in 0 .. Crashes
    /\ \A k \in LeaseKeys :
           /\ lease[k].owner \in Requests \cup {"", "none"} /\ lease[k].gen \in Nat
           /\ lease[k].expires \in 0 .. MaxTime + Ttl
           /\ latch[k].state \in {"none", "active", "settled", "uncertain"}
           /\ latch[k].finished => latch[k].state # "active"
    /\ receipt.state \in {"none", "started", "completed", "failed"}
    /\ \A r \in Requests :
           /\ req[r].renewal \in {"ok", "half", "lost", "store"}
           /\ req[r].pc \in {"claim", "start", "run", "release"} => req[r].gen > 0
    /\ doubt \subseteq LeaseKeys

Mutations == {r \in Requests : PathOf[r] # "backtest"}

(* Two mutations of one resource never run at the same time, even when a handler outlives its
   lease and the lease passes on: the interlock, unlike the lease, does not expire. *)
OneMutation ==
    \A r, q \in Mutations : Running(r) /\ Running(q) /\ req[r].ilk = req[q].ilk => r = q

(* After a mutation that failed, was cancelled or died with the process, nothing runs on its
   resource until a reconciliation has proven the truth, whichever cleanup steps the store
   allowed ("A previous mutation requires explicit reconciliation"). *)
DoubtBlocks == \A r \in Mutations : Running(r) => req[r].ilk \notin doubt

(* A panic request that is told the account is safe is told so by a panic that found it so
   within the last lease, and not before a reset that the request came after: a follower takes
   nobody's old receipt. *)
SafeIsFreshStep ==
    \A r \in Requests :
        PathOf[r] = "panic" /\ req'[r].answer = "safe" /\ req[r].answer # "safe" =>
            \E q \in Requests \ req[r].before :
                truth[q].says = "safe" /\ (q = r \/ clock < truth[q].at + Ttl)

(* A reset that comes while a panic is running never runs beside it, and a panic never beside a
   reset it found running, although they hold different interlocks and the lease they share may
   have expired. *)
PanicAndResetApart ==
    \A r, q \in Requests :
        Running(r) /\ Running(q) /\ {PathOf[r], PathOf[q]} = {"panic", "reset"} =>
            q \notin req[r].beside

(* Every request that came is answered: no wait, renewal or cleanup goes on forever. *)
EveryRequestEnds == \A r \in Requests : req[r].pc # "new" ~> req[r].pc = "done"
=============================================================================
