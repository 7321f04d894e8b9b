----------------------------- MODULE CandidateQueue ----------------------------
(***************************************************************************)
(* Queueing of signed candidates (security/candidates.py).  A model drafts *)
(* a candidate; a person queues it with an idempotency key, and may repeat *)
(* the request, change the key, or lose the answer to a crash.  A receipt  *)
(* per key and a nonce per candidate make that one order or one rule at    *)
(* most, and the receipt answers every repetition.                         *)
(***************************************************************************)
EXTENDS Naturals, FiniteSets

CONSTANTS Candidates, KindOf, \* drafted candidates, and what each would become
          Keys,               \* idempotency keys
          Requests, RequestOf, \* queue requests: each has a key, a candidate and a reason
          MaxCrashes

Free == "free"   \* nobody holds the barrier

QueueAssumption ==
    /\ "none" \notin Candidates
    /\ Free \notin Requests
    /\ KindOf \in [Candidates -> {"order", "rule"}]
    /\ RequestOf \in [Requests -> [key : Keys, cand : Candidates, reason : {"r1", "r2"}]]
    /\ MaxCrashes \in Nat

VARIABLES drafted,  \* candidates that were issued
          fresh,    \* candidates whose envelope, quote and static limits still pass
          receipt,  \* candidate_queue_receipts, by kind and key
          nonce,    \* candidate_nonces
          target,   \* the order or rule group made from a candidate
          made,     \* how many were ever made from it
          req,      \* the requests
          writer,   \* who holds the submission barrier
          crashes

vars == <<drafted, fresh, receipt, nonce, target, made, req, writer, crashes>>

NoReceipt == [state |-> "none", cand |-> "none", reason |-> "none", outcome |-> "none",
              target |-> FALSE]
NoTarget == [status |-> "none", proof |-> "none", linked |-> "none"]
Made == {"proposed", "rejected", "queued"}
Refused == {"expired", "risk_rejected"}

C(r) == RequestOf[r].cand
Slot(r) == <<KindOf[C(r)], RequestOf[r].key>>
Receipts == {"order", "rule"} \X Keys

TypeOK ==
    /\ drafted \in SUBSET Candidates /\ fresh \in SUBSET drafted
    /\ \A k \in Receipts :
           /\ receipt[k].state \in {"none", "reserved", "completed"}
           /\ receipt[k].outcome \in {"none"} \cup Made \cup Refused
           /\ (receipt[k].outcome # "none") <=> (receipt[k].state = "completed")
           /\ receipt[k].target <=> receipt[k].outcome \in Made
    /\ nonce \in SUBSET Candidates
    /\ \A r \in Requests : req[r].at \in {"new", "find", "reserve", "terminal", "work", "persist",
                                          "complete", "done"}
    /\ writer \in Requests \cup {Free}

Init ==
    /\ fresh = {} /\ drafted = {}
    /\ receipt = [k \in Receipts |-> NoReceipt]
    /\ nonce = {}
    /\ target = [c \in Candidates |-> NoTarget]
    /\ made = [c \in Candidates |-> 0]
    /\ req = [r \in Requests |-> [at |-> "new", fresh |-> FALSE, answer |-> "none"]]
    /\ writer = Free
    /\ crashes = 0

-----------------------------------------------------------------------------

Goto(r, pc) == req' = [req EXCEPT ![r].at = pc]
Answer(r, a) == req' = [req EXCEPT ![r].at = "done", ![r].answer = a]

(* A draft: a quote that is recent enough, a symbol and a size within the static limits; a draft
   that fails any of them issues nothing. *)
Issue(c) == drafted' = drafted \cup {c} /\ fresh' = fresh \cup {c}

Draft(c) ==
    /\ c \notin drafted
    /\ Issue(c)
    /\ UNCHANGED <<receipt, nonce, target, made, req, writer, crashes>>

(* The signed time and quote limits are checked against one reading of the clock, the first. *)
Arrive(r) ==
    /\ req[r].at = "new" /\ C(r) \in drafted
    /\ req' = [req EXCEPT ![r].at = "find", ![r].fresh = C(r) \in fresh]
    /\ UNCHANGED <<drafted, fresh, receipt, nonce, target, made, writer, crashes>>

SameCandidate(r) ==
    receipt[Slot(r)].cand = C(r) /\ receipt[Slot(r)].reason = RequestOf[r].reason

(* _recover_target: what a receipt that was found says about the request. *)
Recovered(r, pending) ==
    LET found == receipt[Slot(r)] IN
    CASE found.state = "reserved"            -> pending
      [] found.state = "completed" /\ found.target -> Goto(r, "complete")
      [] OTHER                               -> Answer(r, found.outcome)

Find(r) ==
    /\ req[r].at = "find"
    /\ CASE receipt[Slot(r)].state = "none" ->
                IF req[r].fresh THEN Goto(r, "reserve") ELSE Answer(r, "expired_unseen")
         [] receipt[Slot(r)].state # "none" /\ ~SameCandidate(r) -> Answer(r, "conflict")
         [] OTHER -> Recovered(r, Goto(r, IF req[r].fresh THEN "work" ELSE "terminal"))
    /\ UNCHANGED <<drafted, fresh, receipt, nonce, target, made, writer, crashes>>

ReceiptReserved(r) ==
    [NoReceipt EXCEPT !.state = "reserved", !.cand = C(r), !.reason = RequestOf[r].reason]

ReplayedByKey(r) == FALSE \* Mutant: the nonce is not consulted
Replayed(r) == C(r) \in nonce

Reserve(r) ==
    /\ req[r].at = "reserve"
    /\ \/ /\ receipt[Slot(r)].state # "none"
          /\ IF SameCandidate(r) THEN Recovered(r, Goto(r, "work")) ELSE Answer(r, "conflict")
          /\ UNCHANGED <<receipt, nonce>>
       \/ /\ receipt[Slot(r)].state = "none" /\ Replayed(r)
          /\ Answer(r, "replayed")
          /\ UNCHANGED <<receipt, nonce>>
       \/ /\ receipt[Slot(r)].state = "none" /\ ~Replayed(r)
          /\ receipt' = [receipt EXCEPT ![Slot(r)] = ReceiptReserved(r)]
          /\ nonce' = nonce \cup {C(r)}
          /\ Goto(r, "work")
    /\ UNCHANGED <<drafted, fresh, target, made, writer, crashes>>

MayClose(r) == receipt[Slot(r)].state = "reserved"

CompleteTerminal(r) ==
    /\ req[r].at = "terminal"
    /\ \/ /\ MayClose(r)
          /\ receipt' = [receipt EXCEPT ![Slot(r)].state = "completed",
                                        ![Slot(r)].outcome = "expired",
                                        ![Slot(r)].target = FALSE]
          /\ Answer(r, "expired")
       \/ /\ ~MayClose(r)
          /\ IF receipt[Slot(r)].target THEN Goto(r, "work")
                                        ELSE Answer(r, receipt[Slot(r)].outcome)
          /\ UNCHANGED receipt
    /\ UNCHANGED <<drafted, fresh, nonce, target, made, writer, crashes>>

-----------------------------------------------------------------------------
(* Under the submission barrier *)

Enter(r) ==
    /\ req[r].at = "work" /\ writer = Free
    /\ Recovered(r, Goto(r, "persist"))
    /\ writer' = IF receipt[Slot(r)].state = "reserved" THEN r ELSE Free
    /\ UNCHANGED <<drafted, fresh, receipt, nonce, target, made, crashes>>

(* The snapshot needed for the risk check is not to be had: the receipt stays reserved. *)
DependencyFails(r) ==
    /\ req[r].at = "persist"
    /\ Answer(r, "unavailable")
    /\ writer' = Free
    /\ UNCHANGED <<drafted, fresh, receipt, nonce, target, made, crashes>>

(* The receipt may have been closed as expired meanwhile, outside the barrier. *)
StillReservedNot(r) == TRUE \* Mutant: the state is not read again
StillReserved(r) == receipt[Slot(r)].state = "reserved"

Completed(r, outcome) ==
    [receipt EXCEPT ![Slot(r)].state = "completed", ![Slot(r)].outcome = outcome,
                    ![Slot(r)].target = outcome \in Made]

(* The lifecycle proof in an audit event: the snapshot of what the event changed. *)
ProofOf(status) == status
FirstStatus(outcome) == IF outcome = "queued" THEN "active" ELSE outcome
NewTarget(outcome) ==
    [status |-> FirstStatus(outcome), proof |-> ProofOf(FirstStatus(outcome)), linked |-> "none"]

(* The target, its audit with the first proof, and the receipt, in one transaction. *)
MakeTarget(r, outcome) ==
    /\ target[C(r)] = NoTarget
    /\ receipt' = Completed(r, outcome)
    /\ target' = [target EXCEPT ![C(r)] = NewTarget(outcome)]
    /\ made' = [made EXCEPT ![C(r)] = @ + 1]
    /\ Goto(r, "complete")

PersistOrder(r) ==
    /\ KindOf[C(r)] = "order"
    /\ \E outcome \in {"proposed", "rejected"} : MakeTarget(r, outcome)

PersistRule(r) == KindOf[C(r)] = "rule" /\ MakeTarget(r, "queued")

RejectRuleRisk(r) ==
    /\ KindOf[C(r)] = "rule"
    /\ receipt' = Completed(r, "risk_rejected")
    /\ Answer(r, "risk_rejected")
    /\ UNCHANGED <<target, made>>

Persist(r) ==
    /\ req[r].at = "persist"
    /\ writer' = Free
    /\ \/ /\ ~StillReserved(r)
          /\ Answer(r, "inconsistent")
          /\ UNCHANGED <<receipt, target, made>>
       \/ StillReserved(r) /\ (PersistOrder(r) \/ PersistRule(r) \/ RejectRuleRisk(r))
    /\ UNCHANGED <<drafted, fresh, nonce, crashes>>

(* _complete: the target must be one that the receipt's outcome could have become, and every
   change of it must have left its proof. *)
Successors(s) ==
    CASE s = "proposed" -> {"approved", "rejected", "expired"}
      [] s = "approved" -> {"submitted", "canceled"}
      [] s = "submitted" -> {"filled", "canceled"}
      [] OTHER -> {}
Reachable(s) ==
    LET one == {s} \cup Successors(s)
        two == one \cup UNION {Successors(x) : x \in one}
    IN  two \cup UNION {Successors(x) : x \in two}

ProofMatches(c) == target[c].proof = ProofOf(target[c].status)

OrderLifecycleConsistent(c, first) ==
    target[c].status \in Reachable(first) /\ ProofMatches(c)

(* A rule that fired has one order, which came from it: proposed, or rejected if it failed. *)
LinkedOrderCanonical(c) ==
    target[c].linked \in Reachable(IF target[c].status = "failed" THEN "rejected" ELSE "proposed")

RuleLifecycleConsistent(c) ==
    /\ ProofMatches(c)
    /\ \/ target[c].status \in {"active", "canceled"}
       \/ target[c].status \in {"triggered", "failed"} /\ LinkedOrderCanonical(c)

TargetValid(r) ==
    IF KindOf[C(r)] = "order"
    THEN OrderLifecycleConsistent(C(r), receipt[Slot(r)].outcome)
    ELSE RuleLifecycleConsistent(C(r))

Complete(r) ==
    /\ req[r].at = "complete"
    /\ Answer(r, IF TargetValid(r) THEN receipt[Slot(r)].outcome ELSE "inconsistent")
    /\ UNCHANGED <<drafted, fresh, receipt, nonce, target, made, writer, crashes>>

-----------------------------------------------------------------------------
(* Around it *)

(* The order or the rule goes its way, each step with its proof in the same transaction. *)
Advanced(c, next) == [target[c] EXCEPT !.status = next, !.proof = ProofOf(next)]

AdvanceOrder(c) ==
    \E next \in Successors(target[c].status) : target' = [target EXCEPT ![c] = Advanced(c, next)]

AdvanceRule(c) ==
    /\ target[c].status = "active"
    /\ \E next \in {"triggered", "failed", "canceled"} :
           target' = [target EXCEPT ![c] = [Advanced(c, next) EXCEPT
               !.linked = CASE next = "triggered" -> "proposed" [] next = "failed" -> "rejected"
                            [] OTHER -> "none"]]

AdvanceLinked(c) ==
    \E next \in Successors(target[c].linked) : target' = [target EXCEPT ![c].linked = next]

Advance(c) ==
    /\ writer = Free
    /\ AdvanceOrder(c) \/ AdvanceRule(c) \/ AdvanceLinked(c)
    /\ UNCHANGED <<drafted, fresh, receipt, nonce, made, req, writer, crashes>>

Expire(c) ==
    /\ c \in fresh
    /\ fresh' = fresh \ {c}
    /\ UNCHANGED <<drafted, receipt, nonce, target, made, req, writer, crashes>>

(* The process ends: its requests get no answer; what was committed stays. *)
Crash ==
    /\ crashes < MaxCrashes
    /\ crashes' = crashes + 1
    /\ req' = [r \in Requests |-> IF req[r].at \in {"new", "done"} THEN req[r]
                                  ELSE [req[r] EXCEPT !.at = "done", !.answer = "lost"]]
    /\ writer' = Free
    /\ UNCHANGED <<drafted, fresh, receipt, nonce, target, made>>

Step(r) ==
    \/ Arrive(r) \/ Find(r) \/ Reserve(r) \/ CompleteTerminal(r) \/ Enter(r)
    \/ DependencyFails(r) \/ Persist(r) \/ Complete(r)

Next ==
    \/ \E r \in Requests : Step(r)
    \/ \E c \in Candidates : Draft(c) \/ Advance(c) \/ Expire(c)
    \/ Crash

Spec == Init /\ [][Next]_vars

(* A request, once it came, runs on. *)
Fairness == \A r \in Requests : WF_vars(Step(r))

-----------------------------------------------------------------------------
(* Properties *)

Done(r) == req[r].at = "done"

(* A candidate becomes one order or rule at most, whatever is repeated, under whatever keys,
   and none that a receipt does not vouch for. *)
OneTarget ==
    \A c \in Candidates :
        /\ made[c] <= 1
        /\ Cardinality({k \in Receipts : receipt[k].cand = c}) <= 1
        /\ made[c] = 1 <=> \E k \in Receipts : receipt[k].cand = c /\ receipt[k].target

(* A refusal that was answered from the record is true: nothing was made and nothing will be. *)
RefusalIsTrue ==
    \A r \in Requests : Done(r) /\ req[r].answer \in Refused =>
        receipt[Slot(r)].outcome \in {"expired", req[r].answer} /\ made[C(r)] = 0

(* Whoever repeats a request with the same key, candidate and reason is never told of a different
   result than whoever asked before, even after the order was approved, filled or canceled. *)
AnswersAgree ==
    \A r, s \in Requests :
        /\ Done(r) /\ Done(s) /\ RequestOf[r] = RequestOf[s]
        /\ req[r].answer \in Made
        => req[s].answer \in {req[r].answer, "lost", "unavailable"} \cup
               (IF req[s].fresh THEN {} ELSE {"expired_unseen"})

(* What a request is told was made from its candidate was queued by its own words: under another
   key or with another reason it is told of a conflict or a replay. *)
OwnResultOnly ==
    \A r \in Requests : Done(r) /\ req[r].answer \in Made =>
        /\ receipt[Slot(r)].cand = C(r) /\ receipt[Slot(r)].reason = RequestOf[r].reason
        /\ made[C(r)] = 1

(* What a request is told of its candidate is so, and is its own result: repeated requests agree,
   a refusal stands, and nobody is told of what another's words have made. *)
AnswersAreTrue == AnswersAgree /\ RefusalIsTrue /\ OwnResultOnly

(* Every request ends, also when it waits for the barrier. *)
EveryRequestEnds == \A r \in Requests : req[r].at = "find" ~> Done(r)
=============================================================================
