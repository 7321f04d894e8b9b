------------------------- MODULE CandidateQueueProofs -------------------------
(***************************************************************************)
(* For any candidates, keys and requests: a candidate becomes one order or *)
(* rule at most, and what a request is told of it is so.                   *)
(***************************************************************************)
EXTENDS CandidateQueue, FiniteSetTheorems, TLAPS

PCs == {"new", "find", "reserve", "terminal", "work", "persist", "complete", "done"}
Answers == {"none", "lost", "unavailable", "conflict", "replayed", "inconsistent",
            "expired_unseen"} \cup Made \cup Refused
Stages == {"none", "proposed", "approved", "rejected", "expired", "submitted",
           "canceled", "filled", "active", "triggered", "failed"}

ReqOf(B) == [at : PCs, fresh : B, answer : Answers]
ReqType == ReqOf(BOOLEAN)
RowOf(B) == [state : {"none", "reserved", "completed"}, cand : Candidates \cup {"none"},
             reason : {"none", "r1", "r2"}, outcome : {"none"} \cup Made \cup Refused,
             target : B]
RowType == RowOf(BOOLEAN)
TargetType == [status : Stages, proof : Stages, linked : Stages]

Shape ==
    /\ receipt \in [Receipts -> RowType]
    /\ nonce \subseteq Candidates
    /\ target \in [Candidates -> TargetType]
    /\ made \in [Candidates -> Nat]
    /\ req \in [Requests -> ReqType]

(* A receipt and its nonce are written together, once for a candidate.     *)
Reserved ==
    /\ \A k \in Receipts :
          /\ receipt[k].state = "none" => receipt[k].cand = "none" /\ receipt[k].outcome = "none"
          /\ receipt[k].state # "none" =>
                /\ receipt[k].cand \in nonce
                /\ k[1] = KindOf[receipt[k].cand]
          /\ receipt[k].state = "reserved" => receipt[k].outcome = "none"
          /\ receipt[k].state = "completed" => receipt[k].outcome # "none"
          /\ receipt[k].target <=> receipt[k].outcome \in Made
    /\ \A k, l \in Receipts : receipt[k].cand = receipt[l].cand /\ receipt[k].cand # "none" => k = l
    /\ \A c \in nonce : \E k \in Receipts : receipt[k].cand = c

(* What becomes of the target of a receipt with this outcome.              *)
Lifecycle(kind, outcome, t) ==
    /\ t.proof = t.status
    /\ kind = "order" => t.status \in Reachable(outcome)
    /\ kind = "rule" =>
          \/ t.status \in {"active", "canceled"}
          \/ t.status = "triggered" /\ t.linked \in Reachable("proposed")
          \/ t.status = "failed" /\ t.linked \in Reachable("rejected")

(* Receipts that say so, and no others, have a target, made once and of a  *)
(* status their outcome can have come to.                                  *)
Vouched ==
    /\ \A k \in Receipts : receipt[k].outcome \in Made =>
          /\ made[receipt[k].cand] = 1
          /\ k[1] = "order" => receipt[k].outcome \in {"proposed", "rejected"}
          /\ Lifecycle(k[1], receipt[k].outcome, target[receipt[k].cand])
    /\ \A c \in Candidates :
          (\A k \in Receipts : receipt[k].cand = c => receipt[k].outcome \notin Made)
            => made[c] = 0 /\ target[c] = NoTarget

(* Where a request is, against the receipt of its slot.                    *)
Placed(r) ==
    /\ req[r].at \in {"terminal", "work", "persist", "complete"} =>
          receipt[Slot(r)].state # "none" /\ SameCandidate(r)
    /\ req[r].at = "complete" => receipt[Slot(r)].outcome \in Made
    /\ req[r].at = "persist" =>
          /\ writer = r
          /\ receipt[Slot(r)].state = "reserved" \/ receipt[Slot(r)].outcome = "expired"

(* What a request was told, against the receipt of its slot: all of it     *)
(* stays so, because a completed receipt is not written again.             *)
Answered(r) ==
    LET a == req[r].answer IN
    /\ a \in Made \cup Refused => SameCandidate(r) /\ receipt[Slot(r)].outcome = a
    /\ a = "conflict" => receipt[Slot(r)].state # "none" /\ ~SameCandidate(r)
    /\ a = "replayed" => \E k \in Receipts : k # Slot(r) /\ receipt[k].cand = C(r)
    /\ a = "inconsistent" => receipt[Slot(r)].outcome \in Refused
    /\ a = "expired_unseen" => ~req[r].fresh
    /\ req[r].at = "done" => a # "none"
    /\ req[r].at = "new" => a = "none"

Honest == \A r \in Requests : Placed(r) /\ Answered(r)

IInv == Shape /\ Reserved /\ Vouched /\ Honest

-----------------------------------------------------------------------------
(* Operators *)

(* A request uses a receipt of its candidate's kind.                       *)
LEMMA SlotType ==
    ASSUME QueueAssumption, NEW r \in Requests
    PROVE  /\ Slot(r) \in Receipts /\ C(r) \in Candidates /\ C(r) # "none"
           /\ Slot(r)[1] = KindOf[C(r)] /\ RequestOf[r].reason \in {"r1", "r2"}
           /\ KindOf[C(r)] \in {"order", "rule"}
  BY DEF QueueAssumption, Slot, C, Receipts

(* The successors of each stage an order or a rule can be in.              *)
LEMMA SuccessorTable ==
    /\ Successors("proposed") = {"approved", "rejected", "expired"}
    /\ Successors("approved") = {"submitted", "canceled"}
    /\ Successors("submitted") = {"filled", "canceled"}
    /\ \A x \in Stages \ {"proposed", "approved", "submitted"} : Successors(x) = {}
  BY DEF Successors, Stages

(* Whatever an order can become is counted in (the lifecycle checks of     *)
(* _complete).                                                             *)
LEMMA ReachableTable ==
    /\ Reachable("proposed") = {"proposed", "approved", "rejected", "expired", "submitted",
                                "canceled", "filled"}
    /\ Reachable("rejected") = {"rejected"}
  BY SuccessorTable DEF Reachable, Stages

(* Goto and Answer write one request.                                      *)
OthersStay(r) == \A s \in Requests : s # r => req'[s] = req[s]

(* Goto moves one request and keeps what it was told.                      *)
LEMMA GotoOne ==
    ASSUME req \in [Requests -> ReqType], NEW r \in Requests, NEW pc \in PCs, Goto(r, pc)
    PROVE  /\ req' \in [Requests -> ReqType] /\ OthersStay(r)
           /\ req'[r].at = pc /\ req'[r].answer = req[r].answer
           /\ req'[r].fresh = req[r].fresh
  BY DEF Goto, ReqType, ReqOf, OthersStay

(* Answer ends one request with one answer.                                *)
LEMMA AnswerOne ==
    ASSUME req \in [Requests -> ReqType], NEW r \in Requests, NEW a \in Answers, Answer(r, a)
    PROVE  /\ req' \in [Requests -> ReqType] /\ OthersStay(r)
           /\ req'[r].at = "done" /\ req'[r].answer = a
           /\ req'[r].fresh = req[r].fresh
  BY DEF Answer, ReqType, ReqOf, PCs, OthersStay

(* Completed writes one receipt and leaves its candidate and reason.       *)
RowClosed(r, o) ==
    /\ receipt' \in [Receipts -> RowType]
    /\ \A k \in Receipts : k # Slot(r) => receipt'[k] = receipt[k]
    /\ receipt'[Slot(r)].state = "completed" /\ receipt'[Slot(r)].outcome = o
    /\ receipt'[Slot(r)].target <=> o \in Made
    /\ receipt'[Slot(r)].cand = receipt[Slot(r)].cand
    /\ receipt'[Slot(r)].reason = receipt[Slot(r)].reason

Closing(f, k, o, b) ==
    [f EXCEPT ![k].state = "completed", ![k].outcome = o, ![k].target = b]

(* A candidate has one receipt.                                            *)
LEMMA SameReceipt ==
    ASSUME IInv, NEW k \in Receipts, NEW l \in Receipts,
           receipt[k].cand = receipt[l].cand, receipt[k].cand # "none"
    PROVE  k = l
  BY Zenon DEF IInv, Reserved

(* Closing changes three columns of one row.                               *)
LEMMA ClosingRow ==
    ASSUME NEW B, NEW f \in [Receipts -> RowOf(B)], NEW k \in Receipts,
           NEW o \in Made \cup Refused, NEW b \in B
    PROVE  /\ Closing(f, k, o, b) \in [Receipts -> RowOf(B)]
           /\ \A l \in Receipts : l # k => Closing(f, k, o, b)[l] = f[l]
           /\ Closing(f, k, o, b)[k].state = "completed"
           /\ Closing(f, k, o, b)[k].outcome = o
           /\ Closing(f, k, o, b)[k].target = b
           /\ Closing(f, k, o, b)[k].cand = f[k].cand
           /\ Closing(f, k, o, b)[k].reason = f[k].reason
<1> DEFINE row == [f[k] EXCEPT !.state = "completed", !.outcome = o, !.target = b]
<1>1. Closing(f, k, o, b) = [f EXCEPT ![k] = row]
  BY DEF Closing
<1>2. row \in RowOf(B)
  BY DEF RowOf
<1>3. /\ row.state = "completed" /\ row.outcome = o /\ row.target = b
      /\ row.cand = f[k].cand /\ row.reason = f[k].reason
  BY DEF RowOf
<1> HIDE DEF row
<1> QED
  BY <1>1, <1>2, <1>3

(* A completed receipt keeps its candidate and its reason.                 *)
LEMMA CompletedRow ==
    ASSUME receipt \in [Receipts -> RowType], NEW r, Slot(r) \in Receipts,
           NEW o \in Made \cup Refused, receipt' = Completed(r, o)
    PROVE  RowClosed(r, o)
<1> DEFINE b == o \in Made
           g == Closing(receipt, Slot(r), o, b)
<1>1. b \in BOOLEAN
  OBVIOUS
<1>2. receipt' = g
  BY DEF Completed, Closing
<1>3. receipt \in [Receipts -> RowOf(BOOLEAN)]
  BY DEF RowType
<1> HIDE DEF b
<1>4. /\ Closing(receipt, Slot(r), o, b) \in [Receipts -> RowOf(BOOLEAN)]
      /\ \A l \in Receipts : l # Slot(r) => Closing(receipt, Slot(r), o, b)[l] = receipt[l]
      /\ Closing(receipt, Slot(r), o, b)[Slot(r)].state = "completed"
      /\ Closing(receipt, Slot(r), o, b)[Slot(r)].outcome = o
      /\ Closing(receipt, Slot(r), o, b)[Slot(r)].target = b
      /\ Closing(receipt, Slot(r), o, b)[Slot(r)].cand = receipt[Slot(r)].cand
      /\ Closing(receipt, Slot(r), o, b)[Slot(r)].reason = receipt[Slot(r)].reason
  BY ONLY <1>1, <1>3, Slot(r) \in Receipts, o \in Made \cup Refused, ClosingRow
<1> HIDE DEF g
<1>5. /\ receipt' \in [Receipts -> RowType]
      /\ \A l \in Receipts : l # Slot(r) => receipt'[l] = receipt[l]
      /\ receipt'[Slot(r)].state = "completed" /\ receipt'[Slot(r)].outcome = o
      /\ receipt'[Slot(r)].target = b
      /\ receipt'[Slot(r)].cand = receipt[Slot(r)].cand
      /\ receipt'[Slot(r)].reason = receipt[Slot(r)].reason
  BY ONLY <1>2, <1>4 DEF RowType, g
<1> QED
  BY ONLY <1>5, Zenon DEF RowClosed, b

-----------------------------------------------------------------------------
(* Steps that write one request and no row *)

BarrierKept(r) == \A s \in Requests : s # r /\ req[s].at = "persist" => writer' = s

(* What holds of the other requests stays.                                 *)
LEMMA OthersHonest ==
    ASSUME QueueAssumption, IInv, NEW r \in Requests, OthersStay(r), BarrierKept(r),
           receipt' = receipt, NEW s \in Requests, s # r
    PROVE  Placed(s)' /\ Answered(s)'
<1>1. Placed(s) /\ Answered(s) /\ req'[s] = req[s]
  BY DEF IInv, Honest, OthersStay
<1>2. SameCandidate(s)' <=> SameCandidate(s)
  BY DEF SameCandidate, Slot, C
<1>3. Placed(s)'
  BY <1>1, <1>2 DEF Placed, BarrierKept, Slot, C
<1>4. Answered(s)'
  BY <1>1, <1>2 DEF Answered, Slot, C
<1> QED
  BY <1>3, <1>4

(* A request goes on to a place that its receipt allows.                   *)
LEMMA GotoStep ==
    ASSUME QueueAssumption, IInv, NEW r \in Requests, NEW pc \in PCs \ {"new", "done"}, Goto(r, pc),
           UNCHANGED <<receipt, nonce, target, made>>, BarrierKept(r),
           pc \in {"terminal", "work", "persist", "complete"} =>
               receipt[Slot(r)].state # "none" /\ SameCandidate(r),
           pc = "complete" => receipt[Slot(r)].outcome \in Made,
           pc = "persist" => writer' = r /\ receipt[Slot(r)].state = "reserved"
    PROVE  IInv'
<1>1. /\ req' \in [Requests -> ReqType] /\ OthersStay(r)
      /\ req'[r].at = pc /\ req'[r].answer = req[r].answer /\ req'[r].fresh = req[r].fresh
  BY GotoOne DEF IInv, Shape
<1>2. SameCandidate(r)' <=> SameCandidate(r)
  BY DEF SameCandidate, Slot, C
<1>3. Placed(r)'
  BY <1>1, <1>2 DEF Placed, Slot, C
<1>4. Answered(r)'
  BY <1>1, <1>2 DEF Answered, IInv, Honest, Slot, C
<1>5. Honest'
  BY <1>1, <1>3, <1>4, OthersHonest DEF Honest
<1>6. Shape' /\ Reserved' /\ Vouched'
  BY <1>1 DEF IInv, Shape, Reserved, Vouched
<1> QED
  BY <1>5, <1>6 DEF IInv

(* What a receipt allows a request to be told.                             *)
MayTell(r, a) ==
    /\ a \in Answers \ {"none"}
    /\ a \in Made \cup Refused => SameCandidate(r) /\ receipt[Slot(r)].outcome = a
    /\ a = "conflict" => receipt[Slot(r)].state # "none" /\ ~SameCandidate(r)
    /\ a = "replayed" => \E k \in Receipts : k # Slot(r) /\ receipt[k].cand = C(r)
    /\ a = "inconsistent" => receipt[Slot(r)].outcome \in Refused
    /\ a = "expired_unseen" => ~req[r].fresh

(* A request is answered as its receipt allows.                            *)
LEMMA AnswerStep ==
    ASSUME QueueAssumption, IInv, NEW r \in Requests, NEW a, Answer(r, a), MayTell(r, a),
           UNCHANGED <<receipt, nonce, target, made>>, BarrierKept(r)
    PROVE  IInv'
<1>0. a \in Answers
  BY DEF MayTell
<1>1. /\ req' \in [Requests -> ReqType] /\ OthersStay(r)
      /\ req'[r].at = "done" /\ req'[r].answer = a /\ req'[r].fresh = req[r].fresh
  BY <1>0, AnswerOne DEF IInv, Shape
<1>2. SameCandidate(r)' <=> SameCandidate(r)
  BY DEF SameCandidate, Slot, C
<1>3. Placed(r)'
  BY <1>1 DEF Placed
<1>4. Answered(r)'
  BY <1>1, <1>2 DEF Answered, MayTell, Slot, C
<1>5. Honest'
  BY <1>1, <1>3, <1>4, OthersHonest DEF Honest
<1>6. Shape' /\ Reserved' /\ Vouched'
  BY <1>1 DEF IInv, Shape, Reserved, Vouched
<1> QED
  BY <1>5, <1>6 DEF IInv

(* The barrier passes from nobody to a request, or from it to nobody.      *)
LEMMA BarrierPasses ==
    ASSUME QueueAssumption, IInv, NEW r \in Requests,
           \/ writer' = writer
           \/ writer = Free
           \/ req[r].at = "persist"
    PROVE  BarrierKept(r)
  BY DEF IInv, Honest, Placed, BarrierKept, QueueAssumption

(* _recover_target sends a request on, or answers it from the record.      *)
LEMMA RecoveredStep ==
    ASSUME QueueAssumption, IInv, NEW r \in Requests,
           NEW pc \in {"terminal", "work", "persist"}, Recovered(r, Goto(r, pc)),
           receipt[Slot(r)].state # "none", SameCandidate(r),
           UNCHANGED <<receipt, nonce, target, made>>, BarrierKept(r),
           pc = "persist" /\ receipt[Slot(r)].state = "reserved" => writer' = r
    PROVE  IInv'
<1>1. /\ Slot(r) \in Receipts /\ receipt[Slot(r)] \in RowType
      /\ receipt[Slot(r)].target <=> receipt[Slot(r)].outcome \in Made
      /\ receipt[Slot(r)].state = "completed" => receipt[Slot(r)].outcome # "none"
  BY SlotType DEF IInv, Shape, Reserved
<1>2. CASE receipt[Slot(r)].state = "reserved"
  <2>1. Goto(r, pc)
    BY <1>2 DEF Recovered
  <2>2. pc \in PCs \ {"new", "done"} /\ pc # "complete"
    BY DEF PCs
  <2> QED
    BY <1>2, <2>1, <2>2, GotoStep
<1>3. CASE receipt[Slot(r)].state = "completed" /\ receipt[Slot(r)].target
  <2>1. Goto(r, "complete")
    BY <1>3 DEF Recovered
  <2>2. "complete" \in PCs \ {"new", "done"}
    BY DEF PCs
  <2> QED
    BY <1>1, <1>3, <2>1, <2>2, GotoStep
<1>4. CASE receipt[Slot(r)].state = "completed" /\ ~receipt[Slot(r)].target
  <2>1. Answer(r, receipt[Slot(r)].outcome)
    BY <1>4 DEF Recovered
  <2>2. receipt[Slot(r)].outcome \in Refused
    BY <1>1, <1>4 DEF RowType, RowOf
  <2>3. MayTell(r, receipt[Slot(r)].outcome)
    BY <2>2 DEF MayTell, Answers, Refused, Made
  <2> QED
    BY <2>1, <2>3, AnswerStep
<1> QED
  BY <1>1, <1>2, <1>3, <1>4 DEF RowType, RowOf

(* The first look at the receipt writes nothing but the request.           *)
LEMMA FindStep ==
    ASSUME QueueAssumption, IInv, NEW r \in Requests, Find(r)
    PROVE  IInv'
<1>1. BarrierKept(r) /\ UNCHANGED <<receipt, nonce, target, made>>
  BY BarrierPasses DEF Find
<1>2. CASE receipt[Slot(r)].state = "none" /\ req[r].fresh
  <2>1. Goto(r, "reserve")
    BY <1>2 DEF Find
  <2>2. "reserve" \in PCs \ {"new", "done"}
    BY DEF PCs
  <2> QED
    BY <1>1, <2>1, <2>2, GotoStep
<1>3. CASE receipt[Slot(r)].state = "none" /\ ~req[r].fresh
  <2>1. Answer(r, "expired_unseen")
    BY <1>3 DEF Find
  <2>2. MayTell(r, "expired_unseen")
    BY <1>3 DEF MayTell, Answers, Made, Refused
  <2> QED
    BY <1>1, <2>1, <2>2, AnswerStep
<1>4. CASE receipt[Slot(r)].state # "none" /\ ~SameCandidate(r)
  <2>1. Answer(r, "conflict")
    BY <1>4 DEF Find
  <2>2. MayTell(r, "conflict")
    BY <1>4 DEF MayTell, Answers, Made, Refused
  <2> QED
    BY <1>1, <2>1, <2>2, AnswerStep
<1>5. CASE receipt[Slot(r)].state # "none" /\ SameCandidate(r)
  <2>1. Recovered(r, Goto(r, IF req[r].fresh THEN "work" ELSE "terminal"))
    BY <1>5 DEF Find
  <2>2. (IF req[r].fresh THEN "work" ELSE "terminal") \in {"work", "terminal"}
    OBVIOUS
  <2> QED
    BY <1>1, <1>5, <2>1, <2>2, RecoveredStep
<1> QED
  BY <1>2, <1>3, <1>4, <1>5

-----------------------------------------------------------------------------
(* A new receipt *)

(* A reservation fills one row.                                            *)
LEMMA ReservedRow ==
    ASSUME QueueAssumption, NEW r \in Requests
    PROVE  /\ ReceiptReserved(r) \in RowType
           /\ ReceiptReserved(r).state = "reserved" /\ ReceiptReserved(r).cand = C(r)
           /\ ReceiptReserved(r).reason = RequestOf[r].reason
           /\ ReceiptReserved(r).outcome = "none" /\ ~ReceiptReserved(r).target
  BY SlotType DEF ReceiptReserved, NoReceipt, RowType, RowOf

(* The new receipt is the only one of its candidate.                       *)
LEMMA ReserveReserved ==
    ASSUME QueueAssumption, IInv, NEW r \in Requests,
           receipt[Slot(r)].state = "none", C(r) \notin nonce,
           receipt' = [receipt EXCEPT ![Slot(r)] = ReceiptReserved(r)],
           nonce' = nonce \cup {C(r)}
    PROVE  Reserved'
<1> DEFINE x == ReceiptReserved(r)
<1>1. /\ x.state = "reserved" /\ x.cand = C(r) /\ x.outcome = "none" /\ ~x.target
  BY ReservedRow
<1>2. /\ Slot(r) \in Receipts /\ C(r) # "none" /\ Slot(r)[1] = KindOf[C(r)]
  BY SlotType
<1>3. /\ receipt'[Slot(r)] = x
      /\ \A k \in Receipts : k # Slot(r) => receipt'[k] = receipt[k]
  BY <1>2 DEF IInv, Shape
<1> HIDE DEF x
<1>4. \A k \in Receipts : receipt[k].cand # C(r)
  BY <1>2 DEF IInv, Reserved
<1>5. \A k \in Receipts :
          /\ receipt'[k].state = "none" => receipt'[k].cand = "none" /\ receipt'[k].outcome = "none"
          /\ receipt'[k].state # "none" =>
                receipt'[k].cand \in nonce' /\ k[1] = KindOf[receipt'[k].cand]
          /\ receipt'[k].state = "reserved" => receipt'[k].outcome = "none"
          /\ receipt'[k].state = "completed" => receipt'[k].outcome # "none"
          /\ receipt'[k].target <=> receipt'[k].outcome \in Made
  BY <1>1, <1>2, <1>3 DEF IInv, Reserved, Made
<1>6. \A k, l \in Receipts :
          receipt'[k].cand = receipt'[l].cand /\ receipt'[k].cand # "none" => k = l
  BY <1>1, <1>2, <1>3, <1>4 DEF IInv, Reserved
<1>7. ASSUME NEW c \in nonce' PROVE \E k \in Receipts : receipt'[k].cand = c
  <2>1. CASE c = C(r)
    BY <1>1, <1>2, <1>3, <2>1
  <2>2. CASE c # C(r)
    <3>1. PICK k \in Receipts : receipt[k].cand = c
      BY <2>2 DEF IInv, Reserved
    <3>2. k # Slot(r)
      BY <3>1, <2>2, <1>2 DEF IInv, Reserved, Shape, QueueAssumption
    <3> QED
      BY <3>1, <3>2, <1>3
  <2> QED
    BY <2>1, <2>2
<1> QED
  BY <1>5, <1>6, <1>7 DEF Reserved

(* A new receipt takes a nonce nobody has.                                 *)
LEMMA ReserveNewStep ==
    ASSUME QueueAssumption, IInv, NEW r \in Requests, Goto(r, "work"),
           receipt[Slot(r)].state = "none", C(r) \notin nonce,
           receipt' = [receipt EXCEPT ![Slot(r)] = ReceiptReserved(r)],
           nonce' = nonce \cup {C(r)}, UNCHANGED <<target, made, writer>>
    PROVE  IInv'
<1> DEFINE x == ReceiptReserved(r)
<1>1. /\ x \in RowType /\ x.state = "reserved" /\ x.cand = C(r) /\ x.outcome = "none"
      /\ x.reason = RequestOf[r].reason
  BY ReservedRow
<1>2. /\ Slot(r) \in Receipts /\ C(r) \in Candidates /\ C(r) # "none"
  BY SlotType
<1>3. /\ receipt'[Slot(r)] = x /\ receipt' \in [Receipts -> RowType]
      /\ \A k \in Receipts : k # Slot(r) => receipt'[k] = receipt[k]
  BY <1>1, <1>2 DEF IInv, Shape
<1> HIDE DEF x
<1>4. /\ req' \in [Requests -> ReqType] /\ OthersStay(r)
      /\ req'[r].at = "work" /\ req'[r].answer = req[r].answer /\ req'[r].fresh = req[r].fresh
  BY GotoOne DEF IInv, Shape, PCs
<1>5. Shape'
  BY <1>2, <1>3, <1>4 DEF IInv, Shape
<1>6. Reserved'
  BY ReserveReserved
<1>7. receipt[Slot(r)].cand = "none" /\ receipt[Slot(r)].outcome = "none"
  BY <1>2 DEF IInv, Reserved
<1>8. Vouched'
  <2>1. \A k \in Receipts : receipt'[k].outcome \in Made => k # Slot(r) /\ receipt'[k] = receipt[k]
    BY <1>1, <1>3 DEF Made
  <2>2. ASSUME NEW c \in Candidates,
               \A k \in Receipts : receipt'[k].cand = c => receipt'[k].outcome \notin Made
        PROVE  \A k \in Receipts : receipt[k].cand = c => receipt[k].outcome \notin Made
    BY <2>2, <1>3, <1>7 DEF Made
  <2>3. \A k \in Receipts : receipt'[k].outcome \in Made =>
          /\ made'[receipt'[k].cand] = 1
          /\ k[1] = "order" => receipt'[k].outcome \in {"proposed", "rejected"}
          /\ Lifecycle(k[1], receipt'[k].outcome, target'[receipt'[k].cand])
    BY <2>1 DEF IInv, Vouched
  <2>4. \A c \in Candidates :
          (\A k \in Receipts : receipt'[k].cand = c => receipt'[k].outcome \notin Made)
            => made'[c] = 0 /\ target'[c] = NoTarget
    BY <2>2 DEF IInv, Vouched
  <2> QED
    BY <2>3, <2>4 DEF Vouched
<1>9. ASSUME NEW s \in Requests PROVE Answered(s)' /\ (s # r => Placed(s)')
  <2>1. Placed(s) /\ Answered(s) /\ Slot(s) \in Receipts /\ C(s) # "none"
    BY SlotType DEF IInv, Honest
  <2>2. /\ req'[s].answer = req[s].answer /\ req'[s].fresh = req[s].fresh
        /\ req'[s].at \in {"new", "done"} => req'[s].at = req[s].at
        /\ s # r => req'[s] = req[s]
    BY <1>4 DEF OthersStay
  <2>3. ASSUME NEW k \in Receipts, receipt[k].cand = C(s) PROVE receipt'[k].cand = C(s)
    BY <2>1, <2>3, <1>3, <1>7
  <2>4. CASE Slot(s) = Slot(r)
    <3>1. Answered(s)'
      BY <2>1, <2>2, <2>3, <2>4, <1>7 DEF Answered, Slot, C, Made, Refused
    <3>2. s # r => Placed(s)'
      BY <2>1, <2>2, <2>4, <1>7 DEF Placed, Slot, C, Made, Refused
    <3> QED
      BY <3>1, <3>2
  <2>5. CASE Slot(s) # Slot(r)
    <3>1. receipt'[Slot(s)] = receipt[Slot(s)] /\ (SameCandidate(s)' <=> SameCandidate(s))
      BY <2>1, <2>5, <1>3 DEF SameCandidate, Slot, C
    <3>2. Answered(s)'
      BY <2>1, <2>2, <2>3, <3>1 DEF Answered, Slot, C
    <3>3. s # r => Placed(s)'
      BY <2>1, <2>2, <3>1 DEF Placed, Slot, C
    <3> QED
      BY <3>2, <3>3
  <2> QED
    BY <2>4, <2>5
<1>10. Placed(r)'
  BY <1>1, <1>3, <1>4 DEF Placed, SameCandidate, Slot, C
<1> QED
  BY <1>5, <1>6, <1>8, <1>9, <1>10 DEF IInv, Honest

-----------------------------------------------------------------------------
(* A receipt is completed *)

(* Closing a receipt leaves one receipt per candidate.                     *)
LEMMA CloseReserved ==
    ASSUME QueueAssumption, IInv, NEW r \in Requests, NEW o \in Made \cup Refused,
           RowClosed(r, o), receipt[Slot(r)].state = "reserved", nonce' = nonce
    PROVE  Reserved'
<1>1. Slot(r) \in Receipts
  BY SlotType
<1>2. o # "none"
  BY DEF Made, Refused
<1>3. \A k \in Receipts : receipt'[k].cand = receipt[k].cand
  BY <1>1 DEF RowClosed
<1>4. \A k \in Receipts :
          /\ receipt'[k].state = "none" => receipt'[k].cand = "none" /\ receipt'[k].outcome = "none"
          /\ receipt'[k].state # "none" =>
                receipt'[k].cand \in nonce' /\ k[1] = KindOf[receipt'[k].cand]
          /\ receipt'[k].state = "reserved" => receipt'[k].outcome = "none"
          /\ receipt'[k].state = "completed" => receipt'[k].outcome # "none"
          /\ receipt'[k].target <=> receipt'[k].outcome \in Made
  BY <1>1, <1>2, <1>3 DEF IInv, Reserved, RowClosed
<1>5. \A k, l \in Receipts :
          receipt'[k].cand = receipt'[l].cand /\ receipt'[k].cand # "none" => k = l
  BY <1>3 DEF IInv, Reserved
<1>6. \A c \in nonce' : \E k \in Receipts : receipt'[k].cand = c
  BY <1>3 DEF IInv, Reserved
<1> QED
  BY <1>4, <1>5, <1>6 DEF Reserved

(* Nobody was told anything of a receipt that was reserved, and whoever    *)
(* holds the barrier finds it expired at worst.                            *)
LEMMA CloseOthers ==
    ASSUME QueueAssumption, IInv, NEW r \in Requests, NEW o \in Made \cup Refused,
           RowClosed(r, o), receipt[Slot(r)].state = "reserved",
           o = "expired" \/ req[r].at = "persist",
           OthersStay(r), BarrierKept(r), NEW s \in Requests, s # r
    PROVE  Placed(s)' /\ Answered(s)'
<1>1. /\ Slot(r) \in Receipts /\ Slot(s) \in Receipts
      /\ Placed(s) /\ Answered(s) /\ req'[s] = req[s]
  BY SlotType DEF IInv, Honest, OthersStay
<1>2. \A k \in Receipts : receipt'[k].cand = receipt[k].cand /\ receipt'[k].reason = receipt[k].reason
  BY <1>1 DEF RowClosed
<1>3. SameCandidate(s)' <=> SameCandidate(s)
  BY <1>1, <1>2 DEF SameCandidate, Slot, C
<1>4. req[s].at = "persist" => req[r].at # "persist"
  BY <1>1 DEF IInv, Honest, Placed
<1>5. CASE Slot(s) = Slot(r)
  <2>1. receipt[Slot(s)].outcome = "none" /\ receipt'[Slot(s)].state = "completed"
        /\ receipt'[Slot(s)].outcome = o
    BY <1>1, <1>5 DEF IInv, Reserved, RowClosed
  <2>2. Placed(s)'
    BY <1>1, <1>3, <1>4, <1>5, <2>1 DEF Placed, BarrierKept, Slot, C, Made
  <2>3. Answered(s)'
    BY <1>1, <1>2, <1>3, <2>1 DEF Answered, Slot, C, Made, Refused
  <2> QED
    BY <2>2, <2>3
<1>6. CASE Slot(s) # Slot(r)
  <2>1. receipt'[Slot(s)] = receipt[Slot(s)]
    BY <1>1, <1>6 DEF RowClosed
  <2>2. Placed(s)'
    BY <1>1, <1>3, <2>1 DEF Placed, BarrierKept, Slot, C
  <2>3. Answered(s)'
    BY <1>1, <1>2, <1>3, <2>1 DEF Answered, Slot, C
  <2> QED
    BY <2>2, <2>3
<1> QED
  BY <1>5, <1>6

(* complete_terminal and the risk rejection of a rule: a refusal.          *)
LEMMA CloseRefused ==
    ASSUME QueueAssumption, IInv, NEW r \in Requests, NEW o \in Refused,
           RowClosed(r, o), receipt[Slot(r)].state = "reserved", SameCandidate(r),
           o = "expired" \/ req[r].at = "persist",
           Answer(r, o), UNCHANGED <<nonce, target, made>>, BarrierKept(r)
    PROVE  IInv'
<1>1. /\ o \in Answers /\ o \notin Made /\ o \in Made \cup Refused /\ o \in Refused
      /\ o \notin {"none", "conflict", "replayed", "inconsistent", "expired_unseen"}
  BY DEF Answers, Made, Refused
<1>2. /\ req' \in [Requests -> ReqType] /\ OthersStay(r)
      /\ req'[r].at = "done" /\ req'[r].answer = o /\ req'[r].fresh = req[r].fresh
  BY <1>1, AnswerOne DEF IInv, Shape
<1>3. Slot(r) \in Receipts
  BY SlotType
<1>4. Shape'
  BY <1>2 DEF IInv, Shape, RowClosed
<1>5. Reserved'
  BY <1>1, CloseReserved
<1>6. \A k \in Receipts : /\ receipt'[k].cand = receipt[k].cand
                          /\ receipt'[k].outcome \in Made => receipt'[k] = receipt[k]
                          /\ receipt[k].outcome \in Made => receipt'[k] = receipt[k]
  BY <1>1, <1>3 DEF RowClosed, IInv, Reserved, Made
<1>7. Vouched'
  BY <1>6 DEF IInv, Vouched
<1>8. Placed(r)'
  BY <1>2 DEF Placed
<1>9. SameCandidate(r)' /\ receipt'[Slot(r)].outcome = o
  BY DEF SameCandidate, RowClosed, Slot, C
<1>10. Answered(r)'
  BY <1>1, <1>2, <1>9 DEF Answered, Slot, C
<1>11. ASSUME NEW s \in Requests, s # r PROVE Placed(s)' /\ Answered(s)'
  BY <1>1, <1>2, <1>11, CloseOthers
<1> QED
  BY <1>4, <1>5, <1>7, <1>8, <1>10, <1>11 DEF IInv, Honest

(* The target that a receipt vouches for is new and as its outcome says.   *)
LEMMA NewTargetLifecycle ==
    ASSUME NEW kind, NEW o,
           \/ kind = "order" /\ o \in {"proposed", "rejected"}
           \/ kind = "rule" /\ o = "queued"
    PROVE  /\ NewTarget(o) \in TargetType
           /\ Lifecycle(kind, o, NewTarget(o))
           /\ o \in Made /\ o \in Made \cup Refused
<1>1. /\ NewTarget(o).status = FirstStatus(o) /\ NewTarget(o).proof = FirstStatus(o)
      /\ FirstStatus(o) \in Stages /\ NewTarget(o) \in TargetType
  BY DEF NewTarget, ProofOf, FirstStatus, TargetType, Stages
<1>2. CASE kind = "order" /\ o \in {"proposed", "rejected"}
  <2>1. FirstStatus(o) = o
    BY <1>2 DEF FirstStatus
  <2> QED
    BY <1>1, <1>2, <2>1, ReachableTable DEF Lifecycle, Made
<1>3. CASE kind = "rule" /\ o = "queued"
  BY <1>1, <1>3 DEF Lifecycle, Made, FirstStatus
<1> QED
  BY <1>2, <1>3

(* Persisting a target with its receipt.                                   *)
LEMMA CloseMade ==
    ASSUME QueueAssumption, IInv, NEW r \in Requests, NEW o,
           \/ KindOf[C(r)] = "order" /\ o \in {"proposed", "rejected"}
           \/ KindOf[C(r)] = "rule" /\ o = "queued",
           req[r].at = "persist", receipt[Slot(r)].state = "reserved", SameCandidate(r),
           MakeTarget(r, o), nonce' = nonce, BarrierKept(r)
    PROVE  IInv'
<1>1. /\ NewTarget(o) \in TargetType /\ Lifecycle(KindOf[C(r)], o, NewTarget(o))
      /\ o \in Made /\ o \in Made \cup Refused
  BY NewTargetLifecycle
<1>2. /\ Slot(r) \in Receipts /\ C(r) \in Candidates /\ C(r) # "none"
      /\ Slot(r)[1] = KindOf[C(r)]
  BY SlotType
<1>3. RowClosed(r, o)
  BY <1>1, <1>2, CompletedRow DEF MakeTarget, IInv, Shape
<1>4. /\ req' \in [Requests -> ReqType] /\ OthersStay(r)
      /\ req'[r].at = "complete" /\ req'[r].answer = req[r].answer
      /\ req'[r].fresh = req[r].fresh
  BY GotoOne DEF MakeTarget, IInv, Shape, PCs
<1>5. /\ target' \in [Candidates -> TargetType] /\ target'[C(r)] = NewTarget(o)
      /\ made' \in [Candidates -> Nat] /\ made'[C(r)] = made[C(r)] + 1
      /\ \A c \in Candidates : c # C(r) => target'[c] = target[c] /\ made'[c] = made[c]
  BY <1>1, <1>2 DEF MakeTarget, IInv, Shape
<1>6. receipt[Slot(r)].cand = C(r) /\ receipt[Slot(r)].outcome = "none"
  BY <1>2 DEF SameCandidate, IInv, Reserved
<1>7. \A k \in Receipts : k # Slot(r) => receipt[k].cand # C(r)
  BY <1>2, <1>6, SameReceipt
<1>8. made[C(r)] = 0
  <2>1. \A k \in Receipts : receipt[k].cand = C(r) => receipt[k].outcome \notin Made
    BY <1>6, <1>7 DEF Made
  <2> QED
    BY <1>2, <2>1 DEF IInv, Vouched
<1>9. Shape'
  BY <1>3, <1>4, <1>5 DEF IInv, Shape, RowClosed
<1>10. Reserved'
  BY <1>1, <1>3, CloseReserved
<1>11. ASSUME NEW k \in Receipts, receipt'[k].outcome \in Made
       PROVE  /\ made'[receipt'[k].cand] = 1
              /\ k[1] = "order" => receipt'[k].outcome \in {"proposed", "rejected"}
              /\ Lifecycle(k[1], receipt'[k].outcome, target'[receipt'[k].cand])
  <2>1. CASE k = Slot(r)
    <3>1. /\ receipt'[k].cand = C(r) /\ receipt'[k].outcome = o /\ k[1] = KindOf[C(r)]
          /\ target'[C(r)] = NewTarget(o)
      BY <1>2, <1>3, <1>5, <1>6, <2>1 DEF RowClosed
    <3>2. made'[C(r)] = 1
      BY <1>2, <1>5, <1>8
    <3>3. k[1] = "order" => o \in {"proposed", "rejected"}
      BY <3>1
    <3> QED
      BY <1>1, <3>1, <3>2, <3>3
  <2>2. CASE k # Slot(r)
    <3>1. receipt'[k] = receipt[k] /\ receipt[k].cand # C(r) /\ receipt[k].cand \in Candidates
      BY <1>3, <1>7, <1>11, <2>2 DEF RowClosed, IInv, Reserved, Shape, RowType, RowOf, Made
    <3> QED
      BY <1>5, <1>11, <3>1 DEF IInv, Vouched
  <2> QED
    BY <2>1, <2>2
<1>12. ASSUME NEW c \in Candidates,
              \A k \in Receipts : receipt'[k].cand = c => receipt'[k].outcome \notin Made
       PROVE  made'[c] = 0 /\ target'[c] = NoTarget
  <2>1. c # C(r)
    BY <1>1, <1>2, <1>3, <1>6, <1>12 DEF RowClosed
  <2>2. \A k \in Receipts : receipt[k].cand = c => receipt[k].outcome \notin Made
    BY <1>3, <1>6, <1>12, <2>1 DEF RowClosed
  <2> QED
    BY <1>5, <2>1, <2>2 DEF IInv, Vouched
<1>13. Vouched'
  BY <1>11, <1>12 DEF Vouched
<1>14. SameCandidate(r)' /\ receipt'[Slot(r)].outcome = o /\ receipt'[Slot(r)].state = "completed"
  BY <1>3 DEF SameCandidate, RowClosed, Slot, C
<1>15. Placed(r)'
  BY <1>1, <1>4, <1>14 DEF Placed, Slot, C
<1>16. Answered(r)'
  <2>1. Answered(r) /\ req[r].answer \notin Made \cup Refused
        /\ req[r].answer # "conflict" /\ req[r].answer # "inconsistent"
    BY <1>6 DEF IInv, Honest, Answered, Made, Refused
  <2>2. \A k \in Receipts : receipt'[k].cand = receipt[k].cand
    BY <1>3 DEF RowClosed
  <2> QED
    BY <1>4, <2>1, <2>2 DEF Answered, Slot, C
<1>17. ASSUME NEW s \in Requests, s # r PROVE Placed(s)' /\ Answered(s)'
  BY <1>1, <1>3, <1>4, <1>17, CloseOthers
<1> QED
  BY <1>9, <1>10, <1>13, <1>15, <1>16, <1>17 DEF IInv, Honest

-----------------------------------------------------------------------------
(* A target goes its way *)

(* No stage of a linked or unlinked order leads out of what it can become. *)
LEMMA SuccessorsReachable ==
    ASSUME NEW o \in {"proposed", "rejected"}, NEW s \in Reachable(o), NEW n \in Successors(s)
    PROVE  n \in Reachable(o) /\ n \in Stages
  BY SuccessorTable, ReachableTable DEF Stages

(* The three ways to advance, as steps of one target.                      *)
Way(t, u) ==
    \/ /\ u.status \in Successors(t.status) /\ u.proof = u.status /\ u.linked = t.linked
    \/ /\ t.status = "active" /\ u.proof = u.status
       /\ \/ u.status = "triggered" /\ u.linked = "proposed"
          \/ u.status = "failed" /\ u.linked = "rejected"
          \/ u.status = "canceled"
    \/ /\ u.linked \in Successors(t.linked) /\ u.status = t.status /\ u.proof = t.proof

(* Each step of an order, a rule or a rule's order keeps the lifecycle.    *)
LEMMA LifecycleKept ==
    ASSUME NEW kind \in {"order", "rule"}, NEW o, kind = "order" => o \in {"proposed", "rejected"},
           NEW t \in TargetType, Lifecycle(kind, o, t), NEW u \in TargetType,
           Way(t, u)
    PROVE  Lifecycle(kind, o, u)
<1>1. CASE u.status \in Successors(t.status) /\ u.proof = u.status
  <2>1. CASE kind = "order"
    BY <1>1, <2>1, SuccessorsReachable DEF Lifecycle
  <2>2. CASE kind = "rule"
    <3>1. t.status \in {"active", "canceled", "triggered", "failed"}
      BY <2>2 DEF Lifecycle
    <3>2. Successors(t.status) = {}
      BY <3>1, SuccessorTable DEF Stages
    <3> QED
      BY <1>1, <3>2
  <2> QED
    BY <2>1, <2>2
<1>2. CASE /\ t.status = "active" /\ u.proof = u.status
           /\ \/ u.status = "triggered" /\ u.linked = "proposed"
              \/ u.status = "failed" /\ u.linked = "rejected"
              \/ u.status = "canceled"
  <2>1. kind # "order"
    BY <1>2, ReachableTable DEF Lifecycle
  <2> QED
    BY <1>2, <2>1, ReachableTable DEF Lifecycle
<1>3. CASE u.linked \in Successors(t.linked) /\ u.status = t.status /\ u.proof = t.proof
  <2>1. \A x \in {"proposed", "rejected"} : t.linked \in Reachable(x) => u.linked \in Reachable(x)
    BY <1>3, SuccessorsReachable
  <2> QED
    BY <1>3, <2>1 DEF Lifecycle
<1> QED
  BY <1>1, <1>2, <1>3 DEF Way

(* Each way to advance is one of the three.                                *)
LEMMA AdvanceOne ==
    ASSUME Shape, NEW c \in Candidates, AdvanceOrder(c) \/ AdvanceRule(c) \/ AdvanceLinked(c)
    PROVE  \E u \in TargetType : Way(target[c], u) /\ target' = [target EXCEPT ![c] = u]
<1>1. target[c] \in TargetType /\ target \in [Candidates -> TargetType]
  BY DEF Shape
<1>2. \A s \in Stages : Successors(s) \subseteq Stages
  BY SuccessorTable DEF Stages
<1>3. CASE AdvanceOrder(c)
  <2>1. PICK n \in Successors(target[c].status) : target' = [target EXCEPT ![c] = Advanced(c, n)]
    BY <1>3 DEF AdvanceOrder
  <2>2. n \in Stages
    BY <1>1, <1>2, <2>1 DEF TargetType
  <2>3. /\ Advanced(c, n) \in TargetType /\ Advanced(c, n).status = n
        /\ Advanced(c, n).proof = n /\ Advanced(c, n).linked = target[c].linked
    BY <1>1, <2>2 DEF Advanced, ProofOf, TargetType
  <2> QED
    BY <2>1, <2>3 DEF Way
<1>4. CASE AdvanceRule(c)
  <2>1. PICK n \in {"triggered", "failed", "canceled"} :
            target' = [target EXCEPT ![c] = [Advanced(c, n) EXCEPT
               !.linked = CASE n = "triggered" -> "proposed" [] n = "failed" -> "rejected"
                            [] OTHER -> "none"]]
    BY <1>4 DEF AdvanceRule
  <2>2. PICK l : l = CASE n = "triggered" -> "proposed" [] n = "failed" -> "rejected"
                       [] OTHER -> "none"
    OBVIOUS
  <2>3. /\ n = "triggered" => l = "proposed"
        /\ n = "failed" => l = "rejected"
        /\ n = "canceled" => l = "none"
    BY <2>2
  <2>4. n \in Stages /\ l \in Stages
    BY <2>1, <2>3 DEF Stages
  <2> DEFINE u == [Advanced(c, n) EXCEPT !.linked = l]
  <2>5. u \in TargetType /\ u.status = n /\ u.proof = n /\ u.linked = l
    BY <1>1, <2>4 DEF Advanced, ProofOf, TargetType
  <2>6. target' = [target EXCEPT ![c] = u]
    BY <2>1, <2>2
  <2> HIDE DEF u
  <2>7. Way(target[c], u)
    BY <1>4, <2>1, <2>3, <2>5 DEF Way, AdvanceRule
  <2> QED
    BY <2>5, <2>6, <2>7
<1>5. CASE AdvanceLinked(c)
  <2>1. PICK n \in Successors(target[c].linked) : target' = [target EXCEPT ![c].linked = n]
    BY <1>5 DEF AdvanceLinked
  <2>2. n \in Stages
    BY <1>1, <1>2, <2>1 DEF TargetType
  <2> DEFINE u == [target[c] EXCEPT !.linked = n]
  <2>3. /\ u \in TargetType /\ u.status = target[c].status
        /\ u.proof = target[c].proof /\ u.linked = n
    BY <1>1, <2>2 DEF TargetType
  <2>4. target' = [target EXCEPT ![c] = u]
    BY <2>1
  <2> HIDE DEF u
  <2> QED
    BY <2>1, <2>3, <2>4 DEF Way
<1> QED
  BY <1>3, <1>4, <1>5

(* A target that goes its way stays one its receipt can have come to.      *)
LEMMA AdvanceStep ==
    ASSUME QueueAssumption, IInv, NEW c \in Candidates, Advance(c)
    PROVE  IInv'
<1>1. PICK u \in TargetType : Way(target[c], u) /\ target' = [target EXCEPT ![c] = u]
  BY AdvanceOne DEF Advance, IInv
<1>2. /\ receipt' = receipt /\ nonce' = nonce /\ made' = made /\ req' = req /\ writer' = writer
  BY DEF Advance
<1>3. /\ target' \in [Candidates -> TargetType] /\ target'[c] = u /\ target[c] \in TargetType
      /\ \A d \in Candidates : d # c => target'[d] = target[d]
  BY <1>1 DEF IInv, Shape
<1>4. target[c] # NoTarget
  <2>1. Successors("none") = {}
    BY SuccessorTable DEF Stages
  <2> QED
    BY <1>1, <2>1 DEF Way, NoTarget
<1>5. ASSUME NEW k \in Receipts, receipt[k].outcome \in Made
      PROVE  Lifecycle(k[1], receipt[k].outcome, target'[receipt[k].cand])
  <2>1. /\ k[1] \in {"order", "rule"} /\ receipt[k].cand \in Candidates
        /\ Lifecycle(k[1], receipt[k].outcome, target[receipt[k].cand])
        /\ k[1] = "order" => receipt[k].outcome \in {"proposed", "rejected"}
    <3>1. receipt[k].state # "none"
      BY <1>5 DEF IInv, Reserved, Made
    <3> QED
      BY <1>5, <3>1 DEF IInv, Reserved, Vouched, Shape, Receipts
  <2>2. CASE receipt[k].cand = c
    BY <1>1, <1>3, <2>1, <2>2, LifecycleKept
  <2>3. CASE receipt[k].cand # c
    BY <1>3, <2>1, <2>3
  <2> QED
    BY <2>2, <2>3
<1>6. Vouched'
  <2>1. \A d \in Candidates : d # c => target'[d] = target[d]
    BY <1>3
  <2>2. ASSUME NEW d \in Candidates,
               \A k \in Receipts : receipt[k].cand = d => receipt[k].outcome \notin Made
        PROVE  made[d] = 0 /\ target'[d] = NoTarget
    <3>1. made[d] = 0 /\ target[d] = NoTarget
      BY <2>2, Zenon DEF IInv, Vouched
    <3> QED
      BY <1>4, <2>1, <3>1
  <2>3. ASSUME NEW k \in Receipts, receipt[k].outcome \in Made
        PROVE  /\ made[receipt[k].cand] = 1
               /\ k[1] = "order" => receipt[k].outcome \in {"proposed", "rejected"}
    BY <2>3, Zenon DEF IInv, Vouched
  <2> QED
    BY <1>2, <1>5, <2>2, <2>3, Zenon DEF Vouched
<1>s. Shape'
  BY <1>2, <1>3 DEF IInv, Shape
<1>r. Reserved'
  BY <1>2, <1>3 DEF IInv, Reserved
<1>7. Shape' /\ Reserved'
  BY <1>s, <1>r
<1>p. \A r \in Requests : Placed(r)'
  BY <1>2 DEF IInv, Honest, Placed, SameCandidate, Slot, C
<1>a. \A r \in Requests : Answered(r)'
  BY <1>2 DEF IInv, Honest, Answered, SameCandidate, Slot, C
<1>8. Honest'
  BY <1>p, <1>a DEF Honest
<1> QED
  BY <1>6, <1>7, <1>8 DEF IInv

-----------------------------------------------------------------------------
(* The steps of a request *)

(* _reserve, with the receipt looked for again under the lock.             *)
LEMMA ReserveStep ==
    ASSUME QueueAssumption, IInv, NEW r \in Requests, Reserve(r)
    PROVE  IInv'
<1>1. BarrierKept(r) /\ UNCHANGED <<target, made, writer>>
  BY BarrierPasses DEF Reserve
<1>2. CASE /\ receipt[Slot(r)].state # "none" /\ SameCandidate(r)
           /\ Recovered(r, Goto(r, "work")) /\ UNCHANGED <<receipt, nonce>>
  BY <1>1, <1>2, RecoveredStep
<1>3. CASE /\ receipt[Slot(r)].state # "none" /\ ~SameCandidate(r)
           /\ Answer(r, "conflict") /\ UNCHANGED <<receipt, nonce>>
  <2>1. MayTell(r, "conflict")
    BY <1>3 DEF MayTell, Answers, Made, Refused
  <2> QED
    BY <1>1, <1>3, <2>1, AnswerStep
<1>4. CASE /\ receipt[Slot(r)].state = "none" /\ Replayed(r)
           /\ Answer(r, "replayed") /\ UNCHANGED <<receipt, nonce>>
  <2>1. PICK k \in Receipts : receipt[k].cand = C(r)
    BY <1>4 DEF IInv, Reserved, Replayed
  <2>2. k # Slot(r)
    <3>1. receipt[Slot(r)].cand = "none" /\ C(r) # "none"
      BY <1>4, SlotType, Zenon DEF IInv, Reserved
    <3> QED
      BY <2>1, <3>1
  <2>3. MayTell(r, "replayed")
    BY <2>1, <2>2 DEF MayTell, Answers, Made, Refused
  <2> QED
    BY <1>1, <1>4, <2>3, AnswerStep
<1>5. CASE /\ receipt[Slot(r)].state = "none" /\ ~Replayed(r)
           /\ receipt' = [receipt EXCEPT ![Slot(r)] = ReceiptReserved(r)]
           /\ nonce' = nonce \cup {C(r)} /\ Goto(r, "work")
  BY <1>1, <1>5, ReserveNewStep DEF Replayed
<1> QED
  BY <1>2, <1>3, <1>4, <1>5 DEF Reserve

(* An expired request closes its receipt, or reads who closed it.          *)
LEMMA CompleteTerminalStep ==
    ASSUME QueueAssumption, IInv, NEW r \in Requests, CompleteTerminal(r)
    PROVE  IInv'
<1>1. /\ BarrierKept(r) /\ UNCHANGED <<nonce, target, made, writer>>
      /\ receipt[Slot(r)].state # "none" /\ SameCandidate(r) /\ Slot(r) \in Receipts
  BY BarrierPasses, SlotType DEF CompleteTerminal, IInv, Honest, Placed
<1>2. CASE MayClose(r) /\ Answer(r, "expired")
           /\ receipt' = [receipt EXCEPT ![Slot(r)].state = "completed",
                                         ![Slot(r)].outcome = "expired",
                                         ![Slot(r)].target = FALSE]
  <2>1. "expired" \in Refused /\ ("expired" \in Made) = FALSE
    BY DEF Made, Refused
  <2>2. receipt' = Completed(r, "expired")
    BY <1>2, <2>1 DEF Completed
  <2>3. RowClosed(r, "expired")
    BY <1>1, <2>1, <2>2, CompletedRow DEF IInv, Shape
  <2> QED
    BY <1>1, <1>2, <2>1, <2>3, CloseRefused DEF MayClose
<1>3. CASE ~MayClose(r) /\ receipt[Slot(r)].target /\ Goto(r, "work") /\ UNCHANGED receipt
  <2>1. "work" \in PCs \ {"new", "done"}
    BY DEF PCs
  <2> QED
    BY <1>1, <1>3, <2>1, GotoStep
<1>4. CASE ~MayClose(r) /\ ~receipt[Slot(r)].target /\ Answer(r, receipt[Slot(r)].outcome)
           /\ UNCHANGED receipt
  <2>1. receipt[Slot(r)].outcome \in Refused
    BY <1>1, <1>4 DEF IInv, Shape, Reserved, RowType, RowOf, MayClose
  <2>2. MayTell(r, receipt[Slot(r)].outcome)
    BY <1>1, <2>1 DEF MayTell, Answers, Made, Refused
  <2> QED
    BY <1>1, <1>4, <2>2, AnswerStep
<1> QED
  BY <1>2, <1>3, <1>4 DEF CompleteTerminal

(* The request notes what the first reading of the clock says.             *)
Noting(f, r, b) == [f EXCEPT ![r].at = "find", ![r].fresh = b]

(* Noting writes one request.                                              *)
LEMMA NotingOne ==
    ASSUME NEW B, NEW f \in [Requests -> ReqOf(B)],
           NEW r \in Requests, NEW b \in B
    PROVE  /\ Noting(f, r, b) \in [Requests -> ReqOf(B)]
           /\ \A s \in Requests : s # r => Noting(f, r, b)[s] = f[s]
           /\ Noting(f, r, b)[r].at = "find" /\ Noting(f, r, b)[r].answer = f[r].answer
  BY DEF Noting, PCs, ReqOf

(* A request comes.                                                        *)
LEMMA ArriveStep ==
    ASSUME QueueAssumption, IInv, NEW r \in Requests, Arrive(r)
    PROVE  IInv'
<1>1. BarrierKept(r) /\ UNCHANGED <<receipt, nonce, target, made, writer>>
  BY BarrierPasses DEF Arrive
<1>2. /\ req' \in [Requests -> ReqType] /\ OthersStay(r)
      /\ req'[r].at = "find" /\ req'[r].answer = req[r].answer
  <2> DEFINE b == C(r) \in fresh
  <2>1. b \in BOOLEAN /\ req \in [Requests -> ReqOf(BOOLEAN)]
    BY DEF IInv, Shape, ReqType
  <2>2. req' = Noting(req, r, b)
    BY DEF Arrive, Noting
  <2> HIDE DEF b
  <2>3. /\ Noting(req, r, b) \in [Requests -> ReqOf(BOOLEAN)]
        /\ \A s \in Requests : s # r => Noting(req, r, b)[s] = req[s]
        /\ Noting(req, r, b)[r].at = "find" /\ Noting(req, r, b)[r].answer = req[r].answer
    BY ONLY <2>1, r \in Requests, NotingOne
  <2> QED
    BY ONLY <2>2, <2>3 DEF ReqType, OthersStay
<1>3. Placed(r)' /\ Answered(r)'
  BY <1>1, <1>2 DEF Arrive, Placed, Answered, IInv, Honest, SameCandidate, Slot, C, Made, Refused
<1>4. Honest'
  BY <1>1, <1>2, <1>3, OthersHonest DEF Honest
<1>s. Shape'
  BY <1>1, <1>2 DEF IInv, Shape
<1>r. Reserved'
  BY <1>1, <1>2 DEF IInv, Reserved
<1>v. Vouched'
  BY <1>1, <1>2 DEF IInv, Vouched
<1>5. Shape' /\ Reserved' /\ Vouched'
  BY <1>s, <1>r, <1>v
<1> QED
  BY <1>4, <1>5 DEF IInv

(* A request takes the barrier only for a receipt that is reserved.        *)
LEMMA EnterStep ==
    ASSUME QueueAssumption, IInv, NEW r \in Requests, Enter(r)
    PROVE  IInv'
<1>1. /\ BarrierKept(r) /\ UNCHANGED <<receipt, nonce, target, made>>
      /\ receipt[Slot(r)].state # "none" /\ SameCandidate(r)
      /\ receipt[Slot(r)].state = "reserved" => writer' = r
      /\ Recovered(r, Goto(r, "persist"))
  BY BarrierPasses DEF Enter, IInv, Honest, Placed
<1> QED
  BY <1>1, RecoveredStep

(* No snapshot: the receipt stays reserved for a repetition.               *)
LEMMA DependencyFailsStep ==
    ASSUME QueueAssumption, IInv, NEW r \in Requests, DependencyFails(r)
    PROVE  IInv'
<1>1. BarrierKept(r) /\ UNCHANGED <<receipt, nonce, target, made>> /\ Answer(r, "unavailable")
  BY BarrierPasses DEF DependencyFails
<1>2. MayTell(r, "unavailable")
  BY DEF MayTell, Answers, Made, Refused
<1> QED
  BY <1>1, <1>2, AnswerStep

(* Under the barrier: a target, a refusal, or a receipt closed meanwhile.  *)
LEMMA PersistStep ==
    ASSUME QueueAssumption, IInv, NEW r \in Requests, Persist(r)
    PROVE  IInv'
<1>1. /\ BarrierKept(r) /\ nonce' = nonce /\ req[r].at = "persist"
      /\ Slot(r) \in Receipts /\ SameCandidate(r)
      /\ receipt[Slot(r)].state = "reserved" \/ receipt[Slot(r)].outcome = "expired"
  BY BarrierPasses, SlotType DEF Persist, IInv, Honest, Placed
<1>2. CASE ~StillReserved(r) /\ Answer(r, "inconsistent") /\ UNCHANGED <<receipt, target, made>>
  <2>1. MayTell(r, "inconsistent")
    BY <1>1, <1>2 DEF MayTell, StillReserved, Answers, Made, Refused
  <2> QED
    BY <1>1, <1>2, <2>1, AnswerStep
<1>3. CASE StillReserved(r) /\ PersistOrder(r)
  <2>1. PICK o \in {"proposed", "rejected"} : MakeTarget(r, o)
    BY <1>3 DEF PersistOrder
  <2>2. KindOf[C(r)] = "order" /\ receipt[Slot(r)].state = "reserved"
    BY <1>3 DEF PersistOrder, StillReserved
  <2> QED
    BY <1>1, <2>1, <2>2, CloseMade
<1>4. CASE StillReserved(r) /\ PersistRule(r)
  BY <1>1, <1>4, CloseMade DEF PersistRule, StillReserved
<1>5. CASE StillReserved(r) /\ RejectRuleRisk(r)
  <2>1. "risk_rejected" \in Refused /\ "risk_rejected" \in Made \cup Refused
    BY DEF Refused
  <2>2. RowClosed(r, "risk_rejected")
    BY <1>1, <1>5, <2>1, CompletedRow DEF RejectRuleRisk, IInv, Shape
  <2> QED
    BY <1>1, <1>5, <2>1, <2>2, CloseRefused DEF RejectRuleRisk, StillReserved
<1> QED
  BY <1>2, <1>3, <1>4, <1>5 DEF Persist

(* Whoever comes to _complete finds a target that it accepts.              *)
LEMMA TargetIsValid ==
    ASSUME QueueAssumption, IInv, NEW r \in Requests, req[r].at = "complete"
    PROVE  TargetValid(r) /\ receipt[Slot(r)].outcome \in Made /\ SameCandidate(r)
<1>1. /\ receipt[Slot(r)].outcome \in Made /\ SameCandidate(r) /\ Slot(r) \in Receipts
      /\ receipt[Slot(r)].cand = C(r) /\ Slot(r)[1] = KindOf[C(r)]
      /\ KindOf[C(r)] \in {"order", "rule"}
  BY SlotType DEF IInv, Honest, Placed, SameCandidate
<1>2. Lifecycle(KindOf[C(r)], receipt[Slot(r)].outcome, target[C(r)])
  BY <1>1 DEF IInv, Vouched
<1>3. TargetValid(r)
  BY <1>1, <1>2 DEF TargetValid, Lifecycle, OrderLifecycleConsistent, RuleLifecycleConsistent,
                    ProofMatches, ProofOf, LinkedOrderCanonical
<1> QED
  BY <1>1, <1>3

(* The answer after a target was made is the outcome on record.            *)
LEMMA CompleteStep ==
    ASSUME QueueAssumption, IInv, NEW r \in Requests, Complete(r)
    PROVE  IInv'
<1>1. BarrierKept(r) /\ UNCHANGED <<receipt, nonce, target, made>> /\ req[r].at = "complete"
  BY BarrierPasses DEF Complete
<1>2. Answer(r, receipt[Slot(r)].outcome)
  BY <1>1, TargetIsValid DEF Complete
<1>3. MayTell(r, receipt[Slot(r)].outcome)
  BY <1>1, TargetIsValid DEF MayTell, Answers, Made, Refused
<1> QED
  BY <1>1, <1>2, <1>3, AnswerStep

-----------------------------------------------------------------------------
(* The other steps *)

(* Nothing that the invariant reads is written by a draft, by the end of a *)
(* candidate's time, or by a stuttering step.                              *)
LEMMA QuietStep ==
    ASSUME IInv, UNCHANGED <<receipt, nonce, target, made, req, writer>>
    PROVE  IInv'
<1>1. Shape'
  BY DEF IInv, Shape
<1>2. Reserved'
  BY DEF IInv, Reserved
<1>3. Vouched'
  BY DEF IInv, Vouched
<1>4. \A r \in Requests : Placed(r)'
  BY DEF IInv, Honest, Placed, SameCandidate, Slot, C
<1>5. \A r \in Requests : Answered(r)'
  BY DEF IInv, Honest, Answered, SameCandidate, Slot, C
<1> QED
  BY <1>1, <1>2, <1>3, <1>4, <1>5, Zenon DEF IInv, Honest

(* A crash leaves the record, and the requests that were under way get no  *)
(* answer.                                                                 *)
LEMMA CrashStep ==
    ASSUME QueueAssumption, IInv, Crash
    PROVE  IInv'
<1>1. /\ UNCHANGED <<receipt, nonce, target, made>> /\ req \in [Requests -> ReqType]
      /\ req' = [r \in Requests |-> IF req[r].at \in {"new", "done"} THEN req[r]
                                    ELSE [req[r] EXCEPT !.at = "done", !.answer = "lost"]]
  BY DEF Crash, IInv, Shape
<1>2. ASSUME NEW r \in Requests
      PROVE  /\ req'[r] \in ReqType
             /\ Placed(r)' /\ Answered(r)'
  <2>1. Placed(r) /\ Answered(r) /\ req[r] \in ReqType /\ (SameCandidate(r)' <=> SameCandidate(r))
    BY <1>1 DEF IInv, Honest, SameCandidate, Slot, C
  <2>2. CASE req[r].at \in {"new", "done"}
    <3>1. req'[r] = req[r]
      BY <1>1, <2>2
    <3> QED
      BY <1>1, <2>1, <2>2, <3>1 DEF Placed, Answered, Slot, C
  <2>3. CASE req[r].at \notin {"new", "done"}
    <3>1. req'[r] = [req[r] EXCEPT !.at = "done", !.answer = "lost"]
      BY <1>1, <2>3
    <3>2. req'[r] \in ReqType /\ req'[r].at = "done" /\ req'[r].answer = "lost"
      BY <2>1, <3>1 DEF ReqType, ReqOf, PCs, Answers
    <3> QED
      BY <3>2 DEF Placed, Answered, Made, Refused
  <2> QED
    BY <2>2, <2>3
<1>3. req' \in [Requests -> ReqType]
  BY <1>1, <1>2
<1>4. Shape' /\ Reserved' /\ Vouched'
  BY <1>1, <1>3 DEF IInv, Shape, Reserved, Vouched
<1> QED
  BY <1>2, <1>4 DEF IInv, Honest

(* Nothing is recorded at first.                                           *)
LEMMA InitIInv ==
    ASSUME QueueAssumption, Init
    PROVE  IInv
<1>1. \A k \in Receipts : receipt[k] = NoReceipt
  BY DEF Init
<1>2. Shape
  BY DEF Init, Shape, RowType, RowOf, NoReceipt, TargetType, NoTarget, Stages,
         ReqType, ReqOf, PCs, Answers
<1>3. Reserved
  BY <1>1 DEF Init, Reserved, NoReceipt, Made
<1>4. Vouched
  BY <1>1 DEF Init, Vouched, NoReceipt, Made
<1>5. Honest
  BY DEF Init, Honest, Placed, Answered, Made, Refused
<1> QED
  BY <1>2, <1>3, <1>4, <1>5 DEF IInv

(* The invariant is inductive.                                             *)
LEMMA NextIInv ==
    ASSUME QueueAssumption, IInv, [Next]_vars
    PROVE  IInv'
<1>1. ASSUME NEW r \in Requests, Step(r) PROVE IInv'
  BY <1>1, ArriveStep, FindStep, ReserveStep, CompleteTerminalStep, EnterStep,
     DependencyFailsStep, PersistStep, CompleteStep DEF Step
<1>2. ASSUME NEW c \in Candidates, Draft(c) \/ Expire(c) PROVE IInv'
  BY <1>2, QuietStep DEF Draft, Expire
<1>3. ASSUME NEW c \in Candidates, Advance(c) PROVE IInv'
  BY <1>3, AdvanceStep
<1>4. CASE UNCHANGED vars
  BY <1>4, QuietStep DEF vars
<1> QED
  BY <1>1, <1>2, <1>3, <1>4, CrashStep DEF Next

-----------------------------------------------------------------------------
(* The theorems *)

(* One receipt per candidate, as a number.                                 *)
LEMMA OneReceipt ==
    ASSUME QueueAssumption, IInv, NEW c \in Candidates
    PROVE  Cardinality({k \in Receipts : receipt[k].cand = c}) <= 1
<1> DEFINE S == {k \in Receipts : receipt[k].cand = c}
<1>1. \A k, l \in S : k = l
  BY DEF IInv, Reserved, QueueAssumption
<1>2. CASE S = {}
  BY <1>2, FS_EmptySet
<1>3. CASE S # {}
  <2>1. PICK k : S = {k}
    BY <1>1, <1>3
  <2>2. Cardinality({k}) = 1
    BY ONLY FS_Singleton
  <2> QED
    BY <2>1, <2>2
<1> QED
  BY <1>2, <1>3

(* The invariant at a candidate: what OneTarget says of it.                *)
LEMMA OneTargetHolds ==
    ASSUME QueueAssumption, IInv
    PROVE  OneTarget
<1> SUFFICES ASSUME NEW c \in Candidates
             PROVE  /\ made[c] <= 1
                    /\ Cardinality({k \in Receipts : receipt[k].cand = c}) <= 1
                    /\ made[c] = 1 <=> \E k \in Receipts : receipt[k].cand = c /\ receipt[k].target
  BY DEF OneTarget
<1>1. CASE \E k \in Receipts : receipt[k].cand = c /\ receipt[k].outcome \in Made
  <2>1. PICK k \in Receipts : receipt[k].cand = c /\ receipt[k].outcome \in Made
    BY <1>1
  <2>2. made[c] = 1
    BY <2>1 DEF IInv, Vouched
  <2>3. receipt[k].target
    BY <2>1, Zenon DEF IInv, Reserved
  <2> QED
    BY <2>1, <2>2, <2>3, OneReceipt
<1>2. CASE \A k \in Receipts : receipt[k].cand = c => receipt[k].outcome \notin Made
  <2>1. made[c] = 0
    BY <1>2 DEF IInv, Vouched
  <2>2. \A k \in Receipts : receipt[k].cand = c => ~receipt[k].target
    BY <1>2, Zenon DEF IInv, Reserved
  <2> QED
    BY <2>1, <2>2, OneReceipt
<1> QED
  BY <1>1, <1>2

(* What the record holds, and no later step changes, makes the answers so. *)
LEMMA AnswersHold ==
    ASSUME QueueAssumption, IInv
    PROVE  AnswersAreTrue
<1>1. ASSUME NEW r \in Requests, req[r].answer \in Made \cup Refused
      PROVE  /\ Slot(r) \in Receipts /\ C(r) \in Candidates
             /\ SameCandidate(r) /\ receipt[Slot(r)].cand = C(r)
             /\ receipt[Slot(r)].outcome = req[r].answer
             /\ \A k \in Receipts : receipt[k].cand = C(r) => k = Slot(r)
  <2>1. Slot(r) \in Receipts /\ C(r) \in Candidates /\ C(r) # "none"
    BY SlotType
  <2>2. SameCandidate(r) /\ receipt[Slot(r)].outcome = req[r].answer
    BY <1>1 DEF IInv, Honest, Answered
  <2>3. receipt[Slot(r)].cand = C(r)
    BY <2>2 DEF SameCandidate
  <2> QED
    BY <2>1, <2>2, <2>3, SameReceipt
<1>2. RefusalIsTrue
  <2> SUFFICES ASSUME NEW r \in Requests, req[r].answer \in Refused
               PROVE  receipt[Slot(r)].outcome \in {"expired", req[r].answer} /\ made[C(r)] = 0
    BY DEF RefusalIsTrue
  <2>1. \A k \in Receipts : receipt[k].cand = C(r) => receipt[k].outcome \notin Made
    BY <1>1 DEF Made, Refused
  <2> QED
    BY <1>1, <2>1 DEF IInv, Vouched
<1>3. OwnResultOnly
  BY <1>1 DEF OwnResultOnly, SameCandidate, IInv, Vouched
<1>4. AnswersAgree
  <2> SUFFICES ASSUME NEW r \in Requests, NEW s \in Requests, Done(s), RequestOf[r] = RequestOf[s],
                      req[r].answer \in Made
               PROVE  req[s].answer \in {req[r].answer, "lost", "unavailable"} \cup
                          (IF req[s].fresh THEN {} ELSE {"expired_unseen"})
    BY DEF AnswersAgree
  <2>1. Slot(s) = Slot(r) /\ C(s) = C(r) /\ (SameCandidate(s) <=> SameCandidate(r))
    BY DEF Slot, C, SameCandidate
  <2>2. Answered(s) /\ req[s].answer \in Answers /\ req[s].answer # "none"
    BY DEF IInv, Honest, Shape, ReqType, ReqOf, Answered, Done
  <2>3. req[s].answer \notin {"conflict", "replayed", "inconsistent"}
    BY <1>1, <2>1, <2>2 DEF Answered, Made, Refused
  <2>4. req[s].answer \in Made \cup Refused => req[s].answer = req[r].answer
    BY <1>1, <2>1, <2>2 DEF Answered
  <2>5. req[s].answer = "expired_unseen" => ~req[s].fresh
    BY <2>2 DEF Answered
  <2> QED
    BY <2>2, <2>3, <2>4, <2>5 DEF Answers
<1> QED
  BY <1>2, <1>3, <1>4 DEF AnswersAreTrue

(* Whatever is repeated, under whatever keys and through any crashes, a    *)
(* candidate becomes one order or rule at most, and none that a receipt    *)
(* does not vouch for (_reserve, _persist_order and _persist_rule).        *)
THEOREM CandidateQueuedOnce ==
    ASSUME QueueAssumption
    PROVE  Spec => []OneTarget
<1>1. Init => IInv
  BY InitIInv
<1>2. IInv /\ [Next]_vars => IInv'
  BY NextIInv
<1>3. IInv => OneTarget
  BY OneTargetHolds
<1> QED
  BY <1>1, <1>2, <1>3, PTL DEF Spec

(* What a request is told of its candidate is so and stays so: equal       *)
(* requests hear of one result, a refusal stands, and a result is told to  *)
(* its own request only (queue, _recover_target and _complete).            *)
THEOREM AnswersStayTrue ==
    ASSUME QueueAssumption
    PROVE  Spec => []AnswersAreTrue
<1>1. Init => IInv
  BY InitIInv
<1>2. IInv /\ [Next]_vars => IInv'
  BY NextIInv
<1>3. IInv => AnswersAreTrue
  BY AnswersHold
<1> QED
  BY <1>1, <1>2, <1>3, PTL DEF Spec
===============================================================================
