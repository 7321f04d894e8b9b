---------------------------- MODULE OrderLifecycle ----------------------------
(***************************************************************************)
(* db/models.py: the order statuses and OrderStateMachine.  "ABSENT" is an *)
(* order nobody has proposed yet.  The legacy status APPROVED, which no    *)
(* runtime transition enters or leaves, is left out.                       *)
(***************************************************************************)

FillStatuses == {"PARTIALLY_FILLED", "FILLED"}

Terminal == {"FILLED", "CANCELED", "REJECTED", "EXPIRED"}

(* The broker may or may not have the order. *)
Unresolved == {"SUBMITTING", "ACCEPTANCE_UNKNOWN"}

(* Local rows under which the broker may have an open order. *)
LocalLive == Unresolved \cup {"SUBMITTED", "PARTIALLY_FILLED"}

Statuses == {"ABSENT", "PROPOSED", "APPROVAL_RECORDED"} \cup LocalLive \cup Terminal

LegalTransitions(current) ==
    CASE current = "ABSENT" -> {"PROPOSED", "REJECTED"}
      [] current = "PROPOSED" ->
            {"APPROVAL_RECORDED", "REJECTED", "EXPIRED", "CANCELED"}
      [] current = "APPROVAL_RECORDED" -> {"SUBMITTING", "EXPIRED", "REJECTED"}
      [] current = "SUBMITTING" ->
            {"SUBMITTED", "ACCEPTANCE_UNKNOWN", "PARTIALLY_FILLED"} \cup Terminal
      [] current = "ACCEPTANCE_UNKNOWN" ->
            {"SUBMITTED", "PARTIALLY_FILLED", "FILLED", "REJECTED", "CANCELED"}
      [] current = "SUBMITTED" -> {"PARTIALLY_FILLED"} \cup Terminal
      [] current = "PARTIALLY_FILLED" ->
            {"PARTIALLY_FILLED", "FILLED", "CANCELED", "EXPIRED"}
      [] current \in Terminal -> {}

CanTransition(current, new) == new \in LegalTransitions(current)

(* OrderStateMachine.transition behind can_transition, as reconciliation   *)
(* uses it: an illegal move leaves the status alone.                       *)
MoveIfLegal(current, new) == IF CanTransition(current, new) THEN new ELSE current
===============================================================================
