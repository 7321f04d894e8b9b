--------------------------- MODULE OrderingBarrier ---------------------------
(***************************************************************************)
(* What the submission barrier promises to its callers, without the three  *)
(* lock files that implement it (see SubmissionBarrier).                   *)
(*                                                                         *)
(* A thread that changes execution risk announces itself and then writes;  *)
(* a thread that submits an order evaluates a risk snapshot and may then   *)
(* hold a claim, the interval in which the order is claimed, sent to the   *)
(* broker and its result persisted.  At most one thread writes or          *)
(* evaluates at a time, an evaluation begins only when nobody has          *)
(* announced, and neither a claim begins while somebody has announced nor  *)
(* an announcement while somebody claims.                                  *)
(***************************************************************************)

CONSTANTS Threads,      \* threads of every process that shares the database
          Nobody        \* not a thread

ASSUME NobodyIsNoThread == Nobody \notin Threads

VARIABLES announced,    \* writers that announced and have not yet retired
          holder,       \* the thread that writes or evaluates, or Nobody
          claimant      \* the holder inside claim/send/persist, or Nobody

barrierVars == <<announced, holder, claimant>>

BarrierTypeOK ==
    /\ announced \in SUBSET Threads
    /\ holder \in Threads \cup {Nobody}
    /\ claimant \in Threads \cup {Nobody}

BarrierInit ==
    /\ announced = {}
    /\ holder = Nobody
    /\ claimant = Nobody

Announce(t) ==
    /\ claimant = Nobody
    /\ holder # t
    /\ t \notin announced
    /\ announced' = announced \cup {t}
    /\ UNCHANGED <<holder, claimant>>

BeginWrite(t) ==
    /\ t \in announced
    /\ holder = Nobody
    /\ holder' = t
    /\ UNCHANGED <<announced, claimant>>

EndWrite(t) ==
    /\ t \in announced
    /\ holder = t
    /\ holder' = Nobody
    /\ UNCHANGED <<announced, claimant>>

(* The writer retires, or its process dies while it waits. *)
Retire(t) ==
    /\ t \in announced
    /\ holder # t
    /\ announced' = announced \ {t}
    /\ UNCHANGED <<holder, claimant>>

BeginSubmission(t) ==
    /\ announced = {}
    /\ holder = Nobody
    /\ holder' = t
    /\ UNCHANGED <<announced, claimant>>

BeginClaim(t) ==
    /\ holder = t
    /\ announced = {}
    /\ claimant = Nobody
    /\ claimant' = t
    /\ UNCHANGED <<announced, holder>>

EndClaim(t) ==
    /\ claimant = t
    /\ claimant' = Nobody
    /\ UNCHANGED <<announced, holder>>

EndSubmission(t) ==
    /\ holder = t
    /\ t \notin announced
    /\ claimant = Nobody
    /\ holder' = Nobody
    /\ UNCHANGED <<announced, claimant>>

(* The process of the thread exits: everything it owned is given up. *)
Abandon(t) ==
    /\ holder = t
    /\ holder' = Nobody
    /\ announced' = announced \ {t}
    /\ claimant' = IF claimant = t THEN Nobody ELSE claimant

BarrierNext ==
    \E t \in Threads :
        \/ Announce(t) \/ BeginWrite(t) \/ EndWrite(t) \/ Retire(t)
        \/ BeginSubmission(t) \/ BeginClaim(t) \/ EndClaim(t)
        \/ EndSubmission(t) \/ Abandon(t)

BarrierSpec == BarrierInit /\ [][BarrierNext]_barrierVars
==============================================================================
