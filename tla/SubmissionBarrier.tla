-------------------------- MODULE SubmissionBarrier --------------------------
(***************************************************************************)
(* risk/submission_barrier.py: the three flock files that order broker     *)
(* submissions and execution-risk writers of every process on one SQLite   *)
(* database.                                                               *)
(*                                                                         *)
(* A flock is granted per open file description, and every call opens its  *)
(* own, so a lock is owned by a thread and never by its process.  Waiters  *)
(* are granted in no particular order.  Nested hold_writer calls of a      *)
(* thread that owns the main lock are no-ops in the code (the _mark_owned  *)
(* count) and leave no trace here.                                         *)
(***************************************************************************)
CONSTANTS Threads,      \* threads of every process that shares the database
          Nobody        \* not a thread

ASSUME NobodyAssumption == Nobody \notin Threads

VARIABLES mainOwner,    \* exclusive owner of <db>.submission.lock
          intentShared, \* shared owners of <db>.submission.lock.intent
          intentOwner,  \* its exclusive owner
          gateShared,   \* shared owners of <db>.submission.lock.writer-gate
          gateOwner,    \* its exclusive owner
          pc,           \* where each thread is in hold_writer/hold_submission
          outdated      \* evaluations that began before a write that has begun

locks == <<mainOwner, intentShared, intentOwner, gateShared, gateOwner>>
vars == <<mainOwner, intentShared, intentOwner, gateShared, gateOwner, pc,
          outdated>>

(* hold_writer: "announcing" has the gate and waits for intent, "queued"   *)
(* also has intent and waits for main, "writing" runs the body, "wrote"    *)
(* has released main and "retiring" intent as well.                        *)
WriterStates == {"announcing", "queued", "writing", "wrote", "retiring"}

(* hold_submission: "waiting" waits for main, "admitting" has it,          *)
(* "probing" tests intent, "evaluating" assembles the snapshot and checks  *)
(* risk, "claimed" is inside claim_if_current, "claimDone" after it,       *)
(* "atGate" and "passingGate" are in _wait_for_announced_writers.          *)
SubmissionStates == {"waiting", "admitting", "probing", "evaluating",
                     "claimed", "claimDone", "atGate", "passingGate"}

(* A submission that has read its risk snapshot and still acts on it. *)
Deciding == {"evaluating", "claimed", "claimDone"}

TypeOK ==
    /\ mainOwner \in Threads \cup {Nobody}
    /\ intentShared \in SUBSET Threads
    /\ intentOwner \in Threads \cup {Nobody}
    /\ gateShared \in SUBSET Threads
    /\ gateOwner \in Threads \cup {Nobody}
    /\ pc \in [Threads -> {"idle"} \cup WriterStates \cup SubmissionStates]
    /\ outdated \in SUBSET Threads

Init ==
    /\ mainOwner = Nobody
    /\ intentShared = {}
    /\ intentOwner = Nobody
    /\ gateShared = {}
    /\ gateOwner = Nobody
    /\ pc = [t \in Threads |-> "idle"]
    /\ outdated = {}

Goto(t, from, to) ==
    /\ pc[t] = from
    /\ pc' = [pc EXCEPT ![t] = to]

(* flock(LOCK_EX | LOCK_NB) on the intent file would succeed. *)
IntentFree ==
    intentShared = {} /\ intentOwner = Nobody

-----------------------------------------------------------------------------
(* hold_writer *)

TakeGateShared(t) ==
    /\ Goto(t, "idle", "announcing")
    /\ gateOwner = Nobody
    /\ gateShared' = gateShared \cup {t}
    /\ UNCHANGED <<mainOwner, intentShared, intentOwner, gateOwner, outdated>>

(* Mutant: intent is announced while a claim holds it exclusively. *)
AnnounceIntentUnlocked(t) ==
    /\ Goto(t, "announcing", "queued")
    /\ intentShared' = intentShared \cup {t}
    /\ UNCHANGED <<mainOwner, intentOwner, gateShared, gateOwner, outdated>>

AnnounceIntent(t) ==
    /\ Goto(t, "announcing", "queued")
    /\ intentOwner = Nobody
    /\ intentShared' = intentShared \cup {t}
    /\ UNCHANGED <<mainOwner, intentOwner, gateShared, gateOwner, outdated>>

(* Mutant: the writer does not wait for the main lock. *)
EnterWriterUnlocked(t) ==
    /\ Goto(t, "queued", "writing")
    /\ mainOwner' = t
    /\ outdated' = outdated \cup {s \in Threads : pc[s] \in Deciding}
    /\ UNCHANGED <<intentShared, intentOwner, gateShared, gateOwner>>

EnterWriter(t) ==
    /\ Goto(t, "queued", "writing")
    /\ mainOwner = Nobody
    /\ mainOwner' = t
    /\ outdated' = outdated \cup {s \in Threads : pc[s] \in Deciding}
    /\ UNCHANGED <<intentShared, intentOwner, gateShared, gateOwner>>

ReleaseWriterMain(t) ==
    /\ Goto(t, "writing", "wrote")
    /\ mainOwner' = Nobody
    /\ UNCHANGED <<intentShared, intentOwner, gateShared, gateOwner, outdated>>

ReleaseIntent(t) ==
    /\ Goto(t, "wrote", "retiring")
    /\ intentShared' = intentShared \ {t}
    /\ UNCHANGED <<mainOwner, intentOwner, gateShared, gateOwner, outdated>>

ReleaseGateShared(t) ==
    /\ Goto(t, "retiring", "idle")
    /\ gateShared' = gateShared \ {t}
    /\ UNCHANGED <<mainOwner, intentShared, intentOwner, gateOwner, outdated>>

-----------------------------------------------------------------------------
(* hold_submission and SubmissionGuard.claim_if_current *)

StartSubmission(t) ==
    /\ Goto(t, "idle", "waiting")
    /\ UNCHANGED <<locks, outdated>>

LockMain(t) ==
    /\ Goto(t, "waiting", "admitting")
    /\ mainOwner = Nobody
    /\ mainOwner' = t
    /\ UNCHANGED <<intentShared, intentOwner, gateShared, gateOwner, outdated>>

(* _intent_is_clear takes intent without blocking and gives it back. *)
ProbeClear(t) ==
    /\ Goto(t, "admitting", "probing")
    /\ IntentFree
    /\ intentOwner' = t
    /\ UNCHANGED <<mainOwner, intentShared, gateShared, gateOwner, outdated>>

Admit(t) ==
    /\ Goto(t, "probing", "evaluating")
    /\ intentOwner' = Nobody
    /\ outdated' = outdated \ {t}
    /\ UNCHANGED <<mainOwner, intentShared, gateShared, gateOwner>>

(* Mutant: a blocked submission retries at once, without the gate. *)
ProbeBlockedSpins(t) ==
    /\ Goto(t, "admitting", "waiting")
    /\ ~IntentFree
    /\ mainOwner' = Nobody
    /\ UNCHANGED <<intentShared, intentOwner, gateShared, gateOwner, outdated>>

ProbeBlocked(t) ==
    /\ Goto(t, "admitting", "atGate")
    /\ ~IntentFree
    /\ mainOwner' = Nobody
    /\ UNCHANGED <<intentShared, intentOwner, gateShared, gateOwner, outdated>>

TakeGate(t) ==
    /\ Goto(t, "atGate", "passingGate")
    /\ gateShared = {}
    /\ gateOwner = Nobody
    /\ gateOwner' = t
    /\ UNCHANGED <<mainOwner, intentShared, intentOwner, gateShared, outdated>>

LeaveGate(t) ==
    /\ Goto(t, "passingGate", "waiting")
    /\ gateOwner' = Nobody
    /\ UNCHANGED <<mainOwner, intentShared, intentOwner, gateShared, outdated>>

ClaimCurrent(t) ==
    /\ Goto(t, "evaluating", "claimed")
    /\ IntentFree
    /\ intentOwner' = t
    /\ UNCHANGED <<mainOwner, intentShared, gateShared, gateOwner, outdated>>

(* writer_pending: the evaluation is stale; release main, wait at the gate *)
(* and evaluate again.                                                     *)
ClaimStale(t) ==
    /\ Goto(t, "evaluating", "atGate")
    /\ ~IntentFree
    /\ mainOwner' = Nobody
    /\ UNCHANGED <<intentShared, intentOwner, gateShared, gateOwner, outdated>>

EndClaimInterval(t) ==
    /\ Goto(t, "claimed", "claimDone")
    /\ intentOwner' = Nobody
    /\ UNCHANGED <<mainOwner, intentShared, gateShared, gateOwner, outdated>>

(* The submission ends after its claim, or was rejected by the risk check. *)
UnlockMain(t) ==
    /\ \/ Goto(t, "claimDone", "idle")
       \/ Goto(t, "evaluating", "idle")
    /\ mainOwner' = Nobody
    /\ UNCHANGED <<intentShared, intentOwner, gateShared, gateOwner, outdated>>

-----------------------------------------------------------------------------
(* The kernel releases every flock of a process that exits. *)
Without(owner, t) == IF owner = t THEN Nobody ELSE owner

Crash(t) ==
    /\ pc[t] # "idle"
    /\ pc' = [pc EXCEPT ![t] = "idle"]
    /\ mainOwner' = Without(mainOwner, t)
    /\ intentShared' = intentShared \ {t}
    /\ intentOwner' = Without(intentOwner, t)
    /\ gateShared' = gateShared \ {t}
    /\ gateOwner' = Without(gateOwner, t)
    /\ UNCHANGED outdated

Writer(t) ==
    \/ AnnounceIntent(t) \/ EnterWriter(t) \/ ReleaseWriterMain(t)
    \/ ReleaseIntent(t) \/ ReleaseGateShared(t)

Submission(t) ==
    \/ LockMain(t) \/ ProbeClear(t) \/ Admit(t) \/ ProbeBlocked(t)
    \/ TakeGate(t) \/ LeaveGate(t) \/ ClaimCurrent(t) \/ ClaimStale(t)
    \/ EndClaimInterval(t) \/ UnlockMain(t)

Next ==
    \E t \in Threads :
        \/ TakeGateShared(t) \/ StartSubmission(t)
        \/ Writer(t) \/ Submission(t) \/ Crash(t)

Spec == Init /\ [][Next]_vars

(* A thread inside the barrier keeps running and a free lock is eventually *)
(* granted to somebody who keeps waiting for it; nothing is assumed about  *)
(* the order in which waiters of a contended lock are served.              *)
FairSpec ==
    Spec /\ \A t \in Threads : WF_vars(Writer(t)) /\ WF_vars(Submission(t))

-----------------------------------------------------------------------------
(* Which states own which lock: the correspondence every release relies    *)
(* on, and the inductive core of the proofs in SubmissionBarrierProofs.    *)
LockDiscipline ==
    \A t \in Threads :
        /\ mainOwner = t <=> pc[t] \in Deciding \cup {"writing", "admitting", "probing"}
        /\ t \in intentShared <=> pc[t] \in {"queued", "writing", "wrote"}
        /\ intentOwner = t <=> pc[t] \in {"probing", "claimed"}
        /\ t \in gateShared <=> pc[t] \in WriterStates
        /\ gateOwner = t <=> pc[t] = "passingGate"

IntentExclusive == intentOwner # Nobody => intentShared = {}

(* A submission acts only on a risk snapshot that no writer has changed    *)
(* since: from the moment hold_submission admits it until it releases the  *)
(* main lock no hold_writer body runs.                                     *)
SnapshotCurrent ==
    \A t \in Threads : pc[t] \in Deciding => t \notin outdated

(* A writer that has announced its intent and not yet entered invalidates  *)
(* the snapshot under evaluation: no order is claimed or sent past it.     *)
QueuedWriterBlocksClaim ==
    \A s, w \in Threads :
        pc[s] = "claimed" => pc[w] \notin {"queued", "writing", "wrote"}

(* Whoever claims an order does so on a current snapshot that no announced *)
(* writer has invalidated, with every lock of hold_writer, hold_submission *)
(* and claim_if_current in the hands its control says.                     *)
BarrierHolds ==
    /\ TypeOK
    /\ LockDiscipline
    /\ SnapshotCurrent
    /\ QueuedWriterBlocksClaim

FinitelyManyCrashes == <>[][\A t \in Threads : ~Crash(t)]_vars

(* Submissions that keep arriving never starve the writers: unless         *)
(* processes crash forever, once one has announced its intent some writer  *)
(* enters or every announced one is gone.                                  *)
WriterPriority ==
    FinitelyManyCrashes =>
        ((\E w \in Threads : pc[w] = "queued")
            ~> \/ \E w \in Threads : pc[w] = "writing"
               \/ \A w \in Threads : pc[w] # "queued")

NoWriters == \A w \in Threads : pc[w] \notin WriterStates

(* A submission that was told to wait for announced writers is let back in *)
(* once writers stop coming.                                               *)
GateReopens ==
    \A t \in Threads :
        <>[]NoWriters => []<>(pc[t] \notin {"atGate", "passingGate"})

(* Neither side of the barrier starves: writers get in past submissions    *)
(* that keep coming, and a submission at the gate gets back in once they   *)
(* are done.                                                               *)
NobodyStarves == WriterPriority /\ GateReopens

(* The main lock counts as held by a submission only once its intent probe *)
(* has passed, and the intent lock as a claim only inside claim_if_current. *)
holderOf ==
    IF \E t \in Threads : mainOwner = t /\ pc[t] \in Deciding \cup {"writing"}
    THEN mainOwner ELSE Nobody

claimantOf ==
    IF \E t \in Threads : intentOwner = t /\ pc[t] = "claimed"
    THEN intentOwner ELSE Nobody

Barrier == INSTANCE OrderingBarrier WITH
    announced <- intentShared, holder <- holderOf, claimant <- claimantOf

(* The three lock files implement the ordering callers rely on, with the   *)
(* shared owners of the intent lock as the announced writers.              *)
ImplementsOrderingBarrier == Barrier!BarrierSpec
=============================================================================
