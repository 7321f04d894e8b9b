--------------------------- MODULE BackupPublication ---------------------------
(***************************************************************************)
(* One encrypted backup, from its private working directory to the         *)
(* published artifact and to its end (ops/backup.py and                    *)
(* ops/backup_transaction.py).  A creator works in a directory that a      *)
(* manifest describes; a commit-state record says whether the artifact     *)
(* counts.  Later backup runs sweep away what crashed creators left, and   *)
(* prune what is too old; they do so without the maintenance tenure, so    *)
(* they may meet a creator that is still at work.                          *)
(*                                                                         *)
(* The entries of one directory are made and removed in a fixed order and  *)
(* are modelled by how many are there; after a power loss the directory    *)
(* is as it was at some moment since it was last synced.                   *)
(***************************************************************************)
EXTENDS Naturals

CONSTANTS Janitors,           \* later backup runs
          WriteErrors,        \* whether the write of a record may report an error
          MaxPower, MaxKills  \* bounds on power losses and on killed janitors

BackupAssumption ==
    WriteErrors \in BOOLEAN /\ MaxPower \in Nat /\ MaxKills \in Nat
    /\ "free" \notin Janitors /\ "creator" \notin Janitors

VARIABLES pc,            \* the creator
          sealed,        \* the ciphertext was synced, decrypted again and compared
          plain,         \* plaintext was written into the working directory
          name,          \* the working directory: "none", "txn" or "quarantine"
          left, dleft,   \* its entries, in memory and on the disk
          links, dlinks, \* the published names: state record, anchor, target
          rec, drec,     \* the state record
          lock, slock,   \* who holds the manifest lock and the record's exclusive lock
          oldDir, oldRec, oldArt, \* whether they are older than the cutoffs
          jan,           \* the janitors
          retired,       \* the artifact was retired
          powers, kills

dirVars == <<name, left, dleft, lock, oldDir>>
recVars == <<links, dlinks, rec, drec, slock, oldRec>>
rest == <<oldArt, retired, powers, kills>>
vars == <<pc, sealed, plain, dirVars, recVars, jan, rest>>

(* Working directory: 0 no manifest, 1 the manifest only, then the second and first link of
   verification (2, 3), snapshot (4, 5) and encrypted (6, 7). *)
Full == 7
(* Published names: 1 the record, 2 the anchor too, 3 the target too. *)
Published == 3
Free == "free"

(* "empty" is a record that was made and not yet written, "torn" one whose checksum does not fit. *)
Records == {"none", "empty", "PENDING", "COMMITTED", "RETIRED", "torn"}

PcTry == {"dir", "ready", "snap", "enc", "sealed", "opened", "pend", "anchor", "target", "remove",
          "release"}
PcEnd == {"done", "failed", "uncertain", "dead"}

TypeOK ==
    /\ pc \in PcTry \cup PcEnd \cup {"start", "commit", "locked", "written", "errored",
                                     "drop_dir", "clean_dir", "clean_names"}
    /\ name \in {"none", "txn", "quarantine"} /\ left \in 0 .. Full /\ dleft \in 0 .. Full
    /\ links \in 0 .. Published /\ dlinks \in 0 .. Published
    /\ {rec, drec} \subseteq Records
    /\ {lock, slock} \subseteq Janitors \cup {Free, "creator"}
    /\ name = "none" => left = 0

Init ==
    /\ pc = "start" /\ sealed = FALSE /\ plain = FALSE
    /\ name = "none" /\ left = 0 /\ dleft = 0 /\ lock = Free /\ oldDir = FALSE
    /\ links = 0 /\ dlinks = 0 /\ rec = "none" /\ drec = "none" /\ slock = Free
    /\ oldRec = FALSE /\ oldArt = FALSE
    /\ jan = [j \in Janitors |-> "idle"]
    /\ retired = FALSE /\ powers = 0 /\ kills = 0

-----------------------------------------------------------------------------
(* The creator: the working directory *)

MakeDirectory ==
    /\ pc = "start"
    /\ pc' = "dir" /\ name' = "txn"
    /\ UNCHANGED <<sealed, plain, left, dleft, lock, oldDir, recVars, jan, rest>>

(* Members, their second links and the locked manifest, all synced before any content. *)
MakeManifest ==
    /\ pc = "dir"
    /\ pc' = "ready" /\ left' = Full /\ dleft' = Full /\ lock' = "creator" /\ oldDir' = FALSE
    /\ UNCHANGED <<sealed, plain, name, recVars, jan, rest>>

TakeSnapshot ==
    /\ pc = "ready"
    /\ pc' = "snap" /\ plain' = TRUE /\ oldDir' = FALSE
    /\ UNCHANGED <<sealed, name, left, dleft, lock, recVars, jan, rest>>

Encrypt ==
    /\ pc = "snap"
    /\ pc' = "enc" /\ oldDir' = FALSE
    /\ UNCHANGED <<sealed, plain, name, left, dleft, lock, recVars, jan, rest>>

(* The ciphertext is decrypted again, into the third member, and compared with the snapshot. *)
VerifyCiphertext ==
    /\ pc = "enc"
    /\ pc' = "sealed" /\ sealed' = TRUE /\ oldDir' = FALSE
    /\ UNCHANGED <<plain, name, left, dleft, lock, recVars, jan, rest>>

(* The names: each is synced before the next is made.  The record is created exclusively, locked,
   and then written. *)
CreateState ==
    /\ pc = "sealed" /\ links = 0
    /\ pc' = "opened"
    /\ links' = 1 /\ rec' = "empty" /\ drec' = "empty" /\ slock' = "creator" /\ oldRec' = FALSE
    /\ UNCHANGED <<sealed, plain, dirVars, dlinks, jan, rest>>

WritePending ==
    /\ pc = "opened"
    /\ pc' = "pend"
    /\ rec' = "PENDING" /\ slock' = Free /\ oldRec' = FALSE
    /\ UNCHANGED <<sealed, plain, dirVars, links, dlinks, drec, jan, rest>>

LinkAnchor ==
    /\ pc = "pend" /\ links = 1
    /\ pc' = "anchor"
    /\ links' = 2 /\ dlinks' = 1 /\ drec' = rec
    /\ UNCHANGED <<sealed, plain, dirVars, rec, slock, oldRec, jan, rest>>

LinkTarget ==
    /\ pc = "anchor" /\ links = 2
    /\ pc' = "target"
    /\ links' = Published /\ dlinks' = 2
    /\ UNCHANGED <<sealed, plain, dirVars, rec, drec, slock, oldRec, jan, rest>>

(* The encrypted member now has the two published names, and only those, besides its own. *)
EncryptedLinks == (IF left = Full THEN 2 ELSE IF left = Full - 1 THEN 1 ELSE 0)
                  + (IF links >= 2 THEN links - 1 ELSE 0)

TransactionValid(published) == left = Full /\ EncryptedLinks = 2 + published

Authorize ==
    /\ pc = "target" /\ links = Published /\ rec = "PENDING" /\ slock = Free
    /\ TransactionValid(2)
    /\ pc' = "remove" /\ dlinks' = links
    /\ UNCHANGED <<sealed, plain, dirVars, links, rec, drec, slock, oldRec, jan, rest>>

(* One entry goes and the directory is synced. *)
Unlinked == left' = left - 1 /\ dleft' = left /\ oldDir' = FALSE

RemoveMember ==
    /\ pc = "remove" /\ left > 0
    /\ left \in {Full, Full - 1} => links = Published
    /\ Unlinked
    /\ UNCHANGED <<pc, sealed, plain, name, lock, recVars, jan, rest>>

RemoveDirectory ==
    /\ pc = "remove" /\ left = 0
    /\ pc' = "release" /\ name' = "none" /\ dleft' = 0 /\ lock' = Free
    /\ UNCHANGED <<sealed, plain, left, oldDir, recVars, jan, rest>>

(* The maintenance tenure is given back before the commit. *)
Release ==
    /\ pc = "release"
    /\ pc' = "commit"
    /\ UNCHANGED <<sealed, plain, dirVars, recVars, jan, rest>>

-----------------------------------------------------------------------------
(* The creator: the commit *)

(* Both names and the ciphertext they lead to are those the record describes. *)
ArtifactMatches == links = Published

CommitLock ==
    /\ pc = "commit" /\ slock = Free
    /\ IF ArtifactMatches /\ rec = "PENDING"
       THEN pc' = "locked" /\ slock' = "creator"
       ELSE pc' = "failed" /\ UNCHANGED slock
    /\ UNCHANGED <<sealed, plain, dirVars, links, dlinks, rec, drec, oldRec, jan, rest>>

CommitWrite ==
    /\ pc = "locked"
    /\ \/ pc' = "written" /\ rec' = "COMMITTED"
       \/ WriteErrors /\ pc' = "errored" /\ rec' \in {"PENDING", "COMMITTED", "torn"}
    /\ oldRec' = FALSE
    /\ UNCHANGED <<sealed, plain, dirVars, links, dlinks, drec, slock, jan, rest>>

CommitHoped == \* Mutant: the receipt is returned before the record is on the disk
    /\ pc = "written"
    /\ pc' = "done" /\ slock' = Free
    /\ UNCHANGED <<sealed, plain, dirVars, links, dlinks, rec, drec, oldRec, jan, rest>>
CommitProve ==
    /\ pc = "written"
    /\ pc' = "done" /\ drec' = rec /\ slock' = Free
    /\ UNCHANGED <<sealed, plain, dirVars, links, dlinks, rec, oldRec, jan, rest>>

(* After an error the record is read back.  One that reads as committed is taken for committed;
   a broken one is put back, or retired, or left as it is. *)
Reconciled(r) ==
    CASE r = "COMMITTED" -> {[pc |-> "done", rec |-> r]}
      [] r = "PENDING"   -> {[pc |-> "failed", rec |-> r]}
      [] OTHER           -> {[pc |-> "failed", rec |-> "PENDING"],
                             [pc |-> "failed", rec |-> "RETIRED"],
                             [pc |-> "uncertain", rec |-> "torn"]}

CommitReconcile ==
    /\ pc = "errored"
    /\ \E o \in Reconciled(rec) :
           /\ pc' = o.pc /\ rec' = o.rec
           /\ drec' = IF o.rec = rec THEN drec ELSE o.rec
    /\ slock' = Free
    /\ UNCHANGED <<sealed, plain, dirVars, links, dlinks, oldRec, jan, rest>>

-----------------------------------------------------------------------------
(* The creator: failure before the commit *)

(* The working directory is removed only while it is exactly as the manifest and the links that
   were authorized describe it, the published names only once the record is known to be written:
   a creator that fails between making and writing it leaves it behind. *)
NoNamesYet == {"ready", "snap", "enc", "sealed", "opened"}
HalfWritten == IF WriteErrors THEN {"empty", "torn", "PENDING"} ELSE {"empty"}

Fail ==
    /\ pc \in PcTry
    /\ pc' = CASE pc = "dir" -> "failed"
               [] pc \in NoNamesYet -> IF TransactionValid(0) THEN "drop_dir" ELSE "failed"
               [] pc = "pend" /\ TransactionValid(0) -> "clean_dir"
               [] OTHER -> "clean_names"
    /\ lock' = IF pc' \in {"drop_dir", "clean_dir"} THEN lock ELSE Free
    /\ name' = IF pc = "dir" THEN "none" ELSE name
    /\ IF pc = "opened"
       THEN rec' \in HalfWritten /\ slock' = Free
       ELSE UNCHANGED <<rec, slock>>
    /\ UNCHANGED <<sealed, plain, left, dleft, oldDir, links, dlinks, drec, oldRec, jan, rest>>

CleanDirectory ==
    /\ pc \in {"drop_dir", "clean_dir"}
    /\ IF left > 0
       THEN Unlinked /\ UNCHANGED <<pc, name, lock>>
       ELSE /\ pc' = IF pc = "drop_dir" THEN "failed" ELSE "clean_names"
            /\ name' = "none" /\ dleft' = 0 /\ lock' = Free
            /\ UNCHANGED <<left, oldDir>>
    /\ UNCHANGED <<sealed, plain, recVars, jan, rest>>

CleanNames ==
    /\ pc = "clean_names"
    /\ IF links > 0
       THEN links' = links - 1 /\ UNCHANGED <<pc, dlinks, rec, drec>>
       ELSE pc' = "failed" /\ dlinks' = 0 /\ rec' = "none" /\ drec' = "none" /\ UNCHANGED links
    /\ UNCHANGED <<sealed, plain, dirVars, slock, oldRec, jan, rest>>

CreatorStep ==
    \/ MakeDirectory \/ MakeManifest \/ TakeSnapshot \/ Encrypt
    \/ VerifyCiphertext \/ CreateState \/ WritePending
    \/ LinkAnchor \/ LinkTarget \/ Authorize \/ RemoveMember \/ RemoveDirectory \/ Release
    \/ CommitLock \/ CommitWrite \/ CommitProve \/ CommitReconcile
    \/ Fail \/ CleanDirectory \/ CleanNames

-----------------------------------------------------------------------------
(* A janitor: the working directory of a creator that is gone *)

At(j, p) == jan' = [jan EXCEPT ![j] = p]

(* Only names that the manifest records and whose link counts are those of a directory that
   published nothing: a link more, and it stays until the names have been swept. *)
ManifestReadable == left > 0
MembersAsRecorded == left \in {Full, Full - 1} => links < 2
Recoverable == ManifestReadable /\ oldDir /\ lock = Free /\ MembersAsRecorded

RecoverDirectory(j) ==
    /\ jan[j] = "idle" /\ name # "none" /\ Recoverable
    /\ lock' = j /\ At(j, "isolate")
    /\ UNCHANGED <<pc, sealed, plain, name, left, dleft, oldDir, recVars, rest>>

Isolate(j) ==
    /\ jan[j] = "isolate"
    /\ name' = "quarantine" /\ At(j, "unlink")
    /\ UNCHANGED <<pc, sealed, plain, left, dleft, lock, oldDir, recVars, rest>>

NamespaceIsolated(j) == name = "quarantine" /\ lock = j

RecoverMember(j) ==
    /\ jan[j] = "unlink" /\ left > 0 /\ NamespaceIsolated(j)
    /\ Unlinked
    /\ UNCHANGED <<pc, sealed, plain, name, lock, recVars, jan, rest>>

RecoverFinish(j) ==
    /\ jan[j] = "unlink" /\ left = 0
    /\ name' = "none" /\ dleft' = 0 /\ lock' = Free /\ At(j, "idle")
    /\ UNCHANGED <<pc, sealed, plain, left, oldDir, recVars, rest>>

(* Anything that does not match puts the directory back under its own name. *)
RecoverFails(j) ==
    /\ jan[j] \in {"isolate", "unlink"} /\ kills < MaxKills
    /\ name' = "txn" /\ lock' = Free /\ At(j, "idle") /\ kills' = kills + 1
    /\ UNCHANGED <<pc, sealed, plain, left, dleft, oldDir, recVars, oldArt, retired, powers>>

-----------------------------------------------------------------------------
(* A janitor: published names without a commit, and artifacts that are too old *)

SweepPhase == rec \in {"PENDING", "RETIRED"}

SweepState(j) ==
    /\ jan[j] = "idle" /\ links > 0 /\ slock = Free
    /\ SweepPhase /\ oldRec
    /\ slock' = j /\ At(j, "sweep")
    /\ UNCHANGED <<pc, sealed, plain, dirVars, links, dlinks, rec, drec, oldRec, rest>>

(* Target and anchor, a sync, the record, a sync. *)
SweepNames(j) ==
    /\ jan[j] \in {"sweep", "prune"}
    /\ IF links > 0
       THEN /\ links' = links - 1 /\ UNCHANGED <<jan, rec, drec, slock>>
            /\ dlinks' = IF links = 1 THEN 1 ELSE dlinks
       ELSE /\ dlinks' = 0 /\ rec' = "none" /\ drec' = "none" /\ At(j, "idle")
            /\ slock' = IF slock = j THEN Free ELSE slock
            /\ UNCHANGED links
    /\ UNCHANGED <<pc, sealed, plain, dirVars, oldRec, rest>>

Prune(j) ==
    /\ jan[j] = "idle" /\ slock = Free
    /\ links = Published /\ rec = "COMMITTED" /\ oldArt
    /\ slock' = j /\ rec' = "RETIRED" /\ oldRec' = FALSE /\ At(j, "retire")
    /\ UNCHANGED <<pc, sealed, plain, dirVars, links, dlinks, drec, rest>>

Retire(j) ==
    /\ jan[j] = "retire"
    /\ drec' = rec /\ slock' = Free /\ retired' = TRUE /\ At(j, "prune")
    /\ UNCHANGED <<pc, sealed, plain, dirVars, links, dlinks, rec, oldRec, oldArt, powers, kills>>

JanitorStep(j) ==
    \/ RecoverDirectory(j) \/ Isolate(j) \/ RecoverMember(j) \/ RecoverFinish(j)
    \/ SweepState(j) \/ SweepNames(j) \/ Prune(j) \/ Retire(j)

-----------------------------------------------------------------------------
(* Time and faults *)

Age ==
    /\ \/ ~oldDir /\ name # "none" /\ oldDir' = TRUE /\ UNCHANGED <<oldRec, oldArt>>
       \/ ~oldRec /\ links > 0 /\ oldRec' = TRUE /\ UNCHANGED <<oldDir, oldArt>>
       \/ ~oldArt /\ links = Published /\ oldArt' = TRUE /\ UNCHANGED <<oldDir, oldRec>>
    /\ UNCHANGED <<pc, sealed, plain, name, left, dleft, lock, links, dlinks, rec, drec, slock, jan,
                   retired, powers, kills>>

Without(holder, who) == IF holder = who THEN Free ELSE holder

(* What a killed process wrote is with the kernel; its locks are gone. *)
KillCreator ==
    /\ pc \notin PcEnd /\ pc # "start"
    /\ pc' = "dead" /\ lock' = Without(lock, "creator") /\ slock' = Without(slock, "creator")
    /\ drec' = rec
    /\ UNCHANGED <<sealed, plain, name, left, dleft, oldDir, links, dlinks, rec, oldRec, jan, rest>>

KillJanitor(j) ==
    /\ jan[j] # "idle" /\ kills < MaxKills
    /\ kills' = kills + 1 /\ At(j, "idle")
    /\ lock' = Without(lock, j) /\ slock' = Without(slock, j) /\ drec' = rec
    /\ UNCHANGED <<pc, sealed, plain, name, left, dleft, oldDir, links, dlinks, rec, oldRec, oldArt,
                   retired, powers>>

Between(a, b) == (a .. b) \cup (b .. a)

PowerLoss ==
    /\ powers < MaxPower /\ powers' = powers + 1
    /\ pc' = IF pc \in PcEnd \cup {"start"} THEN pc ELSE "dead"
    /\ jan' = [j \in Janitors |-> "idle"]
    /\ lock' = Free /\ slock' = Free
    /\ \E n \in Between(left, dleft) : left' = n /\ dleft' = n
    /\ name' = IF name = "none" /\ left' > 0 THEN "txn" ELSE name
    /\ \E n \in Between(links, dlinks) : links' = n /\ dlinks' = n
    /\ \E r \in {rec, drec} \cup (IF rec = drec THEN {} ELSE {"torn"}) : rec' = r /\ drec' = r
    /\ UNCHANGED <<sealed, plain, oldDir, oldRec, oldArt, retired, kills>>

Next ==
    \/ CreatorStep
    \/ \E j \in Janitors : JanitorStep(j) \/ RecoverFails(j) \/ KillJanitor(j)
    \/ Age \/ KillCreator \/ PowerLoss

Spec == Init /\ [][Next]_vars

(* The creator runs on or dies, backup runs come every day, and files grow old. *)
Fairness ==
    /\ WF_vars(CreatorStep) /\ WF_vars(Age)
    /\ \A j \in Janitors : WF_vars(JanitorStep(j))

-----------------------------------------------------------------------------
(* Properties *)

PlaintextIn(n) == plain /\ n >= 2

(* What a reader takes for a backup: it needs the record's shared lock. *)
Listed == ArtifactMatches /\ rec = "COMMITTED" /\ slock = Free

(* A backup that is listed was sealed and compared, and no plaintext of it is left, nor comes back
   with a power loss. *)
ListedIsWhole == Listed => sealed /\ ~PlaintextIn(left) /\ ~PlaintextIn(dleft)

(* A creator that returned its receipt has published for good: until the retention time is over
   no power loss and no sweep takes the backup back. *)
ReceiptSurvives == pc = "done" => oldArt \/ (links = Published /\ rec = "COMMITTED")

(* A creator that reported failure has not published. *)
FailureIsTrue == pc = "failed" => ~Listed

(* A backup that was retired is never listed again, though its names go one by one. *)
RetiredForGood == retired => ~Listed

(* Only retirement after the retention time takes a listed backup away: no sweep touches it. *)
ListedIsKeptStep ==
    Listed /\ ~Listed' => oldArt

(* The working directory of a creator at work is never touched by a sweep. *)
CreatorUndisturbed ==
    \A j \in Janitors : jan[j] \in {"isolate", "unlink"} =>
        /\ lock = j
        /\ pc \in PcEnd \cup {"clean_names", "release", "commit", "locked", "written", "errored"}

(* Plaintext does not stay, whoever dies when. *)
PlaintextRemoved == PlaintextIn(left) ~> ~PlaintextIn(left)

(* Names that were never committed are swept in the end, if their record was written and no power
   loss broke it.  A record that is still empty, or torn, when its creator ends is never swept. *)
OrphansSwept ==
    (pc \in {"dead", "failed"} /\ links > 0 /\ rec \in {"PENDING", "RETIRED"})
        ~> (links = 0 \/ rec = "torn")
=============================================================================
