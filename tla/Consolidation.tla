----------------------------- MODULE Consolidation -----------------------------
(***************************************************************************)
(* Moving the runtime database from one checkout to another                *)
(* (ops/runtime_consolidation.py).  The tool proves that nobody uses       *)
(* either database, backs both up, takes the maintenance tenure of both,   *)
(* copies the source, and puts the copy in the place of the destination.   *)
(* Between these steps runtimes and backup runs of either checkout come    *)
(* and go, and the tool may fail or be killed at any point, and be run     *)
(* again on what it left.                                                  *)
(*                                                                         *)
(* A database is a file: S the source, D the old destination, N the copy.  *)
(* Its content is the number of writes it has had, its summary the number  *)
(* of rows.  The tenure row is part of the file, and is copied with it.    *)
(* What an earlier run installed is the D of a later one.                  *)
(***************************************************************************)
EXTENDS Naturals

CONSTANTS MaxWrites, \* bound on the writes of the runtimes to each file
          MaxStarts, \* bound on the runtimes that start
          MaxTools   \* bound on the runs of the tool

ConsolidationAssumption == {MaxWrites, MaxStarts} \subseteq Nat /\ MaxTools \in Nat \ {0}

Files == {"S", "D", "N"}

VARIABLES pc,       \* the tool
          had,      \* there was a destination database
          at,       \* which file the destination path names: "D", "N", "empty" or "none"
          content,  \* content[f]: its rows and its writes
          tenure,   \* tenure[f]: "free", "tool", "expired" (the tool's) or "runtime"
          running,  \* the files on which a runtime runs
          base,     \* base[f]: the summary the tool took before the backup
          copied,   \* the content that was copied
          marker,   \* the uncertainty marker
          gone,     \* the old destination database has been unlinked
          tools,    \* how often the tool was run
          starts

vars == <<pc, had, at, content, tenure, running, base, copied, marker, gone, tools, starts>>

\* "torn": it reported a plain failure with the destination path already changed
Ended == {"done", "failed", "torn", "uncertain", "dead"}
Before == {"start", "backup_s", "compare_s", "backup_d", "compare_d", "lease_s", "lease_d"}
Staging == {"copy", "compare", "mark"}
Installing == {"move", "moved", "install", "placed", "check", "discard", "release", "unmark", "free"}

Written == [rows : 0 .. MaxWrites, writes : 0 .. MaxWrites]

TypeOK ==
    /\ pc \in Before \cup Staging \cup Installing \cup Ended
    /\ had \in BOOLEAN /\ at \in {"D", "N", "empty", "none"}
    /\ content \in [Files -> Written]
    /\ tenure \in [Files -> {"free", "tool", "expired", "runtime"}]
    /\ running = {f \in Files : tenure[f] = "runtime"}
    /\ copied \in Written /\ {marker, gone} \subseteq BOOLEAN /\ tools \in 1 .. MaxTools
    /\ base \in [{"S", "D"} -> 0 .. MaxWrites]

Nothing == [rows |-> 0, writes |-> 0]

Init ==
    /\ pc = "start" /\ had \in BOOLEAN /\ at = IF had THEN "D" ELSE "none"
    /\ content = [f \in Files |-> Nothing]
    /\ tenure = [f \in Files |-> "free"] /\ running = {}
    /\ base = [f \in {"S", "D"} |-> 0] /\ copied = Nothing /\ marker = FALSE
    /\ gone = FALSE /\ tools = 1 /\ starts = 0

-----------------------------------------------------------------------------
(* What the tool looks at *)

Databases == IF had THEN {"S", "D"} ELSE {"S"}

(* No writer, no current tenure of either role, and the owner of an expired one is gone. *)
Quiescent(f) == tenure[f] = "free"
AllAbsent == \A f \in Databases : Quiescent(f)

LogicalSummary(f) == content[f].rows

(* A file at the destination path that is not the one validated at the beginning. *)
DestinationAsValidated == had => at = "D"

-----------------------------------------------------------------------------
(* Before the tenures: proofs of absence, summaries, backups *)

(* A marker, or a file at the path that is no database, ends the run here. *)
Preflight ==
    /\ pc = "start" /\ ~marker /\ at # "empty" /\ AllAbsent /\ DestinationAsValidated
    /\ pc' = "backup_s"
    /\ base' = [base EXCEPT !["S"] = LogicalSummary("S")]
    /\ UNCHANGED <<had, at, content, tenure, running, copied, marker, gone, tools, starts>>

(* backup_database takes the maintenance tenure for itself and gives it back. *)
BackupSource ==
    /\ pc = "backup_s" /\ Quiescent("S")
    /\ pc' = "compare_s"
    /\ UNCHANGED <<had, at, content, tenure, running, base, copied, marker, gone, tools, starts>>

CompareSource ==
    /\ pc = "compare_s" /\ AllAbsent /\ LogicalSummary("S") = base["S"]
    /\ pc' = IF had THEN "backup_d" ELSE "compare_d"
    /\ base' = [base EXCEPT !["D"] = LogicalSummary("D")]
    /\ UNCHANGED <<had, at, content, tenure, running, copied, marker, gone, tools, starts>>

BackupDestination ==
    /\ pc = "backup_d" /\ Quiescent("D")
    /\ pc' = "compare_d"
    /\ UNCHANGED <<had, at, content, tenure, running, base, copied, marker, gone, tools, starts>>

CompareBoth ==
    /\ pc = "compare_d" /\ AllAbsent
    /\ \A f \in Databases : LogicalSummary(f) = base[f]
    /\ pc' = "lease_s"
    /\ UNCHANGED <<had, at, content, tenure, running, base, copied, marker, gone, tools, starts>>

-----------------------------------------------------------------------------
(* Under the tenures: the copy *)

LeaseSource ==
    /\ pc = "lease_s" /\ tenure["S"] = "free"
    /\ pc' = IF had THEN "lease_d" ELSE "copy"
    /\ tenure' = [tenure EXCEPT !["S"] = "tool"]
    /\ UNCHANGED <<had, at, content, running, base, copied, marker, gone, tools, starts>>

LeaseDestination ==
    /\ pc = "lease_d" /\ tenure["D"] = "free"
    /\ pc' = "copy"
    /\ tenure' = [tenure EXCEPT !["D"] = "tool"]
    /\ UNCHANGED <<had, at, content, running, base, copied, marker, gone, tools, starts>>

(* The tool's tenure row goes with the rows: the copy is born under maintenance. *)
CopySource ==
    /\ pc = "copy"
    /\ pc' = "compare"
    /\ copied' = content["S"] /\ content' = [content EXCEPT !["N"] = content["S"]]
    /\ tenure' = [tenure EXCEPT !["N"] = IF tenure["S"] = "expired" THEN "expired" ELSE "tool"]
    /\ UNCHANGED <<had, at, running, base, marker, gone, tools, starts>>

CompareStaging ==
    /\ pc = "compare" /\ LogicalSummary("S") = LogicalSummary("N")
    /\ pc' = "mark"
    /\ UNCHANGED <<had, at, content, tenure, running, base, copied, marker, gone, tools, starts>>

-----------------------------------------------------------------------------
(* The installation *)

CreateMarker ==
    /\ pc = "mark" /\ DestinationAsValidated
    /\ pc' = (IF had THEN "move" ELSE "install")
    /\ marker' = TRUE
    /\ UNCHANGED <<had, at, content, tenure, running, base, copied, gone, tools, starts>>

(* The rename, and then the note that the destination has changed: an interrupt may come between
   the two. *)
MoveOld ==
    /\ pc = "move"
    /\ pc' = "moved" /\ at' = "none"
    /\ UNCHANGED <<had, content, tenure, running, base, copied, marker, gone, tools, starts>>

Install ==
    /\ pc = "install" /\ at = "none"
    /\ pc' = "placed" /\ at' = "N"
    /\ UNCHANGED <<had, content, tenure, running, base, copied, marker, gone, tools, starts>>

NoteChange ==
    /\ pc \in {"moved", "placed"}
    /\ pc' = IF pc = "moved" THEN "install" ELSE "check"
    /\ UNCHANGED <<had, at, content, tenure, running, base, copied, marker, gone, tools, starts>>

(* Sidecars, a sync and the summary of what is now at the path. *)
CheckInstalled ==
    /\ pc = "check" /\ LogicalSummary("N") = copied.rows
    /\ pc' = "discard"
    /\ UNCHANGED <<had, at, content, tenure, running, base, copied, marker, gone, tools, starts>>

(* The old file is unlinked, and the tool's tenure with it. *)
DiscardOld ==
    /\ pc = "discard"
    /\ pc' = "release"
    /\ tenure' = [tenure EXCEPT !["D"] = IF had THEN "free" ELSE @]
    /\ gone' = had
    /\ UNCHANGED <<had, at, content, running, base, copied, marker, tools, starts>>

(* A tenure that has expired cannot be given back. *)
ReleaseSource ==
    /\ pc = "release" /\ tenure["S"] = "tool"
    /\ pc' = "unmark"
    /\ tenure' = [tenure EXCEPT !["S"] = "free"]
    /\ UNCHANGED <<had, at, content, running, base, copied, marker, gone, tools, starts>>

RemoveMarker ==
    /\ pc = "unmark"
    /\ pc' = "free" /\ marker' = FALSE
    /\ UNCHANGED <<had, at, content, tenure, running, base, copied, gone, tools, starts>>

ReleaseCopy ==
    /\ pc = "free" /\ tenure["N"] \in {"tool", "expired"}
    /\ pc' = "done"
    /\ tenure' = [tenure EXCEPT !["N"] = "free"]
    /\ UNCHANGED <<had, at, content, running, base, copied, marker, gone, tools, starts>>

-----------------------------------------------------------------------------
(* Failures *)

AuthorityChanged ==
    \/ pc \in {"check", "discard", "release", "unmark", "free"}
    \/ pc \in {"install", "placed"} /\ had

Given(f) == IF tenure[f] = "tool" THEN "free" ELSE tenure[f]

GivenIfPossible(fs) ==
    {[f \in Files |-> IF f \in given THEN Given(f) ELSE tenure[f]] : given \in SUBSET fs}

(* Any exception, an interrupt included.  After a change of the destination that was noted, it sees
   to the marker and leaves the moved file's tenure; otherwise it takes everything back that it
   can, a marker of an earlier run included.  What fails of this is passed over. *)
Fail ==
    /\ pc \notin Ended
    /\ IF AuthorityChanged
       THEN /\ pc' = "uncertain" /\ marker' \in {marker, TRUE}
            /\ tenure' \in GivenIfPossible({"S"})
       ELSE /\ pc' = IF pc \in {"moved", "placed"} THEN "torn" ELSE "failed"
            /\ marker' \in {marker, FALSE}
            /\ tenure' \in GivenIfPossible({"S", "D"})
    /\ UNCHANGED <<had, at, content, running, base, copied, gone, tools, starts>>

Kill ==
    /\ pc \notin Ended
    /\ pc' = "dead"
    /\ UNCHANGED <<had, at, content, tenure, running, base, copied, marker, gone, tools, starts>>

(* The tool is run again, with whatever is at the destination path by now. *)
RunAgain ==
    /\ pc \in Ended /\ tools < MaxTools
    /\ pc' = "start" /\ tools' = tools + 1
    /\ had' = (at \in {"D", "N"}) /\ at' = IF at = "N" THEN "D" ELSE at
    /\ IF at = "N"
       THEN /\ content' = [content EXCEPT !["D"] = content["N"], !["N"] = Nothing]
            /\ tenure' = [tenure EXCEPT !["D"] = tenure["N"], !["N"] = "free"]
            /\ running' = {f \in Files : tenure'[f] = "runtime"}
       ELSE UNCHANGED <<content, tenure, running>>
    /\ base' = [f \in {"S", "D"} |-> 0] /\ copied' = Nothing /\ gone' = FALSE
    /\ UNCHANGED <<marker, starts>>

-----------------------------------------------------------------------------
(* The others *)

Expire(f) ==
    /\ tenure[f] = "tool"
    /\ tenure' = [tenure EXCEPT ![f] = "expired"]
    /\ UNCHANGED <<pc, had, at, content, running, base, copied, marker, gone, tools, starts>>

Reachable == {"S"} \cup ({at} \cap {"D", "N"})

(* A backup run clears an expired maintenance owner that is gone; a runtime does not. *)
Reclaimable(f) == tenure[f] = "expired" /\ pc \in Ended
MaintenancePass(f) ==
    /\ f \in Reachable /\ Reclaimable(f)
    /\ tenure' = [tenure EXCEPT ![f] = "free"]
    /\ UNCHANGED <<pc, had, at, content, running, base, copied, marker, gone, tools, starts>>

RuntimeStart(f) ==
    /\ f \in Reachable /\ tenure[f] = "free" /\ starts < MaxStarts
    /\ tenure' = [tenure EXCEPT ![f] = "runtime"]
    /\ running' = running \cup {f} /\ starts' = starts + 1
    /\ UNCHANGED <<pc, had, at, content, base, copied, marker, gone, tools>>

(* A runtime that finds no database fails, and leaves an empty file. *)
RuntimeFails ==
    /\ at = "none" /\ starts < MaxStarts
    /\ at' = "empty" /\ starts' = starts + 1
    /\ UNCHANGED <<pc, had, content, tenure, running, base, copied, marker, gone, tools>>

RuntimeWrite(f) ==
    /\ f \in running /\ content[f].writes < MaxWrites
    /\ \E new \in {0, 1} :
           content' = [content EXCEPT ![f].writes = @ + 1, ![f].rows = @ + new]
    /\ UNCHANGED <<pc, had, at, tenure, running, base, copied, marker, gone, tools, starts>>

RuntimeStop(f) ==
    /\ f \in running
    /\ tenure' = [tenure EXCEPT ![f] = "free"] /\ running' = running \ {f}
    /\ UNCHANGED <<pc, had, at, content, base, copied, marker, gone, tools, starts>>

Tool ==
    \/ Preflight \/ BackupSource \/ CompareSource \/ BackupDestination \/ CompareBoth
    \/ LeaseSource \/ LeaseDestination \/ CopySource \/ CompareStaging
    \/ CreateMarker \/ MoveOld \/ Install \/ NoteChange \/ CheckInstalled \/ DiscardOld
    \/ ReleaseSource \/ RemoveMarker \/ ReleaseCopy

Next ==
    \/ Tool \/ Fail \/ Kill \/ RunAgain \/ RuntimeFails
    \/ \E f \in Files : \/ Expire(f) \/ MaintenancePass(f)
                        \/ RuntimeStart(f) \/ RuntimeWrite(f) \/ RuntimeStop(f)

Spec == Init /\ [][Next]_vars

(* The tool goes on, fails or is killed; tenures expire, and backup runs come every day. *)
Fairness ==
    /\ WF_vars(Tool \/ Fail \/ Kill)
    /\ \A f \in Files : WF_vars(Expire(f)) /\ WF_vars(MaintenancePass(f))

-----------------------------------------------------------------------------
(* Properties *)

(* While the tool works with its copy, nobody writes to the source: what is installed is the whole
   source, whatever starts meanwhile and however long it takes. *)
CopyIsWhole ==
    pc \in {"compare", "mark"} \cup (Installing \ {"unmark", "free"}) => content["S"] = copied

(* Whatever goes wrong, and however often the tool is run on what it left: the old destination
   database is on disk, at its path or under its other name, until the copy of the whole source is
   at the path in its stead. *)
OldIsKept == gone => had /\ at = "N" /\ content["N"].writes >= copied.writes

(* After one run without a marker, the destination path names the old database or the checked copy,
   unless the run was interrupted before it had noted its change.  A second run takes the marker of
   the first away. *)
HalfDoneIsMarked ==
    tools = 1 /\ pc # "torn" /\ ~marker =>
               \/ at = "D"
               \/ ~had /\ at \in {"none", "empty"}
               \/ at = "N" /\ pc \in {"free", "done", "dead", "uncertain"}

(* A runtime works on the file that is at its path: what it writes is not unlinked under it. *)
NoWriteIsLost == running \subseteq Reachable

(* A run that reports a plain failure has left the destination path as it was, unless it was
   interrupted before it had noted its change. *)
FailureIsClean == pc = "failed" => IF had THEN at = "D" ELSE at \in {"none", "empty"}

(* When the tool is gone, both checkouts can be used again: no tenure of it stays. *)
TenuresEnd == \A f \in Files : (pc \in Ended /\ f \in Reachable) ~> (tenure[f] \notin {"tool", "expired"})

=============================================================================
