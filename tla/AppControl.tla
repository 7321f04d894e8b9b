------------------------------- MODULE AppControl -------------------------------
(***************************************************************************)
(* Starting and stopping the application (ops/control.py, with the scripts *)
(* start.sh and stop.sh that call it).  An application announces itself by *)
(* a socket and a metadata file; a launcher announces a start it is about  *)
(* to make by an intent file.  All of them survive the process that wrote  *)
(* them, and a process id may be in use again by another process.          *)
(* A start holds a lock of the operating system while it clears what a     *)
(* predecessor left, binds the socket and publishes the metadata.          *)
(***************************************************************************)
EXTENDS FiniteSets

CONSTANTS Apps,      \* application processes, each started once
          Manual,    \* the ones a launcher starts, with an intent
          Pids, Pid, \* process ids, and the id each process gets
          Stoppers   \* runs of stop.sh

ControlAssumption ==
    /\ Manual \subseteq Apps /\ Pid \in [Apps -> Pids]
    /\ {"none", "torn"} \cap (Apps \cup Stoppers) = {}

VARIABLES intent,  \* app-control.starting: the instance it names, or "torn"
          sock,    \* app-control.sock: who bound it
          meta,    \* app.pid: whose metadata it holds
          lock,    \* who holds app-control.start.lock
          app,     \* where each process is; "cut": at its end, with a socket it left alone
          asked,   \* processes that were asked to shut down
          launch,  \* where the launcher of a process is
          stop,    \* the stoppers: the metadata they have read and validated
          others,  \* process ids in use by processes that are not the application
          port,    \* who listens on the TCP port
          absent   \* the last answer of prove_app_absent was yes

vars == <<intent, sock, meta, lock, app, asked, launch, stop, others, port, absent>>

None == "none"
Starting == {"locked", "unlink", "clear", "bound", "published"}
Up == {"serving", "ready"}
Alive(i) == app[i] \notin {"new", "gone", "cut"}

TypeOK ==
    /\ intent \in Apps \cup {None, "torn"}
    /\ sock \in Apps \cup {None} /\ meta \in Apps \cup {None}
    /\ lock \in Apps \cup {None}
    /\ app \in [Apps -> Starting \cup Up \cup {"new", "launched", "closing", "gone", "cut"}]
    /\ asked \in SUBSET Apps
    /\ launch \in [Manual -> {"new", "writing", "begun", "waiting", "over"}]
    /\ stop \in [Stoppers -> Apps \cup {None}]
    /\ others \in SUBSET Pids
    /\ port \in Apps \cup {None}
    /\ absent \in BOOLEAN

Init ==
    /\ intent = None /\ sock = None /\ meta = None /\ lock = None
    /\ app = [i \in Apps |-> "new"]
    /\ asked = {}
    /\ launch = [i \in Manual |-> "new"]
    /\ stop = [s \in Stoppers |-> None]
    /\ others = {} /\ port = None /\ absent = FALSE

-----------------------------------------------------------------------------
(* The process table *)

Move(i, to) == app' = [app EXCEPT ![i] = to]

\* _process_absent: no process at all has the id that was recorded
ProcessAbsent(j) ==
    /\ Pid[j] \notin others
    /\ \A i \in Apps : Pid[i] = Pid[j] => ~Alive(i)

PidFree(i) == Pid[i] \notin others /\ \A j \in Apps : Pid[j] = Pid[i] => ~Alive(j)

\* _matching_live_identity: the process that was recorded, with its start time,
\* and the very socket that was recorded
LiveIdentity(j) == Alive(j) /\ sock = j

OtherStarts(p) ==
    /\ p \notin others /\ \A i \in Apps : Pid[i] = p => ~Alive(i)
    /\ others' = others \cup {p}
    /\ UNCHANGED <<intent, sock, meta, lock, app, asked, launch, stop, port, absent>>

OtherEnds(p) ==
    /\ p \in others
    /\ others' = others \ {p}
    /\ UNCHANGED <<intent, sock, meta, lock, app, asked, launch, stop, port, absent>>

-----------------------------------------------------------------------------
(* The launcher *)

\* the intent is created, under the lock, when no controlled application runs
BeginIntent(i) ==
    /\ launch[i] = "new" /\ ~(meta # None /\ LiveIdentity(meta))
    /\ lock = None /\ intent = None
    /\ intent' = "torn"
    /\ launch' = [launch EXCEPT ![i] = "writing"]
    /\ absent' = FALSE
    /\ UNCHANGED <<sock, meta, lock, app, asked, stop, others, port>>

WriteIntent(i) ==
    /\ launch[i] = "writing"
    /\ intent' = i
    /\ launch' = [launch EXCEPT ![i] = "begun"]
    /\ UNCHANGED <<sock, meta, lock, app, asked, stop, others, port, absent>>

Spawn(i) ==
    /\ IF i \in Manual
       THEN /\ launch[i] = "begun"
            /\ launch' = [launch EXCEPT ![i] = "waiting"]
       ELSE UNCHANGED launch
    /\ app[i] = "new" /\ PidFree(i)
    /\ Move(i, "launched")
    /\ UNCHANGED <<intent, sock, meta, lock, asked, stop, others, port, absent>>

\* the launcher leaves, ready or not, and takes its intent back if it may
Abandon(i) ==
    /\ launch[i] = "waiting"
    /\ launch' = [launch EXCEPT ![i] = "over"]
    /\ intent' = IF /\ lock = None /\ sock = None /\ meta = None
                    /\ ProcessAbsent(i) /\ intent = i
                 THEN None ELSE intent
    /\ UNCHANGED <<sock, meta, lock, app, asked, stop, others, port, absent>>

KillLauncher(i) ==
    /\ launch[i] \in {"writing", "begun", "waiting"}
    /\ launch' = [launch EXCEPT ![i] = "over"]
    /\ UNCHANGED <<intent, sock, meta, lock, app, asked, stop, others, port, absent>>

-----------------------------------------------------------------------------
(* start_app_control *)

IntentAllows(i) == intent \in {None, i}

Refuse(i) == Move(i, "gone") /\ lock' = (IF lock = i THEN None ELSE lock)

\* the lock is only tried; then the intent is looked at
Enter(i) ==
    /\ app[i] = "launched" /\ intent # "torn"
    /\ IF lock = None /\ IntentAllows(i)
       THEN Move(i, "locked") /\ lock' = i
       ELSE Refuse(i)
    /\ UNCHANGED <<intent, sock, meta, asked, launch, stop, others, port, absent>>

EnterTorn(i) == \* an intent that cannot be read is nobody's
    /\ app[i] = "launched" /\ intent = "torn"
    /\ Refuse(i)
    /\ UNCHANGED <<intent, sock, meta, asked, launch, stop, others, port, absent>>

ReclaimableAnyway == meta # None /\ sock \in {None, meta} \* Mutant: no proof of death
Reclaimable == meta # None /\ sock \in {None, meta} /\ ProcessAbsent(meta)

Inspect(i) ==
    /\ app[i] = "locked"
    /\ IF sock = None /\ meta = None THEN Move(i, "clear") /\ UNCHANGED lock
       ELSE IF Reclaimable THEN Move(i, "unlink") /\ UNCHANGED lock
       ELSE Refuse(i)
    /\ UNCHANGED <<intent, sock, meta, asked, launch, stop, others, port, absent>>

\* the socket first: what is left then can be told from a start under way
Unlink(i) ==
    /\ app[i] = "unlink"
    /\ IF sock # None THEN sock' = None /\ UNCHANGED <<meta, app>>
       ELSE meta' = None /\ Move(i, "clear") /\ UNCHANGED sock
    /\ UNCHANGED <<intent, lock, asked, launch, stop, others, port, absent>>

Bind(i) ==
    /\ app[i] = "clear"
    /\ sock' = i
    /\ Move(i, "bound")
    /\ absent' = FALSE
    /\ UNCHANGED <<intent, meta, lock, asked, launch, stop, others, port>>

\* the socket cannot be bound, or what is done with it then fails: it is not unlinked
SetupFails(i) ==
    /\ app[i] = "clear"
    /\ \E bound \in BOOLEAN :
           /\ sock' = IF bound THEN i ELSE sock
           /\ Move(i, IF bound THEN "cut" ELSE "gone")
           /\ absent' = (absent /\ ~bound)
    /\ lock' = None
    /\ UNCHANGED <<intent, meta, asked, launch, stop, others, port>>

Publish(i) ==
    /\ app[i] = "bound"
    /\ meta' = i
    /\ Move(i, "published")
    /\ UNCHANGED <<intent, sock, lock, asked, launch, stop, others, port, absent>>

\* the metadata cannot be written, or the process cannot identify itself
Unbind(i) ==
    /\ app[i] = "bound"
    /\ \E removed \in BOOLEAN :
           /\ sock' = IF sock = i /\ removed THEN None ELSE sock
           /\ Move(i, IF sock = i /\ ~removed THEN "cut" ELSE "gone")
    /\ lock' = None
    /\ UNCHANGED <<intent, meta, asked, launch, stop, others, port, absent>>

Consume(i) ==
    /\ app[i] = "published"
    /\ IntentAllows(i) \* as Enter saw it under the same lock
    /\ intent' = None /\ lock' = None
    /\ Move(i, "serving")
    /\ UNCHANGED <<sock, meta, asked, launch, stop, others, port, absent>>

Listen(i) ==
    /\ app[i] = "serving" /\ port = None
    /\ port' = i
    /\ Move(i, "ready")
    /\ UNCHANGED <<intent, sock, meta, lock, asked, launch, stop, others, absent>>

-----------------------------------------------------------------------------
(* The end of a process *)

\* close: asked to stop, or the start could not be completed, or the container or the
\* server could not be started.  A socket that cannot be unlinked is passed over.
CloseSocket(i) ==
    /\ app[i] \in Up \cup {"published"} /\ (i \in asked \/ app[i] # "ready")
    /\ \E removed \in BOOLEAN : sock' = IF sock = i /\ removed THEN None ELSE sock
    /\ port' = IF port = i THEN None ELSE port
    /\ Move(i, "closing")
    /\ UNCHANGED <<intent, meta, lock, asked, launch, stop, others, absent>>

CloseMeta(i) ==
    /\ app[i] = "closing"
    /\ \E removed \in BOOLEAN :
           /\ meta' = IF meta = i /\ removed THEN None ELSE meta
           /\ Move(i, IF sock = i /\ removed THEN "cut" ELSE "gone")
    /\ lock' = IF lock = i THEN None ELSE lock
    /\ UNCHANGED <<intent, sock, asked, launch, stop, others, port, absent>>

Kill(i) ==
    /\ Alive(i)
    /\ Move(i, IF app[i] = "bound" THEN "cut" ELSE "gone")
    /\ lock' = IF lock = i THEN None ELSE lock
    /\ port' = IF port = i THEN None ELSE port
    /\ UNCHANGED <<intent, sock, meta, asked, launch, stop, others, absent>>

-----------------------------------------------------------------------------
(* stop.sh and the proofs of absence *)

Validate(s) == \* read_control_metadata and _matching_live_identity
    /\ stop[s] = None /\ meta # None /\ LiveIdentity(meta)
    /\ stop' = [stop EXCEPT ![s] = meta]
    /\ UNCHANGED <<intent, sock, meta, lock, app, asked, launch, others, port, absent>>

Listening(i) == app[i] \in Up \cup {"published"} /\ sock = i

HandleAny(i, t) == Listening(i) \* Mutant: only the operation is compared
\* handle_request: the request must carry this very handshake
Handle(i, t) == Listening(i) /\ i = t

\* the request goes to whoever has the socket by now
Request(s) ==
    /\ stop[s] # None
    /\ asked' = asked \cup {i \in Apps : Handle(i, stop[s])}
    /\ stop' = [stop EXCEPT ![s] = None]
    /\ UNCHANGED <<intent, sock, meta, lock, app, launch, others, port, absent>>

Proves == lock = None /\ intent = None /\ sock = None /\ meta = None /\ port = None

ProveAbsent ==
    /\ absent' = Proves
    /\ UNCHANGED <<intent, sock, meta, lock, app, asked, launch, stop, others, port>>

-----------------------------------------------------------------------------

Launcher(i) == BeginIntent(i) \/ WriteIntent(i) \/ Abandon(i) \/ KillLauncher(i)

Startup(i) ==
    \/ Enter(i) \/ EnterTorn(i) \/ Inspect(i) \/ Unlink(i) \/ Bind(i) \/ SetupFails(i)
    \/ Publish(i) \/ Unbind(i) \/ Consume(i)

Next ==
    \/ \E i \in Manual : Launcher(i)
    \/ \E i \in Apps : Spawn(i) \/ Startup(i) \/ Listen(i) \/ CloseSocket(i) \/ CloseMeta(i) \/ Kill(i)
    \/ \E p \in Pids : OtherStarts(p) \/ OtherEnds(p)
    \/ \E s \in Stoppers : Validate(s) \/ Request(s)
    \/ ProveAbsent

Spec == Init /\ [][Next]_vars

-----------------------------------------------------------------------------
(* Properties *)

\* Nothing that another start clears away belongs to a process that is up: an
\* application that serves can be found, validated and asked to stop.
ServingIsReachable == \A i \in Apps : app[i] \in Up => sock = i /\ meta = i

\* A socket without its metadata, which no later start clears away, is left
\* behind only by its own process: killed between the two, or failing to set
\* the socket up or to unlink it.  No start, recovery or shutdown of another
\* process makes one, however it is interrupted.
ResidueIsKnown == (sock # None /\ meta # sock) => app[sock] \in {"bound", "cut"}

\* A request to stop reaches only the instance whose metadata was validated,
\* even when another one has taken over its socket path or its process id.
StopHitsItsTargetStep ==
    \A i \in asked' \ asked : \E s \in Stoppers : stop[s] = i

\* While the start of one instance is announced, no other instance gets up.
AnnouncedStartIsAloneStep ==
    \A i \in Apps : (app[i] \notin Up /\ app'[i] \in Up) =>
        \A j \in Manual \ {i} : ~(launch[j] \in {"begun", "waiting"} /\ intent = j)

\* "Absent" is said only when no application is up or in the middle of its
\* start, and no start that a launcher has announced is still to come.
AbsenceIsTrueStep ==
    (ProveAbsent /\ absent') =>
        /\ \A i \in Apps : app[i] \notin Up \cup Starting
        /\ \A i \in Manual : app[i] # "launched"
=================================================================================
