# A TLA+ model of the trading assistant

The trading assistant proposes, approves and submits orders to a paper-trading
broker and keeps its books in one SQLite database that several processes share
(API server, monitor daemon, autopilot, operator tools). This directory
specifies the parts of it whose correctness depends on interleavings, crashes
and unreliable answers, checks them with TLC on small instances, and proves the
central properties with TLAPS for every size of the instance.

Paths below are relative to `src/trading_assistant/` of the repository.

## The system and its modules

One module per component. The modules whose names end in `Proofs` hold the
theorems, each about one component or several that belong together (see *Proofs*);
those whose names begin with `MC` instantiate components for TLC.

| Module | Part of the system | State | Actions |
|---|---|---|---|
| SubmissionBarrier | `risk/submission_barrier.py` | owners of the three flock files, position of each thread | each lock call of `hold_writer`, `hold_submission`, `claim_if_current`; death of a process |
| OrderingBarrier | what callers rely on of it | announced writers, holder, claimant | announce, enter, claim, leave |
| OrderLifecycle | `OrderStateMachine` in `db/models.py` | (operators) | the table of legal moves |
| OrderOutbox | `orders/submission.py`, `application.py`, `repository.py`, `reconciliation.py`, the gate and breakers they read | order rows, ledger, latches, breakers, the broker's truth | propose, approve, reject, expire, trip, reset, submit, claim, send, persist each outcome, one reconciliation pass step by step, crash |
| StartupGate | `orders/startup.py`, `bootstrap.py` | the generation row with its times, runtimes | require, epoch, complete, fail, submit, kill, restart |
| FillLedger | fill import of `orders/reconciliation.py` | cursor, fill rows old and new, quarantine | a pass row by row; executions shown late, twice or corrected; crash |
| EmergencyStop | `risk/breakers.py`, panic and verified cancellation in `orders/reconciliation.py`, `orders/safety_state.py`, `service.py` | breakers with generations, orders, receipt | trip, evidence, reset, panic stage by stage, late cancellations |
| ExposureLimits | `orders/snapshot.py`, `risk/engine.py`, `risk/rules.py` | local orders, fills, positions and cash at the broker | snapshot read by read, decision, claim, send, proposal, cancel |
| SafetyTruth | `orders/safety_state.py` and the health answer | rows per category, read transaction, heartbeat | writers between the reads, report, commit times |
| RuleGroups | `rules/repository.py`, `rules/worker.py`, `rules/application.py` | group, rules, leases, marks, orders | lease, load, evaluate, fire, progress, release, stall, die |
| PlanLifecycle | plans in `rules/repository.py`, `analyst/planning.py`, `service.py` | plan, groups, entries and exits, broker | approve, cancel, propose, fill, settle, late fills |
| PnLLedger | `risk/pnl.py` | imported fills | import in any order; lots and boundaries as operators |
| ProviderBudget | `llm/budget.py`, `llm/base.py` | reservations, day rows, attempts | reserve, start, call, settle, mark unknown, sweeps |
| RateWindows | `DurableRateLimiter` in `app/limits.py` | window rows, requests | consume, inspect, prune |
| RouteInterlock | `app/policy.py`, leases and interlocks in `app/limits.py` | leases, interlocks, requests, receipts | acquire, claim, run, renew, settle, release, reclaim, answer a failing store, crash |
| CandidateQueue | `security/candidates.py` | receipts, nonces, targets, requests | draft, find, reserve, persist, complete, replay, crash |
| OperatorMenu | `ops/operator_terminal.py`, `ops/operator_api.py`, `app/auth.py`, `app/security.py`, `app/main.py` | menu, sessions, requests under way, orders, plans, breaker | read, reauthenticate, send, handle late, log out, others' acts |
| AgentChat | `app/agent.py` | chats, paid reads | turn, tool, stop |
| ShadowMode | `analyst/shadow.py` | plans, calls, daily threads | analyse, mark, grade, kill |
| Autopilot | `autopilot.py` | cycle, orders of the day, breakers | heal, count, decide, propose, approve, sleep, kill |
| RuntimeTenure | `ops/tenure.py` | one row per role, guards, open transaction | acquire, renew, reclaim, fence, commit, close and release apart, stall, die |
| MonitorCycle | `daemon/monitor.py` | event loop, worker threads, tenure latch | every stage of a cycle, timeouts, a trip that the store takes or refuses, daily work, shutdown |
| AppControl | `ops/control.py` | intent, socket, metadata, lock, processes | launch, bind, publish, fail in between, stop, clear, kill |
| DaemonSupervision | `ops/operator_daemon.py`, `ops/watchdog.py` | daemons, tenure, heartbeat | start, confirm, stop, watchdog run |
| BackupPublication | `ops/backup.py`, `ops/backup_transaction.py` | directory entries, commit record, durability | open the record, write it, create, publish, sweep, prune, power loss |
| Consolidation | `ops/runtime_consolidation.py` | three database files with tenures, marker | prove, back up, copy, replace, verify, release, fail, kill, run again |
| FieldMigration | `ops/encrypt_sensitive.py`, `ops/serve.py`, `preflight.py` | state row, row forms, configured key | migrate and rotate by batches, resume, start |
| SensitiveStore | `security/sensitive_fields.py` | committed column, transactions, objects, grants | stage, flush, seal, commit, roll back, guards |
| SchemaUpgrade | `db/migrate.py`, `db/migration_authority.py` | revision, authority, backup | check, back up, apply, report, kill |
| PaperHistory | `ops/paper_history.py` | old and new database, account | read twice, import, commit, second run |

How they interact: everything that changes execution risk passes through the
barrier, so OrderOutbox is written on top of OrderingBarrier, which
SubmissionBarrier implements; StartupGate and EmergencyStop are the two sides of
the outbox's `current` and `tripped`; RuleGroups and PlanLifecycle produce the
orders that the outbox submits, FillLedger and ExposureLimits say what its fills
and its risk check are made of; RuntimeTenure decides which process may commit
at all. Each component represents its neighbours by what it can observe of them.

`PROJECT.json` lists every part of the system with its status, and the reason
where it is not modelled: retry and backoff, text screening and prompts, LLM
clients, secrets and outbound policy, posture reports, backtests, external
accounts and notifications have no evolving state of their own, or only numeric
or textual content.

### What makes this hard to get right

- a breaker trips between the read of the risk snapshot and the claim;
- the process dies after the claim is durable and before, during or after the
  broker call; the answer is lost although the order was accepted;
- a lookup by client order id runs before the request arrives;
- statuses are fetched, then fills imported, then statuses applied, while the
  broker moves on; a read fails half way through;
- leases, tenures and reservations expire while their owners still act, and
  clocks are read before the write lock is waited for;
- files, rows and sockets survive the process that made them;
- a person acts on what they saw some time ago, and repeats what seemed to fail.

## Abstractions

*Barrier and outbox.*
- A flock belongs to an open file description and every call opens its own, so
  locks are owned by threads. `Crash` is the death of a process: the kernel
  releases its locks. `outdated` is a history variable.
- Short writers (one transaction under the barrier) are one step; other threads
  cannot act in between, apart from announcing. `RetireWriter` and
  `LeaveBarrier` join the release of two locks.
- `ResetBreaker` is unguarded in the outbox (EmergencyStop has the evidence), so
  its properties hold even for a reset that should have been refused.
- The broker is honest: it never executes more than ordered and activities are a
  prefix of what it executed, possibly late. FillLedger drops that assumption.
- Resolving unknown acceptances is one step: `OneUnresolved` shows that there is
  at most one to look up.

*Trading.*
- RuleGroups follows orders as far as the latch and the position depend on them.
  PlanLifecycle leaves leases to RuleGroups and fills of untrusted identity to
  FillLedger; orders are imported one at a time, in any order, a superset of what
  one pass does; a time rule fires when its deadline may have passed.
- FillLedger leaves out the synthetic branch that no adapter reaches, and the
  conflict between two passes, which the barrier excludes.
- PnLLedger gives fills different times and reduces time zones to thirds of a
  day; holidays are ignored, as in the code.

*Risk.*
- In EmergencyStop `loss` stands for the scopes whose health is read off a
  snapshot; orders of others at the broker are left out.
- In ExposureLimits last and ask prices stay, orders go by quantity, `loss` stands
  for loss and drawdown, and an account starts long. Static refusals (allowlist,
  price sanity, market hours, spread) are left out. A writer that announces
  itself during the risk check is `Yield`.
- StartupGate reduces passes to "agrees" or not; the clock does not step back.
- In SafetyTruth an item is a rule that comes to an order; a tick of the database
  clock is divided into `Parts` finer times.

*Limits and advice.*
- ProviderBudget counts input and output tokens, which every line treats alike,
  as one, and has one provider. A method's clock reading may be `LockWait` old.
- RateWindows charges by an old reading after a newer one has moved the window
  on; pruning never reaches its limit.
- RouteInterlock has the mutating routes. A client's cancellation ends like an
  error of the handler; a failing store operation has no effect of its own, and the
  client gets the store's answer instead of the refusal or the result.
- In CandidateQueue a signature is valid or not, and time, quote and static
  limits are one flag `fresh`. The legacy state between target and completion,
  which nothing writes any more, is left out.
- OperatorMenu makes each read a step that may fail, reduces ages of evidence to
  agreement or not, and lets an interrupt at a prompt be `Leave`.
- ShadowMode lets a screening return any candidates up to `TopN`. A kill between
  an analysis and its mark leaves an ordinary proposed plan, as the code does.
- Autopilot lets the trading service answer anything its interface allows, and
  runs one process at a time.
- AgentChat tells tools apart by what they touch; messages are left out.

*Processes and storage.*
- RuntimeTenure has two runtime roles for the code's four and starts each process
  once; a process inspection that answers "unknown" is a refusal. The clock is
  taken at the transaction. A process whose guard is closed lives on until it dies,
  and its threads commit without a fence.
- MonitorCycle makes every stage one writer interval and represents tenure by the
  latch, the row and the fence.
- AppControl starts each process once but lets process ids be used again. A setup
  that fails right after the bind leaves its socket; a publication that fails unlinks
  it, or cannot.
- DaemonSupervision counts time in ages and countdowns, and a posture report names
  one failing check at most; an exhausted budget and quarantined items are the two
  that do not keep a daemon from running.
- BackupPublication follows one artifact. Entries of a directory are made and
  removed in a fixed order; after a power loss the directory is as it was at some
  moment since its last sync (an ordered journal). The commit record is opened empty
  and written in a second step. Later runs sweep and prune in any order.
- Consolidation's content is a number of rows and of writes; its summaries are row
  counts, as in the code. An interrupt may come between two statements, and the tool
  may be run again on what a run left. Descriptor and identity checks are abstracted.
- FieldMigration keeps the form of each value (plain, or the key that sealed it);
  tampered values are left out. SensitiveStore has one column, and one created and
  one loaded object per session, and includes writers that go round the store.
- SchemaUpgrade applies a step atomically, but a kill may leave one torn; the
  downgrade authority is left out.
- PaperHistory gives an order one fill; the source's version stands for its bytes.

## Runs

A run answers one question about a group of components. A module such as
`MCTrading` instantiates several components that share no state. `part` names
the one that moves in a behaviour; the others stay as they start. The states of
the run are the disjoint union of the states of its parts, so a property
`part = "fills" => Fills!NoDoubleCount` holds in the run exactly when
`NoDoubleCount` holds in that instance of FillLedger. Each conjunct is stated
and explained in its component. Where a part may come to an end (a tool has
finished, the clock has reached its bound) the run allows it to stop; everywhere
else deadlock is an error. `Types`, where it appears, is the conjunction of the
parts' type invariants.

| Run | Parts | Properties |
|---|---|---|
| `progress` | barrier (3 threads), tenure, three request mixes of RouteInterlock, queue, menu, gate, chat, monitor, autopilot; with fairness | BarrierHolds, NobodyStarves, ImplementsOrderingBarrier, RequestsEnd, RuntimesGoOn |
| `recovery` | outbox (1 thread, 1 order of 2 shares), plan, fills, backup, consolidation, field migration, store; with fairness | SubmissionResolves, FillsAreCaughtUp, InterruptedWorkEnds |
| `outbox` | 2 threads, 1 rule order of 2 shares, 3 scopes, every request | SendOnce, GroupHeld, ExposureTracked, TerminalIsFinal, SendDiscipline |
| `outbox_two_orders` | 2 threads, 2 orders of 1 share, 2 scopes | OneUnresolved, UnlockIsClean |
| `advice` | budget with a wait for the lock and without, rate windows, chat, shadow mode twice, autopilot | CeilingHeld, CalledIsCharged, UsageIsBounded, AmbiguityBlocks, PilotKeepsOut |
| `trading` | rules (2 workers, 3 rules), two plans, fills, P&L | OneShot, ExitsAreCovered, FillsAreBooked, NoProposalWhileUncertain, MarkNeverFalls, ClosesFlat |
| `risk` | gate (2 runtimes), panic and reset instances of EmergencyStop, buys, sells and covers of ExposureLimits, safety report | OrdersAwaitProof, LimitsHold, StatusIsTrue, StopsHold |
| `console` | queue (1 order candidate, 2 keys, 4 requests), panics, resets and reconciles of RouteInterlock, tickets, reviews and account of OperatorMenu | OneTarget, AnswersAreTrue, OneAtATime, ActsOnWhatItRead |
| `processes` | tenure (4 processes), application control, monitor, supervision | TenureHolds, ProcessesAreKnown, ControlActsOnTruth |
| `storage` | backup with and without write errors, consolidation, field migration, store, schema, paper history | DataIsWhole, ReportsAreTrue, NothingIsDropped |
| `outbox_claim_recovery` | the outbox of `recovery` | ClaimRecovers (violated) |
| `budget_stale_clock` | the budget with a wait for the lock | NoFalseAlarm (violated) |

What the properties say:

- **BarrierHolds**: the files are owned exactly by those whose position says so,
  no submission acts on a snapshot a writer has changed, no claim passes an
  announced writer. **NobodyStarves**: writers get in however many submissions
  keep coming, and the gate opens again. **ImplementsOrderingBarrier**: the
  refinement.
- **RequestsEnd**: every mutating request, queue request, chat and menu session
  that goes on comes to its end. **RuntimesGoOn**: the successor of a dead process
  gets its tenure unless maintenance is first, a start serves or ends, a daemon
  that goes down ends, the autopilot's loop survives failures.
- **SubmissionResolves**: an order that reached the broker but whose outcome was
  not recorded is resolved once faults cease. **FillsAreCaughtUp**: shares a closed
  plan comes to own late get protection again; missing executions of an ended
  order are noticed. **InterruptedWorkEnds**: plaintext and orphans of backups are
  swept, tenures of a consolidation that is gone end, an interrupted migration that
  is resumed ends, a blocked session becomes usable.
- **SendOnce**, **GroupHeld**, **ExposureTracked**, **TerminalIsFinal**,
  **SendDiscipline**, **OneUnresolved**, **UnlockIsClean**: an order is sent once
  at most and only when approved, a rule group stays latched while its order's
  outcome is open, whatever the broker may still execute or has executed is live or
  latched locally, terminal rows stand, a send happens only under a current
  startup proof with nothing latched, no other order unresolved, no writer announced
  and no breaker tripped that the risk check did not let this order bypass, one order
  at most is unresolved, and the startup epoch unlocks on clean books only.
- **CeilingHeld**, **CalledIsCharged**, **AmbiguityBlocks**: daily ceilings hold
  except by usage above a reservation, which latches; a call stays charged; nothing
  is admitted while a call of unknown use has expired. **UsageIsBounded**: prompt
  locks raise no false alarm; two windows' worth bounds a burst, denials charge
  nothing and name the exact retry time, inspections agree; chats pay for broker
  reads; one shadow call per symbol and day as long as no daily thread outlives its day,
  graded once in any case; the autopilot's daily cap.
  **PilotKeepsOut**: the autopilot clears a transient breaker only in the generation
  it saw, and a dry run touches nothing.
- **OneShot**, **NoProposalWhileUncertain**, **MarkNeverFalls**: a rule fires once,
  never while an order of its group is open, and marks do not fall.
  **ExitsAreCovered**: exits never reverse a position or exceed what entries bought,
  owned shares are protected, a closed plan is quiet (executions shown late to a closed
  plan are in `recovery`, FillsAreCaughtUp). **ClosesFlat**: a plan closes
  only when its shares are gone. **FillsAreBooked**: every visible fill is counted
  once, settled orders are exact, the cursor passes nothing over; realized profit
  equals the reference definition of FIFO, and the boundary is the latest regular
  open.
- **OrdersAwaitProof**: no order before the newest generation is proved.
  **LimitsHold**: exposure, position and cash limits hold at the broker, sells never
  go short. **StatusIsTrue**: a panic that says "safe" left nothing that can
  execute, an ended order's fills are booked, the safety report was true at one
  moment, a believed heartbeat was written. **StopsHold**: a reset clears the
  generation its evidence was about; under a stop only reductions are sent.
- **OneTarget**, **AnswersAreTrue**: a candidate becomes one order or rule, and
  what a request was told stays true. **OneAtATime**: one mutation per resource, an
  operation in doubt blocks the next, panic and reset stay apart, the menu submits
  once, a logged-out session does nothing. **ActsOnWhatItRead**: approvals, resets
  and "safe" answers rest on what was read.
- **TenureHolds**: every process that lives and has not given its tenure back,
  whatever its latch says and however far its guard is closed, owns its row; two such
  have different roles and neither is maintenance; no runtime among them works on a
  half-done database. It says nothing of a process that has given its tenure back: a
  thread of it may still commit (see the disagreements below).
  **ProcessesAreKnown**: a serving application is reachable; what no start clears away
  was left by a process that ended between its socket and its metadata or could not
  unlink the socket; one evaluator at a time, and only after this process's own
  reconciliation ended without a difference; a failure latches unless the tenure is
  lost or the store refuses the trip; a fresh heartbeat means that no cycle is stuck;
  a child is kept and exits cleanly.
  **ControlActsOnTruth**: a stop hits its target, an announced start is alone, absence
  is reported when true, and "running" when the child is alive, the daemon's tenure is
  held and a heartbeat was written since the operator confirmed. Neither of these two
  need be the child's.
- **DataIsWhole**: listed artifacts are complete and retired for good, receipts
  survive; what a consolidation installs is the whole source, the old destination is
  on disk until then, however often the tool is run again, and what a first run leaves
  half-done is marked unless it was interrupted before it had noted its change; values
  have the announced forms and committed ones are sealed; an import joins no other rows.
  **ReportsAreTrue**: a backup that reports failure was not published, a consolidation
  that failed has left the destination as it was (with the same exception), a migration
  called complete is, an upgrade that reports success took every step, an import is
  reported as it took place and holds everything that the old database and the broker
  had at one moment. **NothingIsDropped**: listed backups, guarded rows and unsaved data
  are never dropped.

**Why the bounds are enough.** Every bound is a CONSTANT with a name, given in the
`.cfg` or in the INSTANCE of the MC module. Instances are as small as the races
allow: a holder and one who waits or whose read is old (two threads, workers,
requests or tools; three for the barrier, where a third arrives between a claiming
submission and a queued writer); one resource in contention and one other where
properties relate two; two shares for a partial fill; one crash or fault more than
a recovery needs. Ceilings are set so that they bind and clocks run past every
expiry. `Requests` and `Endings` limit what a run asks of the outbox, never what an
action does, and `outbox` asks for every request. Symmetry is used for the threads
and orders of the outbox, which no definition tells apart, in safety runs only.
Every property has a mutant of the code that breaks it in its run (`PROJECT.json`).
The theorems below lift the proved properties to every size.

**Fairness.** A thread inside the barrier goes on, and processes die finitely
often: each death while queued could otherwise overtake a waiter again. In the
outbox threads go on, a dead process is started again, and the monitor keeps asking
for a synchronisation whenever a thread is idle (strong fairness): `_core_cycle`
begins with it, and a cycle that fails ends the process, which launchd restarts.
`SubmissionResolves` has the premise that crashes, failed reads and malformed
lookups cease. Requests and chats: a handler's next step is taken; a stalled or
dead one is not assumed to move. Menu: only the client's own waits end, nothing is
assumed of the server. Tenure: time passes, processes that wait try again, and one whose
guard is closed ends: its `finally` clause is the last thing it does.
Monitor: the loop is scheduled and calls of threads end. Plans and fills: passes go
on, as the monitor calls one every cycle. Backups: the creator runs on or dies, runs
come every day, files age. Consolidation: the tool goes on, fails or dies, tenures
expire and a later maintenance pass comes; the tool is not assumed to be run again. Field migration: the operator repeats
the interrupted command with its key and configures the key the database names.
Store: a write ends and the block around a session ends its transaction.

**What the violations show.**

- `ClaimRecovers`: a process that dies between the committed claim and the broker
  call leaves the order in SUBMITTING. A later pass looks it up, finds nothing,
  cannot tell this from a request still on its way and keeps it unresolved, with
  `broker_drift` tripped. Safe, but not the recovery the design promises.
- `NoFalseAlarm`: `settle` reads the clock, waits for the write lock, and writes
  its reading to `day.updated_at`. If another transaction latched the day for an
  expired call meanwhile, the older time no longer covers that expiry, the
  aggregate check finds a latch without evidence and the settlement is rolled back
  as corrupt. The call becomes unknown and stays charged; the store is sound and the
  failure does not repeat. With prompt locks it cannot happen (`UsageIsBounded`).

Disagreements between code and documents met while modelling, that no run states:

- `orders/repository.py:765` (`resolve_acceptance`) writes the broker's status
  without the transition table, so ACCEPTANCE_UNKNOWN can become EXPIRED, a move the
  table (`db/models.py:110`) does not have.
- `ops/backup.py:781`: after a failed sync the record is read back from the page
  cache, and a receipt may be returned that a power loss undoes (comment at 811).
- `ops/backup.py:1566`: the sweep passes over a record it cannot read. A creator killed
  between the exclusive creation of its record and the write leaves an empty one, and a
  failed write a torn one; neither is ever removed.
- `ops/runtime_consolidation.py:1465`: a run that finds the marker of an earlier one
  fails with `migration_uncertain`, and its clean-up (line 1884) removes that marker, so
  a third run sees none. The plan
  (`docs/superpowers/plans/2026-07-30-terminal-operator-workflow.md:948`) says: "A
  post-install failure returns or raises only `migration_uncertain`, leaves an
  uncertainty marker mode `0600`, and blocks normal startup." `HalfDoneIsMarked` is
  therefore about the first run.
- `ops/runtime_consolidation.py:1783`: an interrupt between a rename and the statement
  that notes it makes the clean-up take the destination for unchanged. The old
  destination, if there was one, is still on disk (`OldIsKept`).
- `ops/runtime_consolidation.py:1872`: only the tool itself reads the marker that
  the design says blocks startup; line 1612: the destination is not compared again
  under the tenures.
- `daemon/monitor.py:314`: the `finally` clause closes the tenure guard and gives the
  row back while a worker thread may still commit, without a fence and beside a
  successor. A failed cycle trips the breakers first (line 298), but the trip may raise:
  the daemon then ends with no breaker latched. The successor's own reconciliation stands in
  (`CyclesAreReconciled`).
- `analyst/planning.py:256`: `approve_plan` does not look at the shadow flag.
- `ops/operator_daemon.py:857` confirms a start by any daemon's tenure and heartbeat,
  its child's or another's; `ops/watchdog.py:41` looks at the heartbeat's age only.
- Autopilot: its check for a held symbol goes by broker positions, so a market order
  unfilled after a poll interval is repeated, within the cap and the limits.
- A report fetched before the broker moved on can trip `broker_drift` although
  nothing is wrong; a partially filled order that the broker then rejects stays
  PARTIALLY_FILLED.

## Proofs

| Module | Theorem | Statement |
|---|---|---|
| SafetyProofs | `BarrierIsSafe` | Spec => []BarrierHolds |
| | `BarrierRefinement` | Spec => ImplementsOrderingBarrier |
| | `MonitoringHolds` | MonitorCycle: OneEvaluator, FailureLatches, CyclesAreReconciled, HeartbeatIsHonest |
| | `DailyAtMostOnce` | MonitorCycle: one daily analysis a day |
| | `ReportsHold` | SafetyTruth: ReportIsTrue, HeartbeatBelieved |
| OrderOutboxProofs | `TypeCorrect` | Spec => []TypeOK |
| | `SubmittedAtMostOnce`, `AtMostOneUnresolved`, `ExposureStaysVisible`, `RuleGroupHeld` | SendOnce, OneUnresolved, ExposureTracked, GroupHeld |
| | `SendsAreDisciplined`, `TerminalOutcomesStand`, `UnlockedOnCleanBooks` | the action properties SendDiscipline, TerminalIsFinal, UnlockIsClean |
| ProviderBudgetProofs | `CalledStaysCharged` | Spec => []CalledIsCharged |
| | `CeilingsHold` | IsFiniteSet(Attempts) and Spec => []CeilingHeld |
| | `AmbiguityHoldsReserve` | the action property AmbiguityBlocks |
| ProcessProofs | `TenureIsSafe` | Spec => []TenureHolds |
| | `ServingIsFound` | AppControl: ServingIsReachable, ResidueIsKnown |
| | `ControlActs` | AppControl: the action properties StopHitsItsTargetStep, AnnouncedStartIsAloneStep, AbsenceIsTrueStep |
| | `ChildrenAreKept` | DaemonSupervision: ChildIsKept, ExitIsClean |
| | `RunningIsConfirmed` | DaemonSupervision: the action property RunningIsConfirmedStep |
| RiskProofs | `GateIsSafe` | Spec => []OrdersAwaitProof |
| | `StopIsSafe` | EmergencyStop: SafeIsQuiet, EndedIsBooked |
| | `ResetsAreExpected` | EmergencyStop: the action property ResetClearsWhatWasSeenStep |
| RuleGroupsProofs | `RuleFiresOnce` | Spec => []OneShot |
| | `LatchHoldsProposals`, `MarksOnlyRise` | the action properties NoProposalWhileUncertain, MarkNeverFalls |
| CandidateQueueProofs | `CandidateQueuedOnce`, `AnswersStayTrue` | Spec => []OneTarget, Spec => []AnswersAreTrue |

The only assumptions are the named ones on the constants: values that stand for
nobody are no threads, workers or requests, sets of special orders or rules are
subsets, quantities, times and limits are naturals (positive where the
configuration requires it), and the functions that describe requests, roles and
rules have their types. Components that are only instantiated define their
assumption as an operator, which their theorems take as a hypothesis and which the
MC modules ASSUME of the values they use. `CeilingsHold` also takes as a hypothesis
that there are finitely many attempts.

A proof module may hold the proofs of several components. It extends one of them
and instantiates the others over constants and variables that it declares, so a
theorem about an instance is about every behaviour of that component alone. The
theorems of instances prove the conjuncts that the compound properties of the runs
(ProcessesAreKnown, ControlActsOnTruth, StatusIsTrue, StopsHold) take from their
component.

**Barrier.** The inductive invariant is TypeOK, LockDiscipline, IntentExclusive
(a claim excludes announced writers) and SnapshotCurrent. LockDiscipline says who
owns which file at every position of the code; the rest follows from it. The
refinement maps announced to the shared owners of the intent file, the holder to
the owner of main once it writes or has passed its probe, and the claimant to the
owner of intent inside `claim_if_current`.

**Outbox.** None of the properties is inductive alone: whether a claim may be added
depends on what the risk check found, which depends on nobody having written since.
`IInv` is the conjunction of

- *Control*: each thread's position, its task and the barrier agree;
- *Decision*: what the risk check promised stays true until the answer is
  persisted, because every writer is excluded until then;
- *Reports*: a fetched report lives only inside its pass, belongs to an order the
  broker shows, and is exact when it is final;
- *Data*: sends and approvals by status (Once), what the broker can have by status
  (Known), and OneUnresolved, ExposureTracked, GroupHeld.

Every action is first mapped to one of a few effects on the data (`StepEffect`),
then each effect is shown to preserve Data (`DataStep`); Control, Decision and
Reports go action by action. OrderOutboxEffects holds the effects, Data and Control,
OrderOutboxProofs, which extends it, the rest and the theorems. `UnlockedOnCleanBooks` needs one thing more. The epoch
looks at acceptances, fills, statuses, groups and drift at different moments, so
`CleanPass` says what a pass without a fault has established at each of its
positions: from its lookup on no order is unresolved; while reports are applied,
whatever is latched is still to be fetched or has a report; when it looks for drift
nothing is latched and no group is held. An order the broker shows but whose id is
not known locally is unresolved (a conjunct of Known), so at the end there is none.

**Budget.** `IInv` adds that an attempt about to call has a charged reservation, and
that a reservation is inserted only before its call; the lemmas say that release,
sweep, settle and mark-unknown never take a row out of the charged states.
For the other two theorems, `Dated` says that the day of every reservation has a
row, that no wait exceeds LockWait and that the clock is within its bound. Nothing
is reserved while a call of unknown use has expired because reserve is the only step
that makes a reservation, and it latches the day of such a call before it looks for
a latch. `Booked` is CeilingHeld with the types of the amounts, and every write keeps
it: a release only lowers the counts, a reserve adds what the limit check has
admitted, and a settlement beyond its reservation latches the day. What a release
gives back is a sum over a set; that it is a natural number (`RefundIsNat`) is shown
without an induction principle, from a smallest subset with another sum
(`SmallestSubset`), which is why the set of attempts must be finite. AmbiguityBlocks
and CalledIsCharged do not need that.

**Tenure.** `IInv` adds to TenureHolds the shape of rows and guards and
UnfinishedIsHeld: while a maintenance is not finished its row is still held, so no
runtime can acquire. The row is tied to the process and not to the validity of its
guard: a reclaim needs a process proven gone, so a live tenant keeps the row of its own
generation through expiry, a lost latch and a closed guard, until it gives it back
(`ReleaseStep`). `TenantKeepsRow`, `TenureExcludes` and
`RuntimesAwaitMaintenance` are its parts.

**Startup gate.** `IInv` says who holds the barrier (HolderInside), that a row marked
current, and a runtime about to mark it, stand on a pass that agreed with the broker
(ProofStands), that times read are past, and that readers accept a current row (Accepted). Without the order
of the times a proved gate might be read as closed.

**Monitor.** `MonitorInv` says where the loop may be while a thread still works
(WhoWorks): a thread whose wait has timed out keeps its slot, so no other is started
beside it, and the heartbeat is written only from where none is left. Whoever must
leave the operator's breaker tripped has done so before the tenure is given up, or was
refused by the store and ends for another reason (Latched). No cycle begins before the
reconciliation of this process has ended (ReconciledFirst), and the barrier is with a
thread at work. DailyOnce: the day of the last analysis is never ahead of the date, and no
later day has one.

**Safety report.** `TruthInv` ties what has been found, category by category, to the
view of the read transaction (Reading): as long as nothing unsafe is found, every
category read so far is empty in the view or reported as unknown. The report then
says what the view says, and the view is one moment's.

**Application control.** `ControlInv`: the start lock is held by whoever is in the
middle of a start (LockHeld), what the socket and the metadata say follows from where
each process is, failed setups included (Files), and the intent names the one start that is announced
(Announced). A process id used again does not matter, because files name instances.

**Supervision.** `SupervisionInv`: while a start or a stop is under way the menu has
the handle of its child, and the report it has judged is still the one that counts
when the child has been seen alive after it (Handled).

**Emergency stop.** That "safe" is quiet is not inductive: an order may be open that
the panic has not listed, or a request on its way may still become one. `StopInv`
adds what a row says of its order at the broker (Books), that the breaker a running
panic holds stays latched (Stopped), and that when the panic decides without a
failure, every open order is on its list or in doubt locally (AllListed), which the
final pass would see. After the verdict nothing is left to send (Quiet).

**Rules.** `IInv` adds that an open order of the group holds the latch (Latched), and
that whoever holds the lease at the current version has an up-to-date reading of the
rules (LeaseIsCurrent). Both action properties follow: a proposal needs the lease,
the version and an open latch, a mark is stored only over a lower one.

**Candidates.** `IInv` relates receipts, nonces and targets (Reserved: a used
nonce belongs to exactly one receipt; Vouched: a target is vouched for by its
receipt) and says for each request what its position and its answer imply (Honest).
Answers stay true because receipts only move forward.

**Only model-checked.** The liveness properties (fairness is out of this prover's
reach), the properties of ledgers that compare sums and folds (FillsAreBooked,
LimitsHold), for which one would need far more of sums than the sign of a refund, and
the components that no proof module names: plans, rate windows, route interlocks, the
operator's menu, chat, shadow mode, autopilot and the storage tools.

## Running

    tlc -workers 2 -config Trading.cfg MCTrading
    tlapm OrderOutboxProofs.tla

`PROJECT.json` names the module and the `.cfg` of each run, and for every property a
mutant that violates it. A run takes from one to two minutes and visits up to 1.3
million states. A proof module takes from five to fifteen minutes. Every leaf is found
well within the default time limits.
