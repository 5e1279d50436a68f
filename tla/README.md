# Verification of Sloperator

Sloperator is an asyncio service that turns Slack messages into turns of command-line agents
(Claude, Codex), keeps every request and session in SQLite, archives the Slack channels it sees,
reacts to monitoring alerts, and runs scheduled work (digests, experiment finalisation, Jira
tasks). This directory holds TLA+ modules translated from `src/src/sloperator/*.py`, the TLC
configurations that check them, and proofs checked by TLAPS. Line numbers below are those of the
Python files; `PROJECT.json` maps each definition to its lines.

| file | content |
| --- | --- |
| `ThreadTurns.tla` | the life of a Slack request: submit, turn, stop, restart |
| `ThreadTurnsProofs.tla` | its theorems |
| `MCThreadTurns.tla`, `Turns_*.cfg` | its small instances |
| `SubscriptionFlow.tla` | incidents of the subscription-flow monitor, over live events and reconciled history |
| `SubscriptionFlowProofs.tla` | its theorems |
| `MCSubscriptionFlow.tla`, `Flow_*.cfg` | its small instances |
| `TurnExecution.tla` | the inside of an agent turn: calls, retries, steering, recoveries, the gate |
| `GuidedTurn.tla` | what a turn promises to its thread, which `TurnExecution` implements |
| `TurnExecutionProofs.tla` | theorems of `TurnExecution`, the refinement among them |
| `MCTurnExecution.tla`, `Exec_*.cfg` | its small instances |
| `OperationsOutbox.tla` | the operations log: sources, table, publisher, crash |
| `EventFeed.tla` | what its readers are promised, which `OperationsOutbox` implements |
| `OperationsOutboxProofs.tla` | theorems of `OperationsOutbox`, the refinement among them |
| `MCOperationsOutbox.tla`, `Outbox_feed.cfg` | its small instance |
| `HeadlessRuns.tla` | scheduled chains of turns without a thread, their rows and recovery |
| `HeadlessRunsProofs.tla` | its theorems |
| `MCHeadlessRuns.tla`, `Headless.cfg` | its small instance |
| `JiraTasks.tla` | the automation of Jira tasks: two passes over one task |
| `JiraTasksProofs.tla` | its theorem |
| `MCJiraTasks.tla`, `Jira.cfg` | its small instance |
| `AlertReactions.tla` | four responders to alerts of other bots |
| `AlertReactionsProofs.tla` | its theorems |
| `AdminCodex.tla` | the Codex chats of the administration page and their servers |
| `AdminCodexProofs.tla` | its theorem |
| `MCReactions.tla`, `Reactions.cfg` | a small instance of `AlertReactions` and `AdminCodex` together |

To run: `tlc -config Turns_restart.cfg MCThreadTurns`, `tlapm ThreadTurnsProofs.tla`
(two minutes; `HeadlessRunsProofs` and `OperationsOutboxProofs` take up to four, the other proof modules one or two). The longest
run of TLC (`outbox_feed`) takes three minutes with two workers.

## Inventory

**Thread turns** (`agents.py`, `AgentOrchestrator`). State: the rows `agent_sessions`,
`agent_requests`, `durable_agent_runs`; in memory `_tasks`, `_locks`, `_active_runs`,
`_manual_cancellations`. Operations: `submit`, `_process`, `cancel`, `close`,
`resume_interrupted`. Hard: handlers interleave at every `await`; a stop and a shutdown are the same
`CancelledError`; a crash may fall between any two commits; the lock table is shared by name.
Right means: turns of a thread are serial, what was accepted settles once and for a reason, a
refused message never runs, a stop returns.

**Turn execution** (`agents.py`, `claude_profiles.py`, `workspace_lock.py`). Inside one turn:
retries with another profile, waits for quota, a semaphore, steering (interrupt and resume for
Claude, `turn/steer` for Codex), timeouts and their recovery, the communication gates. Right means:
guidance is not lost, no more turns than the semaphore allows, each wait ends.

**Archive and subscription flow** (`archive.py`, `subscription_flow.py`). State: the archive's
messages, `subscription_flow_incidents`. Operations: live events through the middleware, a
reconciliation of history every five minutes, `claim_subscription_flow_incidents`,
`close_subscription_flow_component`. Hard: one message may come live, from history, or both, in
any order; claims are committed before the work they announce. Right means: an incident has one
investigation per opening, is closed by its own recovery, and nothing is missed.

**Service life** (`main.py`). Order of start (first reconciliation, connection, resume), periodic
loops, orderly stop. **Bot and administration** (`bot.py`, `admin.py`): who may submit, stop, close.

**Headless runs** (`daily_activity_digest.py`, `experiment_finalizer.py`): durable runs without a
thread, resumed after a restart, published once. **Operations outbox** (`operations_*.py`): events
batched to Slack with retries and a client id, and a spool that cron jobs write. **Jira tasks**
(`jira_task_automation.py`): candidates, links and phases under one lock. **Anomaly alerts**,
**alert dashboard**, **Airflow alerts**, **error audit**: react once to each alert. **Codex app
server** and **admin chats** (`codex_app_server.py`, `admin_codex.py`): a request table, a reader
task, runs that start, steer and end. **VPN**, **budget**, **automation controls**, **config check**:
small shared states. Health pages, SQL pages, prompts of the experiment planners, documentation
sync and settings hold no state of their own worth a model.

How they meet: `ThreadTurns` takes a provider turn as one step, which `TurnExecution` opens up and
`GuidedTurn` states as a promise. The alert responders, the subscription flow and the thread turns meet
at `submit()`: a responder's last step is the claim of a request id and its durable row, where
`ThreadTurns` begins. Headless chains run the same provider turns without a thread and are recovered
by `main.py` before the schedule loops exist. The outbox is fed by all of them and feeds none.

`PROJECT.json` lists every component with its status, and every hazard with its line.

## Thread turns

### State and actions

A request is a Slack message; it belongs to a thread. It has up to two tasks in one life of the
process: the one `submit` starts and the one `resume_interrupted` starts. `request`, `run` and
`session` are the status columns; `stale` says that 24 hours passed since `last_activity_at`.
`submit` and `pc` are the places where `submit()` and `_process()` await: asyncio runs one handler at a
time between two awaits, so an action is the code from one await to the next. A database call runs
in a worker thread and is one atomic step. `lockOf` and `locks` separate the lock object a task took from
the entry of `_locks`, since the entry may be popped and made anew; `active` is `_active_runs`;
`stopping` holds the tasks a `cancel()` or `close()` gathers.

`Refuse` and `Claim` are `prepare_agent_request`; `FindAnalysis`, `FinishReused` and `ReuseRaises`
the reuse of an automated analysis; `SaveFiles` to `MarkSteered` staging and steering, with `SteerRaises` for a Codex
server that is silent or gone, whose exception leaves `submit()` (`agents.py:1721`); `SaveRun` and
`Launch` the durable row and the task. `Begin` to `CloseRun` follow `_process` from the choice of
the lock to the pop of its entry, with `Raise`, `FailTurn` and `CancelTurn` for its except clauses and
`CloseRequest`, `CloseRun` for its finally, which `BreakOff` leaves at the status call: only a `SlackApiError` is
caught there (`agents.py:3165`), and any other exception skips the writes that settle the run. `CancelledAt` says where a `CancelledError` takes a task:
before the try block it ends at once, in it the except clause runs, in an except clause only the
finally does, and in the finally it ends. `Stop`/`StopEnd` are `cancel()` before and after its gather;
`Shutdown`, `Exit` and `Halt` the orderly stop (`close()`, the end of the loop with its own
cancellations, the last tasks); `Crash` loses the process. Four sets remember what the properties except by name: `dropped` the
claims whose `submit()` raised or died before a row was saved, `stopped` the requests a stop reached, `doubled` those
whose row was saved before the restart had listed its rows, and `abandoned` the rows whose task or `submit()`
an exception ended early in this life, and which the next life resumes.

### Abstractions

* A provider turn is one step from `turn` to `publishing` or an error; steering text itself is not kept.
* The wait for the lock is not FIFO: the model lets any waiter go. Fairness (SF on `Acquire`) restores what asyncio's queue gives.
* `Reject` covers a refused directive, a parser's `ValueError` and a bad artifact marker.
* The completion gate may return an answer any number of times (the code: twice); SF on `Publish` bounds it in the liveness runs.
* `OneAnswerPerLife` counts complete publications; a prepared reply of several Slack calls is one step.
* Writes of a task that nothing can interleave with (the row and the pop of `CloseRun`, the list and the tasks of `Resume`) are one step.
* A reuse without a permalink falls through to a turn: the second disjunct of `FindAnalysis`.
* The communication layer is always configured (`main.py:172`), so the `NO_REPLY` path without it is left out.
* At `Exit` a stop that is cut short leaves its mark: the finally of `cancel()` discards only after its gather.

### Runs

`Early`, `Ageing`, `Closable`, `Stops` and `MaxBoots` bound the environment; the last life is not
cut, so that it can be seen to finish. Deadlock is not checked: everything may be done.

| run | instance | shows |
| --- | --- | --- |
| `turns_restart` | two messages of one thread, one with attachments, one stop, two lives | `TypeOK`, `AnsweredTurnHasNoControl`, `SettledForAReason`, `ManualIsOwned`, `Accounted`, `SteeredIsNeverRun` |
| `turns_claims` | two messages of a thread that ages and may be closed, one with attachments, one of another thread with a shared reuse key, one life | `ExpiredNeverRuns`, `Accounted`, `ReopenedOnlyInFlight` |
| `turns_live` | one message with attachments that may come before the resume list (two tasks of one thread), one stop, two lives, fair | `OneAnswerPerLife`, `OneTaskPerRequest`, `RunsSettle`, `StopsReturn` |
| `turns_bug_serial` | three messages of one thread | `SerialTurns` violated |

Two messages are enough to steer, to contend for a lock and to be stopped together; a third is
needed only to make a new lock while an old one is held (`turns_bug_serial`). Two lives give every
cut and every recovery; three are checked by no run, and the theorems hold for any number.

**Fairness.** Each coroutine that can go on does (the event loop is not starved). A provider turn ends:
the CLI has a timeout and an exhausted allowance comes back. systemd restarts the process (`Boot`).
SF on `Acquire` stands for asyncio's FIFO lock, SF on `Publish` for the bound of two recoveries. No
fairness is assumed of users, stops, shutdowns or crashes. `RunsSettle` excuses a run that a stop reached and one that the
last life abandoned: it stays as it is until a next start.

### Proofs

`ThreadTurnsProofs.tla` proves, for any sets of requests and threads, any stops and any number of lives:

| theorem | property |
| --- | --- |
| `TypeCorrect` | `TypeOK` |
| `RefusedNeverRuns` | `ExpiredNeverRuns` |
| `GuidanceNeverRuns` | `SteeredIsNeverRun` |
| `ClaimsAccounted` | `Accounted` |
| `AnswersAreFinal` | `AnsweredTurnHasNoControl` |
| `OutcomesHaveReasons` | `SettledForAReason` |
| `MarksAreOwned` | `ManualIsOwned` |
| `NoNewMessageReopens` | `ReopenedOnlyInFlight` |
| `AtMostOneAnswer` | `OneAnswerPerLife` |
| `AtMostOneTask` | `OneTaskPerRequest` |

The assumptions are those named in `ThreadTurns.tla` (the constants are sets of the right kind;
`NoTask` is no task; `close` is no handler). None of the properties is inductive; the invariant is
`IInv == TypeOK /\ ClaimInv /\ ControlsInv /\ ReasonInv`. `ClaimInv` relates a request's status to the stage
of its `submit`, its row and its tasks (a refused request never left `idle`; a row precedes a task).
`ControlsInv` says at which stages a task may be the registered control of its thread, and that its outcome is not set before
its end. `ReasonInv` carries
the reason of an outcome from the place where it is decided (a publication, a stop's mark) to the row
that records it two awaits later. `LifeInv == Budget /\ Unused /\ OneTask /\ DoubledHasRow /\ Quiet` counts: the answers of a
request and whatever can still lead to one (its `submit`, its tasks, a row to be listed) are at most `boots`, and one more once it
is in `doubled`, which costs it nothing a second time since its row is saved. It holds for messages that come
early too. Each is preserved by one lemma per
group of actions; the theorems combine them with PTL.

Liveness (`RunsSettle`, `StopsReturn`) is only model-checked: it needs ENABLED and fairness.

## Subscription flow

### State and actions

An alert is numbered by its ts. `report` and `replies` are Slack's channel and threads; `flow` is the
monitor, which replies under the last alert of a component. `stored` is the archive; `since` is the
incident rows (0 is an inactive row; `first_alert_ts` is written and never read, and is left out); `switches`
is the automation switch of the trigger, which `Switch` turns; `asked` and `covered` the request and the durable run of
the investigation. A handler is a message with the way it came: `live` or `sync`. `at` and `claims`
are the places and the local variable of `SubscriptionFlowResponder.handle`; `stage`, `listed`, `latest`,
`batch` and `queue` those of `synchronize_archive`. `handled`, `missed`, `muted` (the trigger was off), `openings`,
`launches`, `cut` (a crash ended the run of handle before its row) and `merged` (the request of the alert was taken) are history.

`Deliver` is the middleware (store, then listener); `Trigger` is the question whether the trigger is on, which
both ways ask (`bot.py:187`, `main.py:207`); `Claim`, `Close`, `Request` and `SaveRun` the steps
of `handle` up to the durable row, after which the turn is ThreadTurns'. `SyncList` reads a page and
decides what is new, `SyncStore` stores it, `Dispatch` hands the new messages to `handle` one by one,
`ReadThread` does the same for a thread whose latest reply is unknown, `SkipThread` leaves one out.
`Boot` starts a life whose first reconciliation has no handler; `Crash` forgets memory, and Slack
delivers again the events whose listener had not returned (`process_before_response`).

### Abstractions

* A nature names its component, so the components map of an active row is the alert's ts for that component.
* The monitor and Slack are external: one nature per component and alert, one terminal reply per component in the thread of its last alert, posts only after the first start (what was posted before is history nobody promised to handle). An event is delivered at most once, or again after a crash.
* `SkipThread` may skip any thread: stored latest reply, or a read that failed.
* `submit` is abstracted to the claim of the request id and the durable row. The agent's own answers in the thread, which also count as latest replies, are left out.
* The replies of a thread are read whole; `BackfillLimit` bounds the page of alerts only. `queue` holds the new messages of a page with their place in it, so that they are dispatched in the page's order.
* The list of a page and the question which of its messages are stored are one step, although the code asks message by message: a live event stores its message at any time before or after.
* The own user id is asked with `auth_test` until it is cached; `AuthFails` bounds whether that may raise.

### Runs

| run | instance | shows |
| --- | --- | --- |
| `flow_live` | one component, two alerts, one terminal reply, one life, the trigger switched twice, fair | `OneLaunchPerOpening`, `OneInvestigationPerAlert`, `MissedAlertIsHandled` |
| `flow_restart` | two components, one alert, two replies, two lives, the trigger switched twice, `auth_test` may raise | `TypeOK`, `StoredIsAccounted`, `EveryOpeningIsInvestigated` |

Two alerts are needed for a row that takes a newer ts and for a page in newest-first order; two
components for a thread with several terminal replies and for an alert whose openings are only partly
investigated. The switch is turned off and on again. A page holds two messages (`BackfillLimit`), so nothing falls
off it: a message older than the page is out of scope. **Fairness**: coroutines go on, the
reconciliation is repeated (its loop catches every exception), systemd restarts the process. Slack may
never deliver an event, a thread may never be readable, and the switch may stay off: an alert that finds it
off is stored, known to every later reconciliation, and never handled, which `MissedAlertIsHandled` and
`StoredIsAccounted` say.

### Proofs

`SubscriptionFlowProofs.tla` proves, for any natures, components, alerts and number of lives:

| theorem | property |
| --- | --- |
| `FlowTypeCorrect` | `TypeOK` |
| `StoredMessagesAccounted` | `StoredIsAccounted` |
| `InvestigationIsFinal` | `OneInvestigationPerAlert` |
| `LaunchesHaveOpenings` | `OneLaunchPerOpening` |
| `OpeningsInvestigated` | `EveryOpeningIsInvestigated` |

The assumption is `FlowAssumption` (the constants are of the right kind, the components finite).
`QueueInv` adds to `StoredIsAccounted` that nothing is queued between two reconciliations, and that
what a reconciliation is about to store and the archive does not hold is queued: without the second
part the step that stores the page would lose it. `RequestInv` says that one handler at a time is
between the claim and the row of an alert's request, so a saved investigation is never replaced.
`LaunchInv` is an equation: the openings of a nature are its launches, the runs of `handle` that hold a claim on
it, the openings that were cut and those that were merged. `OneLaunchPerOpening` is one half of it and
`EveryOpeningIsInvestigated` the other; neither depends on the number of components, alerts or lives. What the equation
leaves open is named: a crash between the claim and the durable row (`cut`) leaves an active incident without an
investigation, and of two runs of `handle` for one alert the one that finds the request taken gives up what it
claimed (`merged`), which the other's investigation need not be about. Liveness is model-checked only.

## Turn execution

### State and actions

A turn belongs to a thread of its own; the turns share the semaphore (`permits`) and the workspace
lock (at most one turn is `running`). `at` is where the coroutine is, `phase` which call it makes: the work itself or one
of the recoveries (`guard` after a hook's correction, `deliver` for a missing deliverable, `salvage`
after a timeout, `return` after the gate). What a conversation has been told is a set of words: the request, the
earlier turns, the guidance. `known` is the conversation the session names, `call` the one the current or last
call used, which differs when Claude replaced a lost session or a first Codex turn has no thread id
yet. `prompt` and `pending` are what the next call will say and what waits in the control.

`Start` registers the control; `Enter` is `run_with_capacity`; `Read` the flock and the CLI's first read;
`Finish`, `NeverRan` the end of the process. `SteerClaude` and `SteerCodex` are the two controls. `Replace`,
`Retry`, `AwaitQuota` and `Wake` are the wrappers from the inside out; `ResumeSteered` and `FollowUp` the two
ways guidance leads to another call; `RecoverCorrection`, `RecoverDeliverable` and `Salvage` the recoveries.
`ToGate`, `Accept`, `GateRejects` and `GateFails` are the completion gate, `Fail` and `Cancel` the other ends.

### Abstractions

* An answer is `final`, a `correction` of a hook or `bare` (without the required deliverable); parsing is left out.
* Every piece of guidance is said to one turn, once. `Guidance` bounds it.
* `Failures` says which errors the environment may produce, `Stoppable` who may be cancelled. No count bounds the errors: `tries`, `rounds` and `phase` do, as in the code, and waits for quota are not bounded.
* Profiles, artifacts, directives and the status messages are not kept. The time limit counts the wait for the flock (`NeverRan`), as it does in the code.
* The control of a turn exists from `Start`; the rows are those of `ThreadTurns`.

`astray` records the three ways in which words are lost, so that the property can say that there is no
fourth: `unread` (a call was cut before its conversation had read the prompt, and the steered or
salvaged call says only what is new), `late` (guidance during a recovery, which nobody resumes), `newThread`
(a failed first Codex turn leaves no thread id, and the next call opens another thread).

### Runs

| run | instance | shows |
| --- | --- | --- |
| `exec_turns` | a Claude turn that must deliver and a first Codex turn, both automated, one place, one retry, one piece of guidance, seven kinds of errors | `PlacesAccounted`, `AnswersKnowAll`, `IsGuided` |
| `exec_live` | two first turns, one place, errors that are waited for, fair | `TurnsEnd` |

Two turns are the least that compete for a place and for the lock; one place makes every leak fatal.
The two providers differ in every wrapper, so both are present. One retry gives the first, the middle
and the last attempt their cases. **Fairness**: a turn that can go on does (`WF` of `Turn`); a waiter gets
its place and its lock in the end (`SF`: asyncio's semaphore is FIFO, the kernel's flock fair enough);
and a call that runs again and again gets through once, for the wait for quota starts the retries
anew and nothing else would end it.

### Proofs

`TurnExecutionProofs.tla` proves, for any finite set of turns, any number of places and retries, any
guidance and any errors:

| theorem | property |
| --- | --- |
| `PlacesAreAccounted` | `PlacesAccounted` |
| `TypeCorrect` | `TypeOK`, with `permits` within `0 .. Permits` |
| `AnswersRestOnAll` | `AnswersKnowAll` |
| `TurnsAreGuided` | `IsGuided`: `Spec => Guided!Spec` |

The assumptions are `TurnsAssumption`, `NumbersAssumption` and `FailuresAssumption`. `IInv` adds to the types
and the account of places `PhaseInv`: a call outside the semaphore (Codex's salvage) is never found waiting for
a place, a Codex call never ends with a Claude error, and a registered control is that of a live turn not at
the gate. The lemma `Accounted` does the counting once: a step of one turn that changes
`permits` by what the turn takes or gives keeps the sum. The refinement maps every step of a
working turn to `Enter`, `Leave` or a stutter (`WorkingStep`; that there is room for `Enter` follows from the
account), every end to `End`, and steering to `Say`, which needs that the control of an ended turn is gone.
`AnswersKnowAll` needs `KnowInv`: what an answer must rest on is, at each place a turn can be, in the
conversation the session names, in the next prompt or with the control (`Told`), until a call has it; in the
salvage it is in the named conversation already. `TurnsEnd` is model-checked only.

## Operations outbox

### State and actions

`events` is the table `operation_events` in the order of its ids, `delivered` the ids that have a time of
delivery, `posted` the ids that a post Slack took shows. `pub` and `batch` are the publisher between its reads, its post and its
marks (`PublishRead`, `PublishPost`, `PublishMark`, `PublishFails`). A pass of a collector reads its
source and leaves the durable writes it has still to make in `todo`; each is an action of its own
(`WriteEvent`, `WriteMarker`, `RemoveFile`, `WriteCursor`, ...), because the process may be lost between any two.
The last thing in `todo` may be what a pass has listed and not come to: files, markers, or records of the journal,
which `ReadFile`, `ReadMarker` and `ReadRecord` take one at a time, turning each into its writes. The collectors follow each other
by their `Place` in the loop (`After`).
`SpoolPass` and `LostPass` read the cron spool and its markers, `JournalPass`, `JournalReset` and `JournalFirst` the journal
with its cursor and time, `RetryPass` the watched log, `ChildPass` the transcript of a child
agent, `CoverPass` and `Recheck` the crontab. `PassFails` is a read or a write that raises: the rest of the pass is
dropped, that of the markers with the files' (`Skipping`), and the failure is to be recorded; `LoopEnds` is the record that raises in its turn,
outside every handler, after which the collector is silent until the next start. `UsageRead` to `UsageStore` is the half-hourly allowance.
`CronStarts` to `CronGone` is the wrapper, a process of its own that may be killed at any time.

### Abstractions

* An event is its key. Texts, redaction and levels are left out, and so is the repetition of a post (the `client_msg_id` is that of its ids): a post that shows nothing new changes nothing.
* A pass fails until its failure is in the table (one record in half an hour), and before the last loss of the process. What fails every time, a file of the spool that nobody can parse, would fail for ever; the wrapper writes them atomically.
* A process id may be reused while a wrapper runs: `ReadMarker` may then pass over a dead run, and must see it once no wrapper runs.
* The journal's cursor may be refused once (`JournalVacuumed`); the records of the last hour are any suffix, and `base` remembers what fell out.
* The log rotates once, and `unread` remembers how far it had been read; truncation in place is left out (a line at an offset used before has the key of that line and is dropped).
* The recovery actions of the wrapper are its finish.

### Runs

`outbox_feed`: per behaviour one of the mixes cron, journal, retry log, children, usage with a service event,
crontab with a service event, with failing passes for cron, log and children; one cron run, three records of which one is filtered out, two lines, two slots,
one edit, one loss of the collector, batches of two. It shows `NothingSkipped`, `NoLossAfterResult`,
`TornIsRewritten`, the refinement `IsFeed` and, fair, `RunsAreConcluded`. The mixes share only the table and the
publisher, and the two mixes with a service event let a second writer interleave. Three events with batches of two make a
batch that differs from its predecessor after a crash. One loss reaches every place between two writes.
**Fairness**: the publisher's loop catches everything and goes on, the collector's goes on until it ends (`LoopEnds`), which
`RunsAreConcluded` names; Slack takes a post
in the end (`SF`), for `PublishFails` may intervene any number of times; a cron command ends, and time passes.

### Proofs

`OperationsOutboxProofs.tla` proves, for any number of records, lines, slots, cron runs and losses of the collector and any size of a
batch (`OutboxAssumption`: the bounds are numbers, at least one slot, batches not empty):

| theorem | property |
| --- | --- |
| `NothingIsPassedOver` | `NothingSkipped` |
| `TornMarkersAreRewritten` | `TornIsRewritten` |
| `NoResultIsFollowedByALoss` | `NoLossAfterResult` |
| `OutboxIsAFeed` | `IsFeed`, the refinement of `EventFeed` |

None is inductive, because each rests on the order of the writes in `todo`. `SourcesInv` states them for every place in that list:
a cursor or an offset still to be written comes after the events it passes (`JournalInv`, `OffsetInv`; `Behind(key, i)` is
"recorded, or emitted before place i"), and a removal of a file after the event of the file. `SpoolInv` has the cron spool: the phases of a
wrapper and what it has left of its files (`Spooled`), where a file and its marker are in the list (`FilesInHand`),
that a marker that outlives the record of its result is removed before the markers are read (`MarkersInHand`), and that a
half-written marker is written again before (`TornInHand`). `UnreadInv` is what remains of the offset of a log that was replaced. Every action either leaves the list, does its first write
(`Shift`) or begins it anew; one lemma for each invariant and each of the three.

The refinement maps `posted` to the part of the table the channel shows. `FeedInv` says that what is shown and what is
called delivered are beginnings of the table, the second inside the first, and that a batch begins where the marks end. Then
`WriteEvent`, `ServiceEmits` and `UsageEmit` are `Record` or a stutter, for `INSERT OR IGNORE` keeps a key once;
`PublishPost`, and a `PublishFails` whose post Slack had taken, is `Show` or, when it only shows again what a loss left
unmarked, a stutter; `PublishMark` is `Call`; the rest stutters.

`RunsAreConcluded` is model-checked only.

## Headless runs

### State and actions

A behaviour is about one workflow (`chain`): the finalizer, a planner, the digest or the audit. `rows` is
`scheduled_agent_runs`; `flow` the one coroutine that runs the chain: its place, its stage, who runs it (the
schedule, the resumption of one row, or the continuation of a recovered one) and the text it carries in memory to the next
stage. `agenda` is what the recovery has still to do: its lists of rows in the order of `main.py`, the rows of
the current list and the recovered runs not continued yet (sets, from which the oldest is taken; `flow.run` is the one in hand). `Trigger` is the schedule; `Create`, `TurnAnswers`, `TurnFails` and
`TryAgain` are `execute_once` and its callers; `AfterStart`, `AfterPrep` and `AfterTurn` the
hand-overs; `Publish` and `Attach` the end. A row is `marked` when its prompt holds the start: the first of the turns of a
preparation, for a retry is told the failure instead. `label` says that the epic's label routes its notices to the channel of
the debt, `Routed` that the flow at hand still knows the task and asks: a chain from its start does, a recovered preparation or
review does not. `posts` counts the notices of the two channels apart. `Boot`, `NextList`, `TakeRow`, `Resumed`, `ResumeBreaks` and
`Continue` are the recovery, `Stop` and `Close` the administrator, `Crash`, `Shutdown`, `Archive`, `Age` the rest.

### Abstractions

* A text is what `accept_result` makes of it; a stage cannot end with a text its markers exclude.
* The two planners differ in wording only and are one chain. Their selection may start, find nothing, or fail and post.
* Both jobs of the finalizer's start and review have one name: `Continue` tells them apart by the text, as the code does.
  A start with the lines of its forecasts (`forecasted`) is then no start: it is refused, as in the code.
* `Crashes`, `Stops` and `Faults` bound the environment; the schedule fires once; rows grow old once.
* The digest's ordinary turn, to which the day is left without quota, is a thread turn (`ThreadTurns`).

### Runs

`headless`: all four chains, two losses or orderly stops, one stop or close by the administrator, two errors.
It shows `HandedOverOnce`, `PublishedOnce`, `DigestOnce`, `NoneLeftRecovered`. Two losses are needed for a
recovery that is itself cut; two errors for a failed first preparation and one more. The properties
name what they leave out: `HandedOverOnce` a start whose marked row was deleted (`StartIsForgotten`); `PublishedOnce` counts
a notice per channel, and in the second only for an epic with the label; `DigestOnce` does not hold when the service started before the archive had seen the first digest, or
went on to the forecasts with a formatter put off (`missed`); `NoneLeftRecovered` does not cover the
digest, whose forecasts may stay recovered. There is no fairness: nothing here must happen, a chain
whose process dies between a completed row and the next stage is over for good.

### Proofs

`HeadlessRunsProofs.tla` proves, for any number of losses, stops and errors (`HeadlessAssumption`: the bounds are
numbers and the chains are among the four):

| theorem | property |
| --- | --- |
| `NoticeIsPostedOnce` | `PublishedOnce` |
| `RecoveredIsConcluded` | `NoneLeftRecovered` |
| `StartIsHandedOverOnce` | `HandedOverOnce` |
| `DigestIsPostedOnce` | `DigestOnce` |

All four rest on `RunInv`: who may run the flow when (`Control`), and which statuses the rows have that the recovery and the
running turn hold (`InHand`: unfinished or deleted while on a list, recovered or deleted once through it). On it, `Concluded`
says where a recovered row is while the service recovers: in hand, or on a list to come. `FirstHolds` says that where there
is a preparation, there is one that holds the start; with it, `Preparations` says that, unless that one was deleted, of two
preparations one is dead, and that a flow about to create one sees none alive. `OneDigest` is the longest, for the digest has no
guard in its table: one forecast and one formatter at a time, a forecast and a formatter never in hand together, and after the post
nothing unfinished that would make another. Each has a lemma per action that it can be disturbed by.

## Jira tasks

### State and actions

One task: `issue` with its status, assignee, comments and changelog; `remarks` on its page; `link` its row of
`jira_task_agent_links`. `pass` holds the local variables of the hourly and the ten-minute pass; `lock` is
`_TASK_EXECUTION_LOCK`. `Search`, `Filter`, `ScreenCandidate` and `Launch` are the hourly pass up to its
turn; `Begin` to `ScreenTask` the ten-minute pass; `StartTurn`, `WorkTurn` and `ReviewTurn` the turns of both. `People`
edits the issue and its page between any two steps. `now` numbers the edits, so that a cursor is a number.

### Abstractions

* Tasks before this one in a pass may raise, once or each time, which ends the pass (`held`, with the quota gate); the links have
  no order that would bring a later one to the front (`store.py:1240`).
* The planner's review is one step, its end (`PlannerEnds`): its run is stored with that time, which becomes the cursor.
* A turn reads the comments there are when it starts; `taken` remembers those a stored turn or decision was about,
  `passed` those that the code puts behind the cursor although nothing was about them: comments of the planner's review, and
  those older than a newest one that is ignored.
* The clarification questions of the reviewer are a `waiting` link. Jira lists a changelog from old to new.

### Runs

`jira`: two edits by people, one loss of the process, one error, a queued task or a planner's. It shows
`CommentsStayAhead` and, fair, `CommentsAreTaken`. Two edits are a comment and the one that may hide it: a second comment, a
move, a reassignment. **Fairness**: both loops catch every exception and come
again, every turn has a time limit, and this task's own reads and turns do not fail for ever (`Faults`). Nothing is assumed of the
switch, the gate and the tasks before this one: the property excuses a task that its passes do not reach.

### Proofs

`JiraTasksProofs.tla` proves `CursorStaysBehind`, `Spec => []CommentsStayAhead`, for any number of edits, losses and errors. The
invariant is `TaskInv`: besides types and the clock, a pass that has read the comments knows every one up to the time it
will store as cursor (`Knows`), and a poll without a cursor whose comments led to nothing leaves none behind
that time (`Settled`). The property speaks of tasks that are ours; the invariant (`Ahead`) of all, since a closed link may be opened again.
`CommentsAreTaken` is model-checked only.

## Alert reactions and admin chats

### State and actions

`AlertReactions` is one of four responders per behaviour. `handler` holds one handler for each delivery of a
message; `inFlight` is the set in memory; what a responder remembers is where it keeps it: `replies`
(the Slack thread), `requests` (agent sessions), `handled` (a file), `built` (a file with the last run), beside `cooldown`.
`rebuilds` counts the dashboards published. `Settle` to `Submit` are the steps of a handler between two awaits: `Settle` and
`Check` look at what is remembered, `Work` queries, asks the resolver or rebuilds, `Record` writes the last run, `TablePart` to
`Unanswered` (`Reply`) answer, `MarkReads` and `MarkWrites` update the file of handled alerts, `ClaimKeys` and `Submit`
launch. `Unrecorded` and `AlertCrash` lose a record, and may leave a file empty (`Forgets`).

`AdminCodex` has the runs of a chat (`chatRun`), the server process of each (`proc`), which may be silent
(`mute`), the shared tables `_tasks` and `_servers`, and one request that deletes a chat. `SubmitChecks` and `SubmitStarts`
are the two halves of `submit`; `Connect`, `Locked`, `Start`, `EndTurn`, `Finish` and `CloseServer` a run;
`Delete` to `DeleteThread` the deletion.

### Abstractions

* The values of the metrics confirm any subset of the keys of an alert. A window of 24 hours does not end while a handler carries its key (`Expire`): handlers take minutes.
* The reply of the anomaly responder may have several parts (`TablePart`), of which any may be rejected (`PartRejected`), and the
  fallback text follows what is out.
* The dashboard's four scripts are one step; a failure goes to the owner, not to the channel. Three reports are one run; that
  reports more than an hour apart are none is one of the ways in which a handler ends at `Settle`.
* The dashboard reads the channel and the file of the last run in one step: nothing is awaited between the two.
* The file of handled alerts keeps the last 500, and the trigger calendar's rows are left out: neither is reached in one history.
* `lost` remembers what the properties except: an airflow alert or a run whose record was not written, was overwritten by another
  handler's, or was not read while that one wrote; and an anomaly with a part of its table and the fallback text.
* A message to a chat with a running turn only steers it and is left out. Items and deltas are data.

### Runs

`reactions`: either the responders (two keys, three alerts, four for the dashboard, one redelivery, one crash, one error) or the
chats (one chat, three runs, one fault). It shows `OneLaunchPerKey`, `OneAnswerPerAlert`, `OneRebuildPerRun` and
`ServersEndWithRuns`. Three alerts are the reports of one dashboard run, and the fourth is the report of a rerun, which may come
while the rebuild works; two alerts of one key make the cooldown bite. Three runs of one chat are a first, a second
that passed the same check, and a third that finds the tables emptied by the first. There is no fairness: nothing here must
happen, and the end of a chat's run rests on awaits that have no time limit (the drain of `codex_app_server.py:326`).

### Proofs

`AlertReactionsProofs.tla` proves, for any keys and any number of alerts, redeliveries, losses and errors:

| theorem | property |
| --- | --- |
| `KeysLaunchOnce` | `OneLaunchPerKey` |
| `AlertsAreAnsweredOnce` | `OneAnswerPerAlert` |
| `RunsAreRebuiltOnce` | `OneRebuildPerRun` |

`AlertShape` has the types and which responder knows which stage; with it goes `LaunchInv`: a key a handler carries to
`submit` is within its window, carried by no other handler and not yet launched, and a key out of its window is not
launched. The property alone is not inductive, for two handlers carrying one key would launch it twice. For the answers
`AnswerInv` says that a message has one handler at a time (`Flight`), and that what was answered is remembered where its
responder looks before it works, or is about to be (`Remembered`). `RebuildInv` is the same for the dashboards: a run that was
published is in the file, is about to be, is behind a later report of the channel, or is in `lost` (`Kept`), and whoever works on a
run is the first to do so. Both hold for any number of reports, so also for a rerun that overlaps a rebuild.

`AdminCodexProofs.tla` proves `NoServerIsLeft`, `SpecChats => []ServersEndWithRuns`, for any number of runs and faults.
`ServerInv` adds that a run has no process before it connects and one from then on, that the two tables agree, and that a
deletion past the close has killed the server whose task it cancels.

## Where code and text disagree

Shown by a run, with the text quoted in `PROJECT.json`: turns of one thread may overlap
(`agents.py:3187`, `turns_bug_serial`).

Met while modelling. The actions are in the modules, the properties leave these cases out by name or by bound:

* A stopped task that had not reached its try block is resumed after a restart, though the bot confirmed the stop (`agents.py:2589`, `bot.py:233`).
* A control registered before the VPN is asked stays registered when that raises (`agents.py:2741`).
* A message between the connection and the resume list is run twice (`main.py:290`): `doubled`, which `OneTaskPerRequest` and `OneAnswerPerLife` name.
* The exception of a Codex server that does not take guidance leaves `submit()` after the claim (`agents.py:1721`, for `codex_app_server.py:257` catches one class only): `dropped`, or `abandoned` when the files had left a row. One that is no `SlackApiError` in the finally of a task skips the writes that settle its run (`agents.py:3165`), which stays 'running' for the rest of the life: `abandoned`.
* A turn in flight reopens a session that was closed or expired meanwhile (`store.py:1753`): `ReopenedOnlyInFlight` is the part that holds.
* A shutdown during a stop settles as cancelled also a task the stop did not reach, because the mark is per thread (`agents.py:3144`): `SettledForAReason` speaks of the thread.
* `README.md:111` says that a `SERIOUS` alert starts an investigation. An incident claimed before a crash suppresses later alerts without one (`subscription_flow.py:263`): `cut`. An alert handled twice with a closure between may reopen a nature whose request id was used (`284`): `merged`. `EveryOpeningIsInvestigated` names both.
* An older alert that comes late overwrites the ts of a newer incident, which an older reply then closes (`store.py:1574`).
* An earlier missed reply of a thread is not read once a later one is stored (`archive.py:219`). What arrives during a downtime is stored by the first reconciliation and never dispatched (`main.py:577`): the `missed` of `StoredIsAccounted`. Missed anomaly and dashboard alerts are not replayed at all (`main.py:201`).
* A steered call is given the guidance alone (`agents.py:858`): a process killed before it read its prompt loses the request; guidance during a recovery fails the turn; a failed first Codex turn is retried in another thread. These are `astray`.
* A failed authentication "must never be retried" (`agents.py:1066`), but one of the gate's own call returns the answer to the worker (`2996`), which calls again: no property speaks of it.
* The finalizer is to "publish once" (`experiment_finalizer.py:916`), but a recovered review or preparation has lost the task key and looks for the notice in the default channel only (`1116`, `main.py:339`, `376`): an epic with the label may have one in either channel. A recovered start that its forecasts follow, as the prompt asks (`experiment_finalizer.py:670`), is no start to `main.py:323` and is refused. A preparation repeated after a transient failure does not hold the start (`experiment_finalizer.py:853`): with the first row deleted the start is handed over again.
* The formatter of a digest and its forecast may both post one (`daily_activity_digest.py:1316`): `missed` in `HeadlessRuns`. A run of the digest or the audit stopped by the administrator ends its schedule loop for good (`daily_activity_digest.py:1450`, `automation_error_audit.py:141`). An error of the request for a final response makes `serve()` raise, and the next start meets the same row (`agents.py:2347`). A loss between a completed row and the next stage ends the chain; a start recovered by the planners has no guard against a second preparation.
* An interrupted worker of a Jira task is not resumed by a poll that finds the issue in progress unchanged (`jira_task_automation.py:571`), a decision to ignore the newest comment passes the older ones (`533`) and a comment during the planner's review is behind the first cursor (`store.py:1227`): both are `passed`. One task that raises each time keeps the later ones of a pass from being polled (`store.py:1240`): `held`. A remark on a page during a turn may be passed without a cursor, and an upsert without a terminal phase reopens a closed link.
* Two airflow handlers read and write the file of handled alerts without a lock (`airflow_owner_alerts.py`), so an alert may be mentioned twice: `lost` in `AlertReactions`.
* A restart "does not rebuild it twice" (`README.md:163`), but a loss between the publication and its record (`alert_dashboard.py:244`) does, and the record of an earlier run whose rebuild took longer takes the place of a later one's (`385`): both are in `lost`.
* A table of which a later part is rejected stays in the thread with its first part, and the fallback text follows (`anomaly_alerts.py:293`): `lost`.
* `close()` of a Codex server does not suppress the `TimeoutError` of an unanswered interrupt, and leaves the process with the workspace lock; the end of a run removes the table entries of a later run of its chat (`admin_codex.py:195`). `ServersEndWithRuns` names the exception.
* The retry logs are said to be read "including rotation", and an outage of the collector "should not lose" anything (`docs/operations-log.md:22`, `:55`), but the lines that a log still held unread when it was replaced are never read (`operations_log.py:333`), nor are the records older than an hour when the journal refuses the first cursor (`232`): `NothingSkipped` names both. "Logging never silently claims full coverage" (`:25`), but a database error while a failure is recorded ends the loop of the collector without a word (`operations_log.py:468`, `478`): `job = "ended"`.
* A batch posted before a crash and not marked may be posted again in another batch with another client id (`operations_store.py:141`): `EventFeed` allows a repeated post, not a hole.

## Plan

Done: every module with its runs and with theorems for every invariant and every safety property of a step that the runs
check; the refinements of `GuidedTurn` and of `EventFeed`, checked and proved.

Left, in this order:

1. An abstract `RequestLedger` (claimed, then refused, used or settled) that `ThreadTurns` refines.
2. The VPN: `connect`, `state` and `disconnect` over a container's log, and the monitor that one error ends (`vpn.py:166`, `311`, `main.py:764`).
3. The config check's shared flight, the file of automation controls, the Slack renderer's several calls.

## Not modelled

* **VPN** (`vpn.py`, the monitor of `main.py`): its states come from a container's log, read without a lock; all that a turn sees of it is one outcome. It is next in the plan.
* **Config check** (`experiment_config_check.py`): one shielded future shared by requests of one page; next in the plan.
* **Documentation sync** and **configuration**: sequential work through external programs, or no state.
* Prompts, parsing of agent output, rendering of pages, queries of the analytics databases, Slack markup, cost accounting and the trigger calendar: data, no control worth a model.
* The Slack, Jira and Confluence services, journald, cron, systemd, docker and the CLIs are environment: each module says what they may do.

Only model-checked: every liveness property (`RunsSettle`, `StopsReturn`, `MissedAlertIsHandled`, `TurnsEnd`,
`RunsAreConcluded`, `CommentsAreTaken`), because fairness and ENABLED are beyond the prover. The
theorems hold for every value of the constants; what the properties except, they except by name.
