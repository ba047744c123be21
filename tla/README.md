# A TLA+ verification of Drool's coordination logic

Drool is a terminal coding agent: a CLI with a terminal interface, an in-process
daemon that owns the agent sessions, a background daemon reached over sockets and
relays, and the packages they share.  This directory holds TLA+ modules that model
its core coordination logic, TLC configurations that check them on small instances,
and theorems TLAPS proves for every instance.  The repository has no test suite;
the reference is its code and the comments in it.

Paths below are relative to `src/`.  `PROJECT.json` is the machine-readable form:
components, runs, the map from definitions to lines, mutants, findings, hazards
and theorems.

Five parts are modelled: the mission runner, the cron scheduler, the daemon's registry
of sessions, the turns of a session (queue, agent loop, interrupts), and the daemon's
relay with the gate its clients pass.  How to read a run:
`tlc -config MCMissionPause.cfg MCMissionRun.tla`.  How to check the proofs:
`tlapm MissionRun_proofs.tla`, and the same for each module whose name ends in `_proofs`
(`MissionOrder_proofs` takes about ten minutes, `MissionProgress_proofs` five, the others
less).

## 1. Inventory

### Modelled

**Mission runner** (`src/services/mission/MissionRunner.ts` and helpers).
A *mission* is an orchestrator session that plans work and a `MissionRunner` object
in its process that gives the features of `features.json` to worker sessions, one
after the other.

- State: `isRunning`, `abortSignal`, the local variables of `runLoop`,
  `waitForWorkerCompletion`'s flags, and three files every process of the mission
  writes: `features.json`, `state.json`, the progress log.
- Operations: `start`, `pause`, `cleanupOrphanedWorker`, `runLoop`, `spawnWorker`,
  `resumeWorker`, `waitForWorkerCompletion` with its notification handlers, the
  injection of validators when a milestone is complete, the pauses for an exhausted
  retry budget and for a usage limit.
- Hard: every operation awaits files and daemon requests, so whatever it read may be
  old when it writes; a worker's process writes the same files; its notifications
  arrive in any order and are handled by callbacks that await too; an abort returns
  the tool call while the loop is still suspended.
- Correct when: one worker works at a time and something waits for it; no feature gets
  more workers than its retry budget; finished work stays finished; validators come
  once, in order, and before the mission completes; a pause stands; a start call
  always returns.

**Mission tools and operations** (`src/tools/executors/client/mission/*`,
`missionRunnerOperations.ts`, `signalUnrecoverable402ToMission.ts`).
`start_mission_run` (gate on the last handoff, choice of the worker to resume, retry
grant, start), `EndFeatureRun` in the worker, `dismiss_handoff_items`,
`pauseMissionRunner`, `killWorkerSession`, reconciliation after a session load, the
usage-limit entry.

**Mission files** (`MissionFileService.ts`, `requeueFeatureIfInProgress.ts`,
`retryBudget.ts`): operations on the array of features and on the state.

**Cron scheduler** (`packages/daemon-core/src/crons/*`,
`src/services/daemon/InProcessDaemonRuntime.ts`).
Cron records in files, one timer job per active cron, a watchdog, and fires that
prompt a session and wait for its turn.

- State: the records, `CronRuntime.jobs`, `firesInFlight`, the waiters of cron
  prompts, registered clients, the connection of the terminal interface.
- Hard: a fire awaits a client, a message echo and a turn, while the user edits,
  deletes, pauses or resumes the cron and sessions close, crash and come back under
  new ids; `sync` runs in the middle of everything; the process dies.
- Correct when: live jobs are exactly those the files ask for, no cron is left
  `running` with nothing in flight, fires do not overlap, missed instants are caught
  up, schedules survive a close and reopen, deleted crons stay off.

**Session registry** (`packages/daemon-core/src/drool/drool-registry.ts`, the load,
add-message and close handlers of `server/handlers/drool-request-handler.ts`,
`ManagedProcessImpl.ts` and `client.ts` of `packages/drool-sdk`).
Each session of the daemon is served by a child process, owned by a `DroolClient`; the
registry maps sessions to clients, their listening connections and inactivity timers.

- State: `droolClients`, `sessionStates`, `pendingClientCreations`,
  `pendingLoadOperations`, requests in flight, and the processes.
- Operations: register (and replace), attach a connection, unregister, the timeout, the
  clean-up after a crash, the departure of a connection.
- Hard: two requests for one session may overlap anywhere between their awaits; a
  process takes up to 5 s to end and a timeout does not wait for it; a crash is cleaned
  up in a later turn of the event loop; loads wait for one another's promises.
- Correct when: no process runs that the registry does not know of; concurrent loads
  start one process; a dead client does not stay registered; whoever waits for a load is
  a listener of the session; every load is answered.

**Turns of a session** (`src/exec/streamingJsonRpcExecRunner.ts`,
`src/exec/sharedAgentRunner.ts`, `src/core/AgentLoop.ts`, `src/core/ToolExecutor.ts`,
`packages/drool-core/src/llms/client/sendMessage.ts`).
The child process of a session (the process the registry above counts): messages go to a
queue, a coroutine takes them one after the other and runs an agent loop for each, which
asks the model, runs tools, and takes further messages between two rounds and at its end.

- State: `messageQueue`, `isProcessing`, `isAgentLoopInProgress`, `interruptAgent`,
  `pendingInterrupt`, `wasInterrupted`, the promise of the turn; of each loop its phase,
  the abort controller of the request or the tools, `pendingAbort`, the approved spec.
- Operations: enqueue, withdraw and move a message, load (which queues a resumption of
  open tools), interrupt, close; and the steps of the loop.
- Hard: an interrupt may come at any await, before there is anything to stop, between a
  request and the next, or at a loop that is being replaced; it empties the queue and
  clears a flag that a suspended coroutine still relies on.
- Correct when: every message is taken once, in the promised order, or given back; an
  interrupt stops what it was meant for and nothing else, and is answered; a closed
  process ends after its turn.

**Relay and connection gate** (`packages/daemon-core/src/relay/*`,
`server/daemon-server.ts`, `server/handlers/relay-request-handler.ts`,
`server/daemon-connection-handler.ts`).
The daemon keeps one WebSocket to a relay, over which remote clients reach it; each must
authenticate before it is served.

- State: the field of the current relay connection; of each its attempts, sockets and
  timers; the announced clients; the gate's maps of pending and finished authentications
  and of re-verification timers.
- Operations: `daemon.relay.start` and `stop`, bounded first attempts, reconnect, ping,
  frames and announcements, `authenticate`, `logout`, periodic re-verification.
- Hard: `start` awaits an import, a credential and two handshakes, with stops, other
  starts, timers and late close events in between; a client leaves while it is verified.
- Correct when: one relay connection runs and can be stopped; exactly one attempt is
  under way while it is not established; a stopped one leaves no socket; whoever is
  registered can be reached.

### Not modelled yet, planned

| Component | State and hard behaviour | Properties wanted |
| --- | --- | --- |
| Mission store (`MissionFileService.updateState`, `readProgressLogIncremental`, `handoffs.ts`) | read-modify-write of a whole file by two processes; a cache of offset and entries shared by concurrent readers | no lost state change; a reader never sees an entry twice or misses one |
| Automations (`automations/*`) | poller, run state, leases, synchronisation with a control plane | no run executed twice; none lost |
| Daemon client (`daemon-client/*`) | correlation of requests, reconnect, queued messages | every request settles once; no message lost or doubled |
| Tool results and session storage (`ToolExecutor.ts`, `ConversationStateManager.ts`, `SessionService.ts`) | results of tools, cancelled ones, the append-only log, rewind and compaction | each tool call gets one result, also when a stop and the tool's end cross |
| Squad (`services/squad/*`) | a locked board shared by sessions, wakeups | no lost update; every wakeup delivered |
| Updater, token storage (`packages/updater`, `packages/runtime`) | download, verify, swap; refresh by several processes | never a partial binary; one refresh at a time |

### Left out

The terminal interface (rendering), model clients and prompts (formatting), the MCP
hub (a library's connections), terminals, sandbox and shell tools (operating system),
snapshots (sequential file copies), the wake lock, the proposal tool (it writes the
initial files), protocol types and utilities (no state).  `PROJECT.json` gives the
reason for each.

## 2. The modules

| Module | Models | Extends |
| --- | --- | --- |
| `MissionFiles` | features.json as a value and the pure operations on it | |
| `MissionRun` | one mission: loops, tool, operations, workers, files | `MissionFiles` |
| `MCMissionRun` | instances for TLC | `MissionRun` |
| `MissionRun_proofs` | inductive invariant, type correctness, retry budget | `MissionRun` |
| `MissionOrder_proofs` | what the order of a mission's steps guarantees: eight more properties | `MissionRun_proofs` |
| `MissionProgress_proofs` | one feature in progress; the validators in their order | `MissionOrder_proofs` |
| `Cron` | registry, runtime and prompt handlers | |
| `MCCron` | instances for TLC | `Cron` |
| `Cron_proofs` | all safety properties of the scheduler | `Cron` |
| `DroolRegistry` | one session of the daemon: registry entry, processes, overlapping requests | |
| `MCDroolRegistry` | instances for TLC | `DroolRegistry` |
| `DroolRegistry_proofs` | all safety properties of the registry | `DroolRegistry` |
| `Queue` | taking items out of a queue, by positions | |
| `Queue_proofs` | what the operators of `Queue` return for every queue | `Queue` |
| `AgentLoop` | the phases of the agent loop of each turn and the two signals of `stopAgent` | |
| `TurnRunner` | the queue, its coroutines, the interrupts and the end of the process, composed with the loops | `AgentLoop`, `Queue` |
| `Mailbox` | the abstract specification: what a session promises about items sent to it | `Queue` |
| `MCTurnRunner` | instances for TLC; `Keep` compared with `SelectSeq` | `TurnRunner` |
| `TurnRunner_proofs` | all safety properties of the turns; `TurnRunner` implements `Mailbox` | `TurnRunner`, `Queue_proofs` |
| `RelayConnection` | attempts, sockets and timers of the relay connections | |
| `DaemonConnectionHandler` | the gate: authentication, logout, re-verification | |
| `RelayServer` | start and stop requests, announced clients, composed with both | `RelayConnection`, `DaemonConnectionHandler` |
| `MCRelayServer` | instances for TLC | `RelayServer` |
| `RelayServer_proofs` | inductive invariant and the four safety properties of the relay | `RelayServer` |

### MissionFiles

A feature is `[id, status, workers]`; `workers` is `workerSessionIds`.  Lookups return
the *set* of the index found (empty for `null`) and, like the code's `find`, take the
first entry with the id, because nothing keeps the ids of the array distinct.
`Requeue` is `requeueFeatureIfInProgress` with its fallback to the feature whose last
worker matches; `MovesStranded` states what `moveStrandedDoneFeaturesToBottom` does
as a relation on the permutation; `GrantRetryBudget` adds a full budget for each
exhausted pending entry.

### MissionRun

| Variable | Code |
| --- | --- |
| `state`, `bonus` | `state.json` |
| `features` | `features.json` |
| `validated`, `completed`, `usage402`, `lastPause` | what the code looks up in the progress log: `MilestoneValidationTriggered`, `WorkerCompleted`, tagged `WorkerFailed` entries, the reason of the latest `MissionPaused` |
| `handoff` | the last handoff with items: `open`, or `addressed` when its items were dismissed or a file the gate looks at changed since, whoever wrote it |
| `isRunning`, `signal`, `aborted` | fields of the runner object, shared by all its loops; which tool calls were aborted |
| `loop[l]` | program counter and locals of one live `runLoop` |
| `handler[l]` | the suspended notification handler of that loop's wait |
| `worker[w]` | phase of a session, feature it works on, report, and `told`: an interrupt or close sent and not yet carried out |
| `note[l]` | notifications on their way to the loop's subscription |
| `tool`, `pausing`, `killing` | calls in flight of `start_mission_run`, `pauseMissionRunner`, `killWorkerSession` |
| `up`, `events`, `limited` | the process runs; interventions so far (bound); history for `LimitPauses` |

Actions follow the awaits: every write of a file and every daemon request is a step,
and reads with no write between them form one step with the decision they lead to.
`start_mission_run` is `StartMissionRun`, `ToolGrants`, `ToolSetsRunning`,
`ToolLaunches`; the loop is `LoopStops` .. `Exits`; `spawnWorker` is `SpawnReads`,
`SessionSpawned`/`SpawnFails`, `MarksInProgress`, `PromptSent`/`PromptFails`,
`DispatchFails`; `resumeWorker` is `ResumeLoads`/`ResumeFails` and the same prompt
steps; the wait is `Notified`, `Logs402`, `Pauses402`, `RequeuesFailed`, `WaitEnds`;
the milestone check is `Checks`, `InsertsUserTesting`, `InsertsScrutiny`,
`MarksValidated`.  A worker's `EndFeatureRun` is `Ends`, `MovesToBottom`,
`ReturnsToOrchestrator`, `LogsCompleted`, in the order the code writes.

Abstractions, each of which a reader should know:

- Each `MissionFileService` operation is one atomic step.  The code reads, changes and
  writes a whole file without a lock; that race is the subject of the planned
  `MissionStore`.
- Requests that the code does not await (`interruptSession`, most `closeSession`
  calls) are recorded in `told` and take effect at any later time, but before a
  `loadSession` of the same session, because the daemon handles a session's requests in
  order.
- `closeWorkerSessionAfterFailedDispatch` is awaited and ignores its errors; it is one
  step with the requeue that follows it.  Its effect is still delayed through `told`.
- One notification handler of a loop is in flight at a time.  The code's guard allows
  two in the window before `daemonFailureInFlight` is set; see the hazards.
- `PromptFails` may leave the worker working: the answer, not the request, is lost.
- A worker may end with any report at any time, or die, or hit a limit.  Assumed of the
  worker agent: it reports once, on its own feature or the one in progress.  The tool
  does not enforce that: `end-feature-run.ts:163` and `:279`-`285` take any `featureId`, a
  completed one too, and any number of calls.  `OneInProgress`, `CompletedIsDone`,
  `CompletedStays` and `ScrutinyFirst`, and the theorems about them, rest on it: TLC
  refutes each of them when `Ends` takes any feature of the file, any number of times,
  with failing reports among them.  `RunEnds` then fails too, through a worker that
  reports forever.
- What the orchestrator agent does to `features.json` between runs is
  `OrchestratorCancels` and `OrchestratorAdds`.
- The tool is aborted only while it waits for the runner; the window before `start()`
  is left out.
- Progress-log entries nothing looks up, handoff documents, telemetry, model settings
  and the heartbeat (which rewrites an unchanged state) are left out.

### Cron

One JavaScript thread: the code between two awaits is one action, a function from the
cells of the crons (record, job and fires of each) to the next ones, so that `sync`,
which most handlers end with, is one operator that works on each cell alone.  Time is abstracted to how `nextRunAt` relates to now and to
the last completion (`none`, `ahead`, `passed`, `late`, `met`); `near` is the set of
expressions whose next instant is the one that just passed, chosen freely at each step.
`fires[c]` gives each of `MaxFires` slots the await a suspended fire of the cron is at,
or `none`.

| Variable | Code |
| --- | --- |
| `cron` | the JSON records of `CronRegistry` |
| `job` | `CronRuntime.jobs`: the expression each live timer was registered with |
| `fires` | fires in flight, by the await each is at |
| `alive`, `tui`, `up` | registered clients, authenticated terminal interface, process |
| `deleted`, `reactivated` | history, for `ScheduleSurvives` and `OverlapNeedsReactivation` |

### DroolRegistry

All maps are keyed by session and sessions do not touch each other, so the module
follows one key: a session that exists on disk and is not archived.

| Variable | Code |
| --- | --- |
| `proc[c]` | the child process of client `c`: `unborn`, `up`, `closing`, `exited`, `crashed` |
| `registered`, `listeners`, `timer` | the session's entries in `droolClients` and `sessionStates` (`sessionListeners`, `timeout`) |
| `orphans` | armed timers whose session state was deleted, which nothing can cancel |
| `expiring` | clients whose `close` a fired timeout awaits |
| `immediate` | the `setImmediate` of a crash is scheduled |
| `pendingLoad`, `pendingCreation` | the slot whose promise is in `pendingLoadOperations` / `pendingClientCreations` |
| `req[r]` | a request in flight: its kind, its connection, the await it is at, and the slot or client it waits for |
| `open` | open connections |

The daemon runs on one event loop, so a step is one event with the code up to the next
await of real I/O.  Handlers whose promise has settled go on before the next event:
those are the `Resume` actions, and every event is guarded by `Settled`.
`handleLoadSession` is `LoadSession`, `ResumeFollower`, `ResumeAwaiting`, `ResumeClosed`,
`Created`/`CreationFails`, `LoadAnswered`; `handleAddUserMessage` is `AddUserMessage`,
`ResumeClosed`, `Created`, `MessageAnswered`; `handleCloseSession` is `CloseSession`,
`ResumeClosed`.  The registry's methods are operators (`RegisterClient`,
`AddConnection`, `Unregister`, `Drop`) and timeouts `Expires` with the second half in
`Exits`.

Abstractions: the retry for a model error and the spawn of the process are one await
with the load that follows; notifications re-arm the timer at any time, so an armed
timer stands for any remaining time; a child's answers other than to these requests are
left out; a new process needs longer to answer than the pending `setImmediate` (`InTime`).
The two parameters of a session's timer are one bound: `MaxExpiries = 0` is a session
with `disableInactivityTimeout`.

### AgentLoop and TurnRunner

| Variable | Code |
| --- | --- |
| `loop[i]`, `generation[i]` | the await at which the turn's `runAgentInternal` is; how many loops were disposed of before this one by a spec hand-off (`runAgentWithSession` calls itself) |
| `rounds[i]` | bound: times the turn went on |
| `aborted`, `pendingAbort` | the abort controller of the request or of the batch of tools in flight; the flag of `sendMessage.ts` that the next controller applies to itself |
| `payload` | `_pendingSpecHandoff` |
| `stopping` | loops whose `cancellationPromiseRef` is set |
| `messageQueue`, `atEnd` | the queue; its messages with placement `EndOfLoop` |
| `item[m]` | where an item is: new, queued, prepared, at the MCP gate, in its turn, or how it ended |
| `runner` | the fields of the runner; `blockOnMcpLoad` is the flag and its latch together |
| `interrupt[r]`, `awaits[r]` | the await of each `interrupt_session` and what it awaits |
| `mode` | the process takes requests (`up`), waits in `shutdown` (`closing`), has returned from `run()` without it (`leaving`); how it ended: `exited`, or `left` |
| `told` | history: turns an interrupt has told to stop, until the loop it was told to is gone |

`processRequestQueue` is `ServeQueue`, called from `Queued` (a new item) and at the end
of each item; `processUserMessage` is `PreparationEnds`, `Prepared`, `GatePasses`,
`HandlerReady`, the steps of the loop, `TurnEnds`; `handleInterruptSession` is
`InterruptIdle`, `InterruptJoins`, `InterruptLatches`, or `InterruptStops` with
`StopReturns`; the loop takes messages in `ToolsFinish` and `EndOfLoopTaken`.
The code takes items from the middle of its array by filtering it; `Queue` says which
items are left by their positions instead of by recursion, so that proofs can use it, and
`MCTurnRunner` has TLC compare it with `SelectSeq` for every queue of up to four items.

Abstractions: what requests and tools contain, and how many calls a batch has; a stop
takes effect on tools at any time (a batch past its last check ends normally); model
routing, compaction and drained attachments are the phase `prime`; feature flags the
phase `setup`; errors before the loop's first request end in the Stop hooks.  The
interrupt inside `kill_worker_session` and `stopAgentWithTimeout` of the terminal
interface are left out.

The end of the process.  Only the end of the input leads to `shutdown`, which waits
(`Close`, `Shutdown`); `close_session` closes the input as well, and what `stop` cleans up
meanwhile only makes the awaits of a turn end sooner.  A signal, or a pipe to the parent
that breaks, also closes the input but resolves `run()` at once (`Signalled`,
`streamingJsonRpcExecRunner.ts:3797`-`3808`, `:768`-`773`), and so does the limit of 30 s
(`ShutdownTimesOut`); then the process ends when the hooks of `exitWithCode` are done
(`Leave`), wherever its coroutines are.  The daemon's close sends the end of the input
and SIGTERM together (`ManagedProcessImpl.ts:285`-`289`), which is `Close` and `Signalled`
in either order: a turn in progress is then cut short, and nothing is claimed about it.

### RelayConnection, DaemonConnectionHandler and RelayServer

| Variable | Code |
| --- | --- |
| `phase`, `tries` | where `start` is: its loop of first attempts, the wait between two, returned or thrown |
| `socket[c][s]`, `ws` | each call of `connect` and its WebSocket, from the credential to the close event; the transport's field |
| `timer`, `ping`, `connectedOnce`, `stopped` | `reconnectTimer`, `pingTimer`, `hasConnectedOnce`, `stopped` |
| `authenticated`, `authentication`, `request` | `authenticatedConnections` and its set, `pendingAuthentications`, the `handleMessage` calls in flight |
| `reverify`, `checking` | `actAsReverifyTimers`, `actAsReverifyInFlight` |
| `start`, `relayConnection` | the `daemon.relay.start` requests, the field of the daemon server |
| `connection` | the connection objects of announced clients; `early` marks those announced while the daemon still probed a legacy relay |
| `overlap`, `late` | history: two starts were at work at once; connections closed while being verified |

`start` is `Start`, `RetryStart`, `Returns` and `GivesUp`; `connect` is `Connect`,
`CredentialResolved`, `WithoutSubprotocol` (the transport's second socket), `Opens`,
`AuthRequired`, `Established`, `AttemptFails`; a close event is `AttemptFails` or
`SocketCloses`, by whether `connect` still awaits the socket.  Each relay object is the
one of a start request.

Abstractions: delays and jitter; the content of frames and responses; tunnels; the
relay's URL (a start with another URL than the connected one behaves like one with no
connection and is left out); `daemon.getStatus`.  Each connection has requests of its
own client only; what the dispatcher does with a served request is the other modules'.

## 3. The runs

All bounds are CONSTANTS in the cfg.  `Workers` bounds the sessions ever spawned: when
none is left a spawn fails, which the code handles like any spawn error.  `MaxEvents`
bounds pauses, aborts, kills, edits and crashes.  `MaxAttempts` is 5 in the code and 1
or 2 here, so that the budget runs out within a few sessions; nothing else depends on
its value.  `Loops` has one element unless overlapping loops are the question: with one,
a start waits until the previous loop has left.  Each run enables the `Faults` its
question is about, because their product is out of reach.  Worker sessions are
interchangeable, and symmetry is used except where liveness is checked.

| Run | Instance | Shows |
| --- | --- | --- |
| `mission_retries` | 1 feature, 2 workers, budget 1; exits of workers, usage limits | `TypeOK`; `AttemptsWithinBudget` across retries and grants; `LimitPauses` in every order of notifications; `RunEnds` |
| `mission_validation` | 1 feature and both validators, 4 workers, budget 2; success, hand-back and worker exits | `ValidatorsOnce`, `ScrutinyFirst`, `CompletedIsDone`, `CompletedStays`, `AutoPauseStands` |
| `mission_pause` | 1 feature and one that may be added, 2 workers; two pauses, aborts or edits anywhere | `NoUnwatchedWorker`; `OneInProgress`: nothing is in progress beside the feature whose worker the runner waits for, preemption included |
| `mission_crash` | 1 feature, 2 workers, handoffs with open items; one crash or kill anywhere, failing or half-failing requests | `OneActiveWorker`, `RunningIsRun` |
| `cron_pair` | 2 session crons, the second maybe a resumed copy | `NoOrphanJob`, `RunningHasFire`, `ScheduleSurvives` |
| `cron_one` | 1 session or root cron, 2 good and 1 bad expression, one-shot or recurring, 2 fires | `TypeOK`, `ActiveIsScheduled`, `OverlapNeedsReactivation`, `OverdueIsFired` |
| `registry` | 3 requests of 2 connections, 3 clients; one expiry and one crash anywhere | `TypeOK`, `ProcessAccounted`, `OneLoadCreates`, `DeadEntryIsTransient`, `LoadListens`, `LoadEnds` |
| `turn` | 2 messages (one for the end of the loop), a resumption, 2 interrupts, one more round and one hand-off per turn, delegated or not, with or without the MCP gate | `TypeOK`, `QueueServed`, `OverlapNeedsDiscard`, `InterruptSticks`, `StopNeedsCause`, `WaitedExitIsClean`; the refinement `Mailbox` |
| `turn_live` | the same with 1 interrupt and no hand-off | `MessagesSettle`, `InterruptsAnswered` |
| `relay` | 2 start requests, 2 attempts each, 2 sockets each, a client announced up to twice, 2 authentications | `TypeOK`, `OneWay`, `OneRelay`, `RegisteredIsReachable` |
| `relay_live` | 2 start requests, 3 attempts each, no clients | `LinkSettles` |

Why the bounds suffice for the question asked: a requeue, a stale snapshot or an
exhausted budget with a grant needs two sessions of one feature at budget 1; preemption
needs two features; the order of validators needs the feature and its two validators,
plus a retry of one of them (four sessions); an orphan needs one crash and a worker to replace it; a
resumed cron needs its original and its copy; overlap needs two fires; the promises of loads
interlock with one that fails and two that waited for it (three requests).  Two turns
that overlap need an item at work, one that is discarded with the flag and one that comes
after it (three items); the second interrupt is the one that joins the first or finds the
handler of a loop that is gone.  An unstoppable relay needs two overlapping starts, the
promises of authentications one request that waits for another; that a socket field or a
timer belongs to an older attempt needs two sockets.  `LinkSettles` concerns single
connections that do not share anything, so the clients are left out there.

Fairness.  `MissionRun` assumes weak fairness of each loop's steps, each handler, the
tool, the operations, the reload and each worker session: file operations and daemon
requests are promises that settle, a callback is run by the event loop, and a session
that does nothing is closed by the daemon's inactivity timeout, which is reported like
an exit.  Nothing is assumed of the user or of the orchestrator agent, and not that a
worker succeeds.  `Cron` assumes only that the watchdog's interval timer goes on.
`DroolRegistry` assumes that settled promises resume, that a `setImmediate` runs, that a
closed process ends (it is killed after 5 s) and that a load is answered or times out;
not that an added message is, which has no timeout.
`TurnRunner` assumes weak fairness of each item's next step and of each `stopAgent`:
hooks, the MCP load and the killing of background tasks have timeouts, the model answers
or fails, a tool ends or its permission is answered; of requests it assumes nothing.
`RelayServer` assumes that a timer fires, that a call of `connect` ends one way or the
other (every await in it has a timeout) and that the handshake of a socket closed by the
daemon ends; and, by strong fairness, that the relay can be reached: a credential, an
open and a handshake that are tried again and again succeed at last.  Without the last
assumption a daemon rightly tries forever.

The refinement.  `Mailbox` knows a line of waiting items, those among them that let the
others pass, and the state of each item; it has no coroutines, flags, loops or
interrupts.  `TurnRunner` implements it with the queue as the line, the end-of-loop
messages as the patient ones and `item` mapped to new, waiting, working, done or
returned.  So no interleaving of coroutines, drains and interrupts ever takes an item
twice, loses one silently, or serves a patient one before the others, overlapping turns
included.

Deadlock is checked in the mission and cron runs.  The registry, the turns and the relay
serve requests: they stop when the bounded requests are used up and nothing is in flight,
and a process of `TurnRunner` exits.

### Violation run: a finding

| Run | Property | Disagreement |
| --- | --- | --- |
| `mission_overlap` | `OneActiveWorker` | An aborted `start_mission_run` returns while its loop is suspended in the spawn request; the next start makes a second loop and, by replacing the abort signal and setting `isRunning`, un-aborts the first: two workers on one feature, although `types.ts` says they execute sequentially. |

Other disagreements were met while reading and modelling and are not runs of their own.

Mission.  Cancelling the last feature of a milestone, then finishing the last milestone
through its worker, completes the mission without validating the former: the sweep over
all milestones is only made when no feature is pending at the head of the loop
(`MissionRunner.ts:491`, `:554`).  The usage-limit entry of an earlier run of a resumed
session pauses the mission again (`:1544`).  The handoff gate of `start_mission_run` looks
at file times, so the runner's own writes of `features.json` pass for the orchestrator's
action.  A comment in `gracefulMissionExit.ts` says the pause on exit sets the feature to
pending, while `MissionRunner.pause` keeps it in progress.

Cron.  Deleting a cron while its prompt is in flight, then closing and opening its
session, makes it active again: every cron of a pending waiter is held, whatever its
status (`InProcessDaemonRuntime.ts:469`).

Registry.  The inactivity timeout awaits the close of an idle client and then deletes
whatever the session has (`drool-registry.ts:912`): a client registered meanwhile leaves
the registry while its process runs.  `ProcessAccounted` and `LoadListens` are therefore
stated while no timeout has expired.  `handleAddUserMessage` does not look at
`pendingClientCreations`, so a message and a load may start two processes and the later
one closes the other under whoever uses it; the retry it makes for closed clients
(`'Client closed'`, `drool-request-handler.ts:3726`) never matches the text `client.ts`
rejects with (`'Drool client closed: ...'`); a connection that closes while its load is in
flight is added to the listeners when it is answered and stays there; a respawn after the
clean-up of a crash loses the session's timeout settings; a load in flight when `close` is
answered opens the session again.

Turns.  `processRequestQueue` is to process items "without overlapping an active agent
loop" (`streamingJsonRpcExecRunner.ts:1071`), but `drainQueueAndNotify` clears
`isProcessing` under a coroutine that is preparing an item, the next message starts
another, and two turns run at once; `OverlapNeedsDiscard` says that nothing else leads
there, and the other properties say what still holds meanwhile.  An interrupt of a loop
that is being handed off to the session of its spec is lost, and so is a stop that waits
in `pendingAbort` while `sendMessage` fails before it has a controller
(`sendMessage.ts:2904`).  The latch set for an item that turns out to be stored, blocked
or withdrawn stops the next one (`StopNeedsCause` names the case).  A delegated session
exits after its turn with whatever is still queued (`:2277`).  A spec approved in a
resumed turn is never handed off: `resumeAgentWithSession` does not ask for it.

Relay.  `startRelay` looks at the field, awaits an import and then writes it
(`daemon-server.ts:383`-`398`): two overlapping starts leave a relay that runs and that
nothing can stop, a stop in that window is lost, and a start that fails clears the field
whatever it holds by then (`:413`); hence the condition of `OneRelay`.  A start that is
stopped meanwhile reports success (`RelayConnection.ts:232`); `status.connected` counts a
socket that is open but not authenticated.  A client that leaves while it is verified is
registered for ever, with its re-verification timer, and `dispatchAutomationRun` may pick
it (`daemon-connection-handler.ts:611`, `:216`).  A re-verification that fails after a
logout and a new authentication tears the new one down (`:694`).  A client announced while
a legacy relay is probed stays when the attempt fails.

### Combinations that do not hold

While choosing which faults a run enables, TLC refuted some properties under
combinations for which the code promises nothing; they are described here and in
the hazards rather than as findings: `CompletedIsDone` with lost answers, pauses, kills,
crashes or edits (a late report between the read and the write); `CompletedStays` with
pauses or crashes (a late report overwritten by a resumed runner); `NoUnwatchedWorker`
with a lost answer and an abort together; `RunEnds` with usage limits and pauses
together (the close sent by an old handler hits the resumed session, and the daemon
reports no exit for a session it was asked to close); `OneActiveWorker` with two crashes
(a worker that finishes while it is being resumed goes on beside a new one);
`ValidatorsOnce` with a crash
between insertion and its log entry; `OneInProgress` with two loops after an abort, or
with a session to resume that is not the one of the feature in progress.

## 4. The proofs

`MissionRun_proofs` proves, for every choice of features, workers, loops, faults,
reports, budgets and event bounds allowed by the assumptions:

- `TypeCorrect`: `Spec => []TypeOK`.
- `BudgetRespected`: `Spec => []AttemptsWithinBudget`.

Assumptions: `FilesAssumption` (`MaxAttempts` is positive, milestones are a function of
the features, `None` is not a worker) and `RunAssumption` (types of the constants;
`None` is not a loop or an id).  Both are evaluated by TLC in every mission run.

Neither is inductive as it stands.  The budget is checked in `SpawnReads` on the list of
workers read there, and that list plus one is written two requests later in
`MarksInProgress`, over whatever the file holds by then.  The inductive invariant

    IInv == FilesInv /\ ControlInv /\ LoopsInv /\ WorkersInv /\ HandlersInv /\ NotesInv

therefore carries, for every loop between the two, `Len(snap) < MaxAttempts + bonus[id]`
(`LoopOK`).  It survives concurrent steps because `bonus` only grows, and with it the
write is within the budget however stale the snapshot is and however many loops overlap.
The other parts say which locals are set at which program counter (a wait has a worker
and a feature, a report exists once a session has ended), which type correctness needs.

The layout: lemmas about the updates of `features.json` first (each update keeps the
type, and each entry of the result *descends* from an entry with the same id and
workers, so it is within the same budget), then one lemma per action that it preserves
`IInv`, then `InitInv`, `NextInv` and the two theorems.

`RelayServer_proofs` proves, for any numbers of relay objects, sockets, attempts, clients
and requests, all four safety properties of the run `relay`:

- `RelayTypeCorrect`: `Spec => []TypeOK`, which includes that the transport's field is
  the one open socket and that a client id has one open connection.
- `OneWayAlways`: `Spec => []OneWay`.
- `OneRelayUnlessOverlap`: `Spec => []OneRelay`.
- `RegisteredReachable`: `Spec => []RegisteredIsReachable`.

Assumptions: `RelayAssumption` (at least one attempt, `None` is no socket),
`GateAssumption` (`NoOne` is no request), `ServerAssumption` (`None` is no relay, `NoOne`
no connection).  The invariant is

    IInv == LinkInv /\ StartInv /\ ConnectionInv

`LinkInv` speaks of each relay object alone: which of start's loop, the timer, the calls
of `connect` and the sockets may exist together, in each phase and also after a stop,
which `OneWay` leaves out although the closing socket of a stopped relay could still arm
a timer.  `StartInv` says that, while no two starts were at work at once, only the relay
of the field runs, and a start at work excludes every other one at work and every
running relay but its own.  `ConnectionInv` ties the layers together: an open connection
that was not announced early has a relay with an established or closing socket, and a
one that is registered, re-verified or being verified is open, or was closed while it
was verified.  The proof has one lemma for
each operation of `RelayConnection` on one object, one for each of the gate, and then one
for each action of `RelayServer`, which combines them.

`MissionOrder_proofs` proves eight properties that depend on who does what in which
order, for any plan, any number of workers, loops and attempts.  Except for the first,
they hold because certain things do not happen, so each theorem names the `Faults` that
must be absent:

| Theorem | Property | Without |
| --- | --- | --- |
| `LimitAlwaysPauses` | `LimitPauses` | nothing |
| `RunningIsARun` | `RunningIsRun` | a start call that is cut off (`abort`, `kill`) |
| `NoWorkerUnwatched`, `OneWorkerActive` | `NoUnwatchedWorker`, `OneActiveWorker` | cut-off calls, crashes |
| `ValidatorsComeOnce` | `ValidatorsOnce` | the same, and planned ids that look like a validator's |
| `CompletionIsDone` | `CompletedIsDone` | cut-off calls, crashes, pauses, lost answers |
| `CompletionsStay` | `CompletedStays` | the same, ids as above, and planned ids that repeat |
| `PausesStand` | `AutoPauseStands` | cut-off calls, crashes, pauses, lost answers, usage limits |

These are hypotheses of the theorems and not assumptions on the constants, and they are
needed: the code breaks the promise with them.  A cut-off start call leaves a loop behind
that a second start wakes up (the finding); a crash between the insertion of validators
and its log entry inserts them again; two crashes leave two workers; a pause or a lost
answer lets a late report overwrite what a resumed runner wrote; after a usage limit a
suspended handler writes its pause while the loop goes on.  The look-ups by id take the
first entry, so a plan with an id twice makes a finished feature reappear.  Where such a
fault alone (one crash, one abort) does no harm within the bounds, the runs check it:
`mission_crash` and `mission_pause` enable faults that the theorems about
`OneActiveWorker`, `RunningIsRun` and `NoUnwatchedWorker` exclude, once or twice, and the
theorems any number of the others.

The invariants extend one another.  `SInv` adds to `IInv` that with no cut-off call one
loop is live and its call waits for it (`CallInv`), and what each program counter knows
of state.json (`RunInv`).  `WatchInv` says that each active worker is awaited, and what
the loop, its handler and its notifications have each learnt of a worker that no longer
is; without it `NoUnwatchedWorker` is not inductive, since a loop leaves its wait for
reasons (a report, an exit) that only the worker's phase justifies.  `ValidationInv` says
that whoever finds a validator in the file finds its milestone triggered or the loop that
is about to write the entry.  `BusyInv` extends `WatchInv` from working sessions to those
inside `EndFeatureRun`: the loop waits for each of them and has not heard of it.  So
between the read of `AllDone` and the write of `completed` nobody writes, which `DoneInv`
uses, and an entry that a loop is about to requeue is the one of its own worker, still in
progress, which `TaskInv` carries across the awaits.  `PausedInv` says that only the loop
that paused, on its way out, is left to touch a paused state.

`MissionProgress_proofs` proves the two properties that depend on which entries of
features.json are open and on their order:

| Theorem | Property | Without |
| --- | --- | --- |
| `OneFeatureInProgress` | `OneInProgress` | cut-off calls, crashes, a session to resume named by the caller, planned ids that repeat or look like a validator's |
| `ScrutinyComesFirst` | `ScrutinyFirst` | the same, and pauses and lost answers |

`OneFeatureInProgress` covers pauses, lost answers, exits, usage limits, preemption,
retries and edits, in any number.  Two of its hypotheses TLC shows to be needed.  Two
loops, which an abort can leave, put two features in progress (the finding about the
loop that a second start wakes up).  And `resumeWorkerSessionId` is an argument of the
tool: a session that is not the one of the feature in progress (`ResumeAny`, which every
run sets to FALSE) the loop drops with a warning (`MissionRunner.ts:421`), and since a
start with a session to resume skips `cleanupOrphanedWorker` (`:152`) it then spawns a
worker beside the open feature.  That there is no crash and that
ids do not repeat the proof uses to find an entry by its id, through `ValidationInv`: a
crash inserts validators a second time.

`OneInProgress` says of the file what only the places of the program can justify.  The
loop opens an entry in one step only (`MarksInProgress`), after the reads, the request
and the session of `spawnWorker`, so nothing may be open all that way (`Clear`), and what
each earlier place must have closed is what it knows the worker of: at the head of the
loop and in `preempt`, `resume`, `prompt` and `waiting` the open entry is the one of the
worker the loop holds (`StandsAt`), which makes `requeueFeatureIfInProgress` find it.
That its worker has neither reported nor begun to (`HeldInv`) makes a successful report
the end of the open entry, and that a session to be assigned has no past (`Fresh`) keeps
that true for the next.  The lemmas about the file say of each update whether it can open
an entry (`Shrinks`: only `AssignFeature` does) and when it closes the open one
(`UpdateCloses`, `RequeueCloses`).

For `ScrutinyFirst`, `LineInv` says that in each milestone the scrutiny is done or above
the user testing, except between the two inserts of the loop that is there, that a user
testing on its way to `MarksInProgress` has its scrutiny done, and that the feature a
worker is about to move to the bottom is done.  The step that matters is the pick: the
first pending entry is taken (`LinePicks`), so the scrutiny above it is not pending, and
since nothing is in progress there (`StandsAt`) it is done.  Each update of the file gets
a lemma that it keeps the line: `moveStrandedDoneFeaturesToBottom` and `moveFeatureToBottom`
because they take only done entries down (`PermutedLine`), the changes of status because
none takes back what is done (which needs `TaskInv`), the inserts because of their order.

`DroolRegistry_proofs` proves, for any number of requests, clients, connections, expiries
and crashes, `RegistryTypeCorrect`, `NoLostProcess`, `OneCreation`, `DeadEntriesGo` and
`LoadsListen`: all safety properties of the run `registry`.  Assumption:
`RegistryAssumption` (`None` is no slot, client or connection; slots and clients are
disjoint).  The invariant adds that a client being created is live, unregistered and known
to one request, that the pending creation belongs to a load (`CreationInv`), and that a
load woken by a creation still finds the client it was woken for (`EntryInv`), because no
event of the loop comes between the two.

`Cron_proofs` proves, for any sessions, expressions, numbers of crons and of fires,
`CronTypeCorrect`, `ActiveScheduled`, `JobsServeCrons`, `RunningFires`, `FiresAlone` and
the action property `SchedulesSurvive`.  Assumption: `CronAssumption`.  Every handler is a
function on cells, so the invariant speaks of one cell: before `sync` it is `Fine` (a
running cron has a fire; an active one has room for one and, unless reactivated, none in
flight), after it also `Synced` (its job is the one the record asks for), and `Off` while
no process runs.  The lemmas show each operator takes fine cells to fine ones and that
`sync` takes fine ones to synced ones; the actions follow.

`Queue_proofs` proves `KeepFilters`: for every queue without repetitions, `Keep` returns a
sequence of exactly the items asked for, without repetitions and in their order.  It is a
counting argument on positions, which stands in for the induction on sequences that this
prover cannot do.

`TurnRunner_proofs` proves, for any numbers of messages, interrupts, rounds and hand-offs,
`TurnTypeCorrect`, `QueueIsServed`, `HandledAlone`, `InterruptsStick`, `StopsHaveCause`
and `WaitedExitsAreClean` (about `shutdown` and delegated sessions; an exit after a signal,
a broken pipe or 30 s waits for nothing).  Assumptions: `TurnRunnerAssumption`, `AgentLoopAssumption`.  The invariant
has five parts, named in the module's header; the two that carry the weight are
`ServiceInv` (the runner's fields tell the truth about the turn in progress as long as
nothing was discarded) and `CauseInv` (each way a turn has of losing its stop handler
leaves an interrupt that awaits the turn's end).

The same module proves the refinement `KeepsMailbox`: `Spec => Mailbox`, action by action.
It needs of the invariant only the types, so the promise of `Mailbox` holds while turns
overlap too.

Only model-checked.  Liveness (`RunEnds`, `OverdueIsFired`, `LoadEnds`, `MessagesSettle`,
`InterruptsAnswered`, `LinkSettles`): the prover has no rule for fairness and `ENABLED`.
And the parts of the mission's properties that the hypotheses above leave out, within the
bounds of the runs.  Every invariant and every action property a passing run checks is
the subject of a theorem.

## 5. Plan

1. Done: `Cron`, its safety, liveness and proofs; `MissionFiles`, `MissionRun`.
2. Done: `DroolRegistry`, its safety, `LoadEnds` and proofs.  Next for it: shutdown, the
   abstract specification of a session's life (at most one client, replaced only by
   closing) and its refinement with timeouts off.
3. `MissionStore`: `updateState`, `updateFeature` and the incremental progress log split
   at their awaits; the atomic operations `MissionRun` assumes as its abstract
   specification, to find under which interleavings it is implemented.
4. `WorkerWait`: the flags of `waitForWorkerCompletion` and its overlapping handlers, as
   a refinement of `MissionRun`'s wait.
5. Done: `AgentLoop`, `TurnRunner` and its refinement of `Mailbox`; `RelayConnection`,
   `DaemonConnectionHandler`, `RelayServer`, their safety, liveness and proofs.  Next for
   them: tool results across a stop, the daemon's start-up and shutdown, tunnels.
6. `DaemonSession` (the client's side of the queue), `Automations`, `Squad`.
7. Proofs.  Done: every safety property of `MissionRun`, `Cron`, `DroolRegistry`,
   `TurnRunner` and `RelayServer` that a run checks, and the refinement of `Mailbox`.
   Next: `ScrutinyFirst` with pauses and cut-off calls, for which TLC found no violation
   in the states it reached but whose proof would need an invariant about late reports;
   then the refinements of 2, 3 and 4.
