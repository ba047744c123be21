----------------------------- MODULE MissionRun -----------------------------
(***************************************************************************)
(* One mission: the MissionRunner loop of the orchestrator's process, the  *)
(* start_mission_run tool that launches it, the operations that pause a    *)
(* mission or kill a worker, the worker sessions in processes of their own *)
(* and the files they all share.                                           *)
(*                                                                         *)
(* Every write of a file and every daemon request is a step; reads with no *)
(* write between them are one step with the decision they lead to.  Each   *)
(* MissionFileService operation is atomic.  Requests the code does not     *)
(* await (interruptSession, most closeSession calls) are recorded in the   *)
(* worker's 'told' and take effect later.                                  *)
(*                                                                         *)
(* An aborted tool call returns at once while its runner may still be      *)
(* suspended in an await, so several loops may be live.  They share        *)
(* isRunning and abortSignal, which are fields of the one runner object.   *)
(***************************************************************************)
EXTENDS MissionFiles

CONSTANTS
    Planned,         \* ids of features.json when the mission is proposed
    Extra,           \* ids the orchestrator may add later
    Reports,         \* reports a worker may end with
    SkipScrutiny,    \* settings
    SkipUserTesting,
    Loops,           \* bound: runner loops live at once
    ResumeAny,       \* resumeWorkerSessionId may name any session
    Faults,          \* which of the AllFaults may happen
    MaxEvents        \* bound: pauses, aborts, kills, edits and crashes

AllFaults == {"pause", "abort", "kill", "edit", "crash", "rpc", "exit", "usage402"}
AllReports == {"success", "return", "items", "failure", "failure_items"}

ASSUME RunAssumption ==
    /\ Planned \in Seq(Features)
    /\ Extra \subseteq Features
    /\ Reports \subseteq AllReports
    /\ SkipScrutiny \in BOOLEAN
    /\ SkipUserTesting \in BOOLEAN
    /\ ResumeAny \in BOOLEAN
    /\ Faults \subseteq AllFaults
    /\ MaxEvents \in Nat
    /\ None \notin Loops
    /\ None \notin Ids

\* successState is 'success'; the report makes the runner stop; the handoff
\* holds discovered issues or unfinished work.
Succeeds(report) == report \in {"success", "return", "items"}
Returns(report) == report # "success"
HasItems(report) == report \in {"items", "failure_items"}

MissionState == {"planning", "running", "paused", "orchestrator_turn", "completed"}

VARIABLES
    state,      \* state.json: state
    features,   \* features.json
    bonus,      \* state.json: featureRetryBudgetBonus
    validated,  \* progress log: milestones with a MilestoneValidationTriggered
    completed,  \* progress log: workers with a WorkerCompleted entry
    usage402,   \* progress log: workers with an unrecoverable 402 entry
    lastPause,  \* progress log: reason of the latest MissionPaused
    handoff,    \* items of the latest handoff, and what happened since
    isRunning,  \* MissionRunner.isRunning
    signal,     \* MissionRunner.abortSignal: the loop it was passed to
    aborted,    \* loops whose signal was aborted
    loop,       \* the live runLoop calls
    handler,    \* the notification handler of each loop that is mid-way
    worker,     \* the worker sessions
    note,       \* notifications on their way to the subscription of a loop
    tool,       \* the start_mission_run call
    pausing,    \* the pauseMissionRunner call in flight
    killing,    \* the killWorkerSession call in flight
    up,         \* the orchestrator's process runs
    events,     \* interventions so far
    limited     \* history: workers whose present run hit the usage limit

files == <<state, features, bonus, validated, completed, usage402, lastPause, handoff>>
log == <<validated, completed, usage402, lastPause>>
runner == <<isRunning, signal, aborted>>
daemon == <<worker, note>>
ops == <<tool, pausing, killing>>
env == <<up, events>>
vars == <<files, runner, loop, handler, daemon, ops, env, limited>>

LoopPC == {"idle", "cleanup", "top", "toRunning", "preempt", "resume", "spawn",
           "exhausted", "exhaustedPause", "spawnRpc", "mark", "prompt", "waiting", "dispatchFailed",
           "post", "check", "insertUserTesting", "insertScrutiny", "markValidated",
           "finish", "recheck", "toCompleted", "toOrchestrator", "pauseLog",
           "pauseWrite", "exit"}

LoopRecord ==
    [pc : LoopPC,
     resume : Workers \cup {None},          \* pendingResumeSessionId
     how : {"spawn", "resume"},             \* which of the two dispatched
     id : Ids \cup {None},                  \* the feature dispatched
     snap : Seq(Workers),                   \* its workerSessionIds when read
     worker : Workers \cup {None},
     fail : {"no", "requeued", "paused"},   \* daemonFailureResult
     done : BOOLEAN,                        \* workerCompletionResult is set
     out : {"success", "return", "paused"}, \* the WorkerResult
     todo : SUBSET Milestones,              \* milestones still to check
     back : {"finish", "recheck"}]          \* where the check returns to

Idle == [pc |-> "idle", resume |-> None, how |-> "spawn", id |-> None,
         snap |-> <<>>, worker |-> None, fail |-> "no", done |-> FALSE,
         out |-> "return", todo |-> {}, back |-> "finish"]

\* A session is unborn, ready for its prompt, working, inside EndFeatureRun
\* before its next write, done with it, idle after an interrupt, or closed.
Ending == {"moving", "returning", "logging"}
Phase == {"unborn", "ready", "working", "done", "idle", "closed"} \cup Ending
WorkerRecord ==
    [phase : Phase,
     task : Ids \cup {None},               \* the feature of its prompt or report
     report : Reports \cup {None},
     told : {"nothing", "interrupt", "close"}]

Notification == {"progress", "completed", "exit"}
HandlerRecord == [pc : {"idle", "log402", "state402", "fail"},
                  worker : Workers \cup {None}, id : Ids \cup {None},
                  live : BOOLEAN]  \* its wait has not ended
NoHandler == [pc |-> "idle", worker |-> None, id |-> None, live |-> FALSE]

TypeOK ==
    /\ state \in MissionState
    /\ features \in Seq(Feature)
    /\ bonus \in [Ids -> Nat]
    /\ validated \subseteq Milestones
    /\ completed \subseteq Workers
    /\ usage402 \subseteq Workers
    /\ lastPause \in {"none", "user", "retry_limit", "usage402"}
    /\ handoff \in {"none", "open", "addressed"}
    /\ isRunning \in BOOLEAN
    /\ signal \in Loops \cup {None}
    /\ aborted \subseteq Loops
    /\ loop \in [Loops -> LoopRecord]
    /\ handler \in [Loops -> HandlerRecord]
    /\ worker \in [Workers -> WorkerRecord]
    /\ note \in [Loops -> Seq(Notification)]
    /\ tool \in [pc : {"idle", "grant", "run", "launch", "waiting"},
                 resume : Workers \cup {None}, loop : Loops \cup {None}]
    /\ pausing \in {"idle", "log", "write", "check", "overwrite"}
    /\ killing \in Workers \cup {None}
    /\ up \in BOOLEAN
    /\ events \in 0..MaxEvents
    /\ limited \subseteq Workers

NoTool == [pc |-> "idle", resume |-> None, loop |-> None]

-----------------------------------------------------------------------------
(* Shared steps.                                                           *)

\* Writing features.json changes the time the handoff gate looks at, whoever
\* writes it.
WriteFeatures(f) ==
    /\ features' = f
    /\ handoff' = IF handoff = "open" /\ f # features THEN "addressed" ELSE handoff

Aborted == signal # None /\ signal \in aborted

\* An unawaited request; a close is never taken back.
Tell(ws, what) ==
    worker' = [w \in Workers |->
        IF w \in ws /\ worker[w].told # "close"
        THEN [worker[w] EXCEPT !.told = what] ELSE worker[w]]

\* The session of the in-progress feature.
Current == {LastWorker(features[i]) : i \in InProgress(features)} \ {None}

\* waitForWorkerCompletion subscribes to its worker before the prompt is sent.
Subscribed(l, w) == loop[l].pc \in {"prompt", "waiting"} /\ loop[l].worker = w
Emit(w, ns) == note' = [l \in Loops |-> IF Subscribed(l, w) THEN note[l] \o ns
                                        ELSE note[l]]

Goto(l, pc) == loop' = [loop EXCEPT ![l].pc = pc]
At(l, pc) == up /\ loop[l].pc = pc

\* The event budget of the interventions.
Intervene == events < MaxEvents /\ events' = events + 1

\* pauseMissionRunner is joined while one is in flight; else runner.pause()
\* stops the loop before its first await, or does nothing.
CallPause ==
    IF pausing # "idle" THEN UNCHANGED <<pausing, isRunning>>
    ELSE /\ pausing' = IF isRunning THEN "log" ELSE "check"
         /\ isRunning' = FALSE

-----------------------------------------------------------------------------
(* start_mission_run.                                                      *)

\* The handoff gate looks when the orchestrator had its turn, or the mission
\* was paused between workers.
Gated == state = "orchestrator_turn" \/ (state = "paused" /\ Current = {})

\* The tool up to the gate and the choice of the worker to resume.
StartMissionRun(explicit, restart) ==
    /\ up /\ tool.pc = "idle"
    /\ features # <<>>
    /\ \E p \in [DOMAIN features -> DOMAIN features] :
          /\ MovesStranded(features, p)
          /\ WriteFeatures([i \in DOMAIN features |-> features[p[i]]])
    /\ ~(Gated /\ handoff' = "open")
    /\ tool' = [pc |-> IF state = "paused" /\ lastPause = "retry_limit"
                       THEN "grant" ELSE "run",
                resume |-> IF restart THEN None
                           ELSE IF explicit # None THEN explicit
                           ELSE IF state = "paused" /\ Current # {}
                           THEN CHOOSE w \in Current : TRUE
                           ELSE None,
                loop |-> None]
    /\ UNCHANGED <<state, bonus, log, runner, loop, handler, daemon, pausing,
                   killing, env, limited>>

ToolGrants ==
    /\ up /\ tool.pc = "grant"
    /\ bonus' = GrantRetryBudget(features, bonus)
    /\ tool' = [tool EXCEPT !.pc = "run"]
    /\ UNCHANGED <<state, features, log, handoff, runner, loop, handler, daemon,
                   pausing, killing, env, limited>>

ToolSetsRunning ==
    /\ up /\ tool.pc = "run"
    /\ state' = "running"
    /\ tool' = [tool EXCEPT !.pc = "launch"]
    /\ UNCHANGED <<features, bonus, log, handoff, runner, loop, handler, daemon,
                   pausing, killing, env, limited>>

\* MissionRunner.start up to its first await; a second start is ignored.
ToolLaunches(l) ==
    /\ up /\ tool.pc = "launch"
    /\ loop[l].pc = "idle"
    /\ IF isRunning
       THEN tool' = NoTool /\ UNCHANGED <<isRunning, signal, aborted, loop>>
       ELSE /\ isRunning' = TRUE
            /\ signal' = l
            /\ aborted' = aborted \ {l}
            /\ loop' = [loop EXCEPT ![l] =
                  [Idle EXCEPT !.resume = tool.resume,
                               !.pc = IF tool.resume = None THEN "cleanup"
                                      ELSE "top"]]
            /\ tool' = [tool EXCEPT !.pc = "waiting", !.loop = l]
    /\ UNCHANGED <<files, handler, daemon, pausing, killing, env, limited>>

-----------------------------------------------------------------------------
(* Pausing, killing, editing.                                              *)

\* The tool call is aborted: handleAbort pauses, the call returns.
Abort ==
    /\ "abort" \in Faults
    /\ up /\ tool.pc = "waiting"
    /\ Intervene
    /\ aborted' = aborted \cup {tool.loop}
    /\ tool' = NoTool
    /\ CallPause
    /\ UNCHANGED <<files, signal, loop, handler, daemon, killing, up, limited>>

\* pauseMissionRunner from mission control or on exit, without an abort.
UserPauses ==
    /\ "pause" \in Faults
    /\ up /\ state # "planning"
    /\ pausing = "idle"
    /\ Intervene
    /\ CallPause
    /\ UNCHANGED <<files, signal, aborted, loop, handler, daemon, tool, killing,
                   up, limited>>

\* MissionRunner.pause: interrupt, WorkerPaused and MissionPaused entries.
PauseLogs ==
    /\ up /\ pausing = "log"
    /\ Tell(Current, "interrupt")
    /\ lastPause' = "user"
    /\ pausing' = "write"
    /\ UNCHANGED <<state, features, bonus, validated, completed, usage402, handoff,
                   runner, loop, handler, note, tool, killing, env, limited>>

PauseWrites ==
    /\ up /\ pausing = "write"
    /\ state' = "paused"
    /\ pausing' = "check"
    /\ UNCHANGED <<features, bonus, log, handoff, runner, loop, handler, daemon,
                   tool, killing, env, limited>>

\* Back in pauseMissionRunner: fall through to the files unless paused.
PauseChecks ==
    /\ up /\ pausing = "check"
    /\ IF state \in {"running", "orchestrator_turn"}
       THEN /\ Tell(Current, "interrupt")
            /\ lastPause' = "user"
            /\ pausing' = "overwrite"
       ELSE pausing' = "idle" /\ UNCHANGED <<worker, lastPause>>
    /\ UNCHANGED <<state, features, bonus, validated, completed, usage402, handoff,
                   runner, loop, handler, note, tool, killing, env, limited>>

PauseOverwrites ==
    /\ up /\ pausing = "overwrite"
    /\ state' = "paused"
    /\ pausing' = "idle"
    /\ UNCHANGED <<features, bonus, log, handoff, runner, loop, handler, daemon,
                   tool, killing, env, limited>>

\* killWorkerSession: log entry, then the feature is requeued.
UserKills(w) ==
    /\ "kill" \in Faults
    /\ up /\ killing = None
    /\ worker[w].phase \notin {"unborn", "closed"}
    /\ Intervene
    /\ WriteFeatures(IF InProgress(features) = {} THEN features
                     ELSE Requeue(features,
                        features[CHOOSE i \in InProgress(features) : TRUE].id, w))
    /\ killing' = w
    /\ UNCHANGED <<state, bonus, log, runner, loop, handler, daemon, tool,
                   pausing, up, limited>>

\* ... then the state is set, the session is closed and the orchestrator's
\* call, if one is running, is aborted.
KillInterrupts ==
    /\ up /\ killing # None
    /\ state' = "orchestrator_turn"
    /\ Tell({killing}, "close")
    /\ killing' = None
    /\ IF tool.pc = "waiting"
       THEN aborted' = aborted \cup {tool.loop} /\ tool' = NoTool /\ CallPause
       ELSE UNCHANGED <<aborted, tool, pausing, isRunning>>
    /\ UNCHANGED <<features, bonus, log, handoff, signal, loop, handler, note, env,
                   limited>>

\* The orchestrator's turn: it cancels or adds features by editing the file.
Edit(f) ==
    /\ "edit" \in Faults
    /\ up /\ tool.pc = "idle"
    /\ Intervene
    /\ WriteFeatures(f)
    /\ UNCHANGED <<state, bonus, log, runner, loop, handler, daemon, ops, up, limited>>

OrchestratorCancels(i) ==
    /\ features[i].status = "pending"
    /\ Edit([features EXCEPT ![i].status = "cancelled"])

OrchestratorAdds(id) ==
    /\ \A i \in DOMAIN features : features[i].id # id
    /\ Edit(InsertFeatureAtTop(features, id))

\* dismiss_handoff_items.
OrchestratorDismisses ==
    /\ up /\ tool.pc = "idle"
    /\ handoff = "open"
    /\ handoff' = "addressed"
    /\ UNCHANGED <<state, features, bonus, log, runner, loop, handler, daemon, ops,
                   env, limited>>

-----------------------------------------------------------------------------
(* The runner loop.                                                        *)

\* Mutant: the orphan is not closed.
CleanupKeepsOrphan(l) ==
    /\ At(l, "cleanup")
    /\ \/ Current = {} /\ UNCHANGED <<features, handoff>>
       \/ \E i \in InProgress(features) :
             WriteFeatures(Requeue(features, features[i].id, LastWorker(features[i])))
    /\ Goto(l, "top")
    /\ UNCHANGED <<state, bonus, log, runner, handler, daemon, ops, env, limited>>

\* cleanupOrphanedWorker, when no worker is to be resumed.
Cleanup(l) ==
    /\ At(l, "cleanup")
    /\ Tell(Current, "close")
    /\ IF Current = {} THEN UNCHANGED <<features, handoff>>
       ELSE \E i \in InProgress(features) :
               WriteFeatures(Requeue(features, features[i].id,
                                     LastWorker(features[i])))
    /\ Goto(l, "top")
    /\ UNCHANGED <<state, bonus, log, runner, handler, note, ops, env, limited>>

\* The head of the loop stops it: paused, aborted, or not the runner's turn.
LoopStops(l) ==
    /\ At(l, "top")
    /\ \/ ~isRunning
       \/ ~Aborted /\ state \in {"planning", "paused", "orchestrator_turn"}
       \/ ~Aborted /\ state = "completed" /\ AllDone(features)
    /\ Goto(l, "exit")
    /\ UNCHANGED <<files, runner, handler, daemon, ops, env, limited>>

\* The loop pauses itself: this.pause() starts by clearing isRunning.
LoopAborts(l) ==
    /\ At(l, "top") /\ isRunning /\ Aborted
    /\ isRunning' = FALSE
    /\ Goto(l, "pauseLog")
    /\ UNCHANGED <<files, signal, aborted, handler, daemon, ops, env, limited>>

Proceeds(l) == At(l, "top") /\ isRunning /\ ~Aborted

\* 'completed' is not final while a feature is left.
LoopReopens(l) ==
    /\ Proceeds(l) /\ state = "completed" /\ ~AllDone(features)
    /\ Goto(l, "toRunning")
    /\ UNCHANGED <<files, runner, handler, daemon, ops, env, limited>>

LoopSetsRunning(l) ==
    /\ At(l, "toRunning")
    /\ state' = "running"
    /\ Goto(l, "top")
    /\ UNCHANGED <<features, bonus, log, handoff, runner, handler, daemon, ops, env,
                   limited>>

\* A pending feature above the in-progress one goes first.
Preempted(i) ==
    \E p \in NextPending(features), k \in FirstId(features, features[i].id) : p < k

\* The rest of the head: preempt, ignore or resume the paused worker, spawn a
\* worker for the next feature, or look for milestones to validate.
LoopDispatches(l) ==
    /\ Proceeds(l) /\ state = "running"
    /\ LET r == loop[l].resume
       IN \/ \E i \in InProgress(features) :
             LET last == LastWorker(features[i])
             IN /\ r # None
                /\ IF Preempted(i)
                   THEN loop' = [loop EXCEPT ![l].pc = "preempt",
                                             ![l].id = features[i].id,
                                             ![l].worker = last,
                                             ![l].resume = None]
                   ELSE IF last \notin {None, r}
                   THEN loop' = [loop EXCEPT ![l].resume = None]
                   ELSE loop' = [loop EXCEPT ![l].pc = "resume",
                                             ![l].worker = r,
                                             ![l].resume = None]
          \/ /\ r = None \/ InProgress(features) = {}
             /\ loop' = IF NextPending(features) # {}
                        THEN [loop EXCEPT ![l].pc = "spawn"]
                        ELSE [loop EXCEPT ![l].pc = "check",
                                          ![l].back = "recheck",
                                          ![l].todo = Milestones]
    /\ UNCHANGED <<files, runner, handler, daemon, ops, env, limited>>

\* Mutant: the paused feature stays in progress.
PreemptsKeepsFeature(l) ==
    /\ At(l, "preempt")
    /\ Goto(l, "top")
    /\ UNCHANGED <<files, runner, handler, daemon, ops, env, limited>>

Preempts(l) ==
    /\ At(l, "preempt")
    /\ WriteFeatures(Requeue(features, loop[l].id, loop[l].worker))
    /\ Goto(l, "top")
    /\ UNCHANGED <<state, bonus, log, runner, handler, daemon, ops, env, limited>>

-----------------------------------------------------------------------------
(* spawnWorker and resumeWorker up to the prompt.                          *)

\* The result goes back to runLoop with the milestones of the feature it names.
Return(l, out, ids) ==
    loop' = [loop EXCEPT ![l].pc = "post", ![l].out = out, ![l].back = "finish",
                         ![l].todo = {Milestone(id) : id \in ids \ {None}}]

\* Mutant: the limit is exceeded by one.
SpawnReadsOffByOne(l) ==
    /\ At(l, "spawn")
    /\ \E i \in NextPending(features) :
          loop' = [loop EXCEPT
            ![l].pc = IF Len(features[i].workers) > MaxAttempts + bonus[features[i].id]
                      THEN "exhausted" ELSE "spawnRpc",
            ![l].how = "spawn", ![l].id = features[i].id,
            ![l].snap = features[i].workers, ![l].worker = None]
    /\ UNCHANGED <<files, runner, handler, daemon, ops, env, limited>>

\* The next feature is read again, with its retry budget.
SpawnReads(l) ==
    /\ At(l, "spawn")
    /\ \/ /\ NextPending(features) = {}
          /\ Return(l, "return", {})
       \/ \E i \in NextPending(features) :
          loop' = [loop EXCEPT
            ![l].pc = IF Len(features[i].workers) >= MaxAttempts + bonus[features[i].id]
                      THEN "exhausted" ELSE "spawnRpc",
            ![l].how = "spawn",
            ![l].id = features[i].id,
            ![l].snap = features[i].workers,
            ![l].worker = None]
    /\ UNCHANGED <<files, runner, handler, daemon, ops, env, limited>>

\* pauseMissionForExhaustedFeature: the entries, then the state.
ExhaustedLogs(l) ==
    /\ At(l, "exhausted")
    /\ lastPause' = "retry_limit"
    /\ Goto(l, "exhaustedPause")
    /\ UNCHANGED <<state, features, bonus, validated, completed, usage402, handoff,
                   runner, handler, daemon, ops, env, limited>>

ExhaustedPauses(l) ==
    /\ At(l, "exhaustedPause")
    /\ state' = "paused"
    /\ Return(l, "paused", {loop[l].id})
    /\ UNCHANGED <<features, bonus, log, handoff, runner, handler, daemon, ops, env,
                   limited>>

Unborn == {w \in Workers : worker[w].phase = "unborn"}

SessionSpawned(l) ==
    /\ At(l, "spawnRpc")
    /\ \E w \in Unborn :
          /\ worker' = [worker EXCEPT ![w].phase = "ready"]
          /\ loop' = [loop EXCEPT ![l].pc = "mark", ![l].worker = w]
    /\ UNCHANGED <<files, runner, handler, note, ops, env, limited>>

\* Also what happens when the bounded set of sessions is used up.
SpawnFails(l) ==
    /\ At(l, "spawnRpc")
    /\ "rpc" \in Faults \/ Unborn = {}
    /\ Goto(l, "dispatchFailed")
    /\ UNCHANGED <<files, runner, handler, daemon, ops, env, limited>>

\* The feature is in progress before its worker is told about it; the list of
\* workers is the one read in SpawnReads with the new session at its end.
MarksInProgress(l) ==
    /\ At(l, "mark")
    /\ WriteFeatures(AssignFeature(features, loop[l].id,
                                   Append(loop[l].snap, loop[l].worker)))
    /\ loop' = [loop EXCEPT ![l].pc = "prompt", ![l].fail = "no", ![l].done = FALSE]
    /\ UNCHANGED <<state, bonus, log, runner, handler, daemon, ops, env, limited>>

\* loadSession comes after the requests that were sent before it; a session
\* that was closed starts again.
Loaded(session) ==
    [session EXCEPT
        !.told = "nothing",
        !.phase = IF @ = "closed" \/ session.told = "close" THEN "ready"
                  ELSE IF @ = "working" /\ session.told = "interrupt" THEN "idle"
                  ELSE @]

\* resumeWorker: the session is loaded again, whatever became of it.
ResumeLoads(l) ==
    /\ At(l, "resume")
    /\ \/ /\ InProgress(features) = {}
          /\ Return(l, "return", {})
          /\ UNCHANGED worker
       \/ \E i \in InProgress(features) :
          /\ worker[loop[l].worker].phase \notin {"unborn"} \cup Ending
          /\ worker' = [worker EXCEPT ![loop[l].worker] = Loaded(@)]
          /\ loop' = [loop EXCEPT ![l].pc = "prompt", ![l].how = "resume",
                                  ![l].id = features[i].id,
                                  ![l].fail = "no", ![l].done = FALSE]
    /\ UNCHANGED <<files, runner, handler, note, ops, env, limited>>

ResumeFails(l) ==
    /\ At(l, "resume")
    /\ "rpc" \in Faults \/ worker[loop[l].worker].phase = "unborn"
    /\ \E i \in InProgress(features) :
          loop' = [loop EXCEPT ![l].pc = "dispatchFailed", ![l].how = "resume",
                               ![l].id = features[i].id]
    /\ UNCHANGED <<files, runner, handler, daemon, ops, env, limited>>

\* addUserMessage; the report of the worker will name the feature of the prompt
\* unless it leaves the feature open.
PromptSent(l) ==
    LET w == loop[l].worker
    IN /\ At(l, "prompt")
       /\ worker[w].phase \in {"ready", "idle", "working", "done"}
       /\ worker' = [worker EXCEPT ![w].phase = "working", ![w].task = loop[l].id]
       /\ Goto(l, "waiting")
       /\ limited' = limited \ {w}
       /\ UNCHANGED <<files, runner, handler, note, ops, env>>

\* The request fails, although the session may have received the prompt.
PromptFails(l) ==
    /\ At(l, "prompt")
    /\ "rpc" \in Faults \/ worker[loop[l].worker].phase = "closed"
    /\ \/ UNCHANGED worker
       \/ /\ worker[loop[l].worker].phase \in {"ready", "idle", "done"}
          /\ worker' = [worker EXCEPT ![loop[l].worker].phase = "working",
                                      ![loop[l].worker].task = loop[l].id]
    /\ note' = [note EXCEPT ![l] = <<>>]
    /\ Goto(l, "dispatchFailed")
    /\ UNCHANGED <<files, runner, handler, ops, env, limited>>

\* The catch blocks: only spawnWorker looks at the abort signal, and it then
\* leaves the feature in progress.
DispatchFails(l) ==
    LET w == loop[l].worker
        spawned == loop[l].how = "spawn"
    IN /\ At(l, "dispatchFailed")
       /\ IF spawned /\ Aborted
          THEN UNCHANGED <<features, handoff, worker>>
          ELSE /\ WriteFeatures(Requeue(features, loop[l].id, w))
               /\ Tell({w}, "close")
       /\ Return(l, "return", IF spawned THEN {} ELSE {loop[l].id})
       /\ UNCHANGED <<state, bonus, log, runner, handler, note, ops, env, limited>>

-----------------------------------------------------------------------------
(* waitForWorkerCompletion.                                                *)

Finished(l) == loop[l].worker \in completed /\ loop[l].fail = "no"

\* Handling a notification that finds the worker's WorkerCompleted entry.
Completes(l) ==
    /\ Finished(l)
    /\ loop' = [loop EXCEPT ![l].done = TRUE]
    /\ Tell({loop[l].worker}, "close")
    /\ UNCHANGED handler

\* Mutant: every report of a session's end is taken for a crash.
HandlesAsCrash(l, pc) ==
    /\ handler' = [handler EXCEPT ![l] =
          [pc |-> "fail", worker |-> loop[l].worker, id |-> loop[l].id, live |-> TRUE]]
    /\ UNCHANGED <<loop, worker>>

Handles(l, pc) ==
    /\ handler' = [handler EXCEPT ![l] =
          [pc |-> pc, worker |-> loop[l].worker, id |-> loop[l].id, live |-> TRUE]]
    /\ UNCHANGED <<loop, worker>>

\* The handlers of the subscription, in the order the notifications arrive.
\* The flags of a failure in flight keep a second one out.  One handler of a loop
\* is in flight at a time: the one of an earlier wait ends first.
Notified(l) ==
    LET w == loop[l].worker
        quiet == handler[l].pc = "idle" /\ loop[l].fail = "no"
        Drops == UNCHANGED <<loop, worker, handler>>
    IN /\ At(l, "waiting")
       /\ note[l] # <<>>
       /\ handler[l].pc = "idle" \/ handler[l].live
       /\ note' = [note EXCEPT ![l] = Tail(@)]
       /\ CASE Head(note[l]) = "progress" ->
                  IF w \in usage402 /\ quiet THEN Handles(l, "log402") ELSE Drops
            [] Head(note[l]) = "completed" ->
                  IF Finished(l) THEN Completes(l) ELSE Drops
            [] Head(note[l]) = "exit" ->
                  IF Finished(l) THEN Completes(l)
                  ELSE IF loop[l].done \/ ~quiet THEN Drops
                  ELSE Handles(l, IF w \in usage402 THEN "log402" ELSE "fail")
       /\ UNCHANGED <<files, runner, ops, env, limited>>

\* triggerUnrecoverableUsage402Pause: the entry, then the state and the result.
Logs402(l) ==
    /\ up /\ handler[l].pc = "log402"
    /\ lastPause' = "usage402"
    /\ handler' = [handler EXCEPT ![l].pc = "state402"]
    /\ UNCHANGED <<state, features, bonus, validated, completed, usage402, handoff,
                   runner, loop, daemon, ops, env, limited>>

HandlerEnds(l, result) ==
    /\ handler' = [handler EXCEPT ![l] = NoHandler]
    /\ loop' = [loop EXCEPT ![l].fail = IF handler[l].live THEN result ELSE @]

\* Mutant: the waiter is not woken with a result.
Pauses402WithoutResult(l) ==
    /\ up /\ handler[l].pc = "state402"
    /\ state' = "paused"
    /\ Tell({handler[l].worker}, "close")
    /\ HandlerEnds(l, loop[l].fail)
    /\ UNCHANGED <<features, bonus, log, handoff, runner, note, ops, env, limited>>

Pauses402(l) ==
    /\ up /\ handler[l].pc = "state402"
    /\ state' = "paused"
    /\ Tell({handler[l].worker}, "close")
    /\ HandlerEnds(l, "paused")
    /\ UNCHANGED <<features, bonus, log, handoff, runner, note, ops, env, limited>>

\* handleDaemonWorkerFailure: the session is gone, its feature is requeued.
RequeuesFailed(l) ==
    /\ up /\ handler[l].pc = "fail"
    /\ WriteFeatures(Requeue(features, handler[l].id, handler[l].worker))
    /\ HandlerEnds(l, "requeued")
    /\ UNCHANGED <<state, bonus, log, runner, daemon, ops, env, limited>>

\* Mutant: the worker of a paused wait is not interrupted.
WaitEndsQuietly(l) ==
    /\ At(l, "waiting")
    /\ \/ (~isRunning \/ Aborted) /\ Return(l, "return", {})
       \/ isRunning /\ ~Aborted /\ loop[l].fail # "no" /\ Return(l, "return", {})
    /\ note' = [note EXCEPT ![l] = <<>>]
    /\ handler' = [handler EXCEPT ![l].live = FALSE]
    /\ UNCHANGED <<files, runner, worker, ops, env, limited>>

\* The wait loop looks at the pause before it looks at a result.
WaitEnds(l) ==
    LET w == loop[l].worker
    IN /\ At(l, "waiting")
       /\ IF ~isRunning \/ Aborted
          THEN Tell({w}, "interrupt") /\ Return(l, "return", {})
          ELSE /\ UNCHANGED worker
               /\ \/ /\ loop[l].fail # "no"
                     /\ Return(l, IF loop[l].fail = "paused" THEN "paused" ELSE "return",
                               {loop[l].id})
                  \/ /\ loop[l].fail = "no" /\ loop[l].done
                     /\ Return(l, IF Returns(worker[w].report) THEN "return"
                                  ELSE "success", {worker[w].task})
       /\ note' = [note EXCEPT ![l] = <<>>]
       /\ handler' = [handler EXCEPT ![l].live = FALSE]
       /\ UNCHANGED <<files, runner, ops, env, limited>>

-----------------------------------------------------------------------------
(* runLoop after a worker.                                                 *)

Posts(l) ==
    /\ At(l, "post")
    /\ isRunning' = (isRunning /\ ~Aborted)
    /\ Goto(l, IF ~Aborted THEN "check" ELSE IF isRunning THEN "pauseLog" ELSE "exit")
    /\ UNCHANGED <<files, signal, aborted, handler, daemon, ops, env, limited>>

\* A milestone is due: its features are done and it was not triggered before.
Due(l, m) ==
    /\ ImplementationComplete(features, m)
    /\ m \notin validated
    /\ loop[l].back = "recheck" => HasCompleted(features, m)

\* checkMilestoneCompletionAndInjectValidation up to its first write.
Checks(l) ==
    /\ At(l, "check")
    /\ \/ loop[l].todo = {} /\ Goto(l, loop[l].back)
       \/ \E m \in loop[l].todo :
             loop' = IF Due(l, m)
                     THEN [loop EXCEPT ![l].todo = {m} \cup @,
                                       ![l].pc = "insertUserTesting",
                                       ![l].id = UserTesting(m)]
                     ELSE [loop EXCEPT ![l].todo = @ \ {m}]
    /\ UNCHANGED <<files, runner, handler, daemon, ops, env, limited>>

\* The milestone under validation.
Validating(l) == Milestone(loop[l].id)

InsertsUserTesting(l) ==
    /\ At(l, "insertUserTesting")
    /\ WriteFeatures(IF SkipUserTesting THEN features
                     ELSE InsertFeatureAtTop(features, UserTesting(Validating(l))))
    /\ Goto(l, "insertScrutiny")
    /\ UNCHANGED <<state, bonus, log, runner, handler, daemon, ops, env, limited>>

InsertsScrutiny(l) ==
    /\ At(l, "insertScrutiny")
    /\ WriteFeatures(IF SkipScrutiny THEN features
                     ELSE InsertFeatureAtTop(features, Scrutiny(Validating(l))))
    /\ Goto(l, "markValidated")
    /\ UNCHANGED <<state, bonus, log, runner, handler, daemon, ops, env, limited>>

\* Mutant: no entry is written.
MarksNothing(l) ==
    /\ At(l, "markValidated")
    /\ loop' = [loop EXCEPT ![l].pc = "check", ![l].todo = @ \ {Validating(l)}]
    /\ UNCHANGED <<files, runner, handler, daemon, ops, env, limited>>

MarksValidated(l) ==
    /\ At(l, "markValidated")
    /\ validated' = validated \cup {Validating(l)}
    /\ loop' = [loop EXCEPT ![l].pc = "check", ![l].todo = @ \ {Validating(l)}]
    /\ UNCHANGED <<state, features, bonus, completed, usage402, lastPause, handoff,
                   runner, handler, daemon, ops, env, limited>>

\* Mutant: validators are not waited for.
FinishesUnvalidated(l) ==
    /\ At(l, "finish")
    /\ Goto(l, IF \A i \in DOMAIN features :
                     features[i].id \in Features => IsDone(features[i])
               THEN "toCompleted"
               ELSE IF loop[l].out = "success" THEN "top" ELSE "toOrchestrator")
    /\ UNCHANGED <<files, runner, handler, daemon, ops, env, limited>>

\* Mutant: a pause already written is overwritten.
FinishesOverPause(l) ==
    /\ At(l, "finish")
    /\ Goto(l, CASE AllDone(features) -> "toCompleted"
                 [] ~AllDone(features) /\ loop[l].out # "success" -> "toOrchestrator"
                 [] ~AllDone(features) /\ loop[l].out = "success" -> "top")
    /\ UNCHANGED <<files, runner, handler, daemon, ops, env, limited>>

\* All features done, else the result decides; a pause already written stands.
Finishes(l) ==
    /\ At(l, "finish")
    /\ Goto(l, CASE AllDone(features) -> "toCompleted"
                 [] ~AllDone(features) /\ loop[l].out = "paused" -> "exit"
                 [] ~AllDone(features) /\ loop[l].out = "return" -> "toOrchestrator"
                 [] ~AllDone(features) /\ loop[l].out = "success" -> "top")
    /\ UNCHANGED <<files, runner, handler, daemon, ops, env, limited>>

Rechecks(l) ==
    /\ At(l, "recheck")
    /\ Goto(l, IF NextPending(features) # {} THEN "top"
               ELSE IF AllDone(features) THEN "toCompleted" ELSE "toOrchestrator")
    /\ UNCHANGED <<files, runner, handler, daemon, ops, env, limited>>

LoopEndsWith(l, pc, st) ==
    /\ At(l, pc)
    /\ state' = st
    /\ Goto(l, "exit")
    /\ UNCHANGED <<features, bonus, log, handoff, runner, handler, daemon, ops, env,
                   limited>>

SetsCompleted(l) == LoopEndsWith(l, "toCompleted", "completed")
SetsOrchestratorTurn(l) == LoopEndsWith(l, "toOrchestrator", "orchestrator_turn")

\* this.pause() of a loop whose signal was aborted while isRunning was set.
LoopPauseLogs(l) ==
    /\ At(l, "pauseLog")
    /\ Tell(Current, "interrupt")
    /\ lastPause' = "user"
    /\ Goto(l, "pauseWrite")
    /\ UNCHANGED <<state, features, bonus, validated, completed, usage402, handoff,
                   runner, handler, note, ops, env, limited>>

LoopPauses(l) == LoopEndsWith(l, "pauseWrite", "paused")

\* start() returns; its finally block clears the fields for every loop.
Exits(l) ==
    /\ At(l, "exit")
    /\ isRunning' = FALSE
    /\ signal' = None
    /\ loop' = [loop EXCEPT ![l] = Idle]
    /\ tool' = IF tool.loop = l THEN NoTool ELSE tool
    /\ UNCHANGED <<files, aborted, handler, daemon, pausing, killing, env, limited>>

-----------------------------------------------------------------------------
(* The worker sessions.                                                    *)

\* EndFeatureRun in the worker's process: the feature's status first.  The code
\* takes any feature the worker names, a completed one too, and a second call
\* as well.  Assumed of the worker agent: it names its own feature or the one
\* in progress, and reports once.
Ends(w, id, report) ==
    /\ worker[w].phase = "working"
    /\ w \notin completed
    /\ id = worker[w].task \/ \E i \in InProgress(features) : features[i].id = id
    /\ WriteFeatures(UpdateFeature(features, id,
                        IF Succeeds(report) THEN "completed" ELSE "pending"))
    /\ worker' = [worker EXCEPT
          ![w].phase = IF Succeeds(report) THEN "moving" ELSE "returning",
          ![w].task = id, ![w].report = report]
    /\ UNCHANGED <<state, bonus, log, runner, loop, handler, note, ops, env, limited>>

MovesToBottom(w) ==
    /\ worker[w].phase = "moving"
    /\ WriteFeatures(MoveFeatureToBottom(features, worker[w].task))
    /\ worker' = [worker EXCEPT ![w].phase = IF Returns(worker[w].report)
                                             THEN "returning" ELSE "logging"]
    /\ UNCHANGED <<state, bonus, log, runner, loop, handler, note, ops, env, limited>>

ReturnsToOrchestrator(w) ==
    /\ worker[w].phase = "returning"
    /\ state' = "orchestrator_turn"
    /\ worker' = [worker EXCEPT ![w].phase = "logging"]
    /\ UNCHANGED <<features, bonus, log, handoff, runner, loop, handler, note, ops,
                   env, limited>>

\* The WorkerCompleted entry comes last; appending it emits two notifications.
LogsCompleted(w) ==
    /\ worker[w].phase = "logging"
    /\ completed' = completed \cup {w}
    /\ handoff' = IF HasItems(worker[w].report) THEN "open" ELSE "none"
    /\ worker' = [worker EXCEPT ![w].phase = "done"]
    /\ Emit(w, <<"progress", "completed">>)
    /\ UNCHANGED <<state, features, bonus, validated, usage402, lastPause, runner,
                   loop, handler, ops, env, limited>>

\* signalUnrecoverable402ToMission; the turn of the worker ends.
Signals402(w) ==
    /\ "usage402" \in Faults
    /\ worker[w].phase = "working"
    /\ usage402' = usage402 \cup {w}
    /\ limited' = limited \cup {w}
    /\ worker' = [worker EXCEPT ![w].phase = "idle"]
    /\ Emit(w, <<"progress">>)
    /\ UNCHANGED <<state, features, bonus, validated, completed, lastPause, handoff,
                   runner, loop, handler, ops, env>>

\* The process dies; the daemon reports it unless it was asked to close it.
WorkerExits(w) ==
    /\ "exit" \in Faults
    /\ worker[w].phase \in {"ready", "working"} \cup Ending
    /\ worker' = [worker EXCEPT ![w].phase = "closed"]
    /\ Emit(w, IF worker[w].told = "close" THEN <<>> ELSE <<"exit">>)
    /\ UNCHANGED <<files, runner, loop, handler, ops, env, limited>>

\* A session without a turn exits by itself or is cleaned up for inactivity.
SessionExpires(w) ==
    /\ worker[w].phase \in {"idle", "done"}
    /\ worker' = [worker EXCEPT ![w].phase = "closed"]
    /\ Emit(w, IF worker[w].told = "close" THEN <<>> ELSE <<"exit">>)
    /\ UNCHANGED <<files, runner, loop, handler, ops, env, limited>>

\* The daemon carries a request out.  EndFeatureRun is not interrupted.
Obeys(w) ==
    /\ worker[w].phase # "unborn"
    /\ \/ /\ worker[w].told = "interrupt"
          /\ worker[w].phase \notin Ending
          /\ worker' = [worker EXCEPT ![w].told = "nothing",
                            ![w].phase = IF @ = "working" THEN "idle" ELSE @]
       \/ /\ worker[w].told = "close"
          /\ worker' = [worker EXCEPT ![w].told = "nothing", ![w].phase = "closed"]
    /\ UNCHANGED <<files, runner, loop, handler, note, ops, env, limited>>

-----------------------------------------------------------------------------
(* The process of the orchestrator.                                        *)

Crash ==
    /\ "crash" \in Faults
    /\ up /\ Intervene
    /\ up' = FALSE
    /\ isRunning' = FALSE /\ signal' = None /\ aborted' = {}
    /\ loop' = [l \in Loops |-> Idle]
    /\ handler' = [l \in Loops |-> NoHandler]
    /\ note' = [l \in Loops |-> <<>>]
    /\ tool' = NoTool /\ pausing' = "idle" /\ killing' = None
    /\ UNCHANGED <<files, worker, limited>>

\* Mutant: the state is not reconciled.
ReloadKeepsState ==
    /\ ~up
    /\ up' = TRUE
    /\ UNCHANGED <<files, runner, loop, handler, daemon, ops, events, limited>>

\* The session is loaded again: reconcileMissionStateAfterSessionLoad.
Reload ==
    /\ ~up
    /\ up' = TRUE
    /\ IF state \in {"running", "orchestrator_turn"}
       THEN state' = "paused" /\ lastPause' = "user"
       ELSE UNCHANGED <<state, lastPause>>
    /\ UNCHANGED <<features, bonus, validated, completed, usage402, handoff, runner,
                   loop, handler, daemon, ops, events, limited>>

-----------------------------------------------------------------------------
Init ==
    /\ state = "planning"
    /\ features = [i \in DOMAIN Planned |-> NewFeature(Planned[i])]
    /\ bonus = [id \in Ids |-> 0]
    /\ validated = {} /\ completed = {} /\ usage402 = {}
    /\ lastPause = "none" /\ handoff = "none"
    /\ isRunning = FALSE /\ signal = None /\ aborted = {}
    /\ loop = [l \in Loops |-> Idle]
    /\ handler = [l \in Loops |-> NoHandler]
    /\ worker = [w \in Workers |-> [phase |-> "unborn", task |-> None,
                                    report |-> None, told |-> "nothing"]]
    /\ note = [l \in Loops |-> <<>>]
    /\ tool = NoTool /\ pausing = "idle" /\ killing = None
    /\ up = TRUE /\ events = 0
    /\ limited = {}

LoopStep(l) ==
    \/ ToolLaunches(l)
    \/ Cleanup(l) \/ LoopStops(l) \/ LoopAborts(l) \/ LoopReopens(l)
    \/ LoopSetsRunning(l) \/ LoopDispatches(l) \/ Preempts(l)
    \/ SpawnReads(l) \/ ExhaustedLogs(l) \/ ExhaustedPauses(l)
    \/ SessionSpawned(l) \/ SpawnFails(l) \/ MarksInProgress(l)
    \/ ResumeLoads(l) \/ ResumeFails(l) \/ PromptSent(l) \/ PromptFails(l)
    \/ DispatchFails(l) \/ Notified(l) \/ WaitEnds(l)
    \/ Posts(l) \/ Checks(l) \/ InsertsUserTesting(l) \/ InsertsScrutiny(l)
    \/ MarksValidated(l) \/ Finishes(l) \/ Rechecks(l) \/ SetsCompleted(l)
    \/ SetsOrchestratorTurn(l) \/ LoopPauseLogs(l) \/ LoopPauses(l) \/ Exits(l)

HandlerStep(l) == Logs402(l) \/ Pauses402(l) \/ RequeuesFailed(l)

ToolStep == ToolGrants \/ ToolSetsRunning

OpStep == PauseLogs \/ PauseWrites \/ PauseChecks \/ PauseOverwrites \/ KillInterrupts

WorkerStep(w) ==
    \/ \E id \in Ids, report \in Reports : Ends(w, id, report)
    \/ MovesToBottom(w) \/ ReturnsToOrchestrator(w) \/ LogsCompleted(w)
    \/ Signals402(w) \/ WorkerExits(w) \/ SessionExpires(w) \/ Obeys(w)

Calls ==
    \/ \E explicit \in (IF ResumeAny THEN Workers ELSE {}) \cup {None},
          restart \in BOOLEAN : StartMissionRun(explicit, restart)
    \/ Abort \/ UserPauses
    \/ \E w \in Workers : UserKills(w)
    \/ \E i \in DOMAIN features : OrchestratorCancels(i)
    \/ \E id \in Extra : OrchestratorAdds(id)
    \/ OrchestratorDismisses

Next ==
    \/ \E l \in Loops : LoopStep(l) \/ HandlerStep(l)
    \/ ToolStep \/ OpStep
    \/ \E w \in Workers : WorkerStep(w)
    \/ Calls \/ Crash \/ Reload

\* Awaits end: file operations and requests complete or fail, and the daemon's
\* inactivity timeout ends a session that does nothing more.
Fairness ==
    /\ \A l \in Loops : WF_vars(LoopStep(l)) /\ WF_vars(HandlerStep(l))
    /\ WF_vars(ToolStep) /\ WF_vars(OpStep) /\ WF_vars(Reload)
    /\ \A w \in Workers : WF_vars(WorkerStep(w))

Spec == Init /\ [][Next]_vars /\ Fairness

-----------------------------------------------------------------------------
(* Properties.                                                             *)

\* No feature is given more workers than its retry budget: pauses, resumes,
\* crashes, kills and the stale list of workers spawnWorker writes included
\* (getEffectiveMaxFeatureAttempts, pauseMissionForExhaustedFeature).
AttemptsWithinBudget ==
    \A i \in DOMAIN features :
        Len(features[i].workers) <= MaxAttempts + bonus[features[i].id]

\* At most one worker session works without having been told to stop: a worker
\* is interrupted, closed or ended before another feature is dispatched.
OneActiveWorker ==
    \A v, w \in Workers :
        /\ worker[v].phase = "working" /\ worker[v].told = "nothing"
        /\ worker[w].phase = "working" /\ worker[w].told = "nothing"
        => v = w

\* The validators of a milestone are injected at most once.
ValidatorsOnce ==
    \A i, j \in DOMAIN features :
        features[i].id \in ValidatorIds /\ features[i].id = features[j].id => i = j

\* The runner marks the mission completed only when every feature is done by
\* then, although workers and the orchestrator write the file as well.
CompletedIsDone ==
    [][state # "completed" /\ state' = "completed" => AllDone(features)]_vars

Runs(f, id) == \E i \in DOMAIN f : f[i].id = id /\ f[i].status = "in_progress"

\* User testing of a milestone starts only after its scrutiny is done: the two
\* validators are inserted so that failures and retries keep their order.
ScrutinyFirst ==
    [][\A m \in Milestones :
         ~Runs(features, UserTesting(m)) /\ Runs(features', UserTesting(m)) =>
            SkipScrutiny \/ \E i \in DOMAIN features :
                features[i].id = Scrutiny(m) /\ IsDone(features[i])]_vars

HasCompletedId(f, id) ==
    \E i \in DOMAIN f : f[i].id = id /\ f[i].status = "completed"

\* Work reported as completed stays so: no requeue, retry or failure handler of
\* the runner takes a feature back that its worker finished.  (A worker that
\* names another feature, or reports twice, could: see Ends.)
CompletedStays ==
    [][\A id \in Ids : HasCompletedId(features, id) => HasCompletedId(features', id)]_vars

\* A worker that works and was not told to stop is awaited by a runner loop.
NoUnwatchedWorker ==
    \A w \in Workers :
        worker[w].phase = "working" /\ worker[w].told = "nothing" =>
            \E l \in Loops : loop[l].worker = w
                             /\ loop[l].pc \in {"prompt", "waiting", "dispatchFailed"}

\* state.json says 'running' only while something runs that will change it: a
\* start call, a runner loop or a pause in flight.
RunningIsRun ==
    up /\ state = "running" =>
        \/ tool.pc \notin {"idle", "waiting"}
        \/ \E l \in Loops : loop[l].pc # "idle"
        \/ pausing # "idle"

\* One feature is in progress at a time, and while the runner waits for a worker it
\* is that worker's.
OneInProgress ==
    /\ \A i, j \in DOMAIN features :
           features[i].status = "in_progress" /\ features[j].status = "in_progress"
           => i = j
    /\ \A l \in Loops : up /\ loop[l].pc = "waiting" =>
           \A i \in DOMAIN features : features[i].status = "in_progress" =>
               LastWorker(features[i]) = loop[l].worker

\* A pause for an exhausted retry budget lasts until start_mission_run: the loop
\* that made it does not hand the mission to the orchestrator, and no worker that
\* is still about does (missionPaused in runLoop).
AutoPauseStands ==
    [][state = "paused" /\ state' # "paused" => tool.pc = "run" \/ state' = "completed"]_vars

\* A worker that hit the usage limit is never treated as crashed: its feature is
\* kept for it, whichever of its notifications is handled first and however late
\* (hasUnrecoverableUsage402Signal before the requeue).
LimitPauses ==
    [][\A l \in Loops : handler[l].pc = "idle" /\ handler'[l].pc = "fail" =>
         handler'[l].worker \notin limited]_vars

\* A call of start_mission_run returns: every wait of the runner for a worker
\* ends, whatever becomes of the worker and however often features are retried.
RunEnds == (tool.pc = "waiting") ~> (tool.pc # "waiting")
=============================================================================
