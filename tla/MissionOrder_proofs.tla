------------------------- MODULE MissionOrder_proofs -------------------------
(***************************************************************************)
(* What the order of a mission's steps guarantees: theorems about          *)
(* MissionRun that hold for every plan, every number of workers, of        *)
(* attempts and of loops, and every bound on the interventions.            *)
(*                                                                         *)
(* Each needs some faults to be absent; the runs show the counterexamples  *)
(* that those faults give.  From the weakest hypothesis to the strongest:  *)
(*                                                                         *)
(*   none      LimitAlwaysPauses                                           *)
(*   NoCutOff  no call of start_mission_run is cut off, so at most one     *)
(*             loop is live: RunningIsARun                                 *)
(*   and no crash: NoWorkerUnwatched, OneWorkerActive, and with plain ids  *)
(*             in the plan ValidatorsComeOnce                              *)
(*   Calm      and nobody pauses, and every request is answered:           *)
(*             CompletionIsDone, and with a plan whose ids are distinct    *)
(*             CompletionsStay; and no usage limit: PausesStand            *)
(*                                                                         *)
(* The inductive invariants extend one another: IInv of MissionRun_proofs, *)
(* SInv (CallInv: who is running; RunInv: what each place in the loop      *)
(* knows of state.json), then WatchInv (who waits for which worker),       *)
(* ValidationInv (the milestone being validated), BusyInv (which worker    *)
(* may still write), TaskInv and DoneInv (what a loop read or wrote of     *)
(* features.json is still there), and PausedInv (who may still touch a     *)
(* state that says paused).                                                *)
(***************************************************************************)
EXTENDS MissionRun_proofs

USE DEF files, log, runner, daemon, ops, env

\* No call of start_mission_run is cut off: it returns when its loop ends.
NoCutOff == Faults \cap {"abort", "kill"} = {}

-----------------------------------------------------------------------------
(* The one live loop, and what it knows of state.json.                     *)

\* Then a loop belongs to the call that waits for it, and the calls to each other.
CallInv ==
    /\ aborted = {} /\ killing = None
    /\ \A l \in Loops : loop[l].pc # "idle" =>
          up /\ tool.pc = "waiting" /\ tool.loop = l
    /\ isRunning => \E l \in Loops : loop[l].pc # "idle"

\* A loop with record r while state.json says st and the pause is at p: only its
\* exit sees 'completed', and whoever pauses it has written the state by then.
LoopRuns(r, st, p) ==
    /\ r.pc \notin {"toRunning", "pauseLog", "pauseWrite"}
    /\ r.pc \notin {"idle", "exit"} => st # "completed"
    /\ r.pc # "idle" /\ r.out = "paused" => st # "running"
    /\ r.pc # "idle" /\ r.fail = "paused" => st # "running"
    /\ r.pc = "exit" /\ st = "running" => p # "idle"

RunInv ==
    /\ \A l \in Loops : LoopRuns(loop[l], state, pausing)
    /\ up /\ state = "running" /\ ~isRunning =>
          pausing # "idle" \/ tool.pc \in {"grant", "run", "launch"}
    /\ tool.pc = "launch" => state # "completed"

SInv == IInv /\ CallInv /\ RunInv

LEMMA GotoFields ==
  ASSUME IInv, NEW l \in Loops, NEW pc, Goto(l, pc)
  PROVE  /\ \A k \in Loops \ {l} : loop'[k] = loop[k]
         /\ loop'[l].pc = pc
         /\ loop'[l].out = loop[l].out /\ loop'[l].fail = loop[l].fail
         /\ loop'[l].back = loop[l].back /\ loop'[l].id = loop[l].id
         /\ loop'[l].worker = loop[l].worker /\ loop'[l].done = loop[l].done
  BY DEF IInv, LoopsInv, LoopOK, LoopRecord, Goto

LEMMA ReturnFields ==
  ASSUME IInv, NEW l \in Loops, NEW out, NEW ids, Return(l, out, ids)
  PROVE  /\ \A k \in Loops \ {l} : loop'[k] = loop[k]
         /\ loop'[l].pc = "post" /\ loop'[l].out = out
         /\ loop'[l].fail = loop[l].fail
         /\ loop'[l].back = "finish" /\ loop'[l].id = loop[l].id
         /\ loop'[l].worker = loop[l].worker /\ loop'[l].done = loop[l].done
  BY DEF IInv, LoopsInv, LoopOK, LoopRecord, Return

\* The loops stay where they are or move, none starts or ends.
LEMMA RunKept ==
  ASSUME CallInv, RunInv,
         \A k \in Loops : loop'[k].pc = "idle" <=> loop[k].pc = "idle",
         \A k \in Loops : LoopRuns(loop'[k], state', pausing'),
         state' = "running" => state = "running" /\ (pausing # "idle" => pausing' # "idle"),
         state' = "completed" => state = "completed" \/ tool.pc # "launch",
         UNCHANGED <<runner, tool, killing, up>>
  PROVE  CallInv' /\ RunInv'
  BY DEF CallInv, RunInv

\* Nothing the two invariants speak of changes.
LEMMA RunUntouched ==
  ASSUME CallInv, RunInv, UNCHANGED <<state, loop, runner, tool, pausing, killing, up>>
  PROVE  CallInv' /\ RunInv'
  BY DEF CallInv, RunInv

\* One loop moves: the others are idle.
LEMMA RunMoves ==
  ASSUME CallInv, RunInv, NEW l \in Loops,
         \A k \in Loops \ {l} : loop'[k] = loop[k],
         loop[l].pc # "idle", loop'[l].pc # "idle",
         LoopRuns(loop'[l], state', pausing),
         state' = "running" => state = "running",
         UNCHANGED <<runner, ops, up>>
  PROVE  CallInv' /\ RunInv'
  <1>1. \A k \in Loops \ {l} : loop[k].pc = "idle"
    BY DEF CallInv
  <1>2. \A k \in Loops : LoopRuns(loop'[k], state', pausing')
    BY <1>1 DEF LoopRuns
  <1>3. \A k \in Loops : loop'[k].pc = "idle" <=> loop[k].pc = "idle"
    BY <1>1
  <1>4. tool.pc = "waiting"
    BY DEF CallInv
  <1> QED BY <1>2, <1>3, <1>4, RunKept

\* One loop gets another record.
LEMMA RecordSet ==
  ASSUME IInv, NEW l \in Loops, NEW q, loop' = [loop EXCEPT ![l] = q]
  PROVE  (\A k \in Loops \ {l} : loop'[k] = loop[k]) /\ loop'[l] = q
  BY DEF IInv, LoopsInv

LEMMA Record == IInv => \A l \in Loops : loop[l] \in LoopRecord
  BY DEF IInv, LoopsInv, LoopOK

LEMMA DispatchEffect ==
  ASSUME IInv, NEW l \in Loops, LoopDispatches(l)
  PROVE  /\ \A k \in Loops \ {l} : loop'[k] = loop[k]
         /\ loop'[l].pc \in {"preempt", "top", "resume", "spawn", "check"}
         /\ loop'[l].pc = "check" => loop'[l].back = "recheck"
         /\ loop'[l].out = loop[l].out /\ loop'[l].fail = loop[l].fail
  <1> DEFINE r == loop[l]
  <1>1. r \in LoopRecord /\ r.pc = "top"
    BY Record DEF LoopDispatches, Proceeds, At
  <1>2. \/ \E id, w : loop' = [loop EXCEPT ![l].pc = "preempt", ![l].id = id,
                                          ![l].worker = w, ![l].resume = None]
        \/ loop' = [loop EXCEPT ![l].resume = None]
        \/ \E w : loop' = [loop EXCEPT ![l].pc = "resume", ![l].worker = w,
                                      ![l].resume = None]
        \/ loop' = [loop EXCEPT ![l].pc = "spawn"]
        \/ loop' = [loop EXCEPT ![l].pc = "check", ![l].back = "recheck",
                               ![l].todo = Milestones]
    BY ZenonT(60) DEF LoopDispatches
  <1>3. ASSUME NEW id, NEW w,
               loop' = [loop EXCEPT ![l].pc = "preempt", ![l].id = id,
                                    ![l].worker = w, ![l].resume = None]
        PROVE  /\ \A k \in Loops \ {l} : loop'[k] = loop[k]
               /\ loop'[l].pc = "preempt"
               /\ loop'[l].out = r.out /\ loop'[l].fail = r.fail
    <2> DEFINE q == [r EXCEPT !.pc = "preempt", !.id = id, !.worker = w, !.resume = None]
    <2>1. loop' = [loop EXCEPT ![l] = q]
      BY <1>3
    <2> HIDE DEF r
    <2>2. q.pc = "preempt" /\ q.out = r.out /\ q.fail = r.fail
      BY <1>1 DEF LoopRecord
    <2> HIDE DEF q
    <2> QED BY <2>1, <2>2, RecordSet
  <1>4. ASSUME NEW w, loop' = [loop EXCEPT ![l].pc = "resume", ![l].worker = w,
                                           ![l].resume = None]
        PROVE  /\ \A k \in Loops \ {l} : loop'[k] = loop[k]
               /\ loop'[l].pc = "resume"
               /\ loop'[l].out = r.out /\ loop'[l].fail = r.fail
    <2> DEFINE q == [r EXCEPT !.pc = "resume", !.worker = w, !.resume = None]
    <2>1. loop' = [loop EXCEPT ![l] = q]
      BY <1>4
    <2> HIDE DEF r
    <2>2. q.pc = "resume" /\ q.out = r.out /\ q.fail = r.fail
      BY <1>1 DEF LoopRecord
    <2> HIDE DEF q
    <2> QED BY <2>1, <2>2, RecordSet
  <1>5. ASSUME loop' = [loop EXCEPT ![l].resume = None]
        PROVE  /\ \A k \in Loops \ {l} : loop'[k] = loop[k]
               /\ loop'[l].pc = "top"
               /\ loop'[l].out = r.out /\ loop'[l].fail = r.fail
    <2> DEFINE q == [r EXCEPT !.resume = None]
    <2>1. loop' = [loop EXCEPT ![l] = q]
      BY <1>5
    <2> HIDE DEF r
    <2>2. q.pc = "top" /\ q.out = r.out /\ q.fail = r.fail
      BY <1>1 DEF LoopRecord
    <2> HIDE DEF q
    <2> QED BY <2>1, <2>2, RecordSet
  <1>6. ASSUME loop' = [loop EXCEPT ![l].pc = "check", ![l].back = "recheck",
                                    ![l].todo = Milestones]
        PROVE  /\ \A k \in Loops \ {l} : loop'[k] = loop[k]
               /\ loop'[l].pc = "check" /\ loop'[l].back = "recheck"
               /\ loop'[l].out = r.out /\ loop'[l].fail = r.fail
    <2> DEFINE q == [r EXCEPT !.pc = "check", !.back = "recheck", !.todo = Milestones]
    <2>1. loop' = [loop EXCEPT ![l] = q]
      BY <1>6
    <2> HIDE DEF r
    <2>2. q.pc = "check" /\ q.back = "recheck" /\ q.out = r.out /\ q.fail = r.fail
      BY <1>1 DEF LoopRecord
    <2> HIDE DEF q
    <2> QED BY <2>1, <2>2, RecordSet
  <1>7. ASSUME loop' = [loop EXCEPT ![l].pc = "spawn"]
        PROVE  /\ \A k \in Loops \ {l} : loop'[k] = loop[k]
               /\ loop'[l].pc = "spawn"
               /\ loop'[l].out = r.out /\ loop'[l].fail = r.fail
    BY <1>7, GotoFields DEF Goto
  <1> QED BY <1>2, <1>3, <1>4, <1>5, <1>6, <1>7

\* The next feature is spawned for, is exhausted, or is gone.
LEMMA SpawnReadsEffect ==
  ASSUME IInv, NEW l \in Loops, SpawnReads(l)
  PROVE  /\ \A k \in Loops \ {l} : loop'[k] = loop[k]
         /\ \/ loop'[l].pc = "post" /\ loop'[l].out = "return"
            \/ /\ loop'[l].pc \in {"exhausted", "spawnRpc"}
               /\ loop'[l].out = loop[l].out
               /\ \E i \in NextPending(features) : loop'[l].id = features[i].id
         /\ loop'[l].fail = loop[l].fail
  <1> DEFINE r == loop[l]
  <1>1. r \in LoopRecord
    BY Record
  <1>2. CASE Return(l, "return", {})
    BY <1>2, ReturnFields
  <1>3. ASSUME NEW i \in NextPending(features), NEW pc \in {"exhausted", "spawnRpc"},
               loop' = [loop EXCEPT ![l].pc = pc, ![l].how = "spawn",
                            ![l].id = features[i].id, ![l].snap = features[i].workers,
                            ![l].worker = None]
        PROVE  /\ \A k \in Loops \ {l} : loop'[k] = loop[k]
               /\ loop'[l].pc = pc /\ loop'[l].out = r.out /\ loop'[l].fail = r.fail
               /\ loop'[l].id = features[i].id
    <2> DEFINE id == features[i].id
               snap == features[i].workers
               q == [r EXCEPT !.pc = pc, !.how = "spawn", !.id = id, !.snap = snap,
                              !.worker = None]
    <2>1. loop' = [loop EXCEPT ![l] = q]
      BY <1>3
    <2> HIDE DEF id, snap, r
    <2>2. q.pc = pc /\ q.out = r.out /\ q.fail = r.fail /\ q.id = id
      BY <1>1 DEF LoopRecord
    <2> HIDE DEF q
    <2> QED BY <2>1, <2>2, RecordSet DEF id
  <1>4. \/ Return(l, "return", {})
        \/ \E i \in NextPending(features), pc \in {"exhausted", "spawnRpc"} :
              loop' = [loop EXCEPT ![l].pc = pc, ![l].how = "spawn",
                            ![l].id = features[i].id, ![l].snap = features[i].workers,
                            ![l].worker = None]
    BY DEF SpawnReads
  <1> QED BY <1>2, <1>3, <1>4

LEMMA ChecksEffect ==
  ASSUME IInv, NEW l \in Loops, Checks(l)
  PROVE  /\ \A k \in Loops \ {l} : loop'[k] = loop[k]
         /\ \/ loop'[l].pc = loop[l].back
            \/ loop'[l].pc = "check"
            \/ /\ loop'[l].pc = "insertUserTesting"
               /\ \E m \in Milestones : Due(l, m) /\ loop'[l].id = UserTesting(m)
         /\ loop'[l].out = loop[l].out /\ loop'[l].fail = loop[l].fail
         /\ loop'[l].back = loop[l].back
  <1> DEFINE r == loop[l]
  <1>1. r \in LoopRecord /\ r.pc = "check" /\ r.todo \subseteq Milestones
    BY Record DEF Checks, At, LoopRecord
  <1>2. CASE Goto(l, r.back)
    BY <1>1, <1>2, GotoFields
  <1>3. ASSUME NEW m \in r.todo, Due(l, m),
               loop' = [loop EXCEPT ![l].todo = {m} \cup @,
                                    ![l].pc = "insertUserTesting",
                                    ![l].id = UserTesting(m)]
        PROVE  /\ \A k \in Loops \ {l} : loop'[k] = loop[k]
               /\ loop'[l].pc = "insertUserTesting" /\ loop'[l].id = UserTesting(m)
               /\ loop'[l].out = r.out /\ loop'[l].fail = r.fail
               /\ loop'[l].back = r.back
    <2> DEFINE T == {m} \cup r.todo
               id == UserTesting(m)
               q == [r EXCEPT !.todo = T, !.pc = "insertUserTesting", !.id = id]
    <2>1. loop' = [loop EXCEPT ![l] = q]
      BY <1>3
    <2> HIDE DEF id, T, r
    <2>2. q.pc = "insertUserTesting" /\ q.out = r.out /\ q.fail = r.fail /\ q.id = id
          /\ q.back = r.back
      BY <1>1 DEF LoopRecord
    <2> HIDE DEF q
    <2> QED BY <2>1, <2>2, RecordSet DEF id
  <1>4. ASSUME NEW m \in r.todo, loop' = [loop EXCEPT ![l].todo = @ \ {m}]
        PROVE  /\ \A k \in Loops \ {l} : loop'[k] = loop[k]
               /\ loop'[l].pc = "check" /\ loop'[l].back = r.back
               /\ loop'[l].out = r.out /\ loop'[l].fail = r.fail
    <2> DEFINE T == r.todo \ {m}
               q == [r EXCEPT !.todo = T]
    <2>1. loop' = [loop EXCEPT ![l] = q]
      BY <1>4
    <2> HIDE DEF T, r
    <2>2. q.pc = r.pc /\ q.out = r.out /\ q.fail = r.fail /\ q.back = r.back
      BY <1>1 DEF LoopRecord
    <2> HIDE DEF q
    <2> QED BY <1>1, <2>1, <2>2, RecordSet DEF r
  <1>5. \/ Goto(l, r.back)
        \/ \E m \in r.todo : /\ Due(l, m)
                             /\ loop' = [loop EXCEPT ![l].todo = {m} \cup @,
                                            ![l].pc = "insertUserTesting",
                                            ![l].id = UserTesting(m)]
        \/ \E m \in r.todo : loop' = [loop EXCEPT ![l].todo = @ \ {m}]
    BY DEF Checks
  <1> QED BY <1>1, <1>2, <1>3, <1>4, <1>5

LEMMA SpawnedEffect ==
  ASSUME IInv, NEW l \in Loops, SessionSpawned(l)
  PROVE  /\ \A k \in Loops \ {l} : loop'[k] = loop[k]
         /\ loop'[l].pc = "mark" /\ loop'[l].out = loop[l].out
         /\ loop'[l].fail = loop[l].fail /\ loop'[l].id = loop[l].id
         /\ loop'[l].worker \in Unborn
         /\ worker' = [worker EXCEPT ![loop'[l].worker].phase = "ready"]
  <1> DEFINE r == loop[l]
  <1>1. r \in LoopRecord
    BY Record
  <1>2. PICK w \in Unborn : /\ worker' = [worker EXCEPT ![w].phase = "ready"]
                            /\ loop' = [loop EXCEPT ![l].pc = "mark", ![l].worker = w]
    BY DEF SessionSpawned
  <1> DEFINE q == [r EXCEPT !.pc = "mark", !.worker = w]
  <1>3. loop' = [loop EXCEPT ![l] = q]
    BY <1>2
  <1> HIDE DEF r
  <1>4. q.pc = "mark" /\ q.out = r.out /\ q.fail = r.fail /\ q.id = r.id /\ q.worker = w
    BY <1>1 DEF LoopRecord
  <1> HIDE DEF q
  <1>5. loop'[l] = q /\ \A k \in Loops \ {l} : loop'[k] = loop[k]
    BY <1>3, RecordSet
  <1> QED BY <1>2, <1>4, <1>5 DEF r

\* Only the new session changes.
LEMMA SpawnedWorker ==
  ASSUME IInv, NEW l \in Loops, SessionSpawned(l)
  PROVE  \A w \in Workers : worker'[w] = worker[w] \/ worker'[w].phase = "ready"
  <1>1. PICK v \in Unborn : worker' = [worker EXCEPT ![v].phase = "ready"]
    BY DEF SessionSpawned
  <1>2. v \in Workers /\ worker[v] \in WorkerRecord
    BY DEF Unborn, IInv, WorkersInv
  <1>3. worker'[v].phase = "ready" /\ \A w \in Workers \ {v} : worker'[w] = worker[w]
    BY <1>1, <1>2 DEF IInv, WorkersInv, WorkerRecord
  <1> QED BY <1>3

LEMMA MarksEffect ==
  ASSUME IInv, NEW l \in Loops, MarksInProgress(l)
  PROVE  /\ \A k \in Loops \ {l} : loop'[k] = loop[k]
         /\ loop'[l].pc = "prompt" /\ loop'[l].out = loop[l].out
         /\ loop'[l].fail = "no" /\ loop'[l].done = FALSE /\ loop'[l].id = loop[l].id
         /\ loop'[l].worker = loop[l].worker
  BY DEF MarksInProgress, At, IInv, LoopsInv, LoopOK, LoopRecord

LEMMA ResumeLoadsEffect ==
  ASSUME IInv, NEW l \in Loops, ResumeLoads(l)
  PROVE  /\ \A k \in Loops \ {l} : loop'[k] = loop[k]
         /\ \/ /\ loop'[l].pc = "post" /\ loop'[l].out = "return"
               /\ loop'[l].fail = loop[l].fail
               /\ UNCHANGED worker
            \/ /\ loop'[l].pc = "prompt" /\ loop'[l].out = loop[l].out
               /\ loop'[l].fail = "no" /\ loop'[l].done = FALSE
               /\ loop'[l].worker = loop[l].worker
               /\ \E i \in InProgress(features) : loop'[l].id = features[i].id
               /\ worker[loop[l].worker].phase \notin {"unborn"} \cup Ending
               /\ worker' = [worker EXCEPT ![loop[l].worker] = Loaded(@)]
  <1> DEFINE r == loop[l]
  <1>1. r \in LoopRecord
    BY Record
  <1>2. CASE Return(l, "return", {}) /\ UNCHANGED worker
    BY <1>2, ReturnFields
  <1>3. ASSUME NEW i \in InProgress(features),
               loop' = [loop EXCEPT ![l].pc = "prompt", ![l].how = "resume",
                                    ![l].id = features[i].id,
                                    ![l].fail = "no", ![l].done = FALSE]
        PROVE  /\ \A k \in Loops \ {l} : loop'[k] = loop[k]
               /\ loop'[l].pc = "prompt" /\ loop'[l].out = r.out
               /\ loop'[l].fail = "no" /\ loop'[l].done = FALSE
               /\ loop'[l].worker = r.worker /\ loop'[l].id = features[i].id
    <2> DEFINE id == features[i].id
               q == [r EXCEPT !.pc = "prompt", !.how = "resume", !.id = id,
                              !.fail = "no", !.done = FALSE]
    <2>1. loop' = [loop EXCEPT ![l] = q]
      BY <1>3
    <2> HIDE DEF id, r
    <2>2. /\ q.pc = "prompt" /\ q.out = r.out /\ q.fail = "no" /\ q.done = FALSE
          /\ q.worker = r.worker /\ q.id = id
      BY <1>1 DEF LoopRecord
    <2> HIDE DEF q
    <2> QED BY <2>1, <2>2, RecordSet DEF id
  <1> QED BY <1>2, <1>3 DEF ResumeLoads

LEMMA ResumeFailsEffect ==
  ASSUME IInv, NEW l \in Loops, ResumeFails(l)
  PROVE  /\ \A k \in Loops \ {l} : loop'[k] = loop[k]
         /\ loop'[l].pc = "dispatchFailed" /\ loop'[l].out = loop[l].out
         /\ loop'[l].fail = loop[l].fail /\ loop'[l].worker = loop[l].worker
  <1> DEFINE r == loop[l]
  <1>1. r \in LoopRecord
    BY Record
  <1>2. PICK i \in InProgress(features) :
           loop' = [loop EXCEPT ![l].pc = "dispatchFailed", ![l].how = "resume",
                                ![l].id = features[i].id]
    BY DEF ResumeFails
  <1> DEFINE id == features[i].id
             q == [r EXCEPT !.pc = "dispatchFailed", !.how = "resume", !.id = id]
  <1>3. loop' = [loop EXCEPT ![l] = q]
    BY <1>2
  <1> HIDE DEF id, r
  <1>4. q.pc = "dispatchFailed" /\ q.out = r.out /\ q.fail = r.fail /\ q.worker = r.worker
    BY <1>1 DEF LoopRecord
  <1> HIDE DEF q
  <1> QED BY <1>3, <1>4, RecordSet DEF r

\* A notification is dropped, completes the wait, or starts a handler.
LEMMA NotifiedEffect ==
  ASSUME IInv, NEW l \in Loops, Notified(l)
  PROVE  /\ note[l] # <<>> /\ note' = [note EXCEPT ![l] = Tail(@)]
         /\ \/ UNCHANGED <<loop, worker, handler>>
            \/ /\ Head(note[l]) \in {"completed", "exit"}
               /\ Completes(l)
            \/ /\ Head(note[l]) \in {"progress", "exit"}
               /\ handler[l].pc = "idle" /\ loop[l].fail = "no"
               /\ Head(note[l]) = "exit" => ~Finished(l) /\ ~loop[l].done
               /\ \E pc \in {"log402", "fail"} :
                     /\ pc = "fail" => /\ Head(note[l]) = "exit"
                                       /\ loop[l].worker \notin usage402
                     /\ Handles(l, pc)
  <1>1. note[l] \in Seq(Notification)
    BY DEF IInv, NotesInv
  <1>2. note[l] # <<>> /\ note' = [note EXCEPT ![l] = Tail(@)]
    BY DEF Notified
  <1>3. Head(note[l]) \in {"progress", "completed", "exit"}
    BY <1>1, <1>2 DEF Notification
  <1>4. CASE Head(note[l]) = "progress"
    BY <1>2, <1>4 DEF Notified
  <1>5. CASE Head(note[l]) = "completed"
    BY <1>2, <1>5 DEF Notified
  <1>6. CASE Head(note[l]) = "exit"
    BY <1>2, <1>6 DEF Notified
  <1> QED BY <1>3, <1>4, <1>5, <1>6

LEMMA NotAborted == CallInv => ~Aborted
  BY DEF CallInv, Aborted

LEMMA RunHead ==
  ASSUME SInv, NEW l \in Loops,
         \/ Cleanup(l) \/ LoopStops(l) \/ LoopAborts(l) \/ LoopReopens(l)
         \/ LoopSetsRunning(l) \/ Preempts(l) \/ Posts(l)
  PROVE  CallInv' /\ RunInv'
  <1> USE DEF SInv
  <1>1. LoopRuns(loop[l], state, pausing) /\ ~Aborted
    BY NotAborted DEF RunInv
  <1>2. ~LoopReopens(l) /\ ~LoopSetsRunning(l) /\ ~LoopAborts(l)
    BY <1>1 DEF LoopReopens, LoopSetsRunning, LoopAborts, Proceeds, At, LoopRuns
  <1>3. CASE Cleanup(l) \/ Preempts(l)
    <2>1. Goto(l, "top") /\ loop[l].pc \in {"cleanup", "preempt"}
          /\ UNCHANGED <<state, runner, ops, up>>
      BY <1>3 DEF Cleanup, Preempts, At
    <2>2. LoopRuns(loop'[l], state', pausing)
      BY <1>1, <2>1, GotoFields DEF LoopRuns
    <2> QED BY <2>1, <2>2, GotoFields, RunMoves
  <1>4. CASE LoopStops(l)
    <2>1. Goto(l, "exit") /\ loop[l].pc = "top" /\ UNCHANGED <<state, runner, ops, up>>
          /\ up /\ (~isRunning \/ state # "running")
      BY <1>4 DEF LoopStops, At
    <2>2. state = "running" => pausing # "idle"
      BY <2>1 DEF CallInv, RunInv
    <2>3. LoopRuns(loop'[l], state', pausing)
      BY <1>1, <2>1, <2>2, GotoFields DEF LoopRuns
    <2> QED BY <2>1, <2>3, GotoFields, RunMoves
  <1>5. CASE Posts(l)
    <2>1. Goto(l, "check") /\ loop[l].pc = "post" /\ UNCHANGED <<state, runner, ops, up>>
      BY <1>1, <1>5 DEF Posts, At, IInv, ControlInv
    <2>2. LoopRuns(loop'[l], state', pausing)
      BY <1>1, <2>1, GotoFields DEF LoopRuns
    <2> QED BY <2>1, <2>2, GotoFields, RunMoves
  <1> QED BY <1>2, <1>3, <1>4, <1>5

LEMMA RunDispatches ==
  ASSUME SInv, NEW l \in Loops, LoopDispatches(l) \/ SpawnReads(l) \/ Checks(l)
  PROVE  CallInv' /\ RunInv'
  <1> USE DEF SInv
  <1>1. LoopRuns(loop[l], state, pausing) /\ loop[l] \in LoopRecord
    BY DEF RunInv, IInv, LoopsInv, LoopOK
  <1>2. loop[l].pc \in {"top", "spawn", "check"} /\ UNCHANGED <<state, runner, ops, up>>
    BY ZenonT(60) DEF LoopDispatches, Proceeds, SpawnReads, Checks, At
  <1>3. /\ \A k \in Loops \ {l} : loop'[k] = loop[k]
        /\ loop'[l].pc \in {"preempt", "top", "resume", "spawn", "check", "exhausted",
                            "spawnRpc", "post", "insertUserTesting", "finish", "recheck"}
        /\ loop'[l].out \in {loop[l].out, "return"} /\ loop'[l].fail = loop[l].fail
    <2>1. CASE LoopDispatches(l)
      BY <2>1, DispatchEffect
    <2>2. CASE SpawnReads(l)
      BY <2>2, SpawnReadsEffect
    <2>3. CASE Checks(l)
      <3>1. loop[l].back \in {"finish", "recheck"}
        BY <1>1 DEF LoopRecord
      <3> QED BY <2>3, <3>1, ChecksEffect
    <2> QED BY <2>1, <2>2, <2>3
  <1>4. LoopRuns(loop'[l], state', pausing)
    BY <1>1, <1>2, <1>3 DEF LoopRuns
  <1> QED BY <1>2, <1>3, <1>4, RunMoves

LEMMA RunExhausted ==
  ASSUME SInv, NEW l \in Loops, ExhaustedLogs(l) \/ ExhaustedPauses(l)
  PROVE  CallInv' /\ RunInv'
  <1> USE DEF SInv
  <1>1. LoopRuns(loop[l], state, pausing)
    BY DEF RunInv
  <1>2. CASE ExhaustedLogs(l)
    <2>1. Goto(l, "exhaustedPause") /\ loop[l].pc = "exhausted"
          /\ UNCHANGED <<state, runner, ops, up>>
      BY <1>2 DEF ExhaustedLogs, At
    <2>2. LoopRuns(loop'[l], state', pausing)
      BY <1>1, <2>1, GotoFields DEF LoopRuns
    <2> QED BY <2>1, <2>2, GotoFields, RunMoves
  <1>3. CASE ExhaustedPauses(l)
    <2>1. Return(l, "paused", {loop[l].id}) /\ loop[l].pc = "exhaustedPause"
          /\ state' = "paused" /\ UNCHANGED <<runner, ops, up>>
      BY <1>3 DEF ExhaustedPauses, At
    <2>2. LoopRuns(loop'[l], state', pausing)
      BY <1>1, <2>1, ReturnFields DEF LoopRuns
    <2> QED BY <2>1, <2>2, ReturnFields, RunMoves
  <1> QED BY <1>2, <1>3

LEMMA RunSpawns ==
  ASSUME SInv, NEW l \in Loops,
         \/ SessionSpawned(l) \/ SpawnFails(l) \/ MarksInProgress(l) \/ ResumeLoads(l)
         \/ ResumeFails(l) \/ PromptSent(l) \/ PromptFails(l) \/ DispatchFails(l)
  PROVE  CallInv' /\ RunInv'
  <1> USE DEF SInv
  <1>1. LoopRuns(loop[l], state, pausing) /\ loop[l] \in LoopRecord
    BY DEF RunInv, IInv, LoopsInv, LoopOK
  <1>2. /\ loop[l].pc \in {"spawnRpc", "mark", "resume", "prompt", "dispatchFailed"}
        /\ UNCHANGED <<state, runner, ops, up>>
    BY ZenonT(60) DEF SessionSpawned, SpawnFails, MarksInProgress, ResumeLoads, ResumeFails,
       PromptSent, PromptFails, DispatchFails, At
  <1>3. /\ \A k \in Loops \ {l} : loop'[k] = loop[k]
        /\ loop'[l].pc \in {"mark", "dispatchFailed", "prompt", "waiting", "post"}
        /\ loop'[l].out \in {loop[l].out, "return"}
        /\ loop'[l].fail \in {loop[l].fail, "no"}
    <2>1. CASE SpawnFails(l) \/ PromptSent(l) \/ PromptFails(l)
      BY <2>1, GotoFields DEF SpawnFails, PromptSent, PromptFails
    <2>2. CASE DispatchFails(l)
      BY <2>2, ReturnFields DEF DispatchFails
    <2>3. CASE SessionSpawned(l)
      BY <2>3, SpawnedEffect
    <2>4. CASE MarksInProgress(l)
      BY <2>4, MarksEffect
    <2>5. CASE ResumeLoads(l)
      BY <2>5, ResumeLoadsEffect
    <2>6. CASE ResumeFails(l)
      BY <2>6, ResumeFailsEffect
    <2> QED BY <2>1, <2>2, <2>3, <2>4, <2>5, <2>6
  <1>4. LoopRuns(loop'[l], state', pausing)
    BY <1>1, <1>2, <1>3 DEF LoopRuns
  <1> QED BY <1>2, <1>3, <1>4, RunMoves

LEMMA RunWaits ==
  ASSUME SInv, NEW l \in Loops, Notified(l) \/ WaitEnds(l)
  PROVE  CallInv' /\ RunInv'
  <1> USE DEF SInv
  <1>1. LoopRuns(loop[l], state, pausing) /\ loop[l] \in LoopRecord
    BY DEF RunInv, IInv, LoopsInv, LoopOK
  <1>2. loop[l].pc = "waiting" /\ UNCHANGED <<state, runner, ops, up>>
    BY ZenonT(60) DEF Notified, WaitEnds, At
  <1>3. CASE Notified(l)
    <2>1. \/ UNCHANGED loop
          \/ loop' = [loop EXCEPT ![l].done = TRUE]
      BY <1>3, NotifiedEffect DEF Handles, Completes
    <2>2. CASE UNCHANGED loop
      BY <1>2, <2>2, RunUntouched
    <2>3. CASE loop' = [loop EXCEPT ![l].done = TRUE]
      <3>1. /\ \A k \in Loops \ {l} : loop'[k] = loop[k]
            /\ loop'[l].pc = loop[l].pc /\ loop'[l].out = loop[l].out
            /\ loop'[l].fail = loop[l].fail
        BY <2>3 DEF IInv, LoopsInv, LoopOK, LoopRecord
      <3>2. LoopRuns(loop'[l], state', pausing)
        BY <1>1, <1>2, <3>1 DEF LoopRuns
      <3> QED BY <1>2, <3>1, <3>2, RunMoves
    <2> QED BY <2>1, <2>2, <2>3
  <1>4. CASE WaitEnds(l)
    <2>1. \E out, ids : Return(l, out, ids) /\ (out = "paused" => loop[l].fail = "paused")
      BY <1>4 DEF WaitEnds
    <2>2. PICK out, ids : Return(l, out, ids) /\ (out = "paused" => loop[l].fail = "paused")
      BY <2>1
    <2>3. LoopRuns(loop'[l], state', pausing)
      BY <1>1, <1>2, <2>2, ReturnFields DEF LoopRuns
    <2> QED BY <1>2, <2>2, <2>3, ReturnFields, RunMoves
  <1> QED BY <1>3, <1>4

LEMMA RunAfterwards ==
  ASSUME SInv, NEW l \in Loops,
         \/ InsertsUserTesting(l) \/ InsertsScrutiny(l) \/ MarksValidated(l)
         \/ Finishes(l) \/ Rechecks(l) \/ SetsCompleted(l) \/ SetsOrchestratorTurn(l)
         \/ LoopPauseLogs(l) \/ LoopPauses(l)
  PROVE  CallInv' /\ RunInv'
  <1> USE DEF SInv
  <1>1. LoopRuns(loop[l], state, pausing) /\ loop[l] \in LoopRecord
    BY DEF RunInv, IInv, LoopsInv, LoopOK
  <1>2. ~LoopPauseLogs(l) /\ ~LoopPauses(l)
    BY <1>1 DEF LoopPauseLogs, LoopPauses, LoopEndsWith, At, LoopRuns
  <1>3. CASE InsertsUserTesting(l) \/ InsertsScrutiny(l)
    <2>1. \E pc \in {"insertScrutiny", "markValidated"} : Goto(l, pc)
      BY <1>3 DEF InsertsUserTesting, InsertsScrutiny
    <2>2. loop[l].pc \in {"insertUserTesting", "insertScrutiny"}
          /\ UNCHANGED <<state, runner, ops, up>>
      BY <1>3 DEF InsertsUserTesting, InsertsScrutiny, At
    <2>3. LoopRuns(loop'[l], state', pausing)
      BY <1>1, <2>1, <2>2, GotoFields DEF LoopRuns
    <2> QED BY <2>1, <2>2, <2>3, GotoFields, RunMoves
  <1>4. CASE MarksValidated(l)
    <2>1. loop[l].pc = "markValidated" /\ UNCHANGED <<state, runner, ops, up>>
      BY <1>4 DEF MarksValidated, At
    <2>2. /\ \A k \in Loops \ {l} : loop'[k] = loop[k]
          /\ loop'[l].pc = "check" /\ loop'[l].out = loop[l].out
          /\ loop'[l].fail = loop[l].fail
      BY <1>4 DEF MarksValidated, IInv, LoopsInv, LoopOK, LoopRecord
    <2>3. LoopRuns(loop'[l], state', pausing)
      BY <1>1, <2>1, <2>2 DEF LoopRuns
    <2> QED BY <2>1, <2>2, <2>3, RunMoves
  <1>5. CASE Finishes(l) \/ Rechecks(l)
    <2>1. loop[l].pc \in {"finish", "recheck"} /\ UNCHANGED <<state, runner, ops, up>>
      BY <1>5 DEF Finishes, Rechecks, At
    <2>2. \E pc \in {"toCompleted", "exit", "toOrchestrator", "top"} :
             Goto(l, pc) /\ (pc = "exit" => loop[l].out = "paused")
      <3>1. CASE Finishes(l)
        <4>1. loop[l].out \in {"success", "return", "paused"}
          BY <1>1 DEF LoopRecord
        <4> QED BY <3>1, <4>1 DEF Finishes
      <3>2. CASE Rechecks(l)
        BY <3>2 DEF Rechecks
      <3> QED BY <1>5, <3>1, <3>2
    <2>3. PICK pc \in {"toCompleted", "exit", "toOrchestrator", "top"} :
             Goto(l, pc) /\ (pc = "exit" => loop[l].out = "paused")
      BY <2>2
    <2>4. LoopRuns(loop'[l], state', pausing)
      BY <1>1, <2>1, <2>3, GotoFields DEF LoopRuns
    <2> QED BY <2>1, <2>3, <2>4, GotoFields, RunMoves
  <1>6. CASE SetsCompleted(l) \/ SetsOrchestratorTurn(l)
    <2>1. /\ loop[l].pc \in {"toCompleted", "toOrchestrator"} /\ UNCHANGED <<runner, ops, up>>
          /\ state' \in {"completed", "orchestrator_turn"} /\ Goto(l, "exit")
      BY <1>6 DEF SetsCompleted, SetsOrchestratorTurn, LoopEndsWith, At
    <2>2. LoopRuns(loop'[l], state', pausing)
      BY <1>1, <2>1, GotoFields DEF LoopRuns
    <2> QED BY <2>1, <2>2, GotoFields, RunMoves
  <1> QED BY <1>2, <1>3, <1>4, <1>5, <1>6

\* A start begins when no loop is live, and its loop ends it.
LEMMA RunLaunches ==
  ASSUME SInv, NEW l \in Loops, ToolLaunches(l)
  PROVE  CallInv' /\ RunInv'
  <1> USE DEF SInv
  <1>1. /\ up /\ tool.pc = "launch" /\ UNCHANGED <<files, pausing, killing, up>>
        /\ \A k \in Loops : loop[k].pc = "idle"
        /\ ~isRunning /\ aborted = {}
    BY DEF ToolLaunches, CallInv
  <1> DEFINE q == [Idle EXCEPT !.resume = tool.resume,
                      !.pc = IF tool.resume = None THEN "cleanup" ELSE "top"]
  <1>2. /\ isRunning' = TRUE /\ aborted' = {}
        /\ loop' = [loop EXCEPT ![l] = q]
        /\ tool' = [tool EXCEPT !.pc = "waiting", !.loop = l]
    BY <1>1 DEF ToolLaunches
  <1>3. q.pc \in {"cleanup", "top"} /\ q.out = "return" /\ q.fail = "no"
    BY DEF Idle
  <1> HIDE DEF q
  <1>4. (\A k \in Loops \ {l} : loop'[k] = loop[k]) /\ loop'[l] = q
    BY <1>2, RecordSet
  <1>5. state # "completed"
    BY <1>1 DEF RunInv
  <1>6. tool'.pc = "waiting" /\ tool'.loop = l
    BY <1>2 DEF IInv, ControlInv
  <1>7. CallInv'
    BY <1>1, <1>2, <1>3, <1>4, <1>6 DEF CallInv
  <1>8. RunInv'
    BY <1>1, <1>2, <1>3, <1>4, <1>5 DEF RunInv, LoopRuns
  <1> QED BY <1>7, <1>8

\* start() returns: its loop was the one that ran.
LEMMA RunExits ==
  ASSUME SInv, NEW l \in Loops, Exits(l)
  PROVE  CallInv' /\ RunInv'
  <1> USE DEF SInv
  <1>1. /\ loop[l].pc = "exit" /\ up /\ tool.loop = l
        /\ \A k \in Loops \ {l} : loop[k].pc = "idle"
        /\ state = "running" => pausing # "idle"
    BY DEF Exits, At, CallInv, RunInv, LoopRuns
  <1>2. /\ isRunning' = FALSE /\ tool' = NoTool /\ loop' = [loop EXCEPT ![l] = Idle]
        /\ UNCHANGED <<files, aborted, pausing, killing, up>>
    BY <1>1 DEF Exits
  <1>3. \A k \in Loops : loop'[k].pc = "idle"
    <2>1. (\A k \in Loops \ {l} : loop'[k] = loop[k]) /\ loop'[l] = Idle
      BY <1>2, RecordSet
    <2>2. Idle.pc = "idle"
      BY DEF Idle
    <2> QED BY <1>1, <2>1, <2>2
  <1>4. CallInv'
    BY <1>2, <1>3 DEF CallInv
  <1>5. RunInv'
    BY <1>1, <1>2, <1>3 DEF RunInv, LoopRuns, NoTool
  <1> QED BY <1>4, <1>5

LEMMA RunLoopStep ==
  ASSUME SInv, NEW l \in Loops, LoopStep(l)
  PROVE  CallInv' /\ RunInv'
  BY RunLaunches, RunHead, RunDispatches, RunExhausted, RunSpawns, RunWaits,
     RunAfterwards, RunExits
  DEF LoopStep

\* What the end of a handler does to the loops.
LEMMA HandlerEndsEffect ==
  ASSUME IInv, NEW l \in Loops, NEW result, HandlerEnds(l, result)
  PROVE  /\ \A k \in Loops \ {l} : loop'[k] = loop[k]
         /\ loop'[l].pc = loop[l].pc /\ loop'[l].out = loop[l].out
         /\ loop'[l].back = loop[l].back /\ loop'[l].id = loop[l].id
         /\ loop'[l].worker = loop[l].worker /\ loop'[l].done = loop[l].done
         /\ loop'[l].fail = IF handler[l].live THEN result ELSE loop[l].fail
  <1> DEFINE fail == IF handler[l].live THEN result ELSE loop[l].fail
  <1>1. loop' = [loop EXCEPT ![l].fail = fail]
    BY DEF HandlerEnds
  <1> HIDE DEF fail
  <1>2. /\ \A k \in Loops \ {l} : loop'[k] = loop[k]
        /\ loop'[l].pc = loop[l].pc /\ loop'[l].out = loop[l].out
        /\ loop'[l].back = loop[l].back /\ loop'[l].id = loop[l].id
        /\ loop'[l].worker = loop[l].worker /\ loop'[l].done = loop[l].done
        /\ loop'[l].fail = fail
    BY <1>1 DEF IInv, LoopsInv, LoopOK, LoopRecord
  <1> QED BY <1>2 DEF fail

LEMMA RunHandlerStep ==
  ASSUME SInv, NEW l \in Loops, HandlerStep(l)
  PROVE  CallInv' /\ RunInv'
  <1> USE DEF SInv
  <1>1. CASE Logs402(l)
    BY <1>1, RunUntouched DEF Logs402
  <1>2. CASE Pauses402(l)
    <2>1. HandlerEnds(l, "paused") /\ state' = "paused" /\ UNCHANGED <<runner, ops, up>>
      BY <1>2 DEF Pauses402
    <2>2. \A k \in Loops : loop'[k].pc = loop[k].pc /\ loop'[k].out = loop[k].out
      BY <2>1, HandlerEndsEffect
    <2>3. \A k \in Loops : LoopRuns(loop'[k], state', pausing')
      BY <2>1, <2>2 DEF RunInv, LoopRuns
    <2> QED BY <2>1, <2>2, <2>3, RunKept
  <1>3. CASE RequeuesFailed(l)
    <2>1. HandlerEnds(l, "requeued") /\ UNCHANGED <<state, runner, ops, up>>
      BY <1>3 DEF RequeuesFailed
    <2>2. \A k \in Loops : loop'[k].pc = loop[k].pc /\ loop'[k].out = loop[k].out
                            /\ loop'[k].fail \in {loop[k].fail, "requeued"}
      BY <2>1, HandlerEndsEffect
    <2>3. \A k \in Loops : LoopRuns(loop'[k], state', pausing')
      BY <2>1, <2>2 DEF RunInv, LoopRuns
    <2> QED BY <2>1, <2>2, <2>3, RunKept
  <1> QED BY <1>1, <1>2, <1>3 DEF HandlerStep

\* The tool is at work only while no loop is live.
LEMMA RunToolStep ==
  ASSUME SInv, ToolStep
  PROVE  CallInv' /\ RunInv'
  <1> USE DEF SInv
  <1>1. tool.pc \in {"grant", "run"} /\ tool'.pc \in {"run", "launch"} /\ up
        /\ UNCHANGED <<loop, runner, pausing, killing, up>>
    BY DEF ToolStep, ToolGrants, ToolSetsRunning, IInv, ControlInv
  <1>2. \A l \in Loops : loop[l].pc = "idle"
    BY <1>1 DEF CallInv
  <1>3. state' # state => state' = "running"
    BY DEF ToolStep, ToolGrants, ToolSetsRunning
  <1>4. tool'.pc = "launch" => state' = "running"
    BY DEF ToolStep, ToolGrants, ToolSetsRunning, IInv, ControlInv
  <1>5. CallInv'
    BY <1>1, <1>2 DEF CallInv
  <1>6. RunInv'
    BY <1>1, <1>2, <1>4 DEF RunInv, LoopRuns
  <1> QED BY <1>5, <1>6

\* A pause in flight leaves the mission paused, or in a state it does not touch.
LEMMA RunOpStep ==
  ASSUME SInv, OpStep
  PROVE  CallInv' /\ RunInv'
  <1> USE DEF SInv
  <1>1. ~KillInterrupts
    BY DEF KillInterrupts, CallInv
  <1>2. /\ UNCHANGED <<loop, runner, tool, killing, up>>
        /\ state' \in {state, "paused"}
        /\ pausing' = "idle" => state' # "running"
    BY <1>1 DEF OpStep, PauseLogs, PauseWrites, PauseChecks, PauseOverwrites
  <1>3. \A l \in Loops : LoopRuns(loop'[l], state', pausing')
    BY <1>2 DEF RunInv, LoopRuns
  <1> QED BY <1>2, <1>3, RunKept

LEMMA RunWorkerStep ==
  ASSUME SInv, NEW w \in Workers, WorkerStep(w)
  PROVE  CallInv' /\ RunInv'
  <1> USE DEF SInv
  <1>1. UNCHANGED <<loop, runner, tool, pausing, killing, up>>
        /\ state' \in {state, "orchestrator_turn"}
    BY DEF WorkerStep, Ends, MovesToBottom, ReturnsToOrchestrator, LogsCompleted,
           Signals402, WorkerExits, SessionExpires, Obeys
  <1>2. \A l \in Loops : LoopRuns(loop'[l], state', pausing')
    BY <1>1 DEF RunInv, LoopRuns
  <1> QED BY <1>1, <1>2, RunKept

LEMMA RunCalls ==
  ASSUME SInv, NoCutOff, Calls
  PROVE  CallInv' /\ RunInv'
  <1> USE DEF SInv
  <1>1. ~Abort /\ \A w \in Workers : ~UserKills(w)
    BY DEF NoCutOff, Abort, UserKills
  <1>2. ASSUME NEW explicit, NEW restart, StartMissionRun(explicit, restart)
        PROVE  CallInv' /\ RunInv'
    <2>1. tool.pc = "idle" /\ tool'.pc \in {"grant", "run"}
          /\ UNCHANGED <<state, loop, runner, pausing, killing, up>>
      BY <1>2 DEF StartMissionRun
    <2>2. \A l \in Loops : loop[l].pc = "idle"
      BY <2>1 DEF CallInv
    <2> QED BY <2>1, <2>2 DEF CallInv, RunInv
  <1>3. CASE UserPauses
    <2>1. /\ isRunning' = FALSE /\ pausing' # "idle" /\ up
          /\ UNCHANGED <<state, loop, aborted, tool, killing, up>>
      BY <1>3 DEF UserPauses, CallPause
    <2> QED BY <2>1 DEF CallInv, RunInv, LoopRuns
  <1>4. CASE \/ \E i \in DOMAIN features : OrchestratorCancels(i)
             \/ \E id \in Extra : OrchestratorAdds(id)
             \/ OrchestratorDismisses
    BY <1>4, RunUntouched DEF OrchestratorCancels, OrchestratorAdds, Edit,
                              OrchestratorDismisses
  <1> QED BY <1>1, <1>2, <1>3, <1>4 DEF Calls

LEMMA RunCrashes ==
  ASSUME SInv, Crash \/ Reload
  PROVE  CallInv' /\ RunInv'
  <1> USE DEF SInv
  <1>1. CASE Crash
    BY <1>1 DEF Crash, CallInv, RunInv, LoopRuns, Idle, NoTool
  <1>2. CASE Reload
    <2>1. ~up /\ \A l \in Loops : loop[l].pc = "idle"
      BY <1>2 DEF Reload, CallInv
    <2>2. state' # "running" /\ (state' = "completed" => state = "completed")
          /\ UNCHANGED <<loop, runner, tool, pausing, killing>>
      BY <1>2 DEF Reload
    <2> QED BY <2>1, <2>2 DEF CallInv, RunInv, LoopRuns
  <1> QED BY <1>1, <1>2

LEMMA RunNext ==
  ASSUME NoCutOff
  PROVE  SInv /\ [Next]_vars => SInv'
  <1> SUFFICES ASSUME SInv, [Next]_vars PROVE CallInv' /\ RunInv'
    BY NextInv DEF SInv
  <1>1. CASE \E l \in Loops : LoopStep(l) \/ HandlerStep(l)
    BY <1>1, RunLoopStep, RunHandlerStep
  <1>2. CASE ToolStep \/ OpStep
    BY <1>2, RunToolStep, RunOpStep
  <1>3. CASE \E w \in Workers : WorkerStep(w)
    BY <1>3, RunWorkerStep
  <1>4. CASE Calls \/ Crash \/ Reload
    BY <1>4, RunCalls, RunCrashes
  <1>5. CASE UNCHANGED vars
    BY <1>5, RunUntouched DEF SInv, vars
  <1> QED BY <1>1, <1>2, <1>3, <1>4, <1>5 DEF Next

LEMMA RunInit == Init => SInv
  <1> SUFFICES ASSUME Init PROVE CallInv /\ RunInv
    BY InitInv DEF SInv
  <1> QED BY DEF Init, CallInv, RunInv, LoopRuns, Idle, NoTool

\* state.json says 'running' only while a start call, a loop or a pause is in flight
\* that will change it, through crashes, pauses, lost answers and usage limits in any
\* order, as long as no call of start_mission_run is cut off.
THEOREM RunningIsARun ==
  ASSUME NoCutOff
  PROVE  Spec => []RunningIsRun
  <1>1. Spec => []SInv
    BY RunInit, RunNext, PTL DEF Spec
  <1>2. SInv => RunningIsRun
    BY DEF SInv, CallInv, RunInv, RunningIsRun
  <1> QED BY <1>1, <1>2, PTL

\* A worker that hit the usage limit has its entry in the progress log.
LEMMA LimitIsLogged ==
  ASSUME limited \subseteq usage402, [Next]_vars
  PROVE  limited' \subseteq usage402'
  <1>1. ASSUME NEW l \in Loops, LoopStep(l) \/ HandlerStep(l)
        PROVE  usage402' = usage402 /\ limited' \subseteq limited
    BY <1>1 DEF LoopStep, HandlerStep, ToolLaunches, Cleanup, LoopStops, LoopAborts,
       LoopReopens, LoopSetsRunning, LoopDispatches, Preempts, SpawnReads, ExhaustedLogs,
       ExhaustedPauses, SessionSpawned, SpawnFails, MarksInProgress, ResumeLoads,
       ResumeFails, PromptSent, PromptFails, DispatchFails, Notified, WaitEnds, Posts,
       Checks, InsertsUserTesting, InsertsScrutiny, MarksValidated, Finishes, Rechecks,
       SetsCompleted, SetsOrchestratorTurn, LoopEndsWith, LoopPauseLogs, LoopPauses, Exits,
       Logs402, Pauses402, RequeuesFailed
  <1>2. CASE ToolStep \/ OpStep \/ Crash \/ Reload
    BY <1>2 DEF ToolStep, OpStep, ToolGrants, ToolSetsRunning, PauseLogs, PauseWrites,
       PauseChecks, PauseOverwrites, KillInterrupts, Crash, Reload
  <1>3. ASSUME NEW w \in Workers, WorkerStep(w)
        PROVE  limited' \subseteq usage402'
    BY <1>3 DEF WorkerStep, Ends, MovesToBottom, ReturnsToOrchestrator, LogsCompleted,
       Signals402, WorkerExits, SessionExpires, Obeys
  <1>4. CASE Calls
    BY <1>4 DEF Calls, StartMissionRun, Abort, UserPauses, UserKills, OrchestratorCancels,
       OrchestratorAdds, Edit, OrchestratorDismisses
  <1>5. CASE UNCHANGED vars
    BY <1>5 DEF vars
  <1> QED BY <1>1, <1>2, <1>3, <1>4, <1>5 DEF Next

\* A session touches neither the loops nor their handlers.
LEMMA WorkersApart ==
  ASSUME NEW w, WorkerStep(w)
  PROVE  UNCHANGED loop /\ UNCHANGED handler
  <1>1. ASSUME NEW id, NEW report, Ends(w, id, report)
        PROVE  UNCHANGED loop /\ UNCHANGED handler
    BY <1>1 DEF Ends
  <1>2. CASE MovesToBottom(w) \/ ReturnsToOrchestrator(w) \/ LogsCompleted(w)
    BY <1>2 DEF MovesToBottom, ReturnsToOrchestrator, LogsCompleted
  <1>3. CASE Signals402(w) \/ WorkerExits(w) \/ SessionExpires(w) \/ Obeys(w)
    BY <1>3 DEF Signals402, WorkerExits, SessionExpires, Obeys
  <1> QED BY <1>1, <1>2, <1>3 DEF WorkerStep

\* Handlers start in Notified only.
LEMMA HandlersStart ==
  ASSUME IInv, [Next]_vars, NEW l \in Loops,
         handler[l].pc = "idle", handler'[l].pc = "fail"
  PROVE  handler'[l].worker \notin usage402
  <1>1. UNCHANGED handler \/ Crash
        \/ \E k \in Loops : Notified(k) \/ WaitEnds(k) \/ HandlerStep(k)
    <2>1. ASSUME NEW k \in Loops, LoopStep(k), ~Notified(k), ~WaitEnds(k)
          PROVE  UNCHANGED handler
      BY <2>1 DEF LoopStep, ToolLaunches, Cleanup, LoopStops, LoopAborts,
         LoopReopens, LoopSetsRunning, LoopDispatches, Preempts, SpawnReads,
         ExhaustedLogs, ExhaustedPauses, SessionSpawned, SpawnFails, MarksInProgress,
         ResumeLoads, ResumeFails, PromptSent, PromptFails, DispatchFails, Posts,
         Checks, InsertsUserTesting, InsertsScrutiny, MarksValidated, Finishes, Rechecks,
         SetsCompleted, SetsOrchestratorTurn, LoopEndsWith, LoopPauseLogs, LoopPauses,
         Exits
    <2>2. CASE ToolStep \/ OpStep \/ Reload
      BY <2>2 DEF ToolStep, OpStep, ToolGrants, ToolSetsRunning, PauseLogs, PauseWrites,
         PauseChecks, PauseOverwrites, KillInterrupts, Reload
    <2>3. CASE \E w \in Workers : WorkerStep(w)
      BY <2>3, WorkersApart
    <2>4. CASE Calls
      BY <2>4 DEF Calls, StartMissionRun, Abort, UserPauses, UserKills,
         OrchestratorCancels, OrchestratorAdds, Edit, OrchestratorDismisses
    <2>5. CASE UNCHANGED vars
      BY <2>5 DEF vars
    <2> QED BY <2>1, <2>2, <2>3, <2>4, <2>5 DEF Next
  <1>2. \A k \in Loops : handler[k] \in HandlerRecord
    BY DEF IInv, HandlersInv
  <1>3. ASSUME NEW k \in Loops, Notified(k)
        PROVE  handler'[l].worker \notin usage402
    <2>1. UNCHANGED handler \/ \E pc \in {"log402", "fail"} :
             (pc = "fail" => loop[k].worker \notin usage402) /\ Handles(k, pc)
      BY <1>3, NotifiedEffect DEF Completes
    <2> QED BY <2>1, <1>2 DEF Handles, IInv, HandlersInv
  <1>4. ASSUME NEW k \in Loops, WaitEnds(k) \/ HandlerStep(k)
        PROVE  FALSE
    BY <1>4, <1>2 DEF WaitEnds, HandlerStep, Logs402, Pauses402, RequeuesFailed,
       HandlerEnds, NoHandler, IInv, HandlersInv, HandlerRecord
  <1>5. ~Crash
    BY DEF Crash, NoHandler
  <1> QED BY <1>1, <1>3, <1>4, <1>5

\* A session that hit the usage limit is never taken for a crashed one, whichever of
\* its notifications comes first, for any faults and any number of loops: the entry is
\* in the log before anything is notified (hasUnrecoverableUsage402Signal).
THEOREM LimitAlwaysPauses == Spec => LimitPauses
  <1> DEFINE Inv == IInv /\ limited \subseteq usage402
  <1>1. Init => Inv
    BY InitInv DEF Init
  <1>2. Inv /\ [Next]_vars => Inv'
    BY NextInv, LimitIsLogged
  <1>3. Inv /\ Inv' /\ [Next]_vars =>
        [\A l \in Loops : handler[l].pc = "idle" /\ handler'[l].pc = "fail" =>
            handler'[l].worker \notin limited]_vars
    BY HandlersStart
  <1> QED BY <1>1, <1>2, <1>3, PTL DEF Spec, LimitPauses

-----------------------------------------------------------------------------
(* What the updates of features.json do to the ids in it.                  *)

Has(f, id) == \E i \in DOMAIN f : f[i].id = id

\* No id of S is there twice.
Once(f, S) ==
    \A i, j \in DOMAIN f : f[i].id \in S /\ f[i].id = f[j].id => i = j

Injective(p) == \A i, j \in DOMAIN p : p[i] = p[j] => i = j

\* The entries of g are entries of f under their ids, each taken once.
SameIds(g, f) ==
    \E p \in [DOMAIN g -> DOMAIN f] :
        Injective(p) /\ \A i \in DOMAIN g : g[i].id = f[p[i]].id

LEMMA SameIdsMeans ==
  ASSUME NEW f, NEW g, SameIds(g, f)
  PROVE  /\ \A S : Once(f, S) => Once(g, S)
         /\ \A id : Has(g, id) => Has(f, id)
  <1>1. PICK p \in [DOMAIN g -> DOMAIN f] :
           Injective(p) /\ \A i \in DOMAIN g : g[i].id = f[p[i]].id
    BY DEF SameIds
  <1>2. ASSUME NEW S, Once(f, S), NEW i \in DOMAIN g, NEW j \in DOMAIN g,
               g[i].id \in S, g[i].id = g[j].id
        PROVE  i = j
    <2>1. p[i] \in DOMAIN f /\ p[j] \in DOMAIN f /\ p[i] = p[j]
      BY <1>1, <1>2 DEF Once
    <2> QED BY <1>1, <2>1 DEF Injective
  <1>3. ASSUME NEW id, Has(g, id) PROVE Has(f, id)
    BY <1>1, <1>3 DEF Has
  <1> QED BY <1>2, <1>3 DEF Once

\* Entry by entry.
LEMMA PointwiseIds ==
  ASSUME NEW f, NEW g, DOMAIN g = DOMAIN f, \A i \in DOMAIN f : g[i].id = f[i].id
  PROVE  SameIds(g, f)
  <1> DEFINE p == [i \in DOMAIN g |-> i]
  <1>1. p \in [DOMAIN g -> DOMAIN f] /\ Injective(p)
        /\ \A i \in DOMAIN g : g[i].id = f[p[i]].id
    BY DEF Injective
  <1> HIDE DEF p
  <1> QED BY <1>1 DEF SameIds

LEMMA StatusIds ==
  ASSUME NEW f \in Seq(Feature), NEW id, NEW status
  PROVE  SameIds(UpdateFeature(f, id, status), f)
  <1> DEFINE g == UpdateFeature(f, id, status)
  <1>1. DOMAIN g = DOMAIN f
    BY DEF UpdateFeature
  <1>2. ASSUME NEW i \in DOMAIN f PROVE g[i].id = f[i].id
    <2>1. g[i] = f[i] \/ g[i] = [f[i] EXCEPT !.status = status]
      BY DEF UpdateFeature
    <2>2. f[i] \in Feature
      OBVIOUS
    <2> QED BY <2>1, <2>2 DEF Feature
  <1> HIDE DEF g
  <1>3. SameIds(g, f)
    BY <1>1, <1>2, PointwiseIds
  <1> QED BY <1>3 DEF g

LEMMA RequeueIds ==
  ASSUME NEW f \in Seq(Feature), NEW id, NEW w
  PROVE  SameIds(Requeue(f, id, w), f)
  BY StatusIds, PointwiseIds DEF Requeue

LEMMA AssignIds ==
  ASSUME NEW f \in Seq(Feature), NEW id, NEW workers
  PROVE  SameIds(AssignFeature(f, id, workers), f)
  <1> DEFINE g == AssignFeature(f, id, workers)
  <1>1. DOMAIN g = DOMAIN f
    BY DEF AssignFeature
  <1>2. ASSUME NEW i \in DOMAIN f PROVE g[i].id = f[i].id
    <2>1. g[i] = f[i] \/ g[i] = [f[i] EXCEPT !.status = "in_progress", !.workers = workers]
      BY DEF AssignFeature
    <2>2. f[i] \in Feature
      OBVIOUS
    <2> QED BY <2>1, <2>2 DEF Feature
  <1> HIDE DEF g
  <1>3. SameIds(g, f)
    BY <1>1, <1>2, PointwiseIds
  <1> QED BY <1>3 DEF g

LEMMA CancelIds ==
  ASSUME NEW f \in Seq(Feature), NEW i \in DOMAIN f, NEW status
  PROVE  SameIds([f EXCEPT ![i].status = status], f)
  <1> DEFINE g == [f EXCEPT ![i].status = status]
  <1>1. DOMAIN g = DOMAIN f
    OBVIOUS
  <1>2. ASSUME NEW j \in DOMAIN f PROVE g[j].id = f[j].id
    <2>1. g[j] = f[j] \/ g[j] = [f[j] EXCEPT !.status = status]
      OBVIOUS
    <2>2. f[j] \in Feature
      OBVIOUS
    <2> QED BY <2>1, <2>2 DEF Feature
  <1> HIDE DEF g
  <1>3. SameIds(g, f)
    BY <1>1, <1>2, PointwiseIds
  <1> QED BY <1>3 DEF g

\* The permutation of moveStrandedDoneFeaturesToBottom takes no entry twice.
LEMMA StrandedInjective ==
  ASSUME NEW f \in Seq(Feature), NEW p, MovesStranded(f, p)
  PROVE  p \in [DOMAIN f -> DOMAIN f] /\ Injective(p)
  <1>1. DOMAIN f = 1..Len(f) /\ Len(f) \in Nat /\ p \in [DOMAIN f -> DOMAIN f]
    BY DEF MovesStranded
  <1>2. ASSUME NEW i \in DOMAIN f, NEW j \in DOMAIN f, i < j
        PROVE  p[i] # p[j]
    <2>1. p[i] \in 1..Len(f) /\ p[j] \in 1..Len(f)
      BY <1>1
    <2>2. CASE (p[i] \in Stranded(f)) = (p[j] \in Stranded(f))
      <3>1. p[i] < p[j]
        BY <1>2, <2>2 DEF MovesStranded
      <3> QED BY <2>1, <3>1
    <2>3. CASE (p[i] \in Stranded(f)) # (p[j] \in Stranded(f))
      BY <2>3
    <2> QED BY <2>2, <2>3
  <1>3. \A i, j \in DOMAIN f : i < j \/ j < i \/ i = j
    BY <1>1
  <1> QED BY <1>1, <1>2, <1>3 DEF Injective

LEMMA StrandedIds ==
  ASSUME NEW f \in Seq(Feature), NEW p, MovesStranded(f, p)
  PROVE  SameIds([i \in DOMAIN f |-> f[p[i]]], f)
  <1> DEFINE g == [i \in DOMAIN f |-> f[p[i]]]
  <1>1. DOMAIN g = DOMAIN f /\ \A i \in DOMAIN g : g[i] = f[p[i]]
    OBVIOUS
  <1>2. p \in [DOMAIN g -> DOMAIN f] /\ Injective(p)
    BY <1>1, StrandedInjective
  <1> HIDE DEF g
  <1>3. SameIds(g, f)
    BY <1>1, <1>2 DEF SameIds
  <1> QED BY <1>3 DEF g

\* Where MoveFeatureToBottom takes each entry from.
From(f, id) ==
    [i \in DOMAIN f |->
        IF \E k \in FirstId(f, id) : i >= k
        THEN IF i = Len(f) THEN CHOOSE k \in FirstId(f, id) : TRUE ELSE i + 1
        ELSE i]

LEMMA FirstIdOne ==
  ASSUME NEW f \in Seq(Feature), NEW id, NEW i \in FirstId(f, id), NEW j \in FirstId(f, id)
  PROVE  i = j
  <1>1. i \in 1..Len(f) /\ j \in 1..Len(f) /\ Len(f) \in Nat
    BY DEF FirstId
  <1>2. f[i].id = id /\ f[j].id = id /\ ~(i \in 1..(j-1)) /\ ~(j \in 1..(i-1))
    BY DEF FirstId
  <1> QED BY <1>1, <1>2

LEMMA MovedFrom ==
  ASSUME NEW f \in Seq(Feature), NEW id
  PROVE  /\ From(f, id) \in [DOMAIN f -> DOMAIN f] /\ Injective(From(f, id))
         /\ MoveFeatureToBottom(f, id) = [i \in DOMAIN f |-> f[From(f, id)[i]]]
  <1> DEFINE p == From(f, id)
  <1>1. DOMAIN f = 1..Len(f) /\ Len(f) \in Nat
    OBVIOUS
  <1>2. CASE FirstId(f, id) = {}
    <2>1. \A i \in DOMAIN f : p[i] = i
      BY <1>2 DEF From
    <2>2. p \in [DOMAIN f -> DOMAIN f] /\ Injective(p)
      BY <2>1 DEF From, Injective
    <2>3. MoveFeatureToBottom(f, id) = [i \in DOMAIN f |-> f[p[i]]]
      BY <1>2, <2>1 DEF MoveFeatureToBottom
    <2> QED BY <2>2, <2>3
  <1>3. ASSUME NEW k \in FirstId(f, id)
        PROVE  /\ p \in [DOMAIN f -> DOMAIN f] /\ Injective(p)
               /\ MoveFeatureToBottom(f, id) = [i \in DOMAIN f |-> f[p[i]]]
    <2>1. FirstId(f, id) = {k} /\ k \in 1..Len(f)
      BY <1>3, FirstIdOne, FirstIdIndex, <1>1
    <2>2. \A i \in DOMAIN f :
             p[i] = IF i >= k THEN IF i = Len(f) THEN k ELSE i + 1 ELSE i
      BY <2>1 DEF From
    <2>3. p \in [DOMAIN f -> DOMAIN f]
      <3>1. p = [i \in DOMAIN f |-> p[i]]
        BY DEF From
      <3>2. \A i \in DOMAIN f : p[i] \in DOMAIN f
        BY <1>1, <2>1, <2>2
      <3> HIDE DEF p
      <3> QED BY <3>1, <3>2
    <2>4. Injective(p)
      <3>1. DOMAIN p = 1..Len(f)
        BY <1>1 DEF From
      <3> HIDE DEF p
      <3> QED BY <1>1, <2>1, <2>2, <3>1 DEF Injective
    <2>5. MoveFeatureToBottom(f, id) = [i \in DOMAIN f |-> f[p[i]]]
      BY <2>1, <2>2 DEF MoveFeatureToBottom
    <2> QED BY <2>3, <2>4, <2>5
  <1> QED BY <1>2, <1>3

LEMMA MovedIds ==
  ASSUME NEW f \in Seq(Feature), NEW id
  PROVE  SameIds(MoveFeatureToBottom(f, id), f)
  <1> DEFINE g == MoveFeatureToBottom(f, id)
             p == From(f, id)
  <1>1. p \in [DOMAIN f -> DOMAIN f] /\ Injective(p) /\ g = [i \in DOMAIN f |-> f[p[i]]]
    BY MovedFrom
  <1> HIDE DEF g, p
  <1>2. DOMAIN g = DOMAIN f /\ \A i \in DOMAIN g : g[i].id = f[p[i]].id
    BY <1>1
  <1>3. SameIds(g, f)
    BY <1>1, <1>2 DEF SameIds
  <1> QED BY <1>3 DEF g

LEMMA InsertedIds ==
  ASSUME NEW f \in Seq(Feature), NEW id \in Ids
  PROVE  /\ \A S : Once(f, S) /\ (id \in S => ~Has(f, id))
                   => Once(InsertFeatureAtTop(f, id), S)
         /\ \A x : Has(InsertFeatureAtTop(f, id), x) => x = id \/ Has(f, x)
  <1> DEFINE g == InsertFeatureAtTop(f, id)
  <1>1. DOMAIN f = 1..Len(f) /\ Len(f) \in Nat /\ NewFeature(id) \in Feature
    BY NewFeatureType
  <1>2. DOMAIN g = 1..(Len(f) + 1) /\ g[1] = NewFeature(id)
        /\ \A i \in 2..(Len(f) + 1) : g[i] = f[i - 1] /\ i - 1 \in 1..Len(f)
    BY <1>1 DEF InsertFeatureAtTop
  <1>3. g[1].id = id
    BY <1>2 DEF NewFeature
  <1> HIDE DEF g
  <1>4. ASSUME NEW S, Once(f, S), id \in S => ~Has(f, id),
               NEW i \in DOMAIN g, NEW j \in DOMAIN g, g[i].id \in S, g[i].id = g[j].id
        PROVE  i = j
    <2>1. CASE i = 1 /\ j = 1
      BY <2>1
    <2>2. CASE i = 1 /\ j # 1
      <3>1. j - 1 \in DOMAIN f /\ f[j - 1].id = id
        BY <1>1, <1>2, <1>3, <1>4, <2>2
      <3> QED BY <1>3, <1>4, <2>2, <3>1 DEF Has
    <2>3. CASE i # 1 /\ j = 1
      <3>1. i - 1 \in DOMAIN f /\ f[i - 1].id = id
        BY <1>1, <1>2, <1>3, <1>4, <2>3
      <3> QED BY <1>3, <1>4, <2>3, <3>1 DEF Has
    <2>4. CASE i # 1 /\ j # 1
      <3>1. i - 1 \in DOMAIN f /\ j - 1 \in DOMAIN f /\ f[i - 1].id = f[j - 1].id
            /\ f[i - 1].id \in S /\ i \in Int /\ j \in Int
        BY <1>1, <1>2, <1>4, <2>4
      <3>2. i - 1 = j - 1
        BY <1>4, <3>1 DEF Once
      <3> QED BY <3>1, <3>2
    <2> QED BY <2>1, <2>2, <2>3, <2>4
  <1>5. ASSUME NEW x, Has(g, x) PROVE x = id \/ Has(f, x)
    <2>1. PICK i \in DOMAIN g : g[i].id = x
      BY <1>5 DEF Has
    <2>2. CASE i = 1
      BY <1>3, <2>1, <2>2
    <2>3. CASE i # 1
      <3>1. i - 1 \in DOMAIN f /\ f[i - 1].id = x
        BY <1>1, <1>2, <2>1, <2>3
      <3> QED BY <3>1 DEF Has
    <2> QED BY <2>2, <2>3
  <1> QED BY <1>4, <1>5 DEF Once, g

\* The ids change only by insertion: at a milestone, or by the orchestrator.
LEMMA LoopIds ==
  ASSUME IInv, NEW l \in Loops, LoopStep(l) \/ HandlerStep(l),
         ~InsertsUserTesting(l), ~InsertsScrutiny(l)
  PROVE  SameIds(features', features)
  <1>1. features \in Seq(Feature)
    BY DEF IInv, FilesInv
  <1>2. features' = features => SameIds(features', features)
    BY PointwiseIds
  <1>3. CASE \E id, w : features' = Requeue(features, id, w)
    BY <1>1, <1>3, RequeueIds
  <1>4. CASE MarksInProgress(l)
    BY <1>1, <1>4, AssignIds DEF MarksInProgress, WriteFeatures
  <1>5. Cleanup(l) \/ Preempts(l) \/ DispatchFails(l) \/ RequeuesFailed(l)
        => features' = features \/ \E id, w : features' = Requeue(features, id, w)
    BY DEF Cleanup, Preempts, DispatchFails, RequeuesFailed, WriteFeatures
  <1>6. CASE ~Cleanup(l) /\ ~Preempts(l) /\ ~DispatchFails(l) /\ ~RequeuesFailed(l)
             /\ ~MarksInProgress(l)
    <2>1. features' = features
      BY <1>6 DEF LoopStep, HandlerStep, ToolLaunches, LoopStops, LoopAborts,
         LoopReopens, LoopSetsRunning, LoopDispatches, SpawnReads,
         ExhaustedLogs, ExhaustedPauses, SessionSpawned, SpawnFails,
         ResumeLoads, ResumeFails, PromptSent, PromptFails, Notified, WaitEnds, Posts,
         Checks, MarksValidated, Finishes, Rechecks,
         SetsCompleted, SetsOrchestratorTurn, LoopEndsWith, LoopPauseLogs, LoopPauses,
         Exits, Logs402, Pauses402
    <2> QED BY <2>1, <1>2
  <1> QED BY <1>2, <1>3, <1>4, <1>5, <1>6

LEMMA WorkerIds ==
  ASSUME IInv, NEW w \in Workers, WorkerStep(w)
  PROVE  SameIds(features', features)
  <1>1. features \in Seq(Feature)
    BY DEF IInv, FilesInv
  <1>2. \/ features' = features
        \/ \E id, status : features' = UpdateFeature(features, id, status)
        \/ \E id : features' = MoveFeatureToBottom(features, id)
    BY DEF WorkerStep, Ends, MovesToBottom, ReturnsToOrchestrator, LogsCompleted,
       Signals402, WorkerExits, SessionExpires, Obeys, WriteFeatures
  <1> QED BY <1>1, <1>2, PointwiseIds, StatusIds, MovedIds

LEMMA CallsIds ==
  ASSUME IInv, Calls, \A id \in Extra : ~OrchestratorAdds(id)
  PROVE  SameIds(features', features)
  <1>1. features \in Seq(Feature)
    BY DEF IInv, FilesInv
  <1>2. features' = features => SameIds(features', features)
    BY PointwiseIds
  <1>3. ASSUME NEW explicit, NEW restart, StartMissionRun(explicit, restart)
        PROVE  SameIds(features', features)
    <2>1. \E p : /\ MovesStranded(features, p)
                 /\ features' = [i \in DOMAIN features |-> features[p[i]]]
      BY <1>3 DEF StartMissionRun, WriteFeatures
    <2> QED BY <1>1, <2>1, StrandedIds
  <1>4. CASE Abort \/ UserPauses \/ OrchestratorDismisses
    <2>1. features' = features
      BY <1>4 DEF Abort, UserPauses, OrchestratorDismisses
    <2> QED BY <2>1, <1>2
  <1>5. ASSUME NEW w \in Workers, UserKills(w)
        PROVE  SameIds(features', features)
    <2>1. features' = features \/ \E id : features' = Requeue(features, id, w)
      BY <1>5 DEF UserKills, WriteFeatures
    <2> QED BY <1>1, <1>2, <2>1, RequeueIds
  <1>6. ASSUME NEW i \in DOMAIN features, OrchestratorCancels(i)
        PROVE  SameIds(features', features)
    <2>1. features' = [features EXCEPT ![i].status = "cancelled"]
      BY <1>6 DEF OrchestratorCancels, Edit, WriteFeatures
    <2> QED BY <1>1, <2>1, CancelIds
  <1> QED BY <1>3, <1>4, <1>5, <1>6 DEF Calls

-----------------------------------------------------------------------------
(* The validators of a milestone.                                          *)

\* An id of the plan is not a validator's.
PlainIds == Features \cap ValidatorIds = {}

ValidationPC == {"insertUserTesting", "insertScrutiny", "markValidated"}

\* Whoever finds a validator in features.json finds the milestone triggered, or the
\* loop that is about to write the entry.
ValidationInv ==
    /\ Once(features, ValidatorIds)
    /\ \A m \in Milestones :
          Has(features, Scrutiny(m)) \/ Has(features, UserTesting(m)) =>
             \/ m \in validated
             \/ \E l \in Loops : /\ loop[l].pc \in {"insertScrutiny", "markValidated"}
                                 /\ loop[l].id = UserTesting(m)
    /\ \A l \in Loops : loop[l].pc \in ValidationPC =>
          \E m \in Milestones :
             /\ loop[l].id = UserTesting(m)
             /\ m \notin validated
             /\ loop[l].pc = "insertScrutiny" => ~Has(features, Scrutiny(m))

LEMMA ValidationKept ==
  ASSUME ValidationInv, SameIds(features', features), UNCHANGED validated,
         \A l \in Loops : loop[l].pc \in ValidationPC \/ loop'[l].pc \in ValidationPC
                          => loop'[l].pc = loop[l].pc /\ loop'[l].id = loop[l].id
  PROVE  ValidationInv'
  <1>1. Once(features', ValidatorIds) /\ \A id : Has(features', id) => Has(features, id)
    BY SameIdsMeans DEF ValidationInv
  <1>2. ASSUME NEW m \in Milestones,
               Has(features', Scrutiny(m)) \/ Has(features', UserTesting(m))
        PROVE  \/ m \in validated'
               \/ \E l \in Loops : /\ loop'[l].pc \in {"insertScrutiny", "markValidated"}
                                   /\ loop'[l].id = UserTesting(m)
    BY <1>1, <1>2 DEF ValidationInv, ValidationPC
  <1>3. ASSUME NEW l \in Loops, loop'[l].pc \in ValidationPC
        PROVE  \E m \in Milestones :
                  /\ loop'[l].id = UserTesting(m)
                  /\ m \notin validated'
                  /\ loop'[l].pc = "insertScrutiny" => ~Has(features', Scrutiny(m))
    BY <1>1, <1>3 DEF ValidationInv
  <1> QED BY <1>1, <1>2, <1>3 DEF ValidationInv

\* The steps of a loop outside the validation.
LEMMA OutsideValidation ==
  ASSUME SInv, NEW l \in Loops, LoopStep(l),
         ~Checks(l), ~InsertsUserTesting(l), ~InsertsScrutiny(l), ~MarksValidated(l)
  PROVE  /\ \A k \in Loops \ {l} : loop'[k] = loop[k]
         /\ \/ loop'[l] = loop[l]
            \/ loop'[l].pc \notin ValidationPC /\ loop[l].pc \notin ValidationPC
  <1> USE DEF SInv
  <1>1. loop[l].pc \notin ValidationPC
    BY DEF LoopStep, ToolLaunches, Cleanup, LoopStops, LoopAborts,
       LoopReopens, LoopSetsRunning, LoopDispatches, Preempts, SpawnReads,
       ExhaustedLogs, ExhaustedPauses, SessionSpawned, SpawnFails, MarksInProgress,
       ResumeLoads, ResumeFails, PromptSent, PromptFails, DispatchFails, Notified,
       WaitEnds, Posts, Finishes, Rechecks, SetsCompleted, SetsOrchestratorTurn,
       LoopEndsWith, LoopPauseLogs, LoopPauses, Exits, At, Proceeds, ValidationPC
  <1>2. CASE \E pc \in LoopPC \ ValidationPC : Goto(l, pc)
    BY <1>1, <1>2, GotoFields
  <1>3. CASE \E out, ids : Return(l, out, ids)
    <2>1. PICK out, ids : Return(l, out, ids)
      BY <1>3
    <2> QED BY <1>1, <2>1, ReturnFields DEF ValidationPC
  <1>4. CASE ToolLaunches(l)
    <2> DEFINE q == [Idle EXCEPT !.resume = tool.resume,
                        !.pc = IF tool.resume = None THEN "cleanup" ELSE "top"]
    <2>1. q.pc \in {"cleanup", "top"}
      BY DEF Idle
    <2>2. UNCHANGED loop \/ loop' = [loop EXCEPT ![l] = q]
      BY <1>4 DEF ToolLaunches
    <2> HIDE DEF q
    <2>3. \/ UNCHANGED loop
          \/ (\A k \in Loops \ {l} : loop'[k] = loop[k]) /\ loop'[l] = q
      BY <2>2, RecordSet
    <2> QED BY <1>1, <2>1, <2>3 DEF ValidationPC
  <1>5. CASE Exits(l)
    <2>1. loop' = [loop EXCEPT ![l] = Idle]
      BY <1>5 DEF Exits
    <2>2. Idle.pc = "idle"
      BY DEF Idle
    <2>3. (\A k \in Loops \ {l} : loop'[k] = loop[k]) /\ loop'[l] = Idle
      BY <2>1, RecordSet
    <2> QED BY <1>1, <2>2, <2>3 DEF ValidationPC
  <1>6. CASE LoopDispatches(l)
    BY <1>1, <1>6, DispatchEffect DEF ValidationPC
  <1>7. CASE SpawnReads(l)
    BY <1>1, <1>7, SpawnReadsEffect DEF ValidationPC
  <1>8. CASE SessionSpawned(l)
    BY <1>1, <1>8, SpawnedEffect DEF ValidationPC
  <1>9. CASE MarksInProgress(l)
    BY <1>1, <1>9, MarksEffect DEF ValidationPC
  <1>10. CASE ResumeLoads(l)
    BY <1>1, <1>10, ResumeLoadsEffect DEF ValidationPC
  <1>11. CASE ResumeFails(l)
    BY <1>1, <1>11, ResumeFailsEffect DEF ValidationPC
  <1>12. CASE Notified(l)
    <2>1. \/ UNCHANGED loop
          \/ loop' = [loop EXCEPT ![l].done = TRUE]
      BY <1>12, NotifiedEffect DEF Handles, Completes
    <2>2. (\A k \in Loops \ {l} : loop'[k] = loop[k]) /\ loop'[l].pc = loop[l].pc
      BY <2>1 DEF IInv, LoopsInv, LoopOK, LoopRecord
    <2> QED BY <1>1, <2>2
  <1>13. CASE WaitEnds(l) \/ DispatchFails(l) \/ ExhaustedPauses(l)
    BY <1>13, <1>3 DEF WaitEnds, DispatchFails, ExhaustedPauses
  <1>14. CASE \/ Cleanup(l) \/ LoopStops(l) \/ LoopAborts(l) \/ LoopReopens(l)
              \/ LoopSetsRunning(l) \/ Preempts(l) \/ ExhaustedLogs(l) \/ SpawnFails(l)
              \/ PromptSent(l) \/ PromptFails(l) \/ Posts(l) \/ Rechecks(l)
              \/ SetsCompleted(l) \/ SetsOrchestratorTurn(l) \/ LoopPauseLogs(l)
              \/ LoopPauses(l)
    <2>1. \E pc \in LoopPC \ ValidationPC : Goto(l, pc)
      BY <1>14 DEF Cleanup, LoopStops, LoopAborts, LoopReopens, LoopSetsRunning, Preempts,
         ExhaustedLogs, SpawnFails, PromptSent, PromptFails, Posts, Rechecks,
         SetsCompleted, SetsOrchestratorTurn, LoopEndsWith, LoopPauseLogs, LoopPauses,
         ValidationPC, LoopPC
    <2> QED BY <2>1, <1>2
  <1>15. CASE Finishes(l)
    <2>1. loop[l].out \in {"success", "return", "paused"}
      BY Record DEF LoopRecord
    <2>2. \E pc \in LoopPC \ ValidationPC : Goto(l, pc)
      BY <1>15, <2>1 DEF Finishes, ValidationPC, LoopPC
    <2> QED BY <2>2, <1>2
  <1> QED BY <1>4, <1>5, <1>6, <1>7, <1>8, <1>9, <1>10, <1>11, <1>12, <1>13, <1>14, <1>15
          DEF LoopStep

LEMMA ValidatorOf ==
  ASSUME PlainIds, NEW m \in Milestones
  PROVE  /\ UserTesting(m) \in ValidatorIds /\ Scrutiny(m) \in ValidatorIds
         /\ UserTesting(m) \in Ids /\ Scrutiny(m) \in Ids
         /\ Milestone(UserTesting(m)) = m
         /\ \A n \in Milestones : Scrutiny(m) # UserTesting(n)
         /\ \A n \in Milestones : Scrutiny(m) = Scrutiny(n) => m = n
         /\ \A n \in Milestones : UserTesting(m) = UserTesting(n) => m = n
  <1>1. UserTesting(m) \in ValidatorIds /\ Scrutiny(m) \in ValidatorIds
    BY DEF ValidatorIds
  <1>2. UserTesting(m) \notin Features
    BY <1>1 DEF PlainIds
  <1>3. UserTesting(m)[2] = m
    BY DEF UserTesting
  <1>4. \A n \in Milestones : Scrutiny(m) # UserTesting(n)
    BY DEF UserTesting, Scrutiny
  <1>5. \A n \in Milestones : (Scrutiny(m) = Scrutiny(n) => m = n)
                              /\ (UserTesting(m) = UserTesting(n) => m = n)
    BY DEF UserTesting, Scrutiny
  <1> QED BY <1>1, <1>2, <1>3, <1>4, <1>5 DEF Milestone, Ids

\* A milestone is triggered when it is not yet, and no loop is at it.
LEMMA ValidationStarts ==
  ASSUME SInv, ValidationInv, NEW l \in Loops, Checks(l)
  PROVE  ValidationInv'
  <1> USE DEF SInv
  <1>1. UNCHANGED <<features, validated>> /\ loop[l].pc = "check"
    BY ZenonT(60) DEF Checks, At
  <1>2. SameIds(features', features)
    BY <1>1, PointwiseIds
  <1>3. \A k \in Loops \ {l} : loop'[k] = loop[k]
    BY ChecksEffect
  <1>4. CASE loop'[l].pc \notin ValidationPC
    BY <1>1, <1>2, <1>3, <1>4, ValidationKept DEF ValidationPC
  <1>5. CASE loop'[l].pc \in ValidationPC
    <2>1. loop[l].back \in {"finish", "recheck"}
      BY Record DEF LoopRecord
    <2>2. /\ loop'[l].pc = "insertUserTesting"
          /\ \E m \in Milestones : m \notin validated /\ loop'[l].id = UserTesting(m)
      BY <1>5, <2>1, ChecksEffect DEF ValidationPC, Due
    <2> QED BY <1>1, <1>3, <2>2 DEF ValidationInv, ValidationPC
  <1> QED BY <1>4, <1>5

LEMMA ValidationInserts ==
  ASSUME SInv, ValidationInv, PlainIds, NEW l \in Loops,
         InsertsUserTesting(l) \/ InsertsScrutiny(l)
  PROVE  ValidationInv'
  <1> USE DEF SInv
  <1>1. loop[l].pc \in {"insertUserTesting", "insertScrutiny"} /\ UNCHANGED validated
        /\ loop[l].pc \in ValidationPC
    BY DEF InsertsUserTesting, InsertsScrutiny, At, ValidationPC
  <1>2. PICK m \in Milestones :
           /\ loop[l].id = UserTesting(m)
           /\ m \notin validated
           /\ loop[l].pc = "insertScrutiny" => ~Has(features, Scrutiny(m))
    BY <1>1 DEF ValidationInv
  <1>3. Validating(l) = m
    BY <1>2, ValidatorOf DEF Validating
  <1>4. features \in Seq(Feature)
    BY DEF IInv, FilesInv
  <1>5. \A k \in Loops \ {l} : loop[k].pc = "idle"
    BY <1>1 DEF CallInv
  <1>6. \A n \in Milestones : n # m =>
           (Has(features, Scrutiny(n)) \/ Has(features, UserTesting(n)) => n \in validated)
    BY <1>1, <1>2, <1>5, ValidatorOf DEF ValidationInv
  <1>7. CASE InsertsUserTesting(l)
    <2>1. /\ loop[l].pc = "insertUserTesting" /\ Goto(l, "insertScrutiny")
          /\ features' = IF SkipUserTesting THEN features
                         ELSE InsertFeatureAtTop(features, UserTesting(m))
      BY <1>3, <1>7 DEF InsertsUserTesting, At, WriteFeatures
    <2>2. ~Has(features, UserTesting(m)) /\ ~Has(features, Scrutiny(m))
      BY <1>2, <1>5, <2>1 DEF ValidationInv
    <2>3. /\ \A k \in Loops \ {l} : loop'[k] = loop[k]
          /\ loop'[l].pc = "insertScrutiny" /\ loop'[l].id = UserTesting(m)
      BY <1>2, <2>1, GotoFields
    <2>4. /\ Once(features', ValidatorIds)
          /\ \A x : Has(features', x) => x = UserTesting(m) \/ Has(features, x)
      BY <1>4, <2>1, <2>2, InsertedIds, ValidatorOf DEF ValidationInv
    <2>5. ~Has(features', Scrutiny(m))
      BY <2>2, <2>4, ValidatorOf
    <2>6. ASSUME NEW n \in Milestones,
                 Has(features', Scrutiny(n)) \/ Has(features', UserTesting(n))
          PROVE  n \in validated \/ n = m
      BY <1>6, <2>4, <2>6, ValidatorOf
    <2> QED BY <1>1, <1>2, <1>5, <2>3, <2>4, <2>5, <2>6 DEF ValidationInv, ValidationPC
  <1>8. CASE InsertsScrutiny(l)
    <2>1. /\ loop[l].pc = "insertScrutiny" /\ Goto(l, "markValidated")
          /\ features' = IF SkipScrutiny THEN features
                         ELSE InsertFeatureAtTop(features, Scrutiny(m))
      BY <1>3, <1>8 DEF InsertsScrutiny, At, WriteFeatures
    <2>2. ~Has(features, Scrutiny(m))
      BY <1>2, <2>1
    <2>3. /\ \A k \in Loops \ {l} : loop'[k] = loop[k]
          /\ loop'[l].pc = "markValidated" /\ loop'[l].id = UserTesting(m)
      BY <1>2, <2>1, GotoFields
    <2>4. /\ Once(features', ValidatorIds)
          /\ \A x : Has(features', x) => x = Scrutiny(m) \/ Has(features, x)
      BY <1>4, <2>1, <2>2, InsertedIds, ValidatorOf DEF ValidationInv
    <2>5. ASSUME NEW n \in Milestones,
                 Has(features', Scrutiny(n)) \/ Has(features', UserTesting(n))
          PROVE  n \in validated \/ n = m
      BY <1>6, <2>4, <2>5, ValidatorOf
    <2> QED BY <1>1, <1>2, <1>5, <2>3, <2>4, <2>5 DEF ValidationInv, ValidationPC
  <1> QED BY <1>7, <1>8

LEMMA ValidationMarked ==
  ASSUME SInv, ValidationInv, PlainIds, NEW l \in Loops, MarksValidated(l)
  PROVE  ValidationInv'
  <1> USE DEF SInv
  <1>1. loop[l].pc = "markValidated" /\ UNCHANGED features
        /\ validated' = validated \cup {Validating(l)}
    BY DEF MarksValidated, At
  <1>2. PICK m \in Milestones : loop[l].id = UserTesting(m) /\ m \notin validated
    BY <1>1 DEF ValidationInv, ValidationPC
  <1>3. Validating(l) = m
    BY <1>2, ValidatorOf DEF Validating
  <1>4. /\ \A k \in Loops \ {l} : loop'[k] = loop[k]
        /\ loop'[l].pc = "check"
    BY DEF MarksValidated, IInv, LoopsInv, LoopOK, LoopRecord
  <1>5. \A k \in Loops \ {l} : loop[k].pc = "idle"
    BY <1>1 DEF CallInv
  <1>6. \A n \in Milestones :
           Has(features, Scrutiny(n)) \/ Has(features, UserTesting(n)) => n \in validated'
    BY <1>1, <1>2, <1>3, <1>5, ValidatorOf DEF ValidationInv
  <1> QED BY <1>1, <1>4, <1>5, <1>6 DEF ValidationInv, ValidationPC

LEMMA ValidationLoops ==
  ASSUME SInv, ValidationInv, PlainIds, NEW l \in Loops, LoopStep(l) \/ HandlerStep(l)
  PROVE  ValidationInv'
  <1> USE DEF SInv
  <1>1. CASE Checks(l) \/ InsertsUserTesting(l) \/ InsertsScrutiny(l) \/ MarksValidated(l)
    BY <1>1, ValidationStarts, ValidationInserts, ValidationMarked
  <1>2. CASE LoopStep(l) /\ ~Checks(l) /\ ~InsertsUserTesting(l) /\ ~InsertsScrutiny(l)
             /\ ~MarksValidated(l)
    <2>1. SameIds(features', features)
      BY <1>2, LoopIds
    <2>2. UNCHANGED validated
      BY <1>2 DEF LoopStep, ToolLaunches, Cleanup, LoopStops, LoopAborts, LoopReopens,
         LoopSetsRunning, LoopDispatches, Preempts, SpawnReads,
         ExhaustedLogs, ExhaustedPauses, SessionSpawned, SpawnFails, MarksInProgress,
         ResumeLoads, ResumeFails, PromptSent, PromptFails, DispatchFails, Notified,
         WaitEnds, Posts, Finishes, Rechecks, SetsCompleted, SetsOrchestratorTurn,
         LoopEndsWith, LoopPauseLogs, LoopPauses, Exits
    <2>3. \A k \in Loops : loop[k].pc \in ValidationPC \/ loop'[k].pc \in ValidationPC
                           => loop'[k].pc = loop[k].pc /\ loop'[k].id = loop[k].id
      BY <1>2, OutsideValidation
    <2> QED BY <2>1, <2>2, <2>3, ValidationKept
  <1>3. CASE HandlerStep(l) /\ ~InsertsUserTesting(l) /\ ~InsertsScrutiny(l)
    <2>1. SameIds(features', features)
      BY <1>3, LoopIds
    <2>2. UNCHANGED validated
      BY <1>3 DEF HandlerStep, Logs402, Pauses402, RequeuesFailed
    <2>3. \A k \in Loops : loop'[k].pc = loop[k].pc /\ loop'[k].id = loop[k].id
      BY <1>3, HandlerEndsEffect DEF HandlerStep, Logs402, Pauses402, RequeuesFailed
    <2> QED BY <2>1, <2>2, <2>3, ValidationKept
  <1> QED BY <1>1, <1>2, <1>3

LEMMA ValidationNext ==
  ASSUME NoCutOff, "crash" \notin Faults, PlainIds
  PROVE  SInv /\ ValidationInv /\ [Next]_vars => ValidationInv'
  <1> SUFFICES ASSUME SInv, ValidationInv, [Next]_vars PROVE ValidationInv'
    OBVIOUS
  <1> USE DEF SInv
  <1>1. CASE \E l \in Loops : LoopStep(l) \/ HandlerStep(l)
    BY <1>1, ValidationLoops
  <1>2. CASE ToolStep \/ OpStep \/ Reload \/ UNCHANGED vars
    <2>1. UNCHANGED <<features, validated, loop>>
      BY <1>2 DEF ToolStep, OpStep, ToolGrants, ToolSetsRunning, PauseLogs, PauseWrites,
         PauseChecks, PauseOverwrites, KillInterrupts, Reload, vars
    <2> QED BY <2>1, PointwiseIds, ValidationKept
  <1>3. ASSUME NEW w \in Workers, WorkerStep(w)
        PROVE  ValidationInv'
    <2>1. SameIds(features', features)
      BY <1>3, WorkerIds
    <2>2. UNCHANGED <<validated, loop>>
      BY <1>3 DEF WorkerStep, Ends, MovesToBottom, ReturnsToOrchestrator, LogsCompleted,
         Signals402, WorkerExits, SessionExpires, Obeys
    <2> QED BY <2>1, <2>2, ValidationKept
  <1>4. ASSUME NEW id \in Extra, OrchestratorAdds(id)
        PROVE  ValidationInv'
    <2>1. /\ features' = InsertFeatureAtTop(features, id)
          /\ UNCHANGED <<validated, loop>>
      BY <1>4 DEF OrchestratorAdds, Edit, WriteFeatures
    <2>2. features \in Seq(Feature) /\ id \in Ids /\ id \notin ValidatorIds
      BY RunAssumption DEF IInv, FilesInv, Ids, PlainIds
    <2>3. /\ Once(features', ValidatorIds)
          /\ \A x : Has(features', x) => x = id \/ Has(features, x)
      BY <2>1, <2>2, InsertedIds DEF ValidationInv
    <2>4. \A m \in Milestones : /\ Has(features', Scrutiny(m)) => Has(features, Scrutiny(m))
                                /\ Has(features', UserTesting(m)) => Has(features, UserTesting(m))
      BY <2>2, <2>3, ValidatorOf
    <2> QED BY <2>1, <2>3, <2>4 DEF ValidationInv
  <1>5. CASE Calls /\ \A id \in Extra : ~OrchestratorAdds(id)
    <2>1. SameIds(features', features)
      BY <1>5, CallsIds
    <2>2. UNCHANGED <<validated, loop>>
      BY <1>5 DEF Calls, StartMissionRun, Abort, UserPauses, UserKills,
         OrchestratorCancels, Edit, OrchestratorDismisses
    <2> QED BY <2>1, <2>2, ValidationKept
  <1>6. ~Crash
    BY DEF Crash
  <1> QED BY <1>1, <1>2, <1>3, <1>4, <1>5, <1>6 DEF Next

LEMMA ValidationInit ==
  ASSUME PlainIds
  PROVE  Init => ValidationInv
  <1> SUFFICES ASSUME Init PROVE ValidationInv
    OBVIOUS
  <1>1. DOMAIN features = DOMAIN Planned
        /\ \A i \in DOMAIN features : features[i].id = Planned[i]
    BY DEF Init, NewFeature
  <1>2. \A i \in DOMAIN features : features[i].id \notin ValidatorIds
    BY <1>1, RunAssumption DEF PlainIds
  <1>3. \A l \in Loops : loop[l].pc \notin ValidationPC
    BY DEF Init, Idle, ValidationPC
  <1> QED BY <1>2, <1>3, ValidatorOf DEF ValidationInv, Once, Has

\* The validators of a milestone are injected at most once, however the writes of the
\* workers, the orchestrator and the pauses interleave with the four steps of
\* checkMilestoneCompletionAndInjectValidation: the two insertions and the log entry are
\* not atomic, and hold together because one loop runs and the process lives.
THEOREM ValidatorsComeOnce ==
  ASSUME NoCutOff, "crash" \notin Faults, PlainIds
  PROVE  Spec => []ValidatorsOnce
  <1>1. Init => SInv /\ ValidationInv
    BY RunInit, ValidationInit
  <1>2. SInv /\ ValidationInv /\ [Next]_vars => (SInv /\ ValidationInv)'
    BY RunNext, ValidationNext
  <1>3. ValidationInv => ValidatorsOnce
    BY DEF ValidationInv, Once, ValidatorsOnce
  <1> QED BY <1>1, <1>2, <1>3, PTL DEF Spec

-----------------------------------------------------------------------------
(* Who works and who waits for it.                                         *)

Active(w) == worker[w].phase = "working" /\ worker[w].told = "nothing"
Closed(w) == w \in Workers => worker[w].phase = "closed"

\* The loop with record r still expects a result of w.
Awaits(r, w) ==
    /\ r.worker = w
    /\ r.pc = "dispatchFailed" \/ (r.pc = "waiting" /\ r.fail = "no" /\ ~r.done)

\* A loop with its handler and its notifications: an exit is only reported of a
\* session that is gone.
Attends(r, h, n) ==
    /\ r.pc = "prompt" => r.fail = "no" /\ ~r.done
    /\ r.pc \notin {"prompt", "waiting"} => n = <<>>
    /\ (\E i \in DOMAIN n : n[i] = "exit") => Closed(r.worker)
    /\ h.live => r.pc = "waiting" /\ h.worker = r.worker
    /\ h.live /\ h.pc = "fail" => Closed(h.worker)

WatchInv ==
    /\ \A w \in Workers : Active(w) => \E l \in Loops : Awaits(loop[l], w)
    /\ \A l \in Loops : Attends(loop[l], handler[l], note[l])

\* A request never makes a session work, nor takes a closed one back.
LEMMA Told ==
  ASSUME IInv, NEW ws, NEW what \in {"interrupt", "close"}, Tell(ws, what)
  PROVE  \A w \in Workers : /\ worker'[w].phase = worker[w].phase
                            /\ worker'[w].told = "nothing" =>
                                  worker[w].told = "nothing" /\ w \notin ws
  BY DEF Tell, IInv, WorkersInv, WorkerRecord

LEMMA WatchKept ==
  ASSUME WatchInv,
         \A l \in Loops : /\ loop'[l].pc = loop[l].pc /\ loop'[l].worker = loop[l].worker
                          /\ loop'[l].fail = loop[l].fail /\ loop'[l].done = loop[l].done,
         UNCHANGED <<handler, note>>,
         \A w \in Workers : /\ Active(w)' => Active(w)
                            /\ worker[w].phase = "closed" => worker'[w].phase = "closed"
  PROVE  WatchInv'
  <1>1. \A w \in Workers : Active(w)' => \E l \in Loops : Awaits(loop'[l], w)
    BY DEF WatchInv, Awaits
  <1>2. \A l \in Loops : Attends(loop[l], handler[l], note[l])'
    BY DEF WatchInv, Attends, Closed
  <1> QED BY <1>1, <1>2 DEF WatchInv

\* One loop moves, the others are idle.
LEMMA WatchMoves ==
  ASSUME WatchInv, NEW l \in Loops,
         \A k \in Loops \ {l} : /\ loop[k].pc = "idle" /\ loop'[k] = loop[k]
                                /\ handler'[k] = handler[k] /\ note'[k] = note[k],
         \A w \in Workers : Active(w)' => Awaits(loop'[l], w),
         Attends(loop[l], handler[l], note[l])'
  PROVE  WatchInv'
  <1>1. \A k \in Loops \ {l} : note[k] = <<>> /\ ~handler[k].live
    BY DEF WatchInv, Attends
  <1>2. \A k \in Loops \ {l} : Attends(loop[k], handler[k], note[k])'
    BY <1>1 DEF Attends
  <1> QED BY <1>2 DEF WatchInv

LEMMA ActiveHere ==
  ASSUME WatchInv, NEW l \in Loops, \A k \in Loops \ {l} : loop[k].pc = "idle"
  PROVE  \A w \in Workers : Active(w) => Awaits(loop[l], w)
  BY DEF WatchInv, Awaits

\* A loop that has no worker at work moves.
LEMMA WatchApart ==
  ASSUME WatchInv, NEW l \in Loops,
         \A k \in Loops \ {l} : loop[k].pc = "idle" /\ loop'[k] = loop[k],
         loop[l].pc \notin {"prompt", "waiting", "dispatchFailed"},
         loop'[l].pc = "prompt" => loop'[l].fail = "no" /\ ~loop'[l].done,
         UNCHANGED <<handler, note>>,
         \A w \in Workers : Active(w)' => Active(w)
  PROVE  WatchInv'
  <1>1. \A w \in Workers : ~Active(w)'
    BY ActiveHere DEF Awaits
  <1>2. note[l] = <<>> /\ ~handler[l].live
    BY DEF WatchInv, Attends
  <1>3. Attends(loop[l], handler[l], note[l])'
    BY <1>2 DEF Attends
  <1> QED BY <1>1, <1>3, WatchMoves

\* The other loops are idle while one is live, or is launched.
LEMMA Alone ==
  ASSUME SInv, NEW l \in Loops, LoopStep(l)
  PROVE  \A k \in Loops \ {l} : loop[k].pc = "idle"
  <1>1. CASE ToolLaunches(l)
    BY <1>1 DEF ToolLaunches, SInv, CallInv
  <1>2. CASE ~ToolLaunches(l)
    <2>1. loop[l].pc # "idle"
      BY <1>2 DEF LoopStep, Cleanup, LoopStops, LoopAborts, LoopReopens, LoopSetsRunning,
         LoopDispatches, Preempts, SpawnReads, ExhaustedLogs, ExhaustedPauses,
         SessionSpawned, SpawnFails, MarksInProgress, ResumeLoads, ResumeFails, PromptSent,
         PromptFails, DispatchFails, Notified, WaitEnds, Posts, Checks, InsertsUserTesting,
         InsertsScrutiny, MarksValidated, Finishes, Rechecks, SetsCompleted,
         SetsOrchestratorTurn, LoopEndsWith, LoopPauseLogs, LoopPauses, Exits, At, Proceeds
    <2> QED BY <2>1 DEF SInv, CallInv
  <1> QED BY <1>1, <1>2

AtWorker == {"prompt", "waiting", "dispatchFailed"}

\* A step of a loop that has no worker yet, or no longer.
ApartStep(l) ==
    /\ LoopStep(l)
    /\ ~PromptSent(l) /\ ~PromptFails(l) /\ ~DispatchFails(l) /\ ~Notified(l) /\ ~WaitEnds(l)

LEMMA ApartLoop ==
  ASSUME SInv, NEW l \in Loops, ApartStep(l)
  PROVE  /\ \A k \in Loops \ {l} : loop'[k] = loop[k]
         /\ loop[l].pc \notin AtWorker
         /\ loop'[l].pc = "prompt" => loop'[l].fail = "no" /\ ~loop'[l].done
  <1> USE DEF SInv
  <1>1. loop[l].pc \notin AtWorker
    BY DEF ApartStep, LoopStep, ToolLaunches, Cleanup, LoopStops, LoopAborts, LoopReopens,
       LoopSetsRunning, LoopDispatches, Preempts, SpawnReads, ExhaustedLogs,
       ExhaustedPauses, SessionSpawned, SpawnFails, MarksInProgress, ResumeLoads,
       ResumeFails, Posts, Checks, InsertsUserTesting, InsertsScrutiny, MarksValidated,
       Finishes, Rechecks, SetsCompleted, SetsOrchestratorTurn, LoopEndsWith,
       LoopPauseLogs, LoopPauses, Exits, At, Proceeds, AtWorker
  <1>2. CASE \E pc \in LoopPC \ {"prompt"} : Goto(l, pc)
    BY <1>1, <1>2, GotoFields
  <1>3. CASE \E out, ids : Return(l, out, ids)
    <2>1. PICK out, ids : Return(l, out, ids)
      BY <1>3
    <2> QED BY <1>1, <2>1, ReturnFields
  <1>4. CASE ToolLaunches(l)
    <2> DEFINE q == [Idle EXCEPT !.resume = tool.resume,
                        !.pc = IF tool.resume = None THEN "cleanup" ELSE "top"]
    <2>1. q.pc # "prompt"
      BY DEF Idle
    <2>2. UNCHANGED loop \/ loop' = [loop EXCEPT ![l] = q]
      BY <1>4 DEF ToolLaunches
    <2> HIDE DEF q
    <2>3. \/ UNCHANGED loop
          \/ (\A k \in Loops \ {l} : loop'[k] = loop[k]) /\ loop'[l] = q
      BY <2>2, RecordSet
    <2> QED BY <1>1, <2>1, <2>3 DEF AtWorker
  <1>5. CASE Exits(l)
    <2>1. loop' = [loop EXCEPT ![l] = Idle]
      BY <1>5 DEF Exits
    <2>2. Idle.pc = "idle"
      BY DEF Idle
    <2>3. (\A k \in Loops \ {l} : loop'[k] = loop[k]) /\ loop'[l] = Idle
      BY <2>1, RecordSet
    <2> QED BY <1>1, <2>2, <2>3
  <1>6. CASE LoopDispatches(l)
    BY <1>1, <1>6, DispatchEffect
  <1>7. CASE SpawnReads(l)
    BY <1>1, <1>7, SpawnReadsEffect
  <1>8. CASE SessionSpawned(l)
    BY <1>1, <1>8, SpawnedEffect
  <1>9. CASE MarksInProgress(l)
    BY <1>1, <1>9, MarksEffect
  <1>10. CASE ResumeLoads(l)
    BY <1>1, <1>10, ResumeLoadsEffect
  <1>11. CASE ResumeFails(l)
    BY <1>1, <1>11, ResumeFailsEffect
  <1>12. CASE MarksValidated(l)
    <2>1. /\ \A k \in Loops \ {l} : loop'[k] = loop[k]
          /\ loop'[l].pc = "check"
      BY <1>12 DEF MarksValidated, IInv, LoopsInv, LoopOK, LoopRecord
    <2> QED BY <1>1, <2>1
  <1>13. CASE ExhaustedPauses(l)
    BY <1>13, <1>3 DEF ExhaustedPauses
  <1>14. CASE \/ Cleanup(l) \/ LoopStops(l) \/ LoopAborts(l) \/ LoopReopens(l)
              \/ LoopSetsRunning(l) \/ Preempts(l) \/ ExhaustedLogs(l) \/ SpawnFails(l)
              \/ Posts(l) \/ InsertsUserTesting(l) \/ InsertsScrutiny(l) \/ Rechecks(l)
              \/ SetsCompleted(l) \/ SetsOrchestratorTurn(l) \/ LoopPauseLogs(l)
              \/ LoopPauses(l)
    <2>1. \E pc \in LoopPC \ {"prompt"} : Goto(l, pc)
      BY <1>14 DEF Cleanup, LoopStops, LoopAborts, LoopReopens, LoopSetsRunning, Preempts,
         ExhaustedLogs, SpawnFails, Posts, InsertsUserTesting, InsertsScrutiny, Rechecks,
         SetsCompleted, SetsOrchestratorTurn, LoopEndsWith, LoopPauseLogs, LoopPauses,
         LoopPC
    <2> QED BY <2>1, <1>2
  <1>15. CASE Finishes(l)
    <2>1. loop[l].out \in {"success", "return", "paused"}
      BY Record DEF LoopRecord
    <2>2. \E pc \in LoopPC \ {"prompt"} : Goto(l, pc)
      BY <1>15, <2>1 DEF Finishes, LoopPC
    <2> QED BY <2>2, <1>2
  <1>16. CASE Checks(l)
    <2>1. loop[l].back \in {"finish", "recheck"}
      BY Record DEF LoopRecord
    <2> QED BY <1>1, <1>16, <2>1, ChecksEffect
  <1> QED BY <1>4, <1>5, <1>6, <1>7, <1>8, <1>9, <1>10, <1>11, <1>12, <1>13, <1>14, <1>15,
             <1>16 DEF ApartStep, LoopStep

LEMMA ApartWorkers ==
  ASSUME SInv, NEW l \in Loops, ApartStep(l)
  PROVE  UNCHANGED <<handler, note>> /\ \A w \in Workers : Active(w)' => Active(w)
  <1> USE DEF SInv
  <1>1. UNCHANGED <<handler, note>>
    BY DEF ApartStep, LoopStep, ToolLaunches, Cleanup, LoopStops, LoopAborts, LoopReopens,
       LoopSetsRunning, LoopDispatches, Preempts, SpawnReads, ExhaustedLogs,
       ExhaustedPauses, SessionSpawned, SpawnFails, MarksInProgress, ResumeLoads,
       ResumeFails, Posts, Checks, InsertsUserTesting, InsertsScrutiny, MarksValidated,
       Finishes, Rechecks, SetsCompleted, SetsOrchestratorTurn, LoopEndsWith,
       LoopPauseLogs, LoopPauses, Exits
  <1>2. CASE Cleanup(l) \/ LoopPauseLogs(l)
    <2>1. \E what \in {"interrupt", "close"} : Tell(Current, what)
      BY <1>2 DEF Cleanup, LoopPauseLogs
    <2> QED BY <1>1, <2>1, Told DEF Active
  <1>3. CASE SessionSpawned(l)
    <2>1. \A w \in Workers : worker'[w] = worker[w] \/ worker'[w].phase = "ready"
      BY <1>3, SpawnedWorker
    <2> QED BY <1>1, <2>1 DEF Active
  <1>4. CASE ResumeLoads(l)
    <2>1. \/ UNCHANGED worker
          \/ worker' = [worker EXCEPT ![loop[l].worker] = Loaded(@)]
      BY <1>4, ResumeLoadsEffect
    <2>2. ASSUME NEW r \in WorkerRecord,
                 Loaded(r).phase = "working" /\ Loaded(r).told = "nothing"
          PROVE  r.phase = "working" /\ r.told = "nothing"
      BY <2>2 DEF Loaded, WorkerRecord
    <2> QED BY <1>1, <2>1, <2>2 DEF Active, IInv, WorkersInv
  <1>5. CASE ~Cleanup(l) /\ ~LoopPauseLogs(l) /\ ~SessionSpawned(l) /\ ~ResumeLoads(l)
    <2>1. UNCHANGED worker
      BY <1>5 DEF ApartStep, LoopStep, ToolLaunches, LoopStops, LoopAborts, LoopReopens,
         LoopSetsRunning, LoopDispatches, Preempts, SpawnReads, ExhaustedLogs,
         ExhaustedPauses, SpawnFails, MarksInProgress, ResumeFails, Posts, Checks,
         InsertsUserTesting, InsertsScrutiny, MarksValidated, Finishes, Rechecks,
         SetsCompleted, SetsOrchestratorTurn, LoopEndsWith, LoopPauses, Exits
    <2> QED BY <1>1, <2>1 DEF Active
  <1> QED BY <1>2, <1>3, <1>4, <1>5

LEMMA WatchPrompts ==
  ASSUME SInv, WatchInv, NEW l \in Loops,
         PromptSent(l) \/ PromptFails(l) \/ DispatchFails(l)
  PROVE  WatchInv'
  <1> DEFINE w == loop[l].worker
  <1> USE DEF SInv
  <1>1. \A k \in Loops \ {l} : loop[k].pc = "idle"
    BY Alone DEF LoopStep
  <1>2. \A v \in Workers : Active(v) => Awaits(loop[l], v)
    BY <1>1, ActiveHere
  <1>3. Attends(loop[l], handler[l], note[l])
    BY DEF WatchInv
  <1>4. loop[l] \in LoopRecord /\ (loop[l].pc = "prompt" => w \in Workers)
    BY DEF IInv, LoopsInv, LoopOK
  <1>5. CASE PromptSent(l)
    <2>1. /\ loop[l].pc = "prompt" /\ Goto(l, "waiting") /\ UNCHANGED <<handler, note>>
          /\ worker[w].phase # "closed"
          /\ worker' = [worker EXCEPT ![w].phase = "working", ![w].task = loop[l].id]
      BY <1>5 DEF PromptSent, At
    <2>2. \A v \in Workers : Active(v)' => v = w
      BY <1>2, <2>1 DEF Active, Awaits, IInv, WorkersInv, WorkerRecord
    <2>3. Awaits(loop'[l], w)
      BY <1>3, <2>1, GotoFields DEF Awaits, Attends
    <2>4. ~handler[l].live /\ ~\E i \in DOMAIN note[l] : note[l][i] = "exit"
      BY <1>3, <1>4, <2>1 DEF Attends, Closed
    <2>5. Attends(loop[l], handler[l], note[l])'
      BY <2>1, <2>4, GotoFields DEF Attends
    <2> QED BY <1>1, <2>1, <2>2, <2>3, <2>5, GotoFields, WatchMoves
  <1>6. CASE PromptFails(l)
    <2>1. /\ loop[l].pc = "prompt" /\ Goto(l, "dispatchFailed") /\ UNCHANGED handler
          /\ note' = [note EXCEPT ![l] = <<>>]
          /\ \/ UNCHANGED worker
             \/ worker' = [worker EXCEPT ![w].phase = "working", ![w].task = loop[l].id]
      BY <1>6 DEF PromptFails, At
    <2>2. \A v \in Workers : Active(v)' => v = w
      BY <1>2, <2>1 DEF Active, Awaits, IInv, WorkersInv, WorkerRecord
    <2>3. Awaits(loop'[l], w)
      BY <2>1, GotoFields DEF Awaits
    <2>4. note'[l] = <<>> /\ \A k \in Loops \ {l} : note'[k] = note[k]
      BY <2>1 DEF IInv, NotesInv
    <2>5. Attends(loop[l], handler[l], note[l])'
      BY <1>3, <2>1, <2>4, GotoFields DEF Attends
    <2> QED BY <1>1, <2>1, <2>2, <2>3, <2>4, <2>5, GotoFields, WatchMoves
  <1>7. CASE DispatchFails(l)
    <2>1. ~Aborted
      BY NotAborted
    <2>2. /\ loop[l].pc = "dispatchFailed" /\ UNCHANGED <<handler, note>>
          /\ Tell({w}, "close")
          /\ \E out, ids : Return(l, out, ids)
      BY <1>7, <2>1 DEF DispatchFails, At
    <2>3. \A v \in Workers : ~Active(v)'
      BY <1>2, <2>2, Told DEF Active, Awaits
    <2>4. loop'[l].pc = "post" /\ \A k \in Loops \ {l} : loop'[k] = loop[k]
      BY <2>2, ReturnFields
    <2>5. Attends(loop[l], handler[l], note[l])'
      BY <1>3, <2>2, <2>4 DEF Attends
    <2> QED BY <1>1, <2>2, <2>3, <2>4, <2>5, WatchMoves
  <1> QED BY <1>5, <1>6, <1>7

LEMMA WatchNotified ==
  ASSUME SInv, WatchInv, NEW l \in Loops, Notified(l)
  PROVE  WatchInv'
  <1> DEFINE w == loop[l].worker
  <1> USE DEF SInv
  <1>1. \A k \in Loops \ {l} : loop[k].pc = "idle"
    BY Alone DEF LoopStep
  <1>2. \A v \in Workers : Active(v) => Awaits(loop[l], v)
    BY <1>1, ActiveHere
  <1>3. Attends(loop[l], handler[l], note[l]) /\ loop[l].pc = "waiting"
    BY DEF WatchInv, Notified, At
  <1>4. /\ note[l] # <<>> /\ note' = [note EXCEPT ![l] = Tail(@)]
        /\ note[l] \in Seq(Notification)
    BY NotifiedEffect DEF IInv, NotesInv
  <1>5. /\ \A k \in Loops \ {l} : note'[k] = note[k]
        /\ note'[l] = Tail(note[l])
        /\ \A i \in DOMAIN note'[l] : i + 1 \in DOMAIN note[l] /\ note'[l][i] = note[l][i + 1]
        /\ 1 \in DOMAIN note[l] /\ Head(note[l]) = note[l][1]
    BY <1>4 DEF IInv, NotesInv
  <1>6. (\E i \in DOMAIN note'[l] : note'[l][i] = "exit") \/ Head(note[l]) = "exit"
        => Closed(w)
    BY <1>3, <1>5 DEF Attends
  <1>7. CASE UNCHANGED <<loop, worker, handler>>
    <2>1. Attends(loop[l], handler[l], note[l])'
      BY <1>3, <1>6, <1>7 DEF Attends, Closed
    <2> QED BY <1>1, <1>2, <1>5, <1>7, <2>1, WatchMoves DEF Active
  <1>8. CASE Completes(l)
    <2>1. loop' = [loop EXCEPT ![l].done = TRUE] /\ Tell({w}, "close") /\ UNCHANGED handler
      BY <1>8 DEF Completes
    <2>2. /\ \A k \in Loops \ {l} : loop'[k] = loop[k]
          /\ loop'[l].pc = "waiting" /\ loop'[l].worker = w
      BY <1>3, <2>1 DEF IInv, LoopsInv, LoopOK, LoopRecord
    <2>3. \A v \in Workers : ~Active(v)'
      BY <1>2, <2>1, Told DEF Active, Awaits
    <2>4. \A v : Closed(v) => Closed(v)'
      BY <2>1, Told DEF Closed
    <2>5. Attends(loop[l], handler[l], note[l])'
      BY <1>3, <1>6, <2>1, <2>2, <2>4 DEF Attends
    <2> QED BY <1>1, <1>5, <2>1, <2>2, <2>3, <2>5, WatchMoves
  <1>9. ASSUME NEW pc, pc = "fail" => Head(note[l]) = "exit", Handles(l, pc)
        PROVE  WatchInv'
    <2>1. /\ UNCHANGED <<loop, worker>>
          /\ handler'[l] = [pc |-> pc, worker |-> w, id |-> loop[l].id, live |-> TRUE]
          /\ \A k \in Loops \ {l} : handler'[k] = handler[k]
      BY <1>9 DEF Handles, IInv, HandlersInv
    <2>2. Attends(loop[l], handler[l], note[l])'
      BY <1>3, <1>6, <1>9, <2>1 DEF Attends, Closed
    <2> QED BY <1>1, <1>2, <1>5, <2>1, <2>2, WatchMoves DEF Active
  <1> QED BY <1>7, <1>8, <1>9, NotifiedEffect

LEMMA WatchWaitEnds ==
  ASSUME SInv, WatchInv, NEW l \in Loops, WaitEnds(l)
  PROVE  WatchInv'
  <1> DEFINE w == loop[l].worker
  <1> USE DEF SInv
  <1>1. \A k \in Loops \ {l} : loop[k].pc = "idle"
    BY Alone DEF LoopStep
  <1>2. \A v \in Workers : Active(v) => Awaits(loop[l], v)
    BY <1>1, ActiveHere
  <1>3. /\ note' = [note EXCEPT ![l] = <<>>] /\ handler' = [handler EXCEPT ![l].live = FALSE]
        /\ \E out, ids : Return(l, out, ids)
        /\ loop[l].pc = "waiting"
    BY DEF WaitEnds, At
  <1>4. /\ note'[l] = <<>> /\ ~handler'[l].live
        /\ \A k \in Loops \ {l} : note'[k] = note[k] /\ handler'[k] = handler[k]
    BY <1>3 DEF IInv, NotesInv, HandlersInv, HandlerRecord
  <1>5. loop'[l].pc = "post" /\ \A k \in Loops \ {l} : loop'[k] = loop[k]
    BY <1>3, ReturnFields
  <1>6. \A v \in Workers : ~Active(v)'
    <2>1. CASE Tell({w}, "interrupt")
      BY <1>2, <2>1, Told DEF Active, Awaits
    <2>2. CASE UNCHANGED worker /\ (loop[l].fail # "no" \/ loop[l].done)
      BY <1>2, <1>3, <2>2 DEF Active, Awaits
    <2> QED BY <2>1, <2>2 DEF WaitEnds
  <1>7. Attends(loop[l], handler[l], note[l])'
    BY <1>4, <1>5 DEF Attends
  <1> QED BY <1>1, <1>4, <1>5, <1>6, <1>7, WatchMoves

\* A handler belongs to the wait it was started in, or to one that has ended.
LEMMA WatchHandlers ==
  ASSUME SInv, WatchInv, NEW l \in Loops, HandlerStep(l)
  PROVE  WatchInv'
  <1> DEFINE w == handler[l].worker
  <1> USE DEF SInv
  <1>1. \A k \in Loops : Attends(loop[k], handler[k], note[k])
    BY DEF WatchInv
  <1>2. CASE Logs402(l)
    <2>1. /\ handler[l].pc = "log402" /\ handler' = [handler EXCEPT ![l].pc = "state402"]
          /\ UNCHANGED <<loop, worker, note>>
      BY <1>2 DEF Logs402
    <2>2. \A k \in Loops : /\ handler'[k].live = handler[k].live
                           /\ handler'[k].worker = handler[k].worker
                           /\ handler'[k].pc = "fail" => handler[k].pc = "fail"
      BY <2>1 DEF IInv, HandlersInv, HandlerRecord
    <2>3. \A k \in Loops : Attends(loop[k], handler[k], note[k])'
      BY <1>1, <2>1, <2>2 DEF Attends, Closed
    <2> QED BY <2>1, <2>3 DEF WatchInv, Active
  <1>3. ASSUME NEW result, HandlerEnds(l, result), UNCHANGED note,
               \A v \in Workers : /\ Active(v)' => Active(v)
                                  /\ worker[v].phase = "closed" => worker'[v].phase = "closed",
               handler[l].live => \A v \in Workers : Active(v)' => v # w
        PROVE  WatchInv'
    <2>1. /\ \A k \in Loops : /\ loop'[k].pc = loop[k].pc /\ loop'[k].done = loop[k].done
                              /\ loop'[k].worker = loop[k].worker
          /\ \A k \in Loops : k # l \/ ~handler[l].live => loop'[k].fail = loop[k].fail
      BY <1>3, HandlerEndsEffect
    <2>2. ~handler'[l].live /\ \A k \in Loops \ {l} : handler'[k] = handler[k]
      BY <1>3 DEF HandlerEnds, NoHandler, IInv, HandlersInv
    <2>3. \A k \in Loops : Attends(loop[k], handler[k], note[k])'
      <3> TAKE k \in Loops
      <3>1. loop[k].pc = "prompt" => loop'[k].fail = loop[k].fail
        BY <1>1, <2>1 DEF Attends
      <3>2. \A v : Closed(v) => Closed(v)'
        BY <1>3 DEF Closed
      <3> QED BY <1>1, <1>3, <2>1, <2>2, <3>1, <3>2 DEF Attends
    <2>4. ASSUME NEW v \in Workers, Active(v)'
          PROVE  \E k \in Loops : Awaits(loop'[k], v)
      <3>1. PICK k \in Loops : Awaits(loop[k], v)
        BY <1>3, <2>4 DEF WatchInv
      <3>2. CASE k = l /\ handler[l].live
        BY <1>1, <1>3, <2>4, <3>1, <3>2 DEF Attends, Awaits
      <3>3. CASE k # l \/ ~handler[l].live
        BY <2>1, <3>1, <3>3 DEF Awaits
      <3> QED BY <3>2, <3>3
    <2> QED BY <2>3, <2>4 DEF WatchInv
  <1>4. CASE Pauses402(l)
    <2>1. Tell({w}, "close") /\ HandlerEnds(l, "paused") /\ UNCHANGED note
      BY <1>4 DEF Pauses402
    <2> QED BY <1>3, <2>1, Told DEF Active
  <1>5. CASE RequeuesFailed(l)
    <2>1. UNCHANGED <<worker, note>> /\ HandlerEnds(l, "requeued") /\ handler[l].pc = "fail"
      BY <1>5 DEF RequeuesFailed
    <2>2. handler[l].live => \A v \in Workers : Active(v)' => v # w
      BY <1>1, <2>1 DEF Attends, Closed, Active
    <2>3. \A v \in Workers : Active(v)' => Active(v)
      BY <2>1 DEF Active
    <2> QED BY <1>3, <2>1, <2>2, <2>3
  <1> QED BY <1>2, <1>4, <1>5 DEF HandlerStep

\* What a session does never makes it work; its end is reported once it is over.
LEMMA WatchWorkers ==
  ASSUME SInv, WatchInv, NEW w \in Workers, WorkerStep(w)
  PROVE  WatchInv'
  <1> USE DEF SInv
  <1>1. UNCHANGED <<loop, handler>>
    BY DEF WorkerStep, Ends, MovesToBottom, ReturnsToOrchestrator, LogsCompleted,
       Signals402, WorkerExits, SessionExpires, Obeys
  <1>2. \A v \in Workers : /\ Active(v)' => Active(v)
                           /\ worker[v].phase = "closed" => worker'[v].phase = "closed"
    <2> USE DEF Active, IInv, WorkersInv, WorkerRecord, Ending
    <2>1. ASSUME NEW id, NEW report, Ends(w, id, report)
          PROVE  \A v \in Workers :
                    /\ Active(v)' => Active(v)
                    /\ worker[v].phase = "closed" => worker'[v].phase = "closed"
      BY <2>1 DEF Ends
    <2>2. CASE MovesToBottom(w) \/ ReturnsToOrchestrator(w) \/ LogsCompleted(w)
      BY <2>2 DEF MovesToBottom, ReturnsToOrchestrator, LogsCompleted
    <2>3. CASE Signals402(w) \/ WorkerExits(w) \/ SessionExpires(w)
      BY <2>3 DEF Signals402, WorkerExits, SessionExpires
    <2>4. CASE Obeys(w)
      <3>1. /\ \A v \in Workers \ {w} : worker'[v] = worker[v]
            /\ worker'[w].phase # "working"
            /\ worker[w].phase = "closed" => worker'[w].phase = "closed"
        BY <2>4 DEF Obeys
      <3> QED BY <3>1
    <2> QED BY <2>1, <2>2, <2>3, <2>4 DEF WorkerStep
  <1>3. \/ UNCHANGED note
        \/ \E ns \in Seq(Notification) :
              /\ Emit(w, ns)
              /\ (\E i \in DOMAIN ns : ns[i] = "exit") => worker'[w].phase = "closed"
    <2>1. CASE LogsCompleted(w)
      <3> DEFINE ns == <<"progress", "completed">>
      <3>1. ns \in Seq(Notification) /\ \A i \in DOMAIN ns : ns[i] # "exit"
        BY DEF Notification
      <3> QED BY <2>1, <3>1 DEF LogsCompleted
    <2>2. CASE Signals402(w)
      <3> DEFINE ns == <<"progress">>
      <3>1. ns \in Seq(Notification) /\ \A i \in DOMAIN ns : ns[i] # "exit"
        BY DEF Notification
      <3> QED BY <2>2, <3>1 DEF Signals402
    <2>3. CASE WorkerExits(w) \/ SessionExpires(w)
      <3> DEFINE ns == IF worker[w].told = "close" THEN <<>> ELSE <<"exit">>
      <3>1. ns \in Seq(Notification)
        <4>1. <<>> \in Seq(Notification) /\ <<"exit">> \in Seq(Notification)
          BY DEF Notification
        <4> QED BY <4>1
      <3>2. worker'[w].phase = "closed" /\ Emit(w, ns)
        BY <2>3 DEF WorkerExits, SessionExpires, IInv, WorkersInv, WorkerRecord
      <3> QED BY <3>1, <3>2
    <2>4. CASE ~LogsCompleted(w) /\ ~Signals402(w) /\ ~WorkerExits(w) /\ ~SessionExpires(w)
      BY <2>4 DEF WorkerStep, Ends, MovesToBottom, ReturnsToOrchestrator, Obeys
    <2> QED BY <2>1, <2>2, <2>3, <2>4
  <1>4. CASE UNCHANGED note
    BY <1>1, <1>2, <1>4, WatchKept
  <1>5. ASSUME NEW ns \in Seq(Notification), Emit(w, ns),
               (\E i \in DOMAIN ns : ns[i] = "exit") => worker'[w].phase = "closed"
        PROVE  WatchInv'
    <2>1. ASSUME NEW l \in Loops
          PROVE  Attends(loop[l], handler[l], note[l])'
      <3>1. Attends(loop[l], handler[l], note[l]) /\ note[l] \in Seq(Notification)
        BY DEF WatchInv, IInv, NotesInv
      <3>2. \A v : Closed(v) => Closed(v)'
        BY <1>2 DEF Closed
      <3>3. CASE ~Subscribed(l, w)
        <4>1. note'[l] = note[l]
          BY <1>5, <3>3 DEF Emit
        <4> QED BY <1>1, <3>1, <3>2, <4>1 DEF Attends
      <3>4. CASE Subscribed(l, w)
        <4>1. note'[l] = note[l] \o ns
          BY <1>5, <3>4 DEF Emit
        <4>2. (\E i \in DOMAIN note'[l] : note'[l][i] = "exit") =>
                 \/ \E i \in DOMAIN note[l] : note[l][i] = "exit"
                 \/ \E i \in DOMAIN ns : ns[i] = "exit"
          BY <3>1, <4>1
        <4>3. loop[l].worker = w /\ loop[l].pc \in {"prompt", "waiting"}
          BY <3>4 DEF Subscribed
        <4>4. (\E i \in DOMAIN note'[l] : note'[l][i] = "exit") => Closed(w)'
          BY <1>5, <3>1, <3>2, <4>2, <4>3 DEF Attends, Closed
        <4> QED BY <1>1, <3>1, <3>2, <4>3, <4>4 DEF Attends
      <3> QED BY <3>3, <3>4
    <2> QED BY <1>1, <1>2, <2>1 DEF WatchInv
  <1> QED BY <1>3, <1>4, <1>5

LEMMA WatchNext ==
  ASSUME NoCutOff, "crash" \notin Faults
  PROVE  SInv /\ WatchInv /\ [Next]_vars => WatchInv'
  <1> SUFFICES ASSUME SInv, WatchInv, [Next]_vars PROVE WatchInv'
    OBVIOUS
  <1> USE DEF SInv
  <1>1. ASSUME NEW l \in Loops, LoopStep(l)
        PROVE  WatchInv'
    <2>1. CASE ApartStep(l)
      BY <1>1, <2>1, Alone, ApartLoop, ApartWorkers, WatchApart DEF AtWorker
    <2>2. CASE ~ApartStep(l)
      BY <1>1, <2>2, WatchPrompts, WatchNotified, WatchWaitEnds DEF ApartStep
    <2> QED BY <2>1, <2>2
  <1>2. ASSUME NEW l \in Loops, HandlerStep(l)
        PROVE  WatchInv'
    BY <1>2, WatchHandlers
  <1>3. CASE ToolStep \/ Calls \/ Reload \/ UNCHANGED vars
    <2>1. UNCHANGED <<loop, handler, worker, note>>
      BY <1>3 DEF ToolStep, ToolGrants, ToolSetsRunning, Calls, StartMissionRun, Abort,
         UserPauses, UserKills, OrchestratorCancels, OrchestratorAdds, Edit,
         OrchestratorDismisses, Reload, vars
    <2> QED BY <2>1, WatchKept DEF Active
  <1>4. CASE OpStep
    <2>1. /\ UNCHANGED <<loop, handler, note>>
          /\ UNCHANGED worker \/ Tell(Current, "interrupt") \/ Tell({killing}, "close")
      <3>1. CASE PauseLogs
        BY <3>1 DEF PauseLogs
      <3>2. CASE PauseWrites \/ PauseOverwrites
        BY <3>2 DEF PauseWrites, PauseOverwrites
      <3>3. CASE PauseChecks
        <4>1. CASE state \in {"running", "orchestrator_turn"}
          BY <3>3, <4>1 DEF PauseChecks
        <4>2. CASE state \notin {"running", "orchestrator_turn"}
          BY <3>3, <4>2 DEF PauseChecks
        <4> QED BY <4>1, <4>2
      <3>4. CASE KillInterrupts
        BY <3>4 DEF KillInterrupts
      <3> QED BY <1>4, <3>1, <3>2, <3>3, <3>4 DEF OpStep
    <2>2. \A w \in Workers : /\ Active(w)' => Active(w)
                             /\ worker[w].phase = "closed" => worker'[w].phase = "closed"
      BY <2>1, Told DEF Active
    <2> QED BY <2>1, <2>2, WatchKept
  <1>5. ASSUME NEW w \in Workers, WorkerStep(w)
        PROVE  WatchInv'
    BY <1>5, WatchWorkers
  <1>6. ~Crash
    BY DEF Crash
  <1> QED BY <1>1, <1>2, <1>3, <1>4, <1>5, <1>6 DEF Next

LEMMA WatchInit == Init => WatchInv
  BY DEF Init, WatchInv, Active, Attends, Idle, NoHandler

LEMMA Watched ==
  ASSUME NoCutOff, "crash" \notin Faults
  PROVE  Spec => [](SInv /\ WatchInv)
  <1>1. Init => SInv /\ WatchInv
    BY RunInit, WatchInit
  <1>2. SInv /\ WatchInv /\ [Next]_vars => (SInv /\ WatchInv)'
    BY RunNext, WatchNext
  <1> QED BY <1>1, <1>2, PTL DEF Spec

\* A worker that works and was not told to stop is awaited, through pauses, failed and
\* lost requests, exits, usage limits, retries and edits in any order, while no call of
\* start_mission_run is cut off and the orchestrator's process lives.
THEOREM NoWorkerUnwatched ==
  ASSUME NoCutOff, "crash" \notin Faults
  PROVE  Spec => []NoUnwatchedWorker
  <1>1. WatchInv => NoUnwatchedWorker
    BY DEF WatchInv, Active, Awaits, NoUnwatchedWorker
  <1> QED BY <1>1, Watched, PTL

\* Under the same conditions at most one worker works without having been told to stop,
\* for any number of sessions, features and starts: one loop is live and it awaits one
\* worker.
THEOREM OneWorkerActive ==
  ASSUME NoCutOff, "crash" \notin Faults
  PROVE  Spec => []OneActiveWorker
  <1>1. SInv /\ WatchInv => OneActiveWorker
    <2> SUFFICES ASSUME SInv, WatchInv, NEW v \in Workers, NEW w \in Workers,
                        Active(v), Active(w)
                 PROVE  v = w
      BY DEF OneActiveWorker, Active
    <2>1. PICK k \in Loops : Awaits(loop[k], v)
      BY DEF WatchInv
    <2>2. PICK l \in Loops : Awaits(loop[l], w)
      BY DEF WatchInv
    <2>3. k = l
      BY <2>1, <2>2 DEF Awaits, SInv, CallInv
    <2> QED BY <2>1, <2>2, <2>3 DEF Awaits
  <1> QED BY <1>1, Watched, PTL

-----------------------------------------------------------------------------
(* Sessions that still report, when nothing stops a run from outside.      *)

\* Sessions may exit and hit the usage limit, and the orchestrator edits the plan;
\* nobody pauses or kills, every request is answered and the process lives.
Calm == Faults \subseteq {"exit", "usage402", "edit"}

LEMMA CalmMeans ==
  ASSUME Calm
  PROVE  /\ NoCutOff
         /\ "crash" \notin Faults /\ "pause" \notin Faults /\ "rpc" \notin Faults
         /\ "abort" \notin Faults /\ "kill" \notin Faults
  BY DEF Calm, NoCutOff

\* A session works or is inside EndFeatureRun.
Busy(w) == worker[w].phase \in {"working"} \cup Ending

\* The loop with record r, handler h and notifications n waits for w, and has not
\* heard of it.
Hears(r, h, n, w) ==
    /\ r.pc = "waiting" /\ r.worker = w
    /\ r.fail = "no" /\ ~r.done /\ n = <<>> /\ ~h.live

\* The loop of an exit handler is still waiting for it.
Crashed(r, h) ==
    h.pc = "fail" => /\ h.live
                     /\ h.worker \notin completed
                     /\ r.fail = "no" /\ ~r.done

BusyInv ==
    /\ pausing = "idle"
    /\ \A w \in Workers : Busy(w) => \E l \in Loops : Hears(loop[l], handler[l], note[l], w)
    /\ \A l \in Loops :
          /\ loop[l].pc # "idle" => isRunning
          /\ loop[l].pc = "prompt" /\ note[l] # <<>> => Closed(loop[l].worker)
          /\ Crashed(loop[l], handler[l])

BInv == SInv /\ WatchInv /\ BusyInv

\* One loop moves, the others are idle.
LEMMA BusyMoves ==
  ASSUME WatchInv, BusyInv, NEW l \in Loops,
         \A k \in Loops \ {l} : /\ loop[k].pc = "idle" /\ loop'[k] = loop[k]
                                /\ handler'[k] = handler[k] /\ note'[k] = note[k],
         UNCHANGED <<pausing, completed>>,
         loop'[l].pc # "idle" => isRunning',
         loop'[l].pc = "prompt" /\ note'[l] # <<>> => Closed(loop[l].worker)',
         Crashed(loop'[l], handler'[l]),
         \A w \in Workers : Busy(w)' => Hears(loop'[l], handler'[l], note'[l], w)
  PROVE  BusyInv'
  <1>1. \A k \in Loops \ {l} : ~handler[k].live
    BY DEF WatchInv, Attends
  <1>2. \A k \in Loops \ {l} : Crashed(loop[k], handler[k])'
    BY <1>1 DEF BusyInv, Crashed
  <1>3. Crashed(loop[l], handler[l])'
    BY DEF Crashed
  <1>4. \A w \in Workers : Busy(w)' => \E k \in Loops : Hears(loop[k], handler[k], note[k], w)'
    BY DEF Hears
  <1>5. \A k \in Loops : /\ loop'[k].pc # "idle" => isRunning'
                         /\ loop'[k].pc = "prompt" /\ note'[k] # <<>>
                               => Closed(loop[k].worker)'
    OBVIOUS
  <1> QED BY <1>2, <1>3, <1>4, <1>5 DEF BusyInv

LEMMA BusyHere ==
  ASSUME BusyInv, NEW l \in Loops, \A k \in Loops \ {l} : loop[k].pc = "idle"
  PROVE  \A w \in Workers : Busy(w) => Hears(loop[l], handler[l], note[l], w)
  BY DEF BusyInv, Hears

\* What a session tells while it is not busy.
LEMMA ToldBusy ==
  ASSUME IInv, NEW ws, NEW what \in {"interrupt", "close"}, Tell(ws, what)
  PROVE  \A w \in Workers : Busy(w)' <=> Busy(w)
  BY Told DEF Busy

\* A loop without a worker keeps running until it exits.
LEMMA ApartRuns ==
  ASSUME BInv, NEW l \in Loops, ApartStep(l)
  PROVE  /\ UNCHANGED <<pausing, completed>>
         /\ loop'[l].pc # "idle" => isRunning'
  <1> USE DEF BInv, SInv
  <1>1. ~Aborted
    BY NotAborted
  <1>2. UNCHANGED <<pausing, completed>>
    BY DEF ApartStep, LoopStep, ToolLaunches, Cleanup, LoopStops, LoopAborts, LoopReopens,
       LoopSetsRunning, LoopDispatches, Preempts, SpawnReads, ExhaustedLogs,
       ExhaustedPauses, SessionSpawned, SpawnFails, MarksInProgress, ResumeLoads,
       ResumeFails, Posts, Checks, InsertsUserTesting, InsertsScrutiny, MarksValidated,
       Finishes, Rechecks, SetsCompleted, SetsOrchestratorTurn, LoopEndsWith,
       LoopPauseLogs, LoopPauses, Exits
  <1>3. CASE ToolLaunches(l)
    <2>1. isRunning => isRunning'
      BY <1>3 DEF ToolLaunches
    <2>2. ~isRunning => isRunning'
      BY <1>3 DEF ToolLaunches
    <2> QED BY <1>2, <2>1, <2>2
  <1>4. CASE Exits(l)
    <2>1. loop' = [loop EXCEPT ![l] = Idle]
      BY <1>4 DEF Exits
    <2>2. loop'[l] = Idle /\ Idle.pc = "idle"
      BY <2>1, RecordSet DEF Idle
    <2> QED BY <1>2, <2>2
  <1>5. CASE Posts(l)
    <2>1. isRunning
      BY <1>5 DEF Posts, At, BusyInv
    <2>2. isRunning' = (isRunning /\ ~Aborted)
      BY <1>5 DEF Posts
    <2> QED BY <1>1, <1>2, <2>1, <2>2
  <1>6. CASE ~ToolLaunches(l) /\ ~Exits(l) /\ ~Posts(l)
    <2>1. UNCHANGED isRunning /\ loop[l].pc # "idle"
      BY <1>1, <1>6 DEF ApartStep, LoopStep, Cleanup, LoopStops, LoopAborts, LoopReopens,
         LoopSetsRunning, LoopDispatches, Preempts, SpawnReads, ExhaustedLogs,
         ExhaustedPauses, SessionSpawned, SpawnFails, MarksInProgress, ResumeLoads,
         ResumeFails, Checks, InsertsUserTesting, InsertsScrutiny, MarksValidated,
         Finishes, Rechecks, SetsCompleted, SetsOrchestratorTurn, LoopEndsWith,
         LoopPauseLogs, LoopPauses, At, Proceeds
    <2> QED BY <1>2, <2>1 DEF BusyInv
  <1> QED BY <1>3, <1>4, <1>5, <1>6

LEMMA ApartBusy ==
  ASSUME BInv, NEW l \in Loops, ApartStep(l)
  PROVE  \A w \in Workers : ~Busy(w) /\ ~Busy(w)'
  <1> USE DEF BInv, SInv
  <1>1. \A w \in Workers : ~Busy(w)
    BY ApartLoop, Alone, BusyHere DEF ApartStep, Hears, AtWorker
  <1>2. CASE Cleanup(l) \/ LoopPauseLogs(l)
    <2>1. Tell(Current, "interrupt") \/ Tell(Current, "close")
      BY <1>2 DEF Cleanup, LoopPauseLogs
    <2> QED BY <1>1, <2>1, ToldBusy
  <1>3. CASE SessionSpawned(l)
    BY <1>1, <1>3, SpawnedWorker DEF Busy, Ending
  <1>4. CASE ResumeLoads(l)
    <2>1. \/ UNCHANGED worker
          \/ worker' = [worker EXCEPT ![loop[l].worker] = Loaded(@)]
      BY <1>4, ResumeLoadsEffect
    <2>2. ASSUME NEW r \in WorkerRecord, Loaded(r).phase \in {"working"} \cup Ending
          PROVE  r.phase \in {"working"} \cup Ending
      BY <2>2 DEF Loaded, WorkerRecord, Ending
    <2> QED BY <1>1, <2>1, <2>2 DEF Busy, IInv, WorkersInv
  <1>5. CASE ~Cleanup(l) /\ ~LoopPauseLogs(l) /\ ~SessionSpawned(l) /\ ~ResumeLoads(l)
    <2>1. UNCHANGED worker
      BY <1>5 DEF ApartStep, LoopStep, ToolLaunches, LoopStops, LoopAborts, LoopReopens,
         LoopSetsRunning, LoopDispatches, Preempts, SpawnReads, ExhaustedLogs,
         ExhaustedPauses, SpawnFails, MarksInProgress, ResumeFails, Posts, Checks,
         InsertsUserTesting, InsertsScrutiny, MarksValidated, Finishes, Rechecks,
         SetsCompleted, SetsOrchestratorTurn, LoopEndsWith, LoopPauses, Exits
    <2> QED BY <1>1, <2>1 DEF Busy
  <1> QED BY <1>2, <1>3, <1>4, <1>5

LEMMA BusyApart ==
  ASSUME BInv, NEW l \in Loops, ApartStep(l)
  PROVE  BusyInv'
  <1> USE DEF BInv, SInv
  <1>1. /\ \A k \in Loops \ {l} : loop[k].pc = "idle" /\ loop'[k] = loop[k]
        /\ UNCHANGED <<handler, note>>
    BY Alone, ApartLoop, ApartWorkers DEF ApartStep
  <1>2. note[l] = <<>> /\ ~handler[l].live
    BY ApartLoop DEF WatchInv, Attends, AtWorker
  <1>3. handler[l].pc # "fail"
    BY <1>2 DEF BusyInv, Crashed
  <1>4. Crashed(loop'[l], handler'[l])
    BY <1>1, <1>3 DEF Crashed
  <1> QED BY <1>1, <1>2, <1>4, ApartRuns, ApartBusy, BusyMoves

LEMMA BusyPrompts ==
  ASSUME BInv, Calm, NEW l \in Loops,
         PromptSent(l) \/ PromptFails(l) \/ DispatchFails(l)
  PROVE  BusyInv'
  <1> DEFINE w == loop[l].worker
  <1> USE DEF BInv, SInv
  <1>1. \A k \in Loops \ {l} : loop[k].pc = "idle"
    BY Alone DEF LoopStep
  <1>2. loop[l].pc \in {"prompt", "dispatchFailed"} /\ UNCHANGED <<handler, pausing, completed, isRunning>>
    BY DEF PromptSent, PromptFails, DispatchFails, At
  <1>3. (\A v \in Workers : ~Busy(v)) /\ isRunning
    BY <1>1, <1>2, BusyHere DEF Hears, BusyInv
  <1>4. Attends(loop[l], handler[l], note[l]) /\ ~handler[l].live /\ Crashed(loop[l], handler[l])
    BY <1>2 DEF WatchInv, Attends, BusyInv
  <1>5. Crashed(loop'[l], handler'[l])
    BY <1>2, <1>4 DEF Crashed
  <1>6. CASE PromptSent(l)
    <2>1. /\ loop[l].pc = "prompt" /\ Goto(l, "waiting") /\ UNCHANGED note
          /\ worker[w].phase # "closed" /\ w \in Workers
          /\ worker' = [worker EXCEPT ![w].phase = "working", ![w].task = loop[l].id]
      BY <1>6 DEF PromptSent, At, IInv, LoopsInv, LoopOK
    <2>2. note[l] = <<>>
      BY <2>1 DEF BusyInv, Closed
    <2>3. \A v \in Workers : Busy(v)' => v = w
      BY <1>3, <2>1 DEF Busy, IInv, WorkersInv, WorkerRecord
    <2>4. Hears(loop'[l], handler'[l], note'[l], w)
      BY <1>2, <1>4, <2>1, <2>2, GotoFields DEF Hears, Attends
    <2> QED BY <1>1, <1>2, <1>3, <1>5, <2>1, <2>2, <2>3, <2>4, GotoFields, BusyMoves
  <1>7. CASE PromptFails(l)
    <2>1. /\ Goto(l, "dispatchFailed") /\ note' = [note EXCEPT ![l] = <<>>]
          /\ UNCHANGED worker
      BY <1>7, CalmMeans DEF PromptFails
    <2>2. note'[l] = <<>> /\ \A k \in Loops \ {l} : note'[k] = note[k]
      BY <2>1 DEF IInv, NotesInv
    <2>3. \A v \in Workers : ~Busy(v)'
      BY <1>3, <2>1 DEF Busy
    <2> QED BY <1>1, <1>2, <1>3, <1>5, <2>1, <2>2, <2>3, GotoFields, BusyMoves
  <1>8. CASE DispatchFails(l)
    <2>1. ~Aborted
      BY NotAborted
    <2>2. Tell({w}, "close") /\ UNCHANGED note /\ \E out, ids : Return(l, out, ids)
      BY <1>8, <2>1 DEF DispatchFails
    <2>3. \A v \in Workers : ~Busy(v)'
      BY <1>3, <2>2, ToldBusy
    <2>4. loop'[l].pc = "post" /\ \A k \in Loops \ {l} : loop'[k] = loop[k]
      BY <2>2, ReturnFields
    <2> QED BY <1>1, <1>2, <1>3, <1>5, <2>2, <2>3, <2>4, BusyMoves
  <1> QED BY <1>6, <1>7, <1>8

LEMMA BusyNotified ==
  ASSUME BInv, NEW l \in Loops, Notified(l)
  PROVE  BusyInv'
  <1> DEFINE w == loop[l].worker
  <1> USE DEF BInv, SInv
  <1>1. \A k \in Loops \ {l} : loop[k].pc = "idle"
    BY Alone DEF LoopStep
  <1>2. /\ loop[l].pc = "waiting" /\ UNCHANGED <<pausing, completed, isRunning>>
        /\ note[l] # <<>> /\ note' = [note EXCEPT ![l] = Tail(@)]
    BY NotifiedEffect DEF Notified, At
  <1>3. (\A v \in Workers : ~Busy(v)) /\ isRunning
    BY <1>1, <1>2, BusyHere DEF Hears, BusyInv
  <1>4. Attends(loop[l], handler[l], note[l]) /\ Crashed(loop[l], handler[l])
    BY DEF WatchInv, BusyInv
  <1>5. \A k \in Loops \ {l} : note'[k] = note[k]
    BY <1>2 DEF IInv, NotesInv
  <1>6. CASE UNCHANGED <<loop, worker, handler>>
    BY <1>1, <1>2, <1>3, <1>4, <1>5, <1>6, BusyMoves DEF Busy
  <1>7. CASE Completes(l)
    <2>1. loop' = [loop EXCEPT ![l].done = TRUE] /\ Tell({w}, "close") /\ UNCHANGED handler
          /\ w \in completed
      BY <1>7 DEF Completes, Finished
    <2>2. /\ \A k \in Loops \ {l} : loop'[k] = loop[k]
          /\ loop'[l].pc = "waiting"
      BY <1>2, <2>1 DEF IInv, LoopsInv, LoopOK, LoopRecord
    <2>3. handler[l].pc # "fail"
      BY <1>4, <2>1 DEF Attends, Crashed
    <2>4. Crashed(loop'[l], handler'[l])
      BY <2>1, <2>3 DEF Crashed
    <2>5. \A v \in Workers : ~Busy(v)'
      BY <1>3, <2>1, ToldBusy
    <2> QED BY <1>1, <1>2, <1>3, <1>5, <2>1, <2>2, <2>4, <2>5, BusyMoves
  <1>8. ASSUME NEW pc, Handles(l, pc), loop[l].fail = "no",
               pc = "fail" => ~Finished(l) /\ ~loop[l].done
        PROVE  BusyInv'
    <2>1. /\ UNCHANGED <<loop, worker>>
          /\ handler'[l] = [pc |-> pc, worker |-> w, id |-> loop[l].id, live |-> TRUE]
          /\ \A k \in Loops \ {l} : handler'[k] = handler[k]
      BY <1>8 DEF Handles, IInv, HandlersInv
    <2>2. Crashed(loop'[l], handler'[l])
      BY <1>2, <1>8, <2>1 DEF Crashed, Finished
    <2>3. \A v \in Workers : ~Busy(v)'
      BY <1>3, <2>1 DEF Busy
    <2> QED BY <1>1, <1>2, <1>3, <1>5, <2>1, <2>2, <2>3, BusyMoves
  <1> QED BY <1>6, <1>7, <1>8, NotifiedEffect

LEMMA BusyWaitEnds ==
  ASSUME BInv, NEW l \in Loops, WaitEnds(l)
  PROVE  BusyInv'
  <1> USE DEF BInv, SInv
  <1>1. \A k \in Loops \ {l} : loop[k].pc = "idle"
    BY Alone DEF LoopStep
  <1>2. loop[l].pc = "waiting" /\ isRunning /\ ~Aborted
    BY NotAborted DEF WaitEnds, At, BusyInv
  <1>3. /\ note' = [note EXCEPT ![l] = <<>>] /\ handler' = [handler EXCEPT ![l].live = FALSE]
        /\ \E out, ids : Return(l, out, ids)
        /\ UNCHANGED <<worker, pausing, completed, isRunning>>
        /\ loop[l].fail # "no" \/ loop[l].done
    BY <1>2 DEF WaitEnds
  <1>4. /\ note'[l] = <<>> /\ handler'[l].pc = handler[l].pc
        /\ \A k \in Loops \ {l} : note'[k] = note[k] /\ handler'[k] = handler[k]
    BY <1>3 DEF IInv, NotesInv, HandlersInv, HandlerRecord
  <1>5. loop'[l].pc = "post" /\ \A k \in Loops \ {l} : loop'[k] = loop[k]
    BY <1>3, ReturnFields
  <1>6. Crashed(loop'[l], handler'[l])
    BY <1>3, <1>4 DEF BusyInv, Crashed
  <1>7. \A v \in Workers : ~Busy(v)'
    BY <1>1, <1>3, BusyHere DEF Hears, Busy
  <1> QED BY <1>1, <1>2, <1>3, <1>4, <1>5, <1>6, <1>7, BusyMoves

LEMMA BusyHandlers ==
  ASSUME BInv, NEW l \in Loops, HandlerStep(l)
  PROVE  BusyInv'
  <1> USE DEF BInv, SInv
  <1>1. UNCHANGED <<pausing, completed, isRunning, note>>
    BY DEF HandlerStep, Logs402, Pauses402, RequeuesFailed
  <1>2. /\ \A k \in Loops : /\ loop'[k].pc = loop[k].pc /\ loop'[k].done = loop[k].done
                            /\ loop'[k].worker = loop[k].worker
        /\ \A k \in Loops : k # l \/ ~handler[l].live => loop'[k].fail = loop[k].fail
    <2>1. CASE Logs402(l)
      BY <2>1 DEF Logs402
    <2>2. CASE \E result : HandlerEnds(l, result)
      BY <2>2, HandlerEndsEffect
    <2> QED BY <2>1, <2>2 DEF HandlerStep, Pauses402, RequeuesFailed
  <1>3. /\ \A k \in Loops \ {l} : handler'[k] = handler[k]
        /\ handler'[l].live => handler[l].live
        /\ handler'[l].pc # "fail"
    BY DEF HandlerStep, Logs402, Pauses402, RequeuesFailed, HandlerEnds, NoHandler,
       IInv, HandlersInv, HandlerRecord
  <1>4. \A w \in Workers : Busy(w)' <=> Busy(w)
    <2>1. CASE UNCHANGED worker
      BY <2>1 DEF Busy
    <2>2. CASE Tell({handler[l].worker}, "close")
      BY <2>2, ToldBusy
    <2> QED BY <2>1, <2>2 DEF HandlerStep, Logs402, Pauses402, RequeuesFailed
  <1>5. \A v : Closed(v) => Closed(v)'
    <2>1. CASE UNCHANGED worker
      BY <2>1 DEF Closed
    <2>2. CASE Tell({handler[l].worker}, "close")
      BY <2>2, Told DEF Closed
    <2> QED BY <2>1, <2>2 DEF HandlerStep, Logs402, Pauses402, RequeuesFailed
  <1>6. ASSUME NEW w \in Workers, Busy(w)'
        PROVE  \E k \in Loops : Hears(loop[k], handler[k], note[k], w)'
    <2>1. PICK k \in Loops : Hears(loop[k], handler[k], note[k], w)
      BY <1>4, <1>6 DEF BusyInv
    <2>2. handler[l].live => k = l
      BY <2>1 DEF WatchInv, Attends, Hears, CallInv
    <2>3. ~handler[l].live
      BY <2>1, <2>2 DEF Hears
    <2> QED BY <1>1, <1>2, <1>3, <2>1, <2>3 DEF Hears
  <1>7. \A k \in Loops : Crashed(loop[k], handler[k])'
    <2> TAKE k \in Loops
    <2>1. CASE k = l
      BY <1>3, <2>1 DEF Crashed
    <2>2. CASE k # l
      BY <1>1, <1>2, <1>3, <2>2 DEF BusyInv, Crashed
    <2> QED BY <2>1, <2>2
  <1>8. \A k \in Loops : /\ loop'[k].pc # "idle" => isRunning'
                         /\ loop'[k].pc = "prompt" /\ note'[k] # <<>>
                               => Closed(loop[k].worker)'
    BY <1>1, <1>2, <1>5 DEF BusyInv
  <1> QED BY <1>1, <1>6, <1>7, <1>8 DEF BusyInv

LEMMA BusyWorkers ==
  ASSUME BInv, NEW w \in Workers, WorkerStep(w)
  PROVE  BusyInv'
  <1> USE DEF BInv, SInv
  <1>1. UNCHANGED <<loop, handler, pausing, isRunning>>
    BY DEF WorkerStep, Ends, MovesToBottom, ReturnsToOrchestrator, LogsCompleted,
       Signals402, WorkerExits, SessionExpires, Obeys
  <1>2. \A v \in Workers \ {w} : worker'[v] = worker[v]
    BY DEF WorkerStep, Ends, MovesToBottom, ReturnsToOrchestrator, LogsCompleted,
       Signals402, WorkerExits, SessionExpires, Obeys, IInv, WorkersInv
  <1>3. /\ Busy(w)' => Busy(w) /\ UNCHANGED note
        /\ worker[w].phase = "closed" => worker'[w].phase = "closed"
        /\ UNCHANGED note \/ Busy(w) \/ worker'[w].phase = "closed"
        /\ \A l \in Loops : ~Subscribed(l, w) => note'[l] = note[l]
    <2> USE DEF Busy, Ending, Emit, IInv, WorkersInv, WorkerRecord, NotesInv
    <2>1. ASSUME NEW id, NEW report, Ends(w, id, report)
          PROVE  /\ UNCHANGED note /\ Busy(w)
                 /\ worker[w].phase # "closed"
      BY <2>1 DEF Ends
    <2>2. CASE MovesToBottom(w) \/ ReturnsToOrchestrator(w)
      BY <2>2 DEF MovesToBottom, ReturnsToOrchestrator
    <2>3. CASE LogsCompleted(w)
      BY <2>3 DEF LogsCompleted
    <2>4. CASE Signals402(w)
      BY <2>4 DEF Signals402
    <2>5. CASE WorkerExits(w) \/ SessionExpires(w)
      BY <2>5 DEF WorkerExits, SessionExpires
    <2>6. CASE Obeys(w)
      BY <2>6 DEF Obeys
    <2> QED BY <2>1, <2>2, <2>3, <2>4, <2>5, <2>6 DEF WorkerStep
  <1>4. completed' \ completed \subseteq {w} /\ (completed' # completed => Busy(w))
    BY DEF WorkerStep, Ends, MovesToBottom, ReturnsToOrchestrator, LogsCompleted,
       Signals402, WorkerExits, SessionExpires, Obeys, Busy, Ending
  <1>5. \A v : Closed(v) => Closed(v)'
    BY <1>2, <1>3 DEF Closed
  <1>6. ASSUME NEW v \in Workers, Busy(v)'
        PROVE  \E l \in Loops : Hears(loop[l], handler[l], note[l], v)'
    <2>1. Busy(v)
      BY <1>2, <1>3, <1>6 DEF Busy
    <2>2. PICK l \in Loops : Hears(loop[l], handler[l], note[l], v)
      BY <2>1 DEF BusyInv
    <2>3. note'[l] = note[l]
      <3>1. CASE v = w
        BY <1>3, <1>6, <3>1
      <3>2. CASE v # w
        BY <1>3, <2>2, <3>2 DEF Hears, Subscribed
      <3> QED BY <3>1, <3>2
    <2> QED BY <1>1, <2>2, <2>3 DEF Hears
  <1>7. ASSUME NEW l \in Loops
        PROVE  Crashed(loop[l], handler[l])'
    <2>1. Crashed(loop[l], handler[l]) /\ Attends(loop[l], handler[l], note[l])
      BY DEF BusyInv, WatchInv
    <2>2. CASE handler[l].pc = "fail"
      <3>1. ~(handler[l].worker = w /\ Busy(w))
        BY <2>1, <2>2 DEF Crashed, Attends, Closed, Busy, Ending
      <3> QED BY <1>1, <1>4, <2>1, <2>2, <3>1 DEF Crashed
    <2>3. CASE handler[l].pc # "fail"
      BY <1>1, <2>3 DEF Crashed
    <2> QED BY <2>2, <2>3
  <1>8. ASSUME NEW l \in Loops, loop'[l].pc = "prompt", note'[l] # <<>>
        PROVE  Closed(loop[l].worker)'
    <2>1. CASE note'[l] = note[l]
      BY <1>1, <1>5, <1>8, <2>1 DEF BusyInv
    <2>2. CASE note'[l] # note[l]
      <3>1. loop[l].worker = w
        BY <1>3, <2>2 DEF Subscribed
      <3>2. ~Busy(w)
        <4>1. ASSUME NEW k \in Loops, loop[k].pc = "waiting"
              PROVE  FALSE
          BY <1>1, <1>8, <4>1 DEF CallInv
        <4> QED BY <4>1 DEF BusyInv, Hears
      <3> QED BY <1>1, <1>3, <2>2, <3>1, <3>2 DEF Closed
    <2> QED BY <2>1, <2>2
  <1> QED BY <1>1, <1>6, <1>7, <1>8 DEF BusyInv

LEMMA BusyNext ==
  ASSUME Calm
  PROVE  BInv /\ [Next]_vars => BInv'
  <1> SUFFICES ASSUME BInv, [Next]_vars PROVE BusyInv'
    BY CalmMeans, RunNext, WatchNext DEF BInv
  <1> USE DEF BInv, SInv
  <1>1. ASSUME NEW l \in Loops, LoopStep(l)
        PROVE  BusyInv'
    BY <1>1, BusyApart, BusyPrompts, BusyNotified, BusyWaitEnds DEF ApartStep
  <1>2. ASSUME NEW l \in Loops, HandlerStep(l)
        PROVE  BusyInv'
    BY <1>2, BusyHandlers
  <1>3. ASSUME NEW w \in Workers, WorkerStep(w)
        PROVE  BusyInv'
    BY <1>3, BusyWorkers
  <1>4. CASE ToolStep \/ Calls \/ Reload \/ UNCHANGED vars
    <2>1. UNCHANGED <<loop, handler, worker, note, pausing, completed, isRunning>>
      BY <1>4, CalmMeans DEF ToolStep, ToolGrants, ToolSetsRunning, Calls, StartMissionRun,
         Abort, UserPauses, UserKills, OrchestratorCancels, OrchestratorAdds, Edit,
         OrchestratorDismisses, Reload, vars
    <2> QED BY <2>1 DEF BusyInv, Busy, Hears, Crashed, Closed
  <1>5. ~OpStep
    BY DEF OpStep, PauseLogs, PauseWrites, PauseChecks, PauseOverwrites, KillInterrupts,
       BusyInv, CallInv
  <1>6. ~Crash
    BY CalmMeans DEF Crash
  <1> QED BY <1>1, <1>2, <1>3, <1>4, <1>5, <1>6 DEF Next

LEMMA BusyInit == Init => BInv
  <1> SUFFICES ASSUME Init PROVE BusyInv
    BY RunInit, WatchInit DEF BInv
  <1> QED BY DEF Init, BusyInv, Busy, Ending, Crashed, Idle, NoHandler

-----------------------------------------------------------------------------
(* What the updates of features.json do to the statuses in it.             *)

Holds(f, id, status) == \E i \in DOMAIN f : f[i].id = id /\ f[i].status = status

\* A one-to-one map of the positions reaches all of them.
LEMMA Onto ==
  ASSUME NEW f \in Seq(Feature), NEW p \in [DOMAIN f -> DOMAIN f], Injective(p)
  PROVE  \A j \in DOMAIN f : \E i \in DOMAIN f : p[i] = j
  <1> DEFINE D == DOMAIN f
  <1>1. D = 1..Len(f) /\ Len(f) \in Nat
    OBVIOUS
  <1>2. IsFiniteSet(D)
    BY <1>1, FS_Interval
  <1>3. p \in Injection(D, D)
    BY DEF Injective, Injection, IsInjective
  <1> HIDE DEF D
  <1>4. p \in Surjection(D, D)
    BY <1>2, <1>3, FS_Injection
  <1> QED BY <1>4 DEF Surjection, D

LEMMA PermutedHolds ==
  ASSUME NEW f \in Seq(Feature), NEW p \in [DOMAIN f -> DOMAIN f], Injective(p),
         NEW id, NEW status, Holds(f, id, status)
  PROVE  Holds([i \in DOMAIN f |-> f[p[i]]], id, status)
  <1>1. PICK j \in DOMAIN f : f[j].id = id /\ f[j].status = status
    BY DEF Holds
  <1>2. PICK i \in DOMAIN f : p[i] = j
    BY Onto
  <1> QED BY <1>1, <1>2 DEF Holds

LEMMA InsertedHolds ==
  ASSUME NEW f \in Seq(Feature), NEW x \in Ids, NEW id, NEW status, Holds(f, id, status)
  PROVE  Holds(InsertFeatureAtTop(f, x), id, status)
  <1> DEFINE g == InsertFeatureAtTop(f, x)
  <1>1. PICK j \in DOMAIN f : f[j].id = id /\ f[j].status = status
    BY DEF Holds
  <1>2. DOMAIN f = 1..Len(f) /\ Len(f) \in Nat /\ NewFeature(x) \in Feature
    BY NewFeatureType
  <1>3. j + 1 \in DOMAIN g /\ g[j + 1] = f[j]
    BY <1>2 DEF InsertFeatureAtTop
  <1> QED BY <1>1, <1>3 DEF Holds

\* An update changes the entry it finds only.
LEMMA UpdatedHolds ==
  ASSUME NEW f \in Seq(Feature), NEW x, NEW s, NEW id, NEW status, Holds(f, id, status),
         s = status \/ \A i \in FirstId(f, x) : f[i].status # status
  PROVE  Holds(UpdateFeature(f, x, s), id, status)
  <1> DEFINE g == UpdateFeature(f, x, s)
  <1>1. PICK j \in DOMAIN f : f[j].id = id /\ f[j].status = status
    BY DEF Holds
  <1>2. f[j] \in Feature /\ DOMAIN g = DOMAIN f
    BY DEF UpdateFeature
  <1>3. g[j] = f[j] \/ (j \in FirstId(f, x) /\ g[j] = [f[j] EXCEPT !.status = s])
    BY DEF UpdateFeature
  <1>4. g[j].id = id /\ g[j].status = status
    BY <1>1, <1>2, <1>3 DEF Feature
  <1> QED BY <1>2, <1>4 DEF Holds

LEMMA RequeuedHolds ==
  ASSUME NEW f \in Seq(Feature), NEW x, NEW w, NEW id, NEW status \in {"completed", "pending"},
         Holds(f, id, status)
  PROVE  Holds(Requeue(f, x, w), id, status)
  <1>1. ASSUME NEW y, Requeueable(f, y, w)
        PROVE  Holds(UpdateFeature(f, y, "pending"), id, status)
    <2>1. \A i \in FirstId(f, y) : f[i].status = "in_progress"
      BY <1>1, FirstIdOne DEF Requeueable
    <2> QED BY <2>1, UpdatedHolds
  <1>2. Requeue(f, x, w) = f \/ \E y : /\ Requeueable(f, y, w)
                                       /\ Requeue(f, x, w) = UpdateFeature(f, y, "pending")
    BY DEF Requeue
  <1> QED BY <1>1, <1>2

LEMMA CancelledHolds ==
  ASSUME NEW f \in Seq(Feature), NEW i \in DOMAIN f, f[i].status = "pending",
         NEW id, Holds(f, id, "completed")
  PROVE  Holds([f EXCEPT ![i].status = "cancelled"], id, "completed")
  <1> DEFINE g == [f EXCEPT ![i].status = "cancelled"]
  <1>1. PICK j \in DOMAIN f : f[j].id = id /\ f[j].status = "completed"
    BY DEF Holds
  <1>2. DOMAIN g = DOMAIN f /\ g[j] = f[j]
    BY <1>1
  <1> QED BY <1>1, <1>2 DEF Holds

\* Where ids are there once, the entry an id finds is any that has it.
LEMMA FoundIsIt ==
  ASSUME NEW f \in Seq(Feature), Once(f, Ids), NEW id \in Ids, NEW i \in DOMAIN f,
         f[i].id = id
  PROVE  FirstId(f, id) = {i}
  <1>1. DOMAIN f = 1..Len(f) /\ Len(f) \in Nat
    OBVIOUS
  <1>2. \A j \in DOMAIN f : f[j].id = id => j = i
    BY DEF Once
  <1>3. \A j \in 1..(i - 1) : j \in DOMAIN f /\ j # i
    BY <1>1
  <1> QED BY <1>1, <1>2, <1>3 DEF FirstId

LEMMA AssignedHolds ==
  ASSUME NEW f \in Seq(Feature), Once(f, Ids), NEW x \in Ids, Holds(f, x, "pending"),
         NEW ws
  PROVE  /\ Holds(AssignFeature(f, x, ws), x, "in_progress")
         /\ \A id : Holds(f, id, "completed") => Holds(AssignFeature(f, x, ws), id, "completed")
  <1> DEFINE g == AssignFeature(f, x, ws)
  <1>1. PICK i \in DOMAIN f : f[i].id = x /\ f[i].status = "pending"
    BY DEF Holds
  <1>2. FirstId(f, x) = {i} /\ f[i] \in Feature
    BY <1>1, FoundIsIt
  <1>3. /\ DOMAIN g = DOMAIN f
        /\ g[i] = [f[i] EXCEPT !.status = "in_progress", !.workers = ws]
        /\ \A j \in DOMAIN f \ {i} : g[j] = f[j]
    BY <1>2 DEF AssignFeature
  <1>4. g[i].id = x /\ g[i].status = "in_progress"
    BY <1>1, <1>2, <1>3 DEF Feature
  <1> HIDE DEF g
  <1>5. Holds(g, x, "in_progress")
    BY <1>3, <1>4 DEF Holds
  <1>6. ASSUME NEW id, Holds(f, id, "completed")
        PROVE  Holds(g, id, "completed")
    BY <1>1, <1>3, <1>6 DEF Holds
  <1> QED BY <1>5, <1>6 DEF g

-----------------------------------------------------------------------------
(* The ids of the plan stay distinct.                                      *)

PlannedOnce == \A i, j \in DOMAIN Planned : Planned[i] = Planned[j] => i = j

LEMMA InsertsFresh ==
  ASSUME SInv, ValidationInv, PlainIds, NEW l \in Loops,
         InsertsUserTesting(l) \/ InsertsScrutiny(l)
  PROVE  \/ features' = features
         \/ \E id \in Ids : ~Has(features, id) /\ features' = InsertFeatureAtTop(features, id)
  <1> USE DEF SInv
  <1>1. loop[l].pc \in {"insertUserTesting", "insertScrutiny"} /\ loop[l].pc \in ValidationPC
    BY DEF InsertsUserTesting, InsertsScrutiny, At, ValidationPC
  <1>2. PICK m \in Milestones :
           /\ loop[l].id = UserTesting(m)
           /\ m \notin validated
           /\ loop[l].pc = "insertScrutiny" => ~Has(features, Scrutiny(m))
    BY <1>1 DEF ValidationInv
  <1>3. Validating(l) = m /\ Scrutiny(m) \in Ids /\ UserTesting(m) \in Ids
    BY <1>2, ValidatorOf DEF Validating
  <1>4. CASE InsertsUserTesting(l)
    <2>1. /\ loop[l].pc = "insertUserTesting"
          /\ features' = IF SkipUserTesting THEN features
                         ELSE InsertFeatureAtTop(features, UserTesting(m))
      BY <1>3, <1>4 DEF InsertsUserTesting, At, WriteFeatures
    <2>2. \A k \in Loops \ {l} : loop[k].pc = "idle"
      BY <1>1 DEF CallInv
    <2>3. ~Has(features, UserTesting(m))
      BY <1>2, <2>1, <2>2 DEF ValidationInv
    <2> QED BY <1>3, <2>1, <2>3
  <1>5. CASE InsertsScrutiny(l)
    <2>1. /\ loop[l].pc = "insertScrutiny"
          /\ features' = IF SkipScrutiny THEN features
                         ELSE InsertFeatureAtTop(features, Scrutiny(m))
      BY <1>3, <1>5 DEF InsertsScrutiny, At, WriteFeatures
    <2> QED BY <1>2, <1>3, <2>1
  <1> QED BY <1>4, <1>5

\* An id is not inserted while an entry has it.
LEMMA OnceNext ==
  ASSUME PlainIds
  PROVE  SInv /\ ValidationInv /\ Once(features, Ids) /\ [Next]_vars => Once(features, Ids)'
  <1> SUFFICES ASSUME SInv, ValidationInv, Once(features, Ids), [Next]_vars
               PROVE  Once(features', Ids)
    OBVIOUS
  <1> USE DEF SInv
  <1>1. features \in Seq(Feature)
    BY DEF IInv, FilesInv
  <1>2. CASE SameIds(features', features)
    BY <1>2, SameIdsMeans
  <1>3. ASSUME NEW id \in Ids, ~Has(features, id), features' = InsertFeatureAtTop(features, id)
        PROVE  Once(features', Ids)
    BY <1>1, <1>3, InsertedIds
  <1>4. ASSUME NEW l \in Loops, LoopStep(l) \/ HandlerStep(l)
        PROVE  Once(features', Ids)
    <2>1. CASE InsertsUserTesting(l) \/ InsertsScrutiny(l)
      BY <1>3, <2>1, InsertsFresh
    <2>2. CASE ~InsertsUserTesting(l) /\ ~InsertsScrutiny(l)
      BY <1>2, <1>4, <2>2, LoopIds
    <2> QED BY <2>1, <2>2
  <1>5. CASE ToolStep \/ OpStep \/ Crash \/ Reload \/ UNCHANGED vars
    <2>1. features' = features
      BY <1>5 DEF ToolStep, OpStep, ToolGrants, ToolSetsRunning, PauseLogs, PauseWrites,
         PauseChecks, PauseOverwrites, KillInterrupts, Crash, Reload, vars
    <2> QED BY <2>1
  <1>6. ASSUME NEW w \in Workers, WorkerStep(w)
        PROVE  Once(features', Ids)
    BY <1>2, <1>6, WorkerIds
  <1>7. ASSUME NEW id \in Extra, OrchestratorAdds(id)
        PROVE  Once(features', Ids)
    <2>1. features' = InsertFeatureAtTop(features, id) /\ ~Has(features, id) /\ id \in Ids
      BY <1>7, RunAssumption DEF OrchestratorAdds, Edit, WriteFeatures, Has, Ids
    <2> QED BY <1>3, <2>1
  <1>8. CASE Calls /\ \A id \in Extra : ~OrchestratorAdds(id)
    BY <1>2, <1>8, CallsIds
  <1> QED BY <1>4, <1>5, <1>6, <1>7, <1>8 DEF Next

DInv == BInv /\ ValidationInv /\ Once(features, Ids)

LEMMA DistinctNext ==
  ASSUME Calm, PlainIds
  PROVE  DInv /\ [Next]_vars => DInv'
  BY CalmMeans, BusyNext, ValidationNext, OnceNext DEF DInv, BInv

LEMMA DistinctInit ==
  ASSUME PlainIds, PlannedOnce
  PROVE  Init => DInv
  <1> SUFFICES ASSUME Init PROVE Once(features, Ids)
    BY BusyInit, ValidationInit DEF DInv
  <1>1. DOMAIN features = DOMAIN Planned
        /\ \A i \in DOMAIN features : features[i].id = Planned[i]
    BY DEF Init, NewFeature
  <1> QED BY <1>1 DEF Once, PlannedOnce

-----------------------------------------------------------------------------
(* The feature a loop and its worker are at.                               *)

Working(w) == w \in Workers /\ worker[w].phase = "working"

\* A loop finds the feature it read as it read it, and as it wrote it.
TaskOK(r) ==
    /\ r.pc \in {"spawnRpc", "mark"} => Holds(features, r.id, "pending")
    /\ r.pc = "prompt" => Holds(features, r.id, "in_progress")
    /\ r.pc = "waiting" /\ Working(r.worker) =>
          worker[r.worker].task = r.id /\ Holds(features, r.id, "in_progress")

TaskInv == \A l \in Loops : TaskOK(loop[l])

\* A loop about to write 'completed' still finds every feature done.
DoneInv == \A l \in Loops : loop[l].pc = "toCompleted" => AllDone(features)

TaskPC == {"spawnRpc", "mark", "prompt", "waiting", "toCompleted"}

LEMMA ToldTask ==
  ASSUME IInv, NEW ws, NEW what, Tell(ws, what)
  PROVE  \A w \in Workers : worker'[w].task = worker[w].task
  BY DEF Tell, IInv, WorkersInv, WorkerRecord

\* Only the session a loop waits for writes features.json besides the loop.
LEMMA WhoWrites ==
  ASSUME BInv, Calm, [Next]_vars, NEW l \in Loops, loop[l].pc # "idle", ~LoopStep(l)
  PROVE  /\ loop'[l].pc = loop[l].pc /\ loop'[l].id = loop[l].id
         /\ loop'[l].worker = loop[l].worker
         /\ \/ features' = features
            \/ loop[l].pc = "waiting" /\ worker'[loop[l].worker].phase # "working"
         /\ \A w \in Workers : worker'[w].phase = "working" =>
               worker[w].phase = "working" /\ worker'[w].task = worker[w].task
  <1> USE DEF BInv, SInv
  <1>1. up /\ tool.pc = "waiting" /\ \A k \in Loops \ {l} : loop[k].pc = "idle"
    BY DEF CallInv
  <1>2. ASSUME NEW k \in Loops, LoopStep(k)
        PROVE  FALSE
    BY <1>2, Alone
  <1>3. ASSUME NEW k \in Loops, HandlerStep(k)
        PROVE  /\ loop'[l].pc = loop[l].pc /\ loop'[l].id = loop[l].id
               /\ loop'[l].worker = loop[l].worker
               /\ \/ features' = features
                  \/ loop[l].pc = "waiting" /\ worker'[loop[l].worker].phase # "working"
               /\ \A w \in Workers : worker'[w].phase = worker[w].phase
                                     /\ worker'[w].task = worker[w].task
    <2>1. /\ loop'[l].pc = loop[l].pc /\ loop'[l].id = loop[l].id
          /\ loop'[l].worker = loop[l].worker
      <3>1. CASE Logs402(k)
        BY <3>1 DEF Logs402
      <3>2. CASE \E result : HandlerEnds(k, result)
        BY <3>2, HandlerEndsEffect
      <3> QED BY <1>3, <3>1, <3>2 DEF HandlerStep, Pauses402, RequeuesFailed
    <2>2. \A w \in Workers : worker'[w].phase = worker[w].phase
                             /\ worker'[w].task = worker[w].task
      <3>1. UNCHANGED worker \/ Tell({handler[k].worker}, "close")
        BY <1>3 DEF HandlerStep, Logs402, Pauses402, RequeuesFailed
      <3> QED BY <3>1, Told, ToldTask
    <2>3. CASE RequeuesFailed(k)
      <3>1. handler[k].pc = "fail" /\ UNCHANGED worker
        BY <2>3 DEF RequeuesFailed
      <3>2. handler[k].live /\ loop[k].pc = "waiting" /\ Closed(loop[k].worker)
        BY <3>1 DEF BusyInv, Crashed, WatchInv, Attends
      <3>3. k = l
        BY <1>1, <3>2
      <3>4. loop[l].worker \in Workers
        BY <3>2, <3>3 DEF IInv, LoopsInv, LoopOK
      <3> QED BY <2>1, <2>2, <3>1, <3>2, <3>3, <3>4 DEF Closed
    <2>4. CASE ~RequeuesFailed(k)
      <3>1. features' = features
        BY <1>3, <2>4 DEF HandlerStep, Logs402, Pauses402
      <3> QED BY <2>1, <2>2, <3>1
    <2> QED BY <2>3, <2>4
  <1>4. ASSUME NEW w \in Workers, WorkerStep(w)
        PROVE  /\ UNCHANGED loop
               /\ \/ features' = features
                  \/ loop[l].pc = "waiting" /\ worker'[loop[l].worker].phase # "working"
               /\ \A v \in Workers : worker'[v].phase = "working" =>
                     worker[v].phase = "working" /\ worker'[v].task = worker[v].task
    <2>1. UNCHANGED loop
      BY <1>4 DEF WorkerStep, Ends, MovesToBottom, ReturnsToOrchestrator, LogsCompleted,
         Signals402, WorkerExits, SessionExpires, Obeys
    <2>2. /\ \A v \in Workers \ {w} : worker'[v] = worker[v]
          /\ worker'[w].phase # "working"
             \/ UNCHANGED worker
      <3> USE DEF IInv, WorkersInv, WorkerRecord
      <3>1. ASSUME NEW id, NEW report, Ends(w, id, report)
            PROVE  /\ \A v \in Workers \ {w} : worker'[v] = worker[v]
                   /\ worker'[w].phase # "working"
        BY <3>1 DEF Ends
      <3>2. CASE MovesToBottom(w) \/ ReturnsToOrchestrator(w) \/ LogsCompleted(w)
        BY <3>2 DEF MovesToBottom, ReturnsToOrchestrator, LogsCompleted
      <3>3. CASE Signals402(w) \/ WorkerExits(w) \/ SessionExpires(w)
        BY <3>3 DEF Signals402, WorkerExits, SessionExpires
      <3>4. CASE Obeys(w)
        BY <3>4 DEF Obeys
      <3> QED BY <1>4, <3>1, <3>2, <3>3, <3>4 DEF WorkerStep
    <2>3. features' # features => Busy(w)
      BY <1>4 DEF WorkerStep, Ends, MovesToBottom, ReturnsToOrchestrator, LogsCompleted,
         Signals402, WorkerExits, SessionExpires, Obeys, Busy, Ending
    <2>4. Busy(w) => loop[l].pc = "waiting" /\ loop[l].worker = w
      BY <1>1, BusyHere DEF Hears
    <2>5. features' # features => worker'[w].phase # "working"
      <3>1. features' # features => MovesToBottom(w) \/ \E id, report : Ends(w, id, report)
        BY <1>4 DEF WorkerStep, ReturnsToOrchestrator, LogsCompleted, Signals402,
           WorkerExits, SessionExpires, Obeys
      <3>2. MovesToBottom(w) => worker'[w].phase \in {"returning", "logging"}
        BY DEF MovesToBottom, IInv, WorkersInv, WorkerRecord
      <3>3. (\E id, report : Ends(w, id, report)) => worker'[w].phase \in {"moving", "returning"}
        BY DEF Ends, IInv, WorkersInv, WorkerRecord
      <3> QED BY <3>1, <3>2, <3>3
    <2> QED BY <2>1, <2>2, <2>3, <2>4, <2>5
  <1>5. ~ToolStep /\ ~OpStep /\ ~Calls /\ ~Crash /\ ~Reload
    BY <1>1, CalmMeans DEF ToolStep, ToolGrants, ToolSetsRunning, OpStep, PauseLogs,
       PauseWrites, PauseChecks, PauseOverwrites, KillInterrupts, Calls, StartMissionRun,
       Abort, UserPauses, UserKills, OrchestratorCancels, OrchestratorAdds, Edit,
       OrchestratorDismisses, Crash, Reload, BusyInv, CallInv
  <1>6. CASE UNCHANGED vars
    BY <1>6 DEF vars
  <1> QED BY <1>2, <1>3, <1>4, <1>5, <1>6 DEF Next

\* The steps of a loop that leave the feature it is at as it was, or leave the feature.
LEMMA TaskLeft ==
  ASSUME SInv, NEW l \in Loops, LoopStep(l),
         ~SpawnReads(l), ~SessionSpawned(l), ~MarksInProgress(l), ~ResumeLoads(l),
         ~PromptSent(l), ~Notified(l), ~Finishes(l), ~Rechecks(l)
  PROVE  loop'[l].pc \notin TaskPC
  <1> USE DEF SInv
  <1>1. CASE \E pc \in LoopPC \ TaskPC : Goto(l, pc)
    BY <1>1, GotoFields
  <1>2. CASE \E out, ids : Return(l, out, ids)
    <2>1. PICK out, ids : Return(l, out, ids)
      BY <1>2
    <2> QED BY <2>1, ReturnFields DEF TaskPC
  <1>3. CASE ToolLaunches(l)
    <2> DEFINE q == [Idle EXCEPT !.resume = tool.resume,
                        !.pc = IF tool.resume = None THEN "cleanup" ELSE "top"]
    <2>1. q.pc \in {"cleanup", "top"}
      BY DEF Idle
    <2>2. UNCHANGED loop \/ loop' = [loop EXCEPT ![l] = q]
      BY <1>3 DEF ToolLaunches
    <2> HIDE DEF q
    <2>3. loop'[l].pc = loop[l].pc \/ loop'[l] = q
      BY <2>2, RecordSet
    <2>4. loop[l].pc = "idle"
      BY <1>3 DEF ToolLaunches
    <2> QED BY <2>1, <2>3, <2>4 DEF TaskPC
  <1>4. CASE Exits(l)
    <2>1. loop' = [loop EXCEPT ![l] = Idle]
      BY <1>4 DEF Exits
    <2>2. loop'[l] = Idle /\ Idle.pc = "idle"
      BY <2>1, RecordSet DEF Idle
    <2> QED BY <2>2 DEF TaskPC
  <1>5. CASE LoopDispatches(l)
    BY <1>5, DispatchEffect DEF TaskPC
  <1>6. CASE ResumeFails(l)
    BY <1>6, ResumeFailsEffect DEF TaskPC
  <1>7. CASE MarksValidated(l)
    <2>1. loop'[l].pc = "check"
      BY <1>7 DEF MarksValidated, IInv, LoopsInv, LoopOK, LoopRecord
    <2> QED BY <2>1 DEF TaskPC
  <1>8. CASE ExhaustedPauses(l) \/ WaitEnds(l) \/ DispatchFails(l)
    BY <1>8, <1>2 DEF ExhaustedPauses, WaitEnds, DispatchFails
  <1>9. CASE Checks(l)
    <2>1. loop[l].back \in {"finish", "recheck"}
      BY Record DEF LoopRecord
    <2> QED BY <1>9, <2>1, ChecksEffect DEF TaskPC
  <1>10. CASE \/ Cleanup(l) \/ LoopStops(l) \/ LoopAborts(l) \/ LoopReopens(l)
              \/ LoopSetsRunning(l) \/ Preempts(l) \/ ExhaustedLogs(l) \/ SpawnFails(l)
              \/ PromptFails(l) \/ Posts(l) \/ InsertsUserTesting(l) \/ InsertsScrutiny(l)
              \/ SetsCompleted(l) \/ SetsOrchestratorTurn(l) \/ LoopPauseLogs(l)
              \/ LoopPauses(l)
    <2>1. \E pc \in LoopPC \ TaskPC : Goto(l, pc)
      BY <1>10 DEF Cleanup, LoopStops, LoopAborts, LoopReopens, LoopSetsRunning, Preempts,
         ExhaustedLogs, SpawnFails, PromptFails, Posts, InsertsUserTesting,
         InsertsScrutiny, SetsCompleted, SetsOrchestratorTurn, LoopEndsWith,
         LoopPauseLogs, LoopPauses, LoopPC, TaskPC
    <2> QED BY <2>1, <1>1
  <1> QED BY <1>3, <1>4, <1>5, <1>6, <1>7, <1>8, <1>9, <1>10 DEF LoopStep

LEMMA LoopOthers ==
  ASSUME SInv, NEW l \in Loops, LoopStep(l)
  PROVE  \A k \in Loops \ {l} : loop'[k] = loop[k]
  <1> USE DEF SInv
  <1>1. CASE PromptSent(l) \/ PromptFails(l)
    BY <1>1, GotoFields DEF PromptSent, PromptFails
  <1>2. CASE DispatchFails(l) \/ WaitEnds(l)
    BY <1>2, ReturnFields DEF DispatchFails, WaitEnds
  <1>3. CASE Notified(l)
    BY <1>3, NotifiedEffect DEF Completes, Handles, IInv, LoopsInv
  <1> QED BY <1>1, <1>2, <1>3, ApartLoop DEF ApartStep

LEMMA TaskHead ==
  ASSUME DInv, TaskInv, NEW l \in Loops,
         SpawnReads(l) \/ SessionSpawned(l) \/ MarksInProgress(l) \/ ResumeLoads(l)
  PROVE  TaskOK(loop[l])'
  <1> USE DEF DInv, BInv, SInv
  <1>1. features \in Seq(Feature)
    BY DEF IInv, FilesInv
  <1>2. CASE SpawnReads(l)
    <2>1. features' = features
      BY <1>2 DEF SpawnReads
    <2>2. \A i \in NextPending(features) : Holds(features, features[i].id, "pending")
      BY DEF NextPending, FirstWith, Holds
    <2> QED BY <1>2, <2>1, <2>2, SpawnReadsEffect DEF TaskOK
  <1>3. CASE SessionSpawned(l)
    <2>1. features' = features /\ loop[l].pc = "spawnRpc"
      BY <1>3 DEF SessionSpawned, At
    <2> QED BY <1>3, <2>1, SpawnedEffect DEF TaskInv, TaskOK
  <1>4. CASE MarksInProgress(l)
    <2>1. /\ loop[l].pc = "mark" /\ loop[l].id \in Ids
          /\ features' = AssignFeature(features, loop[l].id,
                                       Append(loop[l].snap, loop[l].worker))
      BY <1>4 DEF MarksInProgress, At, WriteFeatures, IInv, LoopsInv, LoopOK
    <2>2. Holds(features', loop[l].id, "in_progress")
      BY <1>1, <2>1, AssignedHolds DEF TaskInv, TaskOK
    <2> QED BY <1>4, <2>2, MarksEffect DEF TaskOK
  <1>5. CASE ResumeLoads(l)
    <2>1. features' = features
      BY <1>5 DEF ResumeLoads
    <2>2. \A i \in InProgress(features) : Holds(features, features[i].id, "in_progress")
      BY DEF InProgress, FirstWith, Holds
    <2> QED BY <1>5, <2>1, <2>2, ResumeLoadsEffect DEF TaskOK
  <1> QED BY <1>2, <1>3, <1>4, <1>5

LEMMA TaskWait ==
  ASSUME DInv, TaskInv, NEW l \in Loops, PromptSent(l) \/ Notified(l)
  PROVE  TaskOK(loop[l])'
  <1> DEFINE w == loop[l].worker
  <1> USE DEF DInv, BInv, SInv
  <1>1. features' = features
    BY DEF PromptSent, Notified
  <1>2. CASE PromptSent(l)
    <2>1. /\ loop[l].pc = "prompt" /\ Goto(l, "waiting") /\ w \in Workers
          /\ worker' = [worker EXCEPT ![w].phase = "working", ![w].task = loop[l].id]
      BY <1>2 DEF PromptSent, At, IInv, LoopsInv, LoopOK
    <2>2. /\ loop'[l].pc = "waiting" /\ loop'[l].worker = w /\ loop'[l].id = loop[l].id
      BY <2>1, GotoFields
    <2>3. worker'[w].task = loop[l].id
      BY <2>1 DEF IInv, WorkersInv, WorkerRecord
    <2> QED BY <1>1, <2>1, <2>2, <2>3 DEF TaskInv, TaskOK
  <1>3. CASE Notified(l)
    <2>1. loop[l].pc = "waiting"
      BY <1>3 DEF Notified, At
    <2>2. /\ loop'[l].pc = "waiting" /\ loop'[l].worker = w /\ loop'[l].id = loop[l].id
      <3>1. UNCHANGED loop \/ loop' = [loop EXCEPT ![l].done = TRUE]
        BY <1>3, NotifiedEffect DEF Completes, Handles
      <3> QED BY <2>1, <3>1 DEF IInv, LoopsInv, LoopOK, LoopRecord
    <2>3. \A v \in Workers : worker'[v].phase = worker[v].phase
                             /\ worker'[v].task = worker[v].task
      <3>1. worker' = worker \/ Tell({w}, "close")
        BY <1>3, NotifiedEffect DEF Completes, Handles
      <3> QED BY <3>1, Told, ToldTask
    <2> QED BY <1>1, <2>1, <2>2, <2>3 DEF TaskInv, TaskOK, Working
  <1> QED BY <1>2, <1>3

LEMMA EndEffect ==
  ASSUME SInv, NEW l \in Loops, Finishes(l) \/ Rechecks(l)
  PROVE  /\ features' = features
         /\ loop'[l].pc \in {"toCompleted", "exit", "toOrchestrator", "top"}
         /\ loop'[l].pc = "toCompleted" => AllDone(features)
  <1> USE DEF SInv
  <1>1. features' = features
    BY DEF Finishes, Rechecks
  <1>2. \E pc \in {"toCompleted", "exit", "toOrchestrator", "top"} :
           Goto(l, pc) /\ (pc = "toCompleted" => AllDone(features))
    <2>1. loop[l].out \in {"success", "return", "paused"}
      BY Record DEF LoopRecord
    <2>2. CASE Finishes(l)
      BY <2>1, <2>2 DEF Finishes
    <2>3. CASE Rechecks(l)
      BY <2>3 DEF Rechecks
    <2> QED BY <2>2, <2>3
  <1> QED BY <1>1, <1>2, GotoFields

\* Only launching ends the idleness of a loop.
LEMMA IdleStays ==
  ASSUME SInv, Calm, [Next]_vars, NEW l \in Loops, ~LoopStep(l), loop[l].pc = "idle"
  PROVE  loop'[l].pc = "idle"
  <1>1. ASSUME NEW k \in Loops, LoopStep(k)
        PROVE  loop'[l].pc = "idle"
    BY <1>1, LoopOthers
  <1>2. ASSUME NEW k \in Loops, HandlerStep(k)
        PROVE  loop'[l].pc = "idle"
    <2>1. CASE Logs402(k)
      BY <2>1 DEF Logs402
    <2>2. CASE \E result : HandlerEnds(k, result)
      BY <2>2, HandlerEndsEffect DEF SInv
    <2> QED BY <1>2, <2>1, <2>2 DEF HandlerStep, Pauses402, RequeuesFailed
  <1>3. CASE ToolStep \/ OpStep \/ Calls \/ Reload \/ UNCHANGED vars
             \/ \E w \in Workers : WorkerStep(w)
    <2>1. CASE ToolStep \/ OpStep
      BY <2>1 DEF ToolStep, ToolGrants, ToolSetsRunning, OpStep, PauseLogs, PauseWrites,
         PauseChecks, PauseOverwrites, KillInterrupts
    <2>2. CASE Calls
      BY <2>2 DEF Calls, StartMissionRun, Abort, UserPauses, UserKills,
         OrchestratorCancels, OrchestratorAdds, Edit, OrchestratorDismisses
    <2>3. CASE Reload \/ UNCHANGED vars
      BY <2>3 DEF Reload, vars
    <2> QED BY <1>3, <2>1, <2>2, <2>3, WorkersApart
  <1>4. ~Crash
    BY CalmMeans DEF Crash
  <1> QED BY <1>1, <1>2, <1>3, <1>4 DEF Next

LEMMA TaskNext ==
  ASSUME Calm, PlainIds
  PROVE  DInv /\ TaskInv /\ [Next]_vars => TaskInv'
  <1> SUFFICES ASSUME DInv, TaskInv, [Next]_vars, NEW l \in Loops
               PROVE  TaskOK(loop[l])'
    BY DEF TaskInv
  <1> USE DEF DInv, BInv, SInv
  <1>1. CASE LoopStep(l)
    <2>1. CASE loop'[l].pc \notin TaskPC
      BY <2>1 DEF TaskOK, TaskPC
    <2>2. CASE Finishes(l) \/ Rechecks(l)
      BY <2>2, EndEffect DEF TaskOK
    <2>3. CASE PromptSent(l) \/ Notified(l)
      BY <2>3, TaskWait
    <2>4. CASE SpawnReads(l) \/ SessionSpawned(l) \/ MarksInProgress(l) \/ ResumeLoads(l)
      BY <2>4, TaskHead
    <2> QED BY <1>1, <2>1, <2>2, <2>3, <2>4, TaskLeft
  <1>2. CASE ~LoopStep(l) /\ loop[l].pc # "idle"
    <2>1. TaskOK(loop[l])
      BY DEF TaskInv
    <2> QED BY <1>2, <2>1, WhoWrites DEF TaskOK, Working
  <1>3. CASE ~LoopStep(l) /\ loop[l].pc = "idle"
    BY <1>3, IdleStays DEF TaskOK
  <1> QED BY <1>1, <1>2, <1>3

LEMMA TaskInit == Init => TaskInv
  BY DEF Init, TaskInv, TaskOK, Idle

LEMMA DoneNext ==
  ASSUME Calm
  PROVE  BInv /\ DoneInv /\ [Next]_vars => DoneInv'
  <1> SUFFICES ASSUME BInv, DoneInv, [Next]_vars, NEW l \in Loops,
                      loop'[l].pc = "toCompleted"
               PROVE  AllDone(features')
    BY DEF DoneInv, AllDone
  <1> USE DEF BInv, SInv
  <1>1. CASE LoopStep(l)
    <2>1. CASE Finishes(l) \/ Rechecks(l)
      BY <2>1, EndEffect
    <2>2. CASE PromptSent(l)
      BY <2>2, GotoFields DEF PromptSent
    <2>3. CASE Notified(l)
      <3>1. loop[l].pc = "waiting" /\ (UNCHANGED loop \/ loop' = [loop EXCEPT ![l].done = TRUE])
        BY <2>3, NotifiedEffect DEF Completes, Handles, Notified, At
      <3> QED BY <3>1 DEF IInv, LoopsInv, LoopOK, LoopRecord
    <2>4. CASE SpawnReads(l) \/ SessionSpawned(l) \/ MarksInProgress(l) \/ ResumeLoads(l)
      BY <2>4, SpawnReadsEffect, SpawnedEffect, MarksEffect, ResumeLoadsEffect
    <2> QED BY <1>1, <2>1, <2>2, <2>3, <2>4, TaskLeft DEF TaskPC
  <1>2. CASE ~LoopStep(l)
    <2>1. loop[l].pc = "toCompleted" /\ features' = features
      BY <1>2, WhoWrites, IdleStays
    <2> QED BY <2>1 DEF DoneInv
  <1> QED BY <1>1, <1>2

LEMMA DoneInit == Init => DoneInv
  BY DEF Init, DoneInv, Idle

\* The mission is marked completed only when every feature is done by then, although
\* workers and the orchestrator write the file as well: runLoop reads AllDone and
\* writes the state in two steps.
THEOREM CompletionIsDone ==
  ASSUME Calm
  PROVE  Spec => CompletedIsDone
  <1> DEFINE A == state # "completed" /\ state' = "completed" => AllDone(features)
  <1>1. Init => BInv /\ DoneInv
    BY BusyInit, DoneInit
  <1>2. BInv /\ DoneInv /\ [Next]_vars => BInv' /\ DoneInv'
    BY BusyNext, DoneNext
  <1>3. BInv /\ DoneInv /\ [Next]_vars => [A]_vars
    <2> SUFFICES ASSUME DoneInv, Next, state # "completed", state' = "completed"
                 PROVE  AllDone(features)
      OBVIOUS
    <2>1. \E l \in Loops : SetsCompleted(l)
      <3>1. ASSUME NEW l \in Loops, LoopStep(l), ~SetsCompleted(l)
            PROVE  state' \in {state, "running", "paused", "orchestrator_turn"}
        <4>1. \/ UNCHANGED state \/ LoopSetsRunning(l) \/ ExhaustedPauses(l)
              \/ SetsOrchestratorTurn(l) \/ LoopPauses(l)
          BY <3>1 DEF LoopStep, ToolLaunches, Cleanup, LoopStops, LoopAborts, LoopReopens,
             LoopDispatches, Preempts, SpawnReads, ExhaustedLogs, SessionSpawned, SpawnFails,
             MarksInProgress, ResumeLoads, ResumeFails, PromptSent, PromptFails,
             DispatchFails, Notified, WaitEnds, Posts, Checks, InsertsUserTesting,
             InsertsScrutiny, MarksValidated, Finishes, Rechecks, LoopPauseLogs, Exits
        <4> QED BY <4>1 DEF LoopSetsRunning, ExhaustedPauses, SetsOrchestratorTurn,
               LoopPauses, LoopEndsWith
      <3>2. ASSUME NEW l \in Loops, HandlerStep(l)
            PROVE  state' \in {state, "paused"}
        BY <3>2 DEF HandlerStep, Logs402, Pauses402, RequeuesFailed
      <3>3. ASSUME NEW w \in Workers, WorkerStep(w)
            PROVE  state' \in {state, "orchestrator_turn"}
        BY <3>3 DEF WorkerStep, Ends, MovesToBottom, ReturnsToOrchestrator, LogsCompleted,
           Signals402, WorkerExits, SessionExpires, Obeys
      <3>4. ToolStep \/ OpStep => state' \in {state, "running", "paused", "orchestrator_turn"}
        BY DEF ToolStep, ToolGrants, ToolSetsRunning, OpStep, PauseLogs, PauseWrites,
           PauseChecks, PauseOverwrites, KillInterrupts
      <3>5. Calls \/ Crash \/ Reload => state' \in {state, "paused"}
        BY DEF Calls, StartMissionRun, Abort, UserPauses, UserKills, OrchestratorCancels,
           OrchestratorAdds, Edit, OrchestratorDismisses, Crash, Reload
      <3> QED BY <3>1, <3>2, <3>3, <3>4, <3>5 DEF Next
    <2> QED BY <2>1 DEF SetsCompleted, LoopEndsWith, At, DoneInv
  <1> QED BY <1>1, <1>2, <1>3, PTL DEF Spec, CompletedIsDone

-----------------------------------------------------------------------------
(* What is completed stays completed.                                      *)

Keeps(g, f) == \A id : Holds(f, id, "completed") => Holds(g, id, "completed")

LEMMA LoopKeeps ==
  ASSUME DInv, TaskInv, PlainIds, NEW l \in Loops, LoopStep(l) \/ HandlerStep(l)
  PROVE  Keeps(features', features)
  <1> USE DEF DInv, BInv, SInv, Keeps
  <1>1. features \in Seq(Feature)
    BY DEF IInv, FilesInv
  <1>2. CASE \E id, w : features' = Requeue(features, id, w)
    BY <1>1, <1>2, RequeuedHolds
  <1>3. CASE MarksInProgress(l)
    <2>1. /\ loop[l].pc = "mark" /\ loop[l].id \in Ids
          /\ features' = AssignFeature(features, loop[l].id,
                                       Append(loop[l].snap, loop[l].worker))
      BY <1>3 DEF MarksInProgress, At, WriteFeatures, IInv, LoopsInv, LoopOK
    <2> QED BY <1>1, <2>1, AssignedHolds DEF TaskInv, TaskOK
  <1>4. CASE InsertsUserTesting(l) \/ InsertsScrutiny(l)
    <2>1. \/ features' = features
          \/ \E id \in Ids : features' = InsertFeatureAtTop(features, id)
      BY <1>4, InsertsFresh
    <2> QED BY <1>1, <2>1, InsertedHolds
  <1>5. CASE \/ Cleanup(l) \/ Preempts(l) \/ DispatchFails(l) \/ RequeuesFailed(l)
    <2>1. features' = features \/ \E id, w : features' = Requeue(features, id, w)
      BY <1>5 DEF Cleanup, Preempts, DispatchFails, RequeuesFailed, WriteFeatures
    <2> QED BY <1>2, <2>1
  <1>6. CASE /\ ~Cleanup(l) /\ ~Preempts(l) /\ ~DispatchFails(l) /\ ~RequeuesFailed(l)
             /\ ~MarksInProgress(l) /\ ~InsertsUserTesting(l) /\ ~InsertsScrutiny(l)
    <2>1. features' = features
      BY <1>6 DEF LoopStep, HandlerStep, ToolLaunches, LoopStops, LoopAborts,
         LoopReopens, LoopSetsRunning, LoopDispatches, SpawnReads,
         ExhaustedLogs, ExhaustedPauses, SessionSpawned, SpawnFails,
         ResumeLoads, ResumeFails, PromptSent, PromptFails, Notified, WaitEnds, Posts,
         Checks, MarksValidated, Finishes, Rechecks,
         SetsCompleted, SetsOrchestratorTurn, LoopEndsWith, LoopPauseLogs, LoopPauses,
         Exits, Logs402, Pauses402
    <2> QED BY <2>1
  <1> QED BY <1>3, <1>4, <1>5, <1>6

LEMMA WorkerKeeps ==
  ASSUME DInv, TaskInv, NEW w \in Workers, WorkerStep(w)
  PROVE  Keeps(features', features)
  <1> USE DEF DInv, BInv, SInv, Keeps
  <1>1. features \in Seq(Feature)
    BY DEF IInv, FilesInv
  <1>2. ASSUME NEW id \in Ids, NEW report \in Reports, Ends(w, id, report)
        PROVE  Keeps(features', features)
    <2>1. Working(w) /\ Busy(w)
      BY <1>2 DEF Ends, Working, Busy
    <2>2. PICK l \in Loops : Hears(loop[l], handler[l], note[l], w)
      BY <2>1 DEF BusyInv
    <2>3. worker[w].task = loop[l].id /\ Holds(features, worker[w].task, "in_progress")
      BY <2>1, <2>2 DEF Hears, TaskInv, TaskOK
    <2>4. Holds(features, id, "in_progress")
      BY <1>2, <2>3 DEF Ends, Holds, InProgress, FirstWith
    <2>5. PICK i \in DOMAIN features : features[i].id = id /\ features[i].status = "in_progress"
      BY <2>4 DEF Holds
    <2>6. \A j \in FirstId(features, id) : features[j].status # "completed"
      BY <1>1, <2>5, FoundIsIt
    <2>7. PICK s : features' = UpdateFeature(features, id, s)
      BY <1>2 DEF Ends, WriteFeatures
    <2> HIDE DEF DInv, BInv, SInv
    <2> QED BY <1>1, <2>6, <2>7, UpdatedHolds
  <1>3. CASE MovesToBottom(w)
    <2>1. features' = MoveFeatureToBottom(features, worker[w].task)
      BY <1>3 DEF MovesToBottom, WriteFeatures
    <2> QED BY <1>1, <2>1, MovedFrom, PermutedHolds
  <1>4. CASE \/ ReturnsToOrchestrator(w) \/ LogsCompleted(w) \/ Signals402(w)
             \/ WorkerExits(w) \/ SessionExpires(w) \/ Obeys(w)
    <2>1. features' = features
      BY <1>4 DEF ReturnsToOrchestrator, LogsCompleted, Signals402, WorkerExits,
         SessionExpires, Obeys
    <2> QED BY <2>1
  <1> QED BY <1>2, <1>3, <1>4 DEF WorkerStep

LEMMA CallsKeep ==
  ASSUME DInv, Calls
  PROVE  Keeps(features', features)
  <1> USE DEF DInv, BInv, SInv, Keeps
  <1>1. features \in Seq(Feature)
    BY DEF IInv, FilesInv
  <1>2. ASSUME NEW explicit, NEW restart, StartMissionRun(explicit, restart)
        PROVE  Keeps(features', features)
    <2>1. PICK p : /\ MovesStranded(features, p)
                   /\ features' = [i \in DOMAIN features |-> features[p[i]]]
      BY <1>2 DEF StartMissionRun, WriteFeatures
    <2> QED BY <1>1, <2>1, StrandedInjective, PermutedHolds
  <1>3. CASE Abort \/ UserPauses \/ OrchestratorDismisses
    <2>1. features' = features
      BY <1>3 DEF Abort, UserPauses, OrchestratorDismisses
    <2> QED BY <2>1
  <1>4. ASSUME NEW w \in Workers, UserKills(w)
        PROVE  Keeps(features', features)
    <2>1. features' = features \/ \E id : features' = Requeue(features, id, w)
      BY <1>4 DEF UserKills, WriteFeatures
    <2> QED BY <1>1, <2>1, RequeuedHolds
  <1>5. ASSUME NEW i \in DOMAIN features, OrchestratorCancels(i)
        PROVE  Keeps(features', features)
    <2>1. /\ features' = [features EXCEPT ![i].status = "cancelled"]
          /\ features[i].status = "pending"
      BY <1>5 DEF OrchestratorCancels, Edit, WriteFeatures
    <2> QED BY <1>1, <2>1, CancelledHolds
  <1>6. ASSUME NEW id \in Extra, OrchestratorAdds(id)
        PROVE  Keeps(features', features)
    <2>1. features' = InsertFeatureAtTop(features, id) /\ id \in Ids
      BY <1>6, RunAssumption DEF OrchestratorAdds, Edit, WriteFeatures, Ids
    <2> QED BY <1>1, <2>1, InsertedHolds
  <1> QED BY <1>2, <1>3, <1>4, <1>5, <1>6 DEF Calls

\* What a worker reported as completed stays so: no requeue, retry, late report or
\* edit takes a feature back (requeueFeatureIfInProgress, EndFeatureRun).
THEOREM CompletionsStay ==
  ASSUME Calm, PlainIds, PlannedOnce
  PROVE  Spec => CompletedStays
  <1> DEFINE A == \A id \in Ids : HasCompletedId(features, id) => HasCompletedId(features', id)
  <1>1. Init => DInv /\ TaskInv
    BY DistinctInit, TaskInit
  <1>2. DInv /\ TaskInv /\ [Next]_vars => DInv' /\ TaskInv'
    BY DistinctNext, TaskNext
  <1>3. DInv /\ TaskInv /\ [Next]_vars => [A]_vars
    <2> SUFFICES ASSUME DInv, TaskInv, Next PROVE A
      OBVIOUS
    <2>1. Keeps(features', features) \/ features' = features
      BY LoopKeeps, WorkerKeeps, CallsKeep DEF Next, ToolStep, ToolGrants,
         ToolSetsRunning, OpStep, PauseLogs, PauseWrites, PauseChecks, PauseOverwrites,
         KillInterrupts, Crash, Reload
    <2> QED BY <2>1 DEF Keeps, Holds, HasCompletedId
  <1> QED BY <1>1, <1>2, <1>3, PTL DEF Spec, CompletedStays

-----------------------------------------------------------------------------
(* A pause the runner made stands.                                         *)

\* Where a loop is after pauseMissionForExhaustedFeature.
AfterPause == {"post", "check", "insertUserTesting", "insertScrutiny", "markValidated",
               "finish", "exit", "toCompleted"}

\* A loop with record r knows of the pause it made.
Paused(r) ==
    /\ r.pc \in AfterPause
    /\ r.out = "paused"
    /\ r.pc \notin {"exit", "toCompleted"} => r.back = "finish"

PausedInv ==
    /\ up /\ usage402 = {}
    /\ \A l \in Loops : handler[l].pc \notin {"log402", "state402"}
    /\ tool.pc = "launch" => state = "running"
    /\ state = "paused" => \A l \in Loops : loop[l].pc # "idle" => Paused(loop[l])

LEMMA PausedLoops ==
  ASSUME BInv, PausedInv, NEW l \in Loops, LoopStep(l), state' = "paused",
         loop'[l].pc # "idle"
  PROVE  Paused(loop'[l])
  <1> USE DEF BInv, SInv
  <1>1. CASE ExhaustedPauses(l)
    BY <1>1, ReturnFields DEF ExhaustedPauses, Paused, AfterPause
  <1>2. CASE state = "paused" /\ loop[l].pc # "idle"
    <2>1. Paused(loop[l])
      BY <1>2 DEF PausedInv
    <2>2. CASE Posts(l)
      <3>1. Goto(l, "check")
        BY <2>2, NotAborted DEF Posts
      <3> QED BY <2>1, <2>2, <3>1, GotoFields DEF Paused, AfterPause, Posts, At
    <2>3. CASE Checks(l)
      <3>1. loop[l].pc = "check"
        BY <2>3 DEF Checks, At
      <3> QED BY <2>1, <2>3, <3>1, ChecksEffect DEF Paused, AfterPause
    <2>4. CASE InsertsUserTesting(l)
      BY <2>1, <2>4, GotoFields DEF InsertsUserTesting, At, Paused, AfterPause
    <2>5. CASE InsertsScrutiny(l)
      BY <2>1, <2>5, GotoFields DEF InsertsScrutiny, At, Paused, AfterPause
    <2>6. CASE MarksValidated(l)
      <3>1. /\ loop[l].pc = "markValidated"
            /\ loop'[l].pc = "check" /\ loop'[l].out = loop[l].out
            /\ loop'[l].back = loop[l].back
        BY <2>6 DEF MarksValidated, At, IInv, LoopsInv, LoopOK, LoopRecord
      <3> QED BY <2>1, <3>1 DEF Paused, AfterPause
    <2>7. CASE Finishes(l)
      <3>1. Goto(l, "toCompleted") \/ Goto(l, "exit")
        BY <2>1, <2>7 DEF Finishes, Paused
      <3> QED BY <2>1, <3>1, GotoFields DEF Paused, AfterPause
    <2>8. CASE SetsCompleted(l)
      BY <2>8 DEF SetsCompleted, LoopEndsWith
    <2>9. CASE Exits(l)
      <3>1. loop'[l] = Idle
        BY <2>9, RecordSet DEF Exits
      <3> QED BY <3>1 DEF Idle
    <2>10. \/ Posts(l) \/ Checks(l) \/ InsertsUserTesting(l) \/ InsertsScrutiny(l)
           \/ MarksValidated(l) \/ Finishes(l) \/ SetsCompleted(l) \/ Exits(l)
      <3>1. loop[l].pc \in AfterPause
        BY <2>1 DEF Paused
      <3> QED BY <3>1 DEF AfterPause, LoopStep, ToolLaunches, Cleanup, LoopStops, LoopAborts,
             LoopReopens, LoopSetsRunning, LoopDispatches, Preempts, SpawnReads,
             ExhaustedLogs, ExhaustedPauses, SessionSpawned, SpawnFails, MarksInProgress,
             ResumeLoads, ResumeFails, PromptSent, PromptFails, DispatchFails, Notified,
             WaitEnds, Rechecks, SetsOrchestratorTurn, LoopEndsWith, LoopPauseLogs,
             LoopPauses, At, Proceeds
    <2> QED BY <2>2, <2>3, <2>4, <2>5, <2>6, <2>7, <2>8, <2>9, <2>10
  <1>3. CASE ToolLaunches(l)
    <2>1. state = "running" /\ UNCHANGED state
      BY <1>3 DEF ToolLaunches, PausedInv
    <2> QED BY <2>1
  <1>4. CASE state # "paused" /\ ~ExhaustedPauses(l)
    <2>1. UNCHANGED state \/ LoopSetsRunning(l) \/ SetsCompleted(l)
          \/ SetsOrchestratorTurn(l) \/ LoopPauses(l)
      BY <1>4 DEF LoopStep, ToolLaunches, Cleanup, LoopStops, LoopAborts, LoopReopens,
         LoopDispatches, Preempts, SpawnReads, ExhaustedLogs, SessionSpawned, SpawnFails,
         MarksInProgress, ResumeLoads, ResumeFails, PromptSent, PromptFails,
         DispatchFails, Notified, WaitEnds, Posts, Checks, InsertsUserTesting,
         InsertsScrutiny, MarksValidated, Finishes, Rechecks, LoopPauseLogs, Exits
    <2>2. ~LoopPauses(l)
      BY DEF LoopPauses, LoopEndsWith, At, RunInv, LoopRuns
    <2> QED BY <1>4, <2>1, <2>2 DEF LoopSetsRunning, SetsCompleted, SetsOrchestratorTurn,
           LoopEndsWith
  <1>5. CASE loop[l].pc = "idle" /\ ~ToolLaunches(l)
    BY <1>5 DEF LoopStep, Cleanup, LoopStops, LoopAborts, LoopReopens, LoopSetsRunning,
       LoopDispatches, Preempts, SpawnReads, ExhaustedLogs, ExhaustedPauses,
       SessionSpawned, SpawnFails, MarksInProgress, ResumeLoads, ResumeFails, PromptSent,
       PromptFails, DispatchFails, Notified, WaitEnds, Posts, Checks, InsertsUserTesting,
       InsertsScrutiny, MarksValidated, Finishes, Rechecks, SetsCompleted,
       SetsOrchestratorTurn, LoopEndsWith, LoopPauseLogs, LoopPauses, Exits, At, Proceeds
  <1> QED BY <1>1, <1>2, <1>3, <1>4, <1>5

\* Without an entry no notification starts the handler of the usage limit.
LEMMA NoLimitHandlers ==
  ASSUME BInv, PausedInv, NEW l \in Loops, LoopStep(l)
  PROVE  \A k \in Loops : handler'[k].pc \notin {"log402", "state402"}
  <1> USE DEF BInv, SInv
  <1>1. CASE Notified(l)
    <2>1. note[l] \in Seq(Notification) /\ note[l] # <<>>
      BY <1>1 DEF IInv, NotesInv, Notified
    <2>2. Head(note[l]) \in {"progress", "completed", "exit"}
      BY <2>1 DEF Notification
    <2>3. loop[l].worker \notin usage402
      BY DEF PausedInv
    <2>4. UNCHANGED handler \/ Handles(l, "fail")
      BY <1>1, <2>2, <2>3 DEF Notified, Completes
    <2> QED BY <2>4 DEF Handles, PausedInv, IInv, HandlersInv
  <1>2. CASE WaitEnds(l)
    <2>1. handler' = [handler EXCEPT ![l].live = FALSE]
      BY <1>2 DEF WaitEnds
    <2>2. \A k \in Loops : handler'[k].pc = handler[k].pc
      BY <2>1 DEF IInv, HandlersInv, HandlerRecord
    <2> QED BY <2>2 DEF PausedInv
  <1>3. CASE PromptSent(l) \/ PromptFails(l) \/ DispatchFails(l)
    BY <1>3 DEF PromptSent, PromptFails, DispatchFails, PausedInv
  <1>4. CASE ApartStep(l)
    BY <1>4, ApartWorkers DEF PausedInv
  <1> QED BY <1>1, <1>2, <1>3, <1>4 DEF ApartStep

LEMMA PausedLoopStep ==
  ASSUME BInv, PausedInv, NEW l \in Loops, LoopStep(l)
  PROVE  PausedInv'
  <1> USE DEF BInv, SInv
  <1>1. up' /\ usage402' = {}
    <2>1. UNCHANGED <<up, usage402>>
      BY DEF LoopStep, ToolLaunches, Cleanup, LoopStops, LoopAborts, LoopReopens,
         LoopSetsRunning, LoopDispatches, Preempts, SpawnReads, ExhaustedLogs,
         ExhaustedPauses, SessionSpawned, SpawnFails, MarksInProgress, ResumeLoads,
         ResumeFails, PromptSent, PromptFails, DispatchFails, Notified, WaitEnds, Posts,
         Checks, InsertsUserTesting, InsertsScrutiny, MarksValidated, Finishes, Rechecks,
         SetsCompleted, SetsOrchestratorTurn, LoopEndsWith, LoopPauseLogs, LoopPauses,
         Exits
    <2> QED BY <2>1 DEF PausedInv
  <1>2. tool'.pc # "launch"
    <2>1. CASE ToolLaunches(l)
      <3> DEFINE q == [tool EXCEPT !.pc = "waiting", !.loop = l]
      <3>1. tool' = NoTool \/ tool' = q
        BY <2>1 DEF ToolLaunches
      <3>2. tool \in [pc : {"idle", "grant", "run", "launch", "waiting"},
                      resume : Workers \cup {None}, loop : Loops \cup {None}]
        BY DEF IInv, ControlInv
      <3>3. q.pc = "waiting" /\ NoTool.pc = "idle"
        BY <3>2 DEF NoTool
      <3> HIDE DEF q
      <3> QED BY <3>1, <3>3
    <2>2. CASE ~ToolLaunches(l)
      <3>1. loop[l].pc # "idle"
        BY <2>2 DEF LoopStep, Cleanup, LoopStops, LoopAborts, LoopReopens, LoopSetsRunning,
           LoopDispatches, Preempts, SpawnReads, ExhaustedLogs, ExhaustedPauses,
           SessionSpawned, SpawnFails, MarksInProgress, ResumeLoads, ResumeFails,
           PromptSent, PromptFails, DispatchFails, Notified, WaitEnds, Posts, Checks,
           InsertsUserTesting, InsertsScrutiny, MarksValidated, Finishes, Rechecks,
           SetsCompleted, SetsOrchestratorTurn, LoopEndsWith, LoopPauseLogs, LoopPauses,
           Exits, At, Proceeds
      <3>2. tool.pc = "waiting"
        BY <3>1 DEF CallInv
      <3>3. tool' = tool \/ tool' = NoTool
        BY <2>2 DEF LoopStep, Cleanup, LoopStops, LoopAborts, LoopReopens, LoopSetsRunning,
           LoopDispatches, Preempts, SpawnReads, ExhaustedLogs, ExhaustedPauses,
           SessionSpawned, SpawnFails, MarksInProgress, ResumeLoads, ResumeFails,
           PromptSent, PromptFails, DispatchFails, Notified, WaitEnds, Posts, Checks,
           InsertsUserTesting, InsertsScrutiny, MarksValidated, Finishes, Rechecks,
           SetsCompleted, SetsOrchestratorTurn, LoopEndsWith, LoopPauseLogs, LoopPauses,
           Exits
      <3> QED BY <3>2, <3>3 DEF NoTool
    <2> QED BY <2>1, <2>2
  <1>3. ASSUME state' = "paused", NEW k \in Loops, loop'[k].pc # "idle"
        PROVE  Paused(loop'[k])
    <2>1. k = l
      BY <1>3, Alone, LoopOthers
    <2> QED BY <1>3, <2>1, PausedLoops
  <1> QED BY <1>1, <1>2, <1>3, NoLimitHandlers DEF PausedInv

LEMMA PausedNext ==
  ASSUME Calm, "usage402" \notin Faults
  PROVE  BInv /\ PausedInv /\ [Next]_vars => PausedInv'
  <1> SUFFICES ASSUME BInv, PausedInv, [Next]_vars PROVE PausedInv'
    OBVIOUS
  <1> USE DEF BInv, SInv
  <1>1. ASSUME NEW l \in Loops, LoopStep(l)
        PROVE  PausedInv'
    BY <1>1, PausedLoopStep
  <1>2. ASSUME NEW l \in Loops, HandlerStep(l)
        PROVE  PausedInv'
    <2>1. RequeuesFailed(l)
      BY <1>2 DEF HandlerStep, Logs402, Pauses402, PausedInv
    <2>2. UNCHANGED <<state, up, usage402, tool>> /\ HandlerEnds(l, "requeued")
      BY <2>1 DEF RequeuesFailed
    <2>3. \A k \in Loops : /\ loop'[k].pc = loop[k].pc /\ loop'[k].out = loop[k].out
                           /\ loop'[k].back = loop[k].back
      BY <2>2, HandlerEndsEffect
    <2>4. handler' = [handler EXCEPT ![l] = NoHandler]
      BY <2>2 DEF HandlerEnds
    <2>5. \A k \in Loops : handler'[k] = handler[k] \/ handler'[k].pc = "idle"
      BY <2>4 DEF NoHandler, IInv, HandlersInv
    <2> QED BY <2>2, <2>3, <2>5 DEF PausedInv, Paused
  <1>3. ASSUME NEW w \in Workers, WorkerStep(w)
        PROVE  PausedInv'
    <2>1. UNCHANGED <<up, usage402, tool>>
      BY <1>3 DEF WorkerStep, Ends, MovesToBottom, ReturnsToOrchestrator, LogsCompleted,
         Signals402, WorkerExits, SessionExpires, Obeys
    <2>2. UNCHANGED state \/ (state' = "orchestrator_turn" /\ Busy(w))
      <3>1. CASE ReturnsToOrchestrator(w)
        BY <3>1 DEF ReturnsToOrchestrator, Busy, Ending
      <3>2. CASE ~ReturnsToOrchestrator(w)
        BY <1>3, <3>2 DEF WorkerStep, Ends, MovesToBottom, LogsCompleted, Signals402,
           WorkerExits, SessionExpires, Obeys
      <3> QED BY <3>1, <3>2
    <2>3. Busy(w) => tool.pc = "waiting"
      BY DEF BusyInv, Hears, CallInv
    <2>4. UNCHANGED loop /\ UNCHANGED handler
      BY <1>3, WorkersApart
    <2> QED BY <2>1, <2>2, <2>3, <2>4 DEF PausedInv
  <1>4. CASE ToolStep
    <2>1. UNCHANGED <<up, usage402, loop, handler>>
      BY <1>4 DEF ToolStep, ToolGrants, ToolSetsRunning
    <2>2. state' = "running" \/ (UNCHANGED state /\ tool'.pc # "launch")
      BY <1>4 DEF ToolStep, ToolGrants, ToolSetsRunning, IInv, ControlInv
    <2> QED BY <2>1, <2>2 DEF PausedInv
  <1>5. CASE Calls
    <2>1. UNCHANGED <<state, up, usage402, loop, handler>>
      BY <1>5 DEF Calls, StartMissionRun, Abort, UserPauses, UserKills, OrchestratorCancels,
         OrchestratorAdds, Edit, OrchestratorDismisses
    <2>2. tool' = tool \/ tool'.pc # "launch"
      <3>1. ASSUME NEW explicit, NEW restart, StartMissionRun(explicit, restart)
            PROVE  tool'.pc \in {"grant", "run"}
        BY <3>1 DEF StartMissionRun
      <3>2. CASE Abort
        BY <3>2 DEF Abort, NoTool
      <3>3. CASE ~Abort /\ ~\E explicit, restart : StartMissionRun(explicit, restart)
        <4>1. tool' = tool
          BY <1>5, <3>3 DEF Calls, UserPauses, UserKills, OrchestratorCancels,
             OrchestratorAdds, Edit, OrchestratorDismisses
        <4> QED BY <4>1
      <3> QED BY <3>1, <3>2, <3>3
    <2> QED BY <2>1, <2>2 DEF PausedInv
  <1>6. ~OpStep
    BY DEF OpStep, PauseLogs, PauseWrites, PauseChecks, PauseOverwrites, KillInterrupts,
       BusyInv, CallInv
  <1>7. ~Crash /\ ~Reload
    BY CalmMeans DEF Crash, Reload, PausedInv
  <1>8. CASE UNCHANGED vars
    BY <1>8 DEF vars, PausedInv, Paused
  <1> QED BY <1>1, <1>2, <1>3, <1>4, <1>5, <1>6, <1>7, <1>8 DEF Next

LEMMA PausedInit == Init => PausedInv
  BY DEF Init, PausedInv, NoHandler, NoTool

\* A pause for an exhausted retry budget lasts until start_mission_run: neither the loop
\* that made it (missionPaused in runLoop) nor a worker's late report
\* (ReturnsToOrchestrator) hands the mission to the orchestrator.
THEOREM PausesStand ==
  ASSUME Calm, "usage402" \notin Faults
  PROVE  Spec => AutoPauseStands
  <1> DEFINE A == state = "paused" /\ state' # "paused" =>
                     tool.pc = "run" \/ state' = "completed"
  <1>1. Init => BInv /\ PausedInv
    BY BusyInit, PausedInit
  <1>2. BInv /\ PausedInv /\ [Next]_vars => BInv' /\ PausedInv'
    BY BusyNext, PausedNext
  <1>3. BInv /\ PausedInv /\ [Next]_vars => [A]_vars
    <2> SUFFICES ASSUME BInv, PausedInv, Next, state = "paused", state' # "paused",
                        tool.pc # "run"
                 PROVE  state' = "completed"
      OBVIOUS
    <2> USE DEF BInv, SInv
    <2>1. ASSUME NEW l \in Loops, LoopStep(l)
          PROVE  state' = "completed"
      <3>1. LoopSetsRunning(l) \/ SetsCompleted(l) \/ SetsOrchestratorTurn(l)
        BY <2>1 DEF LoopStep, ToolLaunches, Cleanup, LoopStops, LoopAborts, LoopReopens,
           LoopDispatches, Preempts, SpawnReads, ExhaustedLogs, ExhaustedPauses,
           SessionSpawned, SpawnFails, MarksInProgress, ResumeLoads, ResumeFails,
           PromptSent, PromptFails, DispatchFails, Notified, WaitEnds, Posts, Checks,
           InsertsUserTesting, InsertsScrutiny, MarksValidated, Finishes, Rechecks,
           LoopPauseLogs, LoopPauses, LoopEndsWith, Exits
      <3>2. loop[l].pc \notin {"idle", "toRunning", "toOrchestrator"} \/ loop[l].pc = "idle"
        BY DEF PausedInv, Paused, AfterPause
      <3> QED BY <3>1, <3>2 DEF LoopSetsRunning, SetsCompleted, SetsOrchestratorTurn,
             LoopEndsWith, At
    <2>2. ASSUME NEW l \in Loops, HandlerStep(l)
          PROVE  FALSE
      BY <2>2 DEF HandlerStep, Logs402, Pauses402, RequeuesFailed
    <2>3. ASSUME NEW w \in Workers, WorkerStep(w)
          PROVE  FALSE
      <3>1. ReturnsToOrchestrator(w)
        BY <2>3 DEF WorkerStep, Ends, MovesToBottom, LogsCompleted, Signals402,
           WorkerExits, SessionExpires, Obeys
      <3>2. Busy(w)
        BY <3>1 DEF ReturnsToOrchestrator, Busy, Ending
      <3> QED BY <3>2 DEF BusyInv, Hears, PausedInv, Paused, AfterPause
    <2>4. ~ToolStep /\ ~Calls
      BY DEF ToolStep, ToolGrants, ToolSetsRunning, Calls, StartMissionRun, Abort,
         UserPauses, UserKills, OrchestratorCancels, OrchestratorAdds, Edit,
         OrchestratorDismisses
    <2>5. ~OpStep
      BY DEF OpStep, PauseLogs, PauseWrites, PauseChecks, PauseOverwrites, KillInterrupts,
         BusyInv, CallInv
    <2>6. ~Crash /\ ~Reload
      BY DEF Crash, Reload, PausedInv
    <2> QED BY <2>1, <2>2, <2>3, <2>4, <2>5, <2>6 DEF Next
  <1> QED BY <1>1, <1>2, <1>3, PTL DEF Spec, AutoPauseStands

=============================================================================
