----------------------- MODULE MissionProgress_proofs -----------------------
(***************************************************************************)
(* One feature of a mission is in progress at a time, and the two          *)
(* validators of a milestone run in their order, for any features,         *)
(* milestones, workers and loops.                                          *)
(*                                                                         *)
(* Neither is inductive.  For OneInProgress each place of the loop has to  *)
(* know whether an entry is open; ProgressInv has the parts:               *)
(*                                                                         *)
(*   OneRuns    at most one entry is in progress;                          *)
(*   HeldInv    an open entry is assigned to a worker that has neither     *)
(*              completed nor begun to end, and that works on it if it     *)
(*              works at all;                                              *)
(*   Offered    the session start_mission_run resumes is the assigned one; *)
(*   StandsAt   from the pick of a feature to its launch nothing is open;  *)
(*              at the top and from the launch to the report what is open  *)
(*              is assigned to the worker the loop knows of;               *)
(*   Fresh      the worker a launch is about to assign has no past, and a  *)
(*              wait that is over has the entry of its worker.             *)
(*                                                                         *)
(* For ScrutinyFirst every write of features.json has to keep a scrutiny   *)
(* done or above its user testing; LineInv says so, and that a user        *)
(* testing that is being launched was picked behind a scrutiny that is     *)
(* done, and that what a worker moves to the bottom is done.               *)
(***************************************************************************)
EXTENDS MissionOrder_proofs

USE DEF files, log, runner, daemon, ops, env

-----------------------------------------------------------------------------
(* The entries in progress, and what each write of features.json does to   *)
(* them.                                                                   *)

OneRuns(f) ==
    \A i, j \in DOMAIN f :
        f[i].status = "in_progress" /\ f[j].status = "in_progress" => i = j

Open(f) == {f[i] : i \in {k \in DOMAIN f : f[k].status = "in_progress"}}

\* A write after which no entry is in progress that was not before.
Shrinks(g, f) == OneRuns(f) => OneRuns(g) /\ Open(g) \subseteq Open(f)

LEMMA ShrinksItself == \A f : Shrinks(f, f)
  BY DEF Shrinks

\* Every entry that is in progress is an entry of the old list.
LEMMA DrawnShrinks ==
  ASSUME NEW f, NEW g, NEW p,
         \A i \in DOMAIN g : g[i].status = "in_progress" =>
            p[i] \in DOMAIN f /\ g[i] = f[p[i]],
         \A i, j \in DOMAIN g : p[i] = p[j] => i = j
  PROVE  Shrinks(g, f)
  BY DEF Shrinks, OneRuns, Open

LEMMA PermutedShrinks ==
  ASSUME NEW f \in Seq(Feature), NEW p \in [DOMAIN f -> DOMAIN f], Injective(p)
  PROVE  Shrinks([i \in DOMAIN f |-> f[p[i]]], f)
  <1> DEFINE g == [i \in DOMAIN f |-> f[p[i]]]
  <1>1. DOMAIN g = DOMAIN f /\ DOMAIN p = DOMAIN f
    OBVIOUS
  <1>2. \A i \in DOMAIN g : p[i] \in DOMAIN f /\ g[i] = f[p[i]]
    OBVIOUS
  <1>3. \A i, j \in DOMAIN g : p[i] = p[j] => i = j
    BY <1>1 DEF Injective
  <1> HIDE DEF g
  <1>4. Shrinks(g, f)
    BY <1>2, <1>3, DrawnShrinks
  <1> QED BY <1>4 DEF g

LEMMA PointwiseShrinks ==
  ASSUME NEW f, NEW g, DOMAIN g = DOMAIN f,
         \A i \in DOMAIN f : g[i].status = "in_progress" => g[i] = f[i]
  PROVE  Shrinks(g, f)
  BY DEF Shrinks, OneRuns, Open

LEMMA UpdatedShrinks ==
  ASSUME NEW f \in Seq(Feature), NEW id, NEW status, status # "in_progress"
  PROVE  Shrinks(UpdateFeature(f, id, status), f)
  <1> DEFINE g == UpdateFeature(f, id, status)
  <1>1. DOMAIN g = DOMAIN f
    BY DEF UpdateFeature
  <1>2. ASSUME NEW i \in DOMAIN f
        PROVE  g[i].status = "in_progress" => g[i] = f[i]
    <2>1. f[i] \in Feature
      OBVIOUS
    <2>2. g[i] = f[i] \/ g[i] = [f[i] EXCEPT !.status = status]
      BY DEF UpdateFeature
    <2> QED BY <2>1, <2>2 DEF Feature
  <1> HIDE DEF g
  <1>3. Shrinks(g, f)
    BY <1>1, <1>2, PointwiseShrinks
  <1> QED BY <1>3 DEF g

LEMMA RequeuedShrinks ==
  ASSUME NEW f \in Seq(Feature), NEW id, NEW w
  PROVE  Shrinks(Requeue(f, id, w), f)
  BY UpdatedShrinks, ShrinksItself DEF Requeue

LEMMA MovedShrinks ==
  ASSUME NEW f \in Seq(Feature), NEW id
  PROVE  Shrinks(MoveFeatureToBottom(f, id), f)
  <1> DEFINE p == From(f, id)
  <1>1. /\ p \in [DOMAIN f -> DOMAIN f] /\ Injective(p)
        /\ MoveFeatureToBottom(f, id) = [i \in DOMAIN f |-> f[p[i]]]
    BY MovedFrom
  <1> HIDE DEF p
  <1> QED BY <1>1, PermutedShrinks

LEMMA CancelledShrinks ==
  ASSUME NEW f \in Seq(Feature), NEW i \in DOMAIN f
  PROVE  Shrinks([f EXCEPT ![i].status = "cancelled"], f)
  <1> DEFINE g == [f EXCEPT ![i].status = "cancelled"]
  <1>1. DOMAIN g = DOMAIN f
    OBVIOUS
  <1>2. ASSUME NEW k \in DOMAIN f
        PROVE  g[k].status = "in_progress" => g[k] = f[k]
    <2>1. f[k] \in Feature
      OBVIOUS
    <2>2. g[k] = f[k] \/ g[k] = [f[k] EXCEPT !.status = "cancelled"]
      OBVIOUS
    <2> QED BY <2>1, <2>2 DEF Feature
  <1> HIDE DEF g
  <1>3. Shrinks(g, f)
    BY <1>1, <1>2, PointwiseShrinks
  <1> QED BY <1>3 DEF g

LEMMA InsertedShrinks ==
  ASSUME NEW f \in Seq(Feature), NEW id \in Ids
  PROVE  Shrinks(InsertFeatureAtTop(f, id), f)
  <1> DEFINE g == InsertFeatureAtTop(f, id)
             p == [i \in DOMAIN g |-> i - 1]
  <1>1. <<NewFeature(id)>> \in Seq(Feature)
    BY NewFeatureType
  <1>2. DOMAIN g = 1..(Len(f) + 1) /\ DOMAIN f = 1..Len(f) /\ Len(f) \in Nat
    BY <1>1 DEF InsertFeatureAtTop
  <1>3. g[1].status = "pending"
    BY <1>1 DEF InsertFeatureAtTop, NewFeature
  <1>4. \A i \in DOMAIN g : i # 1 => p[i] \in DOMAIN f /\ g[i] = f[p[i]]
    <2> TAKE i \in DOMAIN g
    <2> HAVE i # 1
    <2>1. p[i] = i - 1 /\ i - 1 \in DOMAIN f
      BY <1>2
    <2>2. g[i] = f[i - 1]
      BY <1>1, <1>2 DEF InsertFeatureAtTop
    <2> QED BY <2>1, <2>2
  <1>5. \A i, j \in DOMAIN g : p[i] = p[j] => i = j
    BY <1>2
  <1> HIDE DEF g, p
  <1>6. Shrinks(g, f)
    BY <1>3, <1>4, <1>5, DrawnShrinks
  <1> QED BY <1>6 DEF g

\* The lookup finds the one entry in progress.
LEMMA InProgressIs ==
  ASSUME NEW f \in Seq(Feature), OneRuns(f)
  PROVE  /\ \A i \in DOMAIN f : f[i].status = "in_progress" => InProgress(f) = {i}
         /\ \A i \in InProgress(f) : i \in DOMAIN f /\ Open(f) = {f[i]}
         /\ InProgress(f) = {} => Open(f) = {}
  <1>1. ASSUME NEW i \in DOMAIN f, f[i].status = "in_progress"
        PROVE  InProgress(f) = {i}
    <2>1. \A j \in 1..(i - 1) : j \in DOMAIN f /\ j # i
      OBVIOUS
    <2> QED BY <1>1, <2>1 DEF OneRuns, InProgress, FirstWith
  <1>2. ASSUME NEW i \in InProgress(f)
        PROVE  i \in DOMAIN f /\ Open(f) = {f[i]}
    <2>1. i \in DOMAIN f /\ f[i].status = "in_progress"
      BY DEF InProgress, FirstWith
    <2> QED BY <2>1 DEF OneRuns, Open
  <1>3. InProgress(f) = {} => Open(f) = {}
    BY <1>1 DEF Open
  <1> QED BY <1>1, <1>2, <1>3

LEMMA UpdateCloses ==
  ASSUME NEW f \in Seq(Feature), Once(f, Ids), NEW id \in Ids, NEW status,
         status # "in_progress", \A x \in Open(f) : x.id = id
  PROVE  Open(UpdateFeature(f, id, status)) = {}
  <1> DEFINE g == UpdateFeature(f, id, status)
  <1>1. SUFFICES ASSUME NEW i \in DOMAIN g, g[i].status = "in_progress"
                 PROVE  FALSE
    BY DEF Open
  <1>2. i \in DOMAIN f /\ f[i] \in Feature
    BY DEF UpdateFeature
  <1>3. CASE i \in FirstId(f, id)
    <2>1. g[i] = [f[i] EXCEPT !.status = status]
      BY <1>2, <1>3 DEF UpdateFeature
    <2> QED BY <1>1, <1>2, <2>1 DEF Feature
  <1>4. CASE i \notin FirstId(f, id)
    <2>1. g[i] = f[i]
      BY <1>2, <1>4 DEF UpdateFeature
    <2>2. f[i] \in Open(f)
      BY <1>1, <1>2, <2>1 DEF Open
    <2>3. f[i].id = id
      BY <2>2
    <2>4. FirstId(f, id) = {i}
      BY <1>2, <2>3, FoundIsIt
    <2> QED BY <1>4, <2>4
  <1> QED BY <1>3, <1>4

\* The requeue of the worker that has the entry in progress, whatever the id.
LEMMA RequeueCloses ==
  ASSUME NEW f \in Seq(Feature), Once(f, Ids), OneRuns(f), NEW id, NEW w,
         w # None, \A x \in Open(f) : LastWorker(x) = w
  PROVE  Open(Requeue(f, id, w)) = {}
  <1>1. ASSUME NEW any, Requeueable(f, any, w)
        PROVE  any \in Ids /\ \A x \in Open(f) : x.id = any
    <2>1. PICK i \in FirstId(f, any) : f[i].status = "in_progress"
      BY <1>1 DEF Requeueable
    <2>2. i \in DOMAIN f /\ f[i].id = any /\ f[i] \in Feature
      BY FirstIdIndex DEF FirstId
    <2>3. Open(f) = {f[i]}
      BY <2>1, <2>2 DEF OneRuns, Open
    <2> QED BY <2>2, <2>3 DEF Feature
  <1>2. CASE id # None /\ Requeueable(f, id, w)
    <2>1. Requeue(f, id, w) = UpdateFeature(f, id, "pending")
      BY <1>2 DEF Requeue
    <2> QED BY <1>1, <1>2, <2>1, UpdateCloses
  <1>3. CASE ~(id # None /\ Requeueable(f, id, w))
             /\ \E other \in Ids : Requeueable(f, other, w)
    <2> DEFINE other == CHOOSE any \in Ids : Requeueable(f, any, w)
    <2>1. Requeueable(f, other, w)
      BY <1>3
    <2>2. Requeue(f, id, w) = UpdateFeature(f, other, "pending")
      BY <1>3 DEF Requeue
    <2> HIDE DEF other
    <2> QED BY <1>1, <2>1, <2>2, UpdateCloses
  <1>4. CASE ~ \E other \in Ids : Requeueable(f, other, w)
    <2>1. SUFFICES Open(f) = {}
      <3>1. ASSUME Requeueable(f, id, w)
            PROVE  FALSE
        BY <1>1, <1>4, <3>1
      <3> QED BY <1>4, <3>1 DEF Requeue
    <2>2. SUFFICES ASSUME NEW i \in DOMAIN f, f[i].status = "in_progress"
                   PROVE  FALSE
      BY DEF Open
    <2>3. f[i] \in Open(f) /\ f[i] \in Feature
      BY <2>2 DEF Open
    <2>4. f[i].id \in Ids /\ LastWorker(f[i]) = w
      BY <2>3 DEF Feature
    <2>5. i \in FirstId(f, f[i].id)
      BY <2>4, FoundIsIt
    <2> QED BY <1>4, <2>2, <2>4, <2>5 DEF Requeueable
  <1> QED BY <1>2, <1>3, <1>4

LEMMA AssignOpens ==
  ASSUME NEW f \in Seq(Feature), Open(f) = {}, NEW id, NEW workers
  PROVE  /\ OneRuns(AssignFeature(f, id, workers))
         /\ \A x \in Open(AssignFeature(f, id, workers)) : x.id = id /\ x.workers = workers
  <1> DEFINE g == AssignFeature(f, id, workers)
  <1>1. ASSUME NEW i \in DOMAIN g, g[i].status = "in_progress"
        PROVE  i \in FirstId(f, id) /\ g[i].id = id /\ g[i].workers = workers
    <2>1. i \in DOMAIN f /\ f[i] \in Feature
      BY DEF AssignFeature
    <2>2. CASE i \in FirstId(f, id)
      <3>1. g[i] = [f[i] EXCEPT !.status = "in_progress", !.workers = workers]
        BY <2>1, <2>2 DEF AssignFeature
      <3>2. f[i].id = id
        BY <2>2 DEF FirstId
      <3> QED BY <2>1, <2>2, <3>1, <3>2 DEF Feature
    <2>3. CASE i \notin FirstId(f, id)
      <3>1. g[i] = f[i]
        BY <2>1, <2>3 DEF AssignFeature
      <3> QED BY <1>1, <2>1, <3>1 DEF Open
    <2> QED BY <2>2, <2>3
  <1> HIDE DEF g
  <1>2. OneRuns(g)
    BY <1>1, FirstIdOne DEF OneRuns
  <1>3. \A x \in Open(g) : x.id = id /\ x.workers = workers
    BY <1>1 DEF Open
  <1> QED BY <1>2, <1>3 DEF g

-----------------------------------------------------------------------------
(* The invariant.                                                          *)

\* The session an entry in progress was assigned to has not reported, is not
\* about to, and when it works it works on that feature.
Held(x) ==
    /\ x.workers # <<>>
    /\ LastWorker(x) \notin completed
    /\ worker[LastWorker(x)].phase \notin Ending
    /\ worker[LastWorker(x)].phase = "working" => worker[LastWorker(x)].task = x.id

HeldInv ==
    /\ \A x \in Open(features) : Held(x)
    /\ \A w \in Workers : worker[w].phase = "unborn" => w \notin completed

\* start_mission_run resumes the session of the entry in progress.
Offered ==
    tool.pc \in {"grant", "run", "launch"} /\ tool.resume # None =>
        \A x \in Open(features) : LastWorker(x) = tool.resume

\* Where a loop is sure that nothing is in progress.
Clear(r) ==
    \/ r.pc \in {"spawn", "exhausted", "exhaustedPause", "spawnRpc", "mark", "recheck"}
    \/ /\ r.pc \in {"check"} \cup ValidationPC
       /\ r.back = "recheck" \/ r.out = "success"
    \/ r.pc \in {"post", "finish"} /\ r.out = "success"

\* What each place in the loop knows of the entry in progress.
StandsAt(r, f) ==
    /\ r.pc = "top" => \A x \in Open(f) : LastWorker(x) = r.resume
    /\ r.pc \in {"preempt", "resume", "prompt", "waiting"} =>
          \A x \in Open(f) : LastWorker(x) = r.worker
    /\ r.pc = "prompt" => \A x \in Open(f) : x.id = r.id
    /\ Clear(r) => Open(f) = {}
    /\ r.pc = "post" => r.back = "finish"

Quiet(w) == w \notin completed /\ worker[w].phase \notin {"working"} \cup Ending

\* A new session has nothing behind it, a finished wait has its entry.
Fresh(r) ==
    /\ r.pc = "mark" => Quiet(r.worker)
    /\ r.pc = "prompt" => ~r.done
    /\ r.pc = "waiting" /\ r.done => r.worker \in completed

ProgressInv ==
    /\ OneRuns(features)
    /\ HeldInv
    /\ Offered
    /\ \A l \in Loops : StandsAt(loop[l], features) /\ Fresh(loop[l])

PInv == SInv /\ ValidationInv /\ Once(features, Ids) /\ ProgressInv

LEMMA Assignee ==
  ASSUME IInv, NEW x \in Open(features)
  PROVE  /\ x \in Feature
         /\ x.workers # <<>> => LastWorker(x) \in Workers /\ LastWorker(x) # None
  <1>1. x \in Feature
    BY DEF IInv, FilesInv, Open
  <1>2. ASSUME x.workers # <<>>
        PROVE  LastWorker(x) \in Workers
    <2>1. x.workers \in Seq(Workers)
      BY <1>1 DEF Feature
    <2>2. Len(x.workers) \in 1..Len(x.workers)
      BY <1>2, <2>1
    <2> QED BY <1>2, <2>1, <2>2 DEF LastWorker
  <1> QED BY <1>1, <1>2, FilesAssumption

LEMMA HeldKept ==
  ASSUME IInv, HeldInv, Open(features') \subseteq Open(features),
         completed' = completed,
         \A w \in Workers :
            /\ worker'[w].phase \in Ending => worker[w].phase \in Ending
            /\ worker'[w].phase = "working" =>
                  worker[w].phase = "working" /\ worker'[w].task = worker[w].task
            /\ worker'[w].phase = "unborn" => worker[w].phase = "unborn"
  PROVE  HeldInv'
  <1>1. ASSUME NEW x \in Open(features')
        PROVE  Held(x)'
    <2>1. x \in Open(features) /\ Held(x)
      BY DEF HeldInv
    <2>2. LastWorker(x) \in Workers
      BY <2>1, Assignee DEF Held
    <2> QED BY <2>1, <2>2 DEF Held
  <1>2. \A w \in Workers : worker'[w].phase = "unborn" => w \notin completed'
    BY DEF HeldInv
  <1> QED BY <1>1, <1>2 DEF HeldInv

LEMMA OfferedKept ==
  ASSUME Offered, Open(features') \subseteq Open(features),
         \/ tool' = tool \/ tool' = NoTool
         \/ tool.pc \in {"grant", "run"} /\ tool'.resume = tool.resume
  PROVE  Offered'
  BY DEF Offered, NoTool

\* A loop that the step leaves where it is.
LEMMA StandsStill ==
  ASSUME IInv, NEW l \in Loops, StandsAt(loop[l], features), Fresh(loop[l]),
         Open(features') \subseteq Open(features),
         loop'[l].pc = loop[l].pc, loop'[l].worker = loop[l].worker,
         loop'[l].id = loop[l].id, loop'[l].resume = loop[l].resume,
         loop'[l].out = loop[l].out, loop'[l].back = loop[l].back,
         loop'[l].done = loop[l].done,
         completed \subseteq completed',
         \A w \in Workers : Quiet(w) => Quiet(w)'
  PROVE  StandsAt(loop'[l], features') /\ Fresh(loop[l])'
  <1>1. StandsAt(loop'[l], features')
    <2>1. Clear(loop'[l]) <=> Clear(loop[l])
      BY DEF Clear
    <2> QED BY <2>1 DEF StandsAt
  <1>2. loop[l].pc = "mark" => loop[l].worker \in Workers
    BY AwaitedWorker
  <1>3. loop'[l].pc = "mark" => Quiet(loop[l].worker)'
    BY <1>2 DEF Fresh
  <1>4. Fresh(loop[l])'
    BY <1>3 DEF Fresh, Quiet
  <1> QED BY <1>1, <1>4

-----------------------------------------------------------------------------
(* The steps that are no loop's.                                           *)

SamePlace(r, q) ==
    /\ r.pc = q.pc /\ r.worker = q.worker /\ r.id = q.id /\ r.resume = q.resume
    /\ r.out = q.out /\ r.back = q.back /\ r.done = q.done

LEMMA HandlerPlace ==
  ASSUME IInv, NEW l \in Loops, HandlerStep(l)
  PROVE  \A k \in Loops : SamePlace(loop'[k], loop[k])
  <1>1. CASE Logs402(l)
    BY <1>1 DEF Logs402, SamePlace
  <1>2. ASSUME NEW result, HandlerEnds(l, result)
        PROVE  \A k \in Loops : SamePlace(loop'[k], loop[k])
    <2>1. \A k \in Loops : loop'[k].resume = loop[k].resume
      <3> DEFINE fail == IF handler[l].live THEN result ELSE loop[l].fail
      <3>1. loop' = [loop EXCEPT ![l].fail = fail]
        BY <1>2 DEF HandlerEnds
      <3> HIDE DEF fail
      <3> QED BY <3>1 DEF IInv, LoopsInv, LoopOK, LoopRecord
    <2> QED BY <1>2, <2>1, HandlerEndsEffect DEF SamePlace
  <1> QED BY <1>1, <1>2 DEF HandlerStep, Pauses402, RequeuesFailed

SamePhases ==
    /\ \A w \in Workers : /\ worker'[w].phase = worker[w].phase
                          /\ worker'[w].task = worker[w].task
    /\ completed' = completed

LEMMA ToldPhases ==
  ASSUME IInv, completed' = completed,
         UNCHANGED worker \/ \E ws : Tell(ws, "interrupt") \/ Tell(ws, "close")
  PROVE  SamePhases
  <1>1. CASE UNCHANGED worker
    BY <1>1 DEF SamePhases
  <1>2. ASSUME NEW ws, NEW what \in {"interrupt", "close"}, Tell(ws, what)
        PROVE  SamePhases
    BY <1>2, Told, ToldTask DEF SamePhases
  <1> QED BY <1>1, <1>2

LEMMA HandlerWrites ==
  ASSUME IInv, NEW l \in Loops, HandlerStep(l)
  PROVE  Shrinks(features', features) /\ SamePhases
  <1>1. features \in Seq(Feature)
    BY DEF IInv, FilesInv
  <1>2. features' = features
        \/ features' = Requeue(features, handler[l].id, handler[l].worker)
    BY DEF HandlerStep, Logs402, Pauses402, RequeuesFailed, WriteFeatures
  <1>3. completed' = completed
        /\ (UNCHANGED worker \/ Tell({handler[l].worker}, "close"))
    BY DEF HandlerStep, Logs402, Pauses402, RequeuesFailed
  <1> QED BY <1>1, <1>2, <1>3, ShrinksItself, RequeuedShrinks, ToldPhases

LEMMA CallsWrite ==
  ASSUME IInv, Calls
  PROVE  Shrinks(features', features) /\ SamePhases
  <1>1. features \in Seq(Feature)
    BY DEF IInv, FilesInv
  <1>2. SamePhases
    <2>1. UNCHANGED worker /\ completed' = completed
      BY DEF Calls, StartMissionRun, Abort, UserPauses, UserKills, OrchestratorCancels,
         OrchestratorAdds, Edit, OrchestratorDismisses
    <2> QED BY <2>1, ToldPhases
  <1>3. ASSUME NEW explicit, NEW restart, StartMissionRun(explicit, restart)
        PROVE  Shrinks(features', features)
    <2>1. PICK p : /\ MovesStranded(features, p)
                   /\ features' = [i \in DOMAIN features |-> features[p[i]]]
      BY <1>3 DEF StartMissionRun, WriteFeatures
    <2> QED BY <1>1, <2>1, StrandedInjective, PermutedShrinks
  <1>4. CASE Abort \/ UserPauses \/ OrchestratorDismisses
    <2>1. features' = features
      BY <1>4 DEF Abort, UserPauses, OrchestratorDismisses
    <2> QED BY <1>2, <2>1, ShrinksItself
  <1>5. ASSUME NEW w \in Workers, UserKills(w)
        PROVE  Shrinks(features', features)
    <2>1. features' = features \/ \E id : features' = Requeue(features, id, w)
      BY <1>5 DEF UserKills, WriteFeatures
    <2> QED BY <1>1, <2>1, ShrinksItself, RequeuedShrinks
  <1>6. ASSUME NEW i \in DOMAIN features, OrchestratorCancels(i)
        PROVE  Shrinks(features', features)
    <2>1. features' = [features EXCEPT ![i].status = "cancelled"]
      BY <1>6 DEF OrchestratorCancels, Edit, WriteFeatures
    <2> QED BY <1>1, <2>1, CancelledShrinks
  <1>7. ASSUME NEW id \in Extra, OrchestratorAdds(id)
        PROVE  Shrinks(features', features)
    <2>1. features' = InsertFeatureAtTop(features, id) /\ id \in Ids
      BY <1>7, RunAssumption DEF OrchestratorAdds, Edit, WriteFeatures, Ids
    <2> QED BY <1>1, <2>1, InsertedShrinks
  <1> QED BY <1>2, <1>3, <1>4, <1>5, <1>6, <1>7 DEF Calls

\* Only StartMissionRun chooses a session to resume: the one in progress.
LEMMA CallsOffer ==
  ASSUME SInv, ProgressInv, ~ResumeAny, Calls
  PROVE  Offered'
  <1> USE DEF SInv, ProgressInv
  <1>1. features \in Seq(Feature)
    BY DEF IInv, FilesInv
  <1>2. Open(features') \subseteq Open(features)
    BY CallsWrite DEF Shrinks
  <1>3. ASSUME NEW restart, StartMissionRun(None, restart)
        PROVE  Offered'
    <2>1. tool'.resume \in {None} \cup Current
      BY <1>3 DEF StartMissionRun
    <2>2. ASSUME NEW x \in Open(features), NEW w \in Current
          PROVE  LastWorker(x) = w
      <3>1. PICK i \in InProgress(features) : w = LastWorker(features[i])
        BY DEF Current
      <3>2. Open(features) = {features[i]}
        BY <1>1, <3>1, InProgressIs
      <3> QED BY <3>1, <3>2
    <2> QED BY <1>2, <2>1, <2>2 DEF Offered
  <1>4. CASE tool' = tool \/ tool' = NoTool
    BY <1>2, <1>4, OfferedKept
  <1>5. (\E restart \in BOOLEAN : StartMissionRun(None, restart))
        \/ tool' = tool \/ tool' = NoTool
    <2>1. CASE \E explicit \in (IF ResumeAny THEN Workers ELSE {}) \cup {None},
                  restart \in BOOLEAN : StartMissionRun(explicit, restart)
      BY <2>1
    <2>2. CASE Abort
      BY <2>2 DEF Abort
    <2>3. CASE UserPauses \/ (\E w \in Workers : UserKills(w)) \/ OrchestratorDismisses
      BY <2>3 DEF UserPauses, UserKills, OrchestratorDismisses
    <2>4. CASE (\E i \in DOMAIN features : OrchestratorCancels(i))
               \/ \E id \in Extra : OrchestratorAdds(id)
      BY <2>4 DEF OrchestratorCancels, OrchestratorAdds, Edit
    <2> QED BY <2>1, <2>2, <2>3, <2>4 DEF Calls
  <1> QED BY <1>3, <1>4, <1>5

\* The steps of the tool, of a pause or a kill, and the reload of the session.
LEMMA ToolWrites ==
  ASSUME IInv, ToolStep \/ OpStep \/ Reload \/ UNCHANGED vars
  PROVE  /\ features' = features /\ UNCHANGED loop /\ SamePhases
         /\ \/ tool' = tool \/ tool' = NoTool
            \/ tool.pc \in {"grant", "run"} /\ tool'.resume = tool.resume
  <1>1. features' = features /\ UNCHANGED loop
    BY DEF ToolStep, ToolGrants, ToolSetsRunning, OpStep, PauseLogs, PauseWrites,
       PauseChecks, PauseOverwrites, KillInterrupts, Reload, vars
  <1>2. SamePhases
    <2>1. completed' = completed
      BY DEF ToolStep, ToolGrants, ToolSetsRunning, OpStep, PauseLogs, PauseWrites,
         PauseChecks, PauseOverwrites, KillInterrupts, Reload, vars
    <2>2. UNCHANGED worker \/ \E ws : Tell(ws, "interrupt") \/ Tell(ws, "close")
      BY DEF ToolStep, ToolGrants, ToolSetsRunning, OpStep, PauseLogs, PauseWrites,
         PauseChecks, PauseOverwrites, KillInterrupts, Reload, vars
    <2> QED BY <2>1, <2>2, ToldPhases
  <1>3. CASE ToolStep
    <2>1. tool \in [pc : {"idle", "grant", "run", "launch", "waiting"},
                    resume : Workers \cup {None}, loop : Loops \cup {None}]
      BY DEF IInv, ControlInv
    <2>2. \/ tool.pc = "grant" /\ tool' = [tool EXCEPT !.pc = "run"]
          \/ tool.pc = "run" /\ tool' = [tool EXCEPT !.pc = "launch"]
      BY <1>3 DEF ToolStep, ToolGrants, ToolSetsRunning
    <2>3. tool.pc \in {"grant", "run"} /\ tool'.resume = tool.resume
      BY <2>1, <2>2
    <2> QED BY <1>1, <1>2, <2>3
  <1>4. CASE OpStep \/ Reload \/ UNCHANGED vars
    <2>1. tool' = tool \/ tool' = NoTool
      <3>1. CASE PauseLogs \/ PauseWrites \/ PauseChecks \/ PauseOverwrites
        BY <3>1 DEF PauseLogs, PauseWrites, PauseChecks, PauseOverwrites
      <3>2. CASE KillInterrupts
        BY <3>2 DEF KillInterrupts
      <3>3. CASE Reload \/ UNCHANGED vars
        BY <3>3 DEF Reload, vars
      <3> QED BY <1>4, <3>1, <3>2, <3>3 DEF OpStep
    <2> QED BY <1>1, <1>2, <2>1
  <1> QED BY <1>3, <1>4

LEMMA ProgressUntouched ==
  ASSUME IInv, ProgressInv, Shrinks(features', features), SamePhases, Offered',
         \A l \in Loops : SamePlace(loop'[l], loop[l])
  PROVE  ProgressInv'
  <1>1. OneRuns(features') /\ Open(features') \subseteq Open(features)
    BY DEF ProgressInv, Shrinks
  <1>2. HeldInv'
    BY <1>1, HeldKept DEF ProgressInv, SamePhases
  <1>3. ASSUME NEW l \in Loops
        PROVE  StandsAt(loop'[l], features') /\ Fresh(loop[l])'
    <2>1. \A w \in Workers : Quiet(w) => Quiet(w)'
      BY DEF SamePhases, Quiet
    <2>2. StandsAt(loop[l], features) /\ Fresh(loop[l])
      BY DEF ProgressInv
    <2> QED BY <1>1, <2>1, <2>2, StandsStill DEF SamePhases, SamePlace
  <1> QED BY <1>1, <1>2, <1>3 DEF ProgressInv

\* EndFeatureRun closes the entry that is in progress for its session.
LEMMA EndsCloses ==
  ASSUME SInv, Once(features, Ids), ProgressInv, NEW w \in Workers, NEW id \in Ids,
         NEW report \in Reports, Ends(w, id, report)
  PROVE  HeldInv'
  <1> USE DEF SInv
  <1>1. features \in Seq(Feature)
    BY DEF IInv, FilesInv
  <1> DEFINE status == IF Succeeds(report) THEN "completed" ELSE "pending"
  <1>2. features' = UpdateFeature(features, id, status) /\ status # "in_progress"
    BY DEF Ends, WriteFeatures
  <1> HIDE DEF status
  <1>3. Open(features') \subseteq Open(features)
    BY <1>1, <1>2, UpdatedShrinks DEF ProgressInv, Shrinks
  <1>4. /\ \A v \in Workers \ {w} : worker'[v] = worker[v]
        /\ worker'[w].phase \in {"moving", "returning"} /\ worker[w].phase = "working"
        /\ completed' = completed
    BY DEF Ends, IInv, WorkersInv, WorkerRecord
  <1>5. ASSUME NEW x \in Open(features')
        PROVE  LastWorker(x) # w
    <2>1. SUFFICES ASSUME LastWorker(x) = w
                   PROVE  FALSE
      OBVIOUS
    <2>2. x \in Open(features) /\ Held(x)
      BY <1>3 DEF ProgressInv, HeldInv
    <2>3. x.id = worker[w].task
      BY <1>4, <2>1, <2>2 DEF Held
    <2>4. \A y \in Open(features) : y = x
      BY <2>2 DEF ProgressInv, OneRuns, Open
    <2>5. id = x.id
      <3>1. CASE id = worker[w].task
        BY <2>3, <3>1
      <3>2. ASSUME NEW i \in InProgress(features), features[i].id = id
            PROVE  id = x.id
        <4>1. features[i] \in Open(features)
          BY DEF InProgress, FirstWith, Open
        <4> QED BY <2>4, <3>2, <4>1
      <3> QED BY <3>1, <3>2 DEF Ends
    <2>6. Open(features') = {}
      BY <1>1, <1>2, <2>4, <2>5, UpdateCloses
    <2> QED BY <2>6
  <1>6. ASSUME NEW x \in Open(features')
        PROVE  Held(x)'
    <2>1. x \in Open(features) /\ Held(x)
      BY <1>3 DEF ProgressInv, HeldInv
    <2>2. LastWorker(x) \in Workers \ {w}
      BY <1>5, <2>1, Assignee DEF Held
    <2> QED BY <1>4, <2>1, <2>2 DEF Held
  <1>7. \A v \in Workers : worker'[v].phase = "unborn" => v \notin completed'
    BY <1>4 DEF ProgressInv, HeldInv
  <1> QED BY <1>6, <1>7 DEF HeldInv

\* The entry of a session that reports is no longer in progress.
LEMMA ReportHeld ==
  ASSUME SInv, ProgressInv, NEW w \in Workers, LogsCompleted(w)
  PROVE  HeldInv'
  <1> USE DEF SInv
  <1>1. /\ features' = features /\ completed' = completed \cup {w}
        /\ \A v \in Workers \ {w} : worker'[v] = worker[v]
        /\ worker[w].phase = "logging" /\ worker'[w].phase = "done"
    BY DEF LogsCompleted, IInv, WorkersInv, WorkerRecord
  <1>2. ASSUME NEW x \in Open(features)
        PROVE  Held(x)'
    <2>1. Held(x)
      BY DEF ProgressInv, HeldInv
    <2>2. LastWorker(x) \in Workers \ {w}
      BY <1>1, <2>1, Assignee DEF Held, Ending
    <2> QED BY <1>1, <2>1, <2>2 DEF Held
  <1>3. \A v \in Workers : worker'[v].phase = "unborn" => v \notin completed'
    BY <1>1 DEF ProgressInv, HeldInv
  <1> QED BY <1>1, <1>2, <1>3 DEF HeldInv

LEMMA WorkerWrites ==
  ASSUME IInv, NEW w \in Workers, WorkerStep(w)
  PROVE  Shrinks(features', features)
  <1>1. features \in Seq(Feature)
    BY DEF IInv, FilesInv
  <1>2. \/ features' = features
        \/ \E id, report : features' = UpdateFeature(features, id,
              IF Succeeds(report) THEN "completed" ELSE "pending")
        \/ \E id : features' = MoveFeatureToBottom(features, id)
    BY DEF WorkerStep, Ends, MovesToBottom, ReturnsToOrchestrator, LogsCompleted,
       Signals402, WorkerExits, SessionExpires, Obeys, WriteFeatures
  <1>3. ASSUME NEW id, NEW report,
               features' = UpdateFeature(features, id,
                  IF Succeeds(report) THEN "completed" ELSE "pending")
        PROVE  Shrinks(features', features)
    <2> DEFINE status == IF Succeeds(report) THEN "completed" ELSE "pending"
    <2>1. status # "in_progress"
      OBVIOUS
    <2> HIDE DEF status
    <2>2. features' = UpdateFeature(features, id, status)
      BY <1>3 DEF status
    <2> QED BY <1>1, <2>1, <2>2, UpdatedShrinks
  <1> QED BY <1>1, <1>2, <1>3, ShrinksItself, MovedShrinks

\* The session that steps, and what that does not do to it.
LEMMA WorkerPhases ==
  ASSUME SInv, NEW w \in Workers, WorkerStep(w)
  PROVE  /\ \A v \in Workers \ {w} : worker'[v] = worker[v]
         /\ worker'[w].phase \in {"working"} \cup Ending =>
               worker[w].phase \in {"working"} \cup Ending
         /\ worker'[w].phase = "working" =>
               worker[w].phase = "working" /\ worker'[w].task = worker[w].task
         /\ worker'[w].phase # "unborn"
         /\ completed' = completed \/ LogsCompleted(w)
         /\ worker'[w].phase \in Ending =>
               worker[w].phase \in Ending
               \/ \E id \in Ids, report \in Reports : Ends(w, id, report)
  <1> USE DEF SInv, IInv, WorkersInv, WorkerRecord, Ending
  <1>1. ASSUME NEW id \in Ids, NEW report \in Reports, Ends(w, id, report)
        PROVE  /\ \A v \in Workers \ {w} : worker'[v] = worker[v]
               /\ worker[w].phase = "working"
               /\ worker'[w].phase \in {"moving", "returning"}
               /\ completed' = completed
    BY <1>1 DEF Ends
  <1>2. CASE MovesToBottom(w) \/ ReturnsToOrchestrator(w) \/ LogsCompleted(w)
    <2>1. /\ \A v \in Workers \ {w} : worker'[v] = worker[v]
          /\ worker[w].phase \in Ending
          /\ worker'[w].phase \in {"returning", "logging", "done"}
          /\ completed' = completed \/ LogsCompleted(w)
      BY <1>2 DEF MovesToBottom, ReturnsToOrchestrator, LogsCompleted
    <2> QED BY <2>1
  <1>3. CASE Signals402(w) \/ WorkerExits(w) \/ SessionExpires(w)
    <2>1. /\ \A v \in Workers \ {w} : worker'[v] = worker[v]
          /\ worker'[w].phase \in {"idle", "closed"}
          /\ completed' = completed
      BY <1>3 DEF Signals402, WorkerExits, SessionExpires
    <2> QED BY <2>1
  <1>4. CASE Obeys(w)
    <2>1. /\ \A v \in Workers \ {w} : worker'[v] = worker[v]
          /\ worker[w].phase # "unborn"
          /\ \/ worker'[w].phase = "closed"
             \/ /\ worker[w].phase \notin Ending
                /\ worker'[w].phase = IF worker[w].phase = "working" THEN "idle"
                                      ELSE worker[w].phase
          /\ completed' = completed
      BY <1>4 DEF Obeys
    <2> QED BY <2>1
  <1> QED BY <1>1, <1>2, <1>3, <1>4 DEF WorkerStep

LEMMA ProgressWorkers ==
  ASSUME SInv, Once(features, Ids), ProgressInv, NEW w \in Workers, WorkerStep(w)
  PROVE  ProgressInv'
  <1> USE DEF SInv
  <1>1. UNCHANGED loop /\ tool' = tool
    <2>1. tool' = tool
      BY DEF WorkerStep, Ends, MovesToBottom, ReturnsToOrchestrator, LogsCompleted,
         Signals402, WorkerExits, SessionExpires, Obeys
    <2> QED BY <2>1, WorkersApart
  <1>2. OneRuns(features') /\ Open(features') \subseteq Open(features)
    BY WorkerWrites DEF ProgressInv, Shrinks
  <1>3. HeldInv'
    <2>1. CASE \E id \in Ids, report \in Reports : Ends(w, id, report)
      BY <2>1, EndsCloses
    <2>2. CASE LogsCompleted(w)
      BY <2>2, ReportHeld
    <2>3. CASE ~LogsCompleted(w)
               /\ ~\E id \in Ids, report \in Reports : Ends(w, id, report)
      <3>1. HeldInv
        BY DEF ProgressInv
      <3>2. completed' = completed
        BY <2>3, WorkerPhases
      <3>3. \A v \in Workers :
               /\ worker'[v].phase \in Ending => worker[v].phase \in Ending
               /\ worker'[v].phase = "working" =>
                     worker[v].phase = "working" /\ worker'[v].task = worker[v].task
               /\ worker'[v].phase = "unborn" => worker[v].phase = "unborn"
        BY <2>3, WorkerPhases
      <3> QED BY <1>2, <3>1, <3>2, <3>3, HeldKept
    <2> QED BY <2>1, <2>2, <2>3
  <1>4. Offered'
    BY <1>1, <1>2, OfferedKept DEF ProgressInv
  <1>5. ASSUME NEW l \in Loops
        PROVE  StandsAt(loop'[l], features') /\ Fresh(loop[l])'
    <2>1. completed \subseteq completed'
      BY WorkerPhases DEF LogsCompleted
    <2>2. \A v \in Workers : Quiet(v) => Quiet(v)'
      <3>1. LogsCompleted(w) => worker[w].phase \in Ending /\ completed' = completed \cup {w}
        BY DEF LogsCompleted, Ending
      <3> QED BY <3>1, WorkerPhases DEF Quiet
    <2>3. StandsAt(loop[l], features) /\ Fresh(loop[l])
      BY DEF ProgressInv
    <2> QED BY <1>1, <1>2, <2>1, <2>2, <2>3, StandsStill
  <1> QED BY <1>2, <1>3, <1>4, <1>5 DEF ProgressInv

-----------------------------------------------------------------------------
(* The steps of the loop.                                                  *)

\* start_mission_run has given its choice away before a loop takes a step.
LEMMA ToolWaits ==
  ASSUME SInv, NEW l \in Loops, LoopStep(l)
  PROVE  tool'.pc \in {"idle", "waiting"}
  <1> USE DEF SInv
  <1>1. CASE ToolLaunches(l)
    <2> DEFINE q == [tool EXCEPT !.pc = "waiting", !.loop = l]
    <2>1. tool' = NoTool \/ tool' = q
      BY <1>1 DEF ToolLaunches
    <2>2. tool \in [pc : {"idle", "grant", "run", "launch", "waiting"},
                    resume : Workers \cup {None}, loop : Loops \cup {None}]
      BY DEF IInv, ControlInv
    <2>3. q.pc = "waiting" /\ NoTool.pc = "idle"
      BY <2>2 DEF NoTool
    <2> HIDE DEF q
    <2> QED BY <2>1, <2>3
  <1>2. CASE ~ToolLaunches(l)
    <2>1. loop[l].pc # "idle"
      BY <1>2 DEF LoopStep, Cleanup, LoopStops, LoopAborts, LoopReopens, LoopSetsRunning,
         LoopDispatches, Preempts, SpawnReads, ExhaustedLogs, ExhaustedPauses,
         SessionSpawned, SpawnFails, MarksInProgress, ResumeLoads, ResumeFails,
         PromptSent, PromptFails, DispatchFails, Notified, WaitEnds, Posts, Checks,
         InsertsUserTesting, InsertsScrutiny, MarksValidated, Finishes, Rechecks,
         SetsCompleted, SetsOrchestratorTurn, LoopEndsWith, LoopPauseLogs, LoopPauses,
         Exits, At, Proceeds
    <2>2. tool.pc = "waiting"
      BY <2>1 DEF CallInv
    <2>3. tool' = tool \/ tool' = NoTool
      BY <1>2 DEF LoopStep, Cleanup, LoopStops, LoopAborts, LoopReopens, LoopSetsRunning,
         LoopDispatches, Preempts, SpawnReads, ExhaustedLogs, ExhaustedPauses,
         SessionSpawned, SpawnFails, MarksInProgress, ResumeLoads, ResumeFails,
         PromptSent, PromptFails, DispatchFails, Notified, WaitEnds, Posts, Checks,
         InsertsUserTesting, InsertsScrutiny, MarksValidated, Finishes, Rechecks,
         SetsCompleted, SetsOrchestratorTurn, LoopEndsWith, LoopPauseLogs, LoopPauses,
         Exits
    <2> QED BY <2>2, <2>3 DEF NoTool
  <1> QED BY <1>1, <1>2

LEMMA ProgressLoop ==
  ASSUME SInv, NEW l \in Loops, LoopStep(l),
         OneRuns(features'), HeldInv',
         StandsAt(loop'[l], features'), Fresh(loop[l])'
  PROVE  ProgressInv'
  <1>1. Offered'
    BY ToolWaits DEF Offered
  <1>2. ASSUME NEW k \in Loops, k # l
        PROVE  StandsAt(loop'[k], features') /\ Fresh(loop[k])'
    <2>1. loop'[k].pc = "idle"
      BY <1>2, Alone, LoopOthers
    <2> QED BY <2>1 DEF StandsAt, Clear, ValidationPC, Fresh
  <1> QED BY <1>1, <1>2 DEF ProgressInv

LEMMA LoopShrinks ==
  ASSUME SInv, ValidationInv, PlainIds, NEW l \in Loops, LoopStep(l), ~MarksInProgress(l)
  PROVE  Shrinks(features', features)
  <1> USE DEF SInv
  <1>1. features \in Seq(Feature)
    BY DEF IInv, FilesInv
  <1>2. CASE InsertsUserTesting(l) \/ InsertsScrutiny(l)
    BY <1>1, <1>2, InsertsFresh, ShrinksItself, InsertedShrinks
  <1>3. CASE Cleanup(l) \/ Preempts(l) \/ DispatchFails(l)
    <2>1. features' = features \/ \E id, w : features' = Requeue(features, id, w)
      BY <1>3 DEF Cleanup, Preempts, DispatchFails, WriteFeatures
    <2> QED BY <1>1, <2>1, ShrinksItself, RequeuedShrinks
  <1>4. CASE ~InsertsUserTesting(l) /\ ~InsertsScrutiny(l)
             /\ ~Cleanup(l) /\ ~Preempts(l) /\ ~DispatchFails(l)
    <2>1. features' = features
      BY <1>4 DEF LoopStep, ToolLaunches, LoopStops, LoopAborts, LoopReopens,
         LoopSetsRunning, LoopDispatches, SpawnReads, ExhaustedLogs, ExhaustedPauses,
         SessionSpawned, SpawnFails, ResumeLoads, ResumeFails, PromptSent, PromptFails,
         Notified, WaitEnds, Posts, Checks, MarksValidated, Finishes, Rechecks,
         SetsCompleted, SetsOrchestratorTurn, LoopEndsWith, LoopPauseLogs, LoopPauses,
         Exits
    <2> QED BY <2>1, ShrinksItself
  <1> QED BY <1>2, <1>3, <1>4

\* The steps of a loop that do nothing to a session but tell it something.
Tells(l) ==
    \/ ToolLaunches(l) \/ Cleanup(l) \/ LoopStops(l) \/ LoopAborts(l) \/ LoopReopens(l)
    \/ LoopSetsRunning(l) \/ LoopDispatches(l) \/ Preempts(l)
    \/ SpawnReads(l) \/ ExhaustedLogs(l) \/ ExhaustedPauses(l) \/ SpawnFails(l)
    \/ ResumeFails(l) \/ DispatchFails(l) \/ Notified(l) \/ WaitEnds(l)
    \/ Posts(l) \/ Checks(l) \/ InsertsUserTesting(l) \/ InsertsScrutiny(l)
    \/ MarksValidated(l) \/ Finishes(l) \/ Rechecks(l) \/ SetsCompleted(l)
    \/ SetsOrchestratorTurn(l) \/ LoopPauseLogs(l) \/ LoopPauses(l) \/ Exits(l)

LEMMA TellsPhases ==
  ASSUME SInv, NEW l \in Loops, Tells(l)
  PROVE  SamePhases
  <1>1. completed' = completed
    BY DEF Tells, ToolLaunches, Cleanup, LoopStops, LoopAborts, LoopReopens,
       LoopSetsRunning, LoopDispatches, Preempts, SpawnReads, ExhaustedLogs,
       ExhaustedPauses, SpawnFails, ResumeFails, DispatchFails, Notified, WaitEnds, Posts,
       Checks, InsertsUserTesting, InsertsScrutiny, MarksValidated, Finishes, Rechecks,
       SetsCompleted, SetsOrchestratorTurn, LoopEndsWith, LoopPauseLogs, LoopPauses, Exits
  <1>2. UNCHANGED worker \/ \E ws : Tell(ws, "interrupt") \/ Tell(ws, "close")
    <2>1. CASE Cleanup(l) \/ DispatchFails(l) \/ WaitEnds(l) \/ LoopPauseLogs(l)
      BY <2>1 DEF Cleanup, DispatchFails, WaitEnds, LoopPauseLogs
    <2>2. CASE Notified(l)
      BY <2>2, NotifiedEffect DEF Completes, Handles, SInv
    <2>3. CASE ~Cleanup(l) /\ ~DispatchFails(l) /\ ~Notified(l) /\ ~WaitEnds(l)
               /\ ~LoopPauseLogs(l)
      BY <2>3 DEF Tells, ToolLaunches, LoopStops, LoopAborts, LoopReopens,
         LoopSetsRunning, LoopDispatches, Preempts, SpawnReads, ExhaustedLogs,
         ExhaustedPauses, SpawnFails, ResumeFails, Posts, Checks, InsertsUserTesting,
         InsertsScrutiny, MarksValidated, Finishes, Rechecks, SetsCompleted,
         SetsOrchestratorTurn, LoopEndsWith, LoopPauses, Exits
    <2> QED BY <2>1, <2>2, <2>3
  <1> QED BY <1>1, <1>2, ToldPhases DEF SInv

\* What is left to show of such a step: where the loop stands after it.
LEMMA ProgressTells ==
  ASSUME SInv, ValidationInv, PlainIds, ProgressInv, NEW l \in Loops, Tells(l),
         StandsAt(loop'[l], features'), Fresh(loop[l])'
  PROVE  ProgressInv'
  <1>1. Shrinks(features', features) /\ SamePhases /\ LoopStep(l)
    <2>1. LoopStep(l)
      BY DEF Tells, LoopStep
    <2>2. ~MarksInProgress(l)
      BY DEF Tells, ToolLaunches, Cleanup, LoopStops, LoopAborts, LoopReopens,
         LoopSetsRunning, LoopDispatches, Preempts, SpawnReads, ExhaustedLogs,
         ExhaustedPauses, SpawnFails, ResumeFails, DispatchFails, Notified, WaitEnds,
         Posts, Checks, InsertsUserTesting, InsertsScrutiny, MarksValidated, Finishes,
         Rechecks, SetsCompleted, SetsOrchestratorTurn, LoopEndsWith, LoopPauseLogs,
         LoopPauses, Exits, MarksInProgress, At, Proceeds
    <2> QED BY <2>1, <2>2, LoopShrinks, TellsPhases
  <1>2. OneRuns(features') /\ Open(features') \subseteq Open(features)
    BY <1>1 DEF ProgressInv, Shrinks
  <1>3. HeldInv'
    BY <1>1, <1>2, HeldKept DEF ProgressInv, SamePhases, SInv
  <1> QED BY <1>1, <1>2, <1>3, ProgressLoop

\* Places that know nothing of the entry in progress.
FreePlace == {"idle", "cleanup", "toRunning", "dispatchFailed", "toCompleted",
              "toOrchestrator", "pauseLog", "pauseWrite", "exit"}

LEMMA StandsFree ==
  ASSUME NEW r, NEW f, r.pc \in FreePlace
  PROVE  StandsAt(r, f)
  BY DEF FreePlace, StandsAt, Clear, ValidationPC

LEMMA StandsReturned ==
  ASSUME NEW r, NEW f, r.pc = "post", r.out # "success", r.back = "finish"
  PROVE  StandsAt(r, f)
  BY DEF StandsAt, Clear, ValidationPC

LEMMA StandsClear ==
  ASSUME NEW r, NEW q, NEW f, NEW g, StandsAt(r, f), Open(g) \subseteq Open(f),
         q.pc \notin {"top", "preempt", "resume", "prompt", "waiting", "post"},
         Clear(q) => Clear(r)
  PROVE  StandsAt(q, g)
  BY DEF StandsAt

\* Steps that stop the loop or give up.
LEMMA ProgressStops ==
  ASSUME SInv, ValidationInv, PlainIds, ProgressInv, NEW l \in Loops,
         \/ LoopStops(l) \/ LoopAborts(l) \/ LoopReopens(l) \/ SpawnFails(l)
         \/ ResumeFails(l) \/ SetsCompleted(l) \/ SetsOrchestratorTurn(l)
         \/ LoopPauseLogs(l) \/ LoopPauses(l) \/ Exits(l)
  PROVE  ProgressInv'
  <1> USE DEF SInv
  <1>1. loop'[l].pc \in FreePlace
    <2>1. CASE Exits(l)
      <3>1. loop'[l] = Idle /\ Idle.pc = "idle"
        BY <2>1, RecordSet DEF Exits, Idle
      <3> QED BY <3>1 DEF FreePlace
    <2>2. CASE ResumeFails(l)
      BY <2>2, ResumeFailsEffect DEF FreePlace
    <2>3. CASE \E pc \in FreePlace : Goto(l, pc)
      BY <2>3, GotoFields
    <2>4. CASE ~Exits(l) /\ ~ResumeFails(l)
      <3>1. \E pc \in FreePlace : Goto(l, pc)
        BY <2>4 DEF LoopStops, LoopAborts, LoopReopens, SpawnFails, SetsCompleted,
           SetsOrchestratorTurn, LoopEndsWith, LoopPauseLogs, LoopPauses, FreePlace
      <3> QED BY <3>1, <2>3
    <2> QED BY <2>1, <2>2, <2>4
  <1>2. StandsAt(loop'[l], features') /\ Fresh(loop[l])'
    BY <1>1, StandsFree DEF Fresh, FreePlace
  <1>3. Tells(l)
    BY DEF Tells
  <1> QED BY <1>2, <1>3, ProgressTells

\* Steps that hand a result other than success back to runLoop.
LEMMA ProgressReturns ==
  ASSUME SInv, ValidationInv, PlainIds, ProgressInv, NEW l \in Loops,
         ExhaustedPauses(l) \/ DispatchFails(l)
  PROVE  ProgressInv'
  <1> USE DEF SInv
  <1>1. \E out \in {"paused", "return"} : \E ids : Return(l, out, ids)
    BY DEF ExhaustedPauses, DispatchFails
  <1>2. loop'[l].pc = "post" /\ loop'[l].out # "success" /\ loop'[l].back = "finish"
    BY <1>1, ReturnFields
  <1>3. StandsAt(loop'[l], features') /\ Fresh(loop[l])'
    BY <1>2, StandsReturned DEF Fresh
  <1> QED BY <1>3, ProgressTells DEF Tells

\* Steps on the way from a place where nothing is in progress to another.
LEMMA ProgressClear ==
  ASSUME SInv, ValidationInv, PlainIds, ProgressInv, NEW l \in Loops,
         \/ SpawnReads(l) \/ ExhaustedLogs(l) \/ Posts(l) \/ Checks(l)
         \/ InsertsUserTesting(l) \/ InsertsScrutiny(l) \/ MarksValidated(l)
  PROVE  ProgressInv'
  <1> USE DEF SInv
  <1>1. Open(features') \subseteq Open(features)
    <2>1. LoopStep(l) /\ ~MarksInProgress(l)
      BY DEF LoopStep, SpawnReads, ExhaustedLogs, Posts, Checks, InsertsUserTesting,
         InsertsScrutiny, MarksValidated, MarksInProgress, At
    <2> QED BY <2>1, LoopShrinks DEF ProgressInv, Shrinks
  <1>2. StandsAt(loop[l], features) /\ loop[l] \in LoopRecord
    BY Record DEF ProgressInv
  <1>3. Tells(l)
    BY DEF Tells
  <1>4. CASE Posts(l) /\ ~Goto(l, "check")
    <2>1. Goto(l, "pauseLog") \/ Goto(l, "exit")
      BY <1>4 DEF Posts
    <2>2. loop'[l].pc \in FreePlace
      BY <2>1, GotoFields DEF FreePlace
    <2> QED BY <1>3, <2>2, StandsFree, ProgressTells DEF Fresh, FreePlace
  <1>5. CASE SpawnReads(l) /\ loop'[l].pc = "post"
    <2>1. loop'[l].out = "return" /\ loop'[l].back = "finish"
      <3>1. CASE Return(l, "return", {})
        BY <3>1, ReturnFields
      <3>2. CASE ~Return(l, "return", {})
        <4>1. loop'[l].pc # "post"
          <5>1. PICK i \in NextPending(features) :
                   loop' = [loop EXCEPT
                     ![l].pc = IF Len(features[i].workers) >= MaxAttempts + bonus[features[i].id]
                               THEN "exhausted" ELSE "spawnRpc",
                     ![l].how = "spawn", ![l].id = features[i].id,
                     ![l].snap = features[i].workers, ![l].worker = None]
            BY <1>5, <3>2 DEF SpawnReads
          <5> DEFINE pc == IF Len(features[i].workers) >= MaxAttempts + bonus[features[i].id]
                           THEN "exhausted" ELSE "spawnRpc"
                     q == [loop[l] EXCEPT !.pc = pc, !.how = "spawn", !.id = features[i].id,
                                          !.snap = features[i].workers, !.worker = None]
          <5>2. loop' = [loop EXCEPT ![l] = q]
            BY <5>1
          <5>3. pc # "post"
            OBVIOUS
          <5> HIDE DEF pc
          <5>4. q.pc = pc
            BY <1>2 DEF LoopRecord
          <5> HIDE DEF q
          <5> QED BY <5>2, <5>3, <5>4, RecordSet
        <4> QED BY <1>5, <4>1
      <3> QED BY <3>1, <3>2
    <2> QED BY <1>3, <1>5, <2>1, StandsReturned, ProgressTells DEF Fresh
  <1>6. CASE ~(Posts(l) /\ ~Goto(l, "check")) /\ ~(SpawnReads(l) /\ loop'[l].pc = "post")
    <2>1. /\ loop'[l].pc \notin {"top", "preempt", "resume", "mark", "prompt", "waiting", "post"}
          /\ Clear(loop'[l]) => Clear(loop[l])
      <3> USE DEF Clear, ValidationPC
      <3>1. CASE SpawnReads(l)
        BY <1>6, <3>1, SpawnReadsEffect DEF SpawnReads, At
      <3>2. CASE ExhaustedLogs(l)
        BY <3>2, GotoFields DEF ExhaustedLogs, At
      <3>3. CASE Posts(l)
        BY <1>2, <1>6, <3>3, GotoFields DEF Posts, At, StandsAt
      <3>4. CASE Checks(l)
        <4>1. loop[l].pc = "check" /\ loop[l].back \in {"finish", "recheck"}
          BY <1>2, <3>4 DEF Checks, At, LoopRecord
        <4> QED BY <3>4, <4>1, ChecksEffect
      <3>5. CASE InsertsUserTesting(l) \/ InsertsScrutiny(l)
        BY <3>5, GotoFields DEF InsertsUserTesting, InsertsScrutiny, At
      <3>6. CASE MarksValidated(l)
        <4>1. /\ loop[l].pc = "markValidated"
              /\ loop'[l].pc = "check" /\ loop'[l].out = loop[l].out
              /\ loop'[l].back = loop[l].back
          BY <3>6 DEF MarksValidated, At, IInv, LoopsInv, LoopOK, LoopRecord
        <4> QED BY <4>1
      <3> QED BY <3>1, <3>2, <3>3, <3>4, <3>5, <3>6
    <2>2. StandsAt(loop'[l], features')
      BY <1>1, <1>2, <2>1, StandsClear
    <2>3. Fresh(loop[l])'
      BY <2>1 DEF Fresh
    <2> QED BY <1>3, <2>2, <2>3, ProgressTells
  <1> QED BY <1>4, <1>5, <1>6

\* Steps back to the head of the loop: nothing is left in progress.
LEMMA ProgressTops ==
  ASSUME SInv, ValidationInv, PlainIds, Once(features, Ids), ProgressInv, NEW l \in Loops,
         Cleanup(l) \/ LoopSetsRunning(l) \/ Preempts(l) \/ Finishes(l) \/ Rechecks(l)
  PROVE  ProgressInv'
  <1> USE DEF SInv
  <1>1. features \in Seq(Feature) /\ OneRuns(features)
    BY DEF IInv, FilesInv, ProgressInv
  <1>2. StandsAt(loop[l], features) /\ loop[l] \in LoopRecord
    BY Record DEF ProgressInv
  <1>3. \A x \in Open(features) : LastWorker(x) \in Workers /\ LastWorker(x) # None
    BY Assignee DEF ProgressInv, HeldInv, Held
  <1>4. Tells(l)
    BY DEF Tells
  <1>5. CASE Cleanup(l) \/ Preempts(l)
    <2>1. Open(features') = {}
      <3>1. CASE Preempts(l)
        <4>1. /\ features' = Requeue(features, loop[l].id, loop[l].worker)
              /\ loop[l].pc = "preempt"
          BY <3>1 DEF Preempts, WriteFeatures, At
        <4>2. \A x \in Open(features) : LastWorker(x) = loop[l].worker
          BY <1>2, <4>1 DEF StandsAt
        <4>3. CASE Open(features) = {}
          BY <1>1, <4>1, <4>3, RequeuedShrinks DEF Shrinks
        <4>4. CASE Open(features) # {}
          <5>1. loop[l].worker # None
            BY <1>3, <4>2, <4>4
          <5> QED BY <1>1, <4>1, <4>2, <5>1, RequeueCloses
        <4> QED BY <4>3, <4>4
      <3>2. CASE Cleanup(l) /\ Current = {}
        <4>1. InProgress(features) = {}
          <5>1. ASSUME NEW i \in InProgress(features)
                PROVE  FALSE
            <6>1. Open(features) = {features[i]}
              BY <1>1, InProgressIs
            <6>2. LastWorker(features[i]) \in Current
              BY <1>3, <6>1 DEF Current
            <6> QED BY <3>2, <6>2
          <5> QED BY <5>1
        <4>2. features' = features
          BY <3>2 DEF Cleanup
        <4> QED BY <1>1, <4>1, <4>2, InProgressIs
      <3>3. CASE Cleanup(l) /\ Current # {}
        <4>1. PICK i \in InProgress(features) :
                 features' = Requeue(features, features[i].id, LastWorker(features[i]))
          BY <3>3 DEF Cleanup, WriteFeatures
        <4>2. Open(features) = {features[i]}
          BY <1>1, InProgressIs
        <4>3. LastWorker(features[i]) # None
          BY <1>3, <4>2
        <4> QED BY <1>1, <4>1, <4>2, <4>3, RequeueCloses
      <3> QED BY <1>5, <3>1, <3>2, <3>3
    <2>2. loop'[l].pc = "top"
      BY <1>5, GotoFields DEF Cleanup, Preempts
    <2>3. StandsAt(loop'[l], features') /\ Fresh(loop[l])'
      BY <2>1, <2>2 DEF StandsAt, Clear, ValidationPC, Fresh
    <2> QED BY <1>4, <2>3, ProgressTells
  <1>6. ~LoopSetsRunning(l)
    BY DEF LoopSetsRunning, At, RunInv, LoopRuns
  <1>7. CASE Finishes(l) \/ Rechecks(l)
    <2>1. features' = features
          /\ loop'[l].pc \in {"toCompleted", "exit", "toOrchestrator", "top"}
      BY <1>7, EndEffect
    <2>2. loop'[l].pc = "top" => Open(features) = {}
      <3>1. CASE Rechecks(l)
        <4>1. loop[l].pc = "recheck"
          BY <3>1 DEF Rechecks, At
        <4> QED BY <1>2, <4>1 DEF StandsAt, Clear
      <3>2. CASE Finishes(l) /\ loop[l].out = "success"
        <4>1. loop[l].pc = "finish"
          BY <3>2 DEF Finishes, At
        <4> QED BY <1>2, <3>2, <4>1 DEF StandsAt, Clear
      <3>3. CASE Finishes(l) /\ loop[l].out # "success"
        <4>1. loop[l].out \in {"return", "paused"}
          BY <1>2, <3>3 DEF LoopRecord
        <4>2. \E pc \in {"toCompleted", "exit", "toOrchestrator"} : Goto(l, pc)
          BY <3>3, <4>1 DEF Finishes
        <4> QED BY <4>2, GotoFields
      <3> QED BY <1>7, <3>1, <3>2, <3>3
    <2>3. StandsAt(loop'[l], features') /\ Fresh(loop[l])'
      BY <2>1, <2>2 DEF StandsAt, Clear, ValidationPC, Fresh
    <2> QED BY <1>4, <2>3, ProgressTells
  <1> QED BY <1>5, <1>6, <1>7

LEMMA ProgressLaunches ==
  ASSUME SInv, ValidationInv, PlainIds, ProgressInv, NEW l \in Loops, ToolLaunches(l)
  PROVE  ProgressInv'
  <1> USE DEF SInv
  <1>1. features' = features /\ loop[l].pc = "idle" /\ tool.pc = "launch"
    BY DEF ToolLaunches
  <1> DEFINE q == [Idle EXCEPT !.resume = tool.resume,
                      !.pc = IF tool.resume = None THEN "cleanup" ELSE "top"]
  <1>2. /\ tool.resume = None => q.pc = "cleanup"
        /\ tool.resume # None => q.pc = "top" /\ q.resume = tool.resume
    BY DEF Idle
  <1>3. loop'[l].pc = "idle" \/ loop'[l] = q
    <2>1. UNCHANGED loop \/ loop' = [loop EXCEPT ![l] = q]
      BY DEF ToolLaunches
    <2> HIDE DEF q
    <2> QED BY <1>1, <2>1, RecordSet
  <1> HIDE DEF q
  <1>4. CASE loop'[l].pc \in FreePlace
    BY <1>4, StandsFree, ProgressTells DEF Fresh, FreePlace, Tells
  <1>5. CASE loop'[l].pc = "top" /\ loop'[l].resume = tool.resume /\ tool.resume # None
    <2>1. \A x \in Open(features) : LastWorker(x) = tool.resume
      BY <1>1, <1>5 DEF ProgressInv, Offered
    <2>2. StandsAt(loop'[l], features') /\ Fresh(loop[l])'
      BY <1>1, <1>5, <2>1 DEF StandsAt, Clear, ValidationPC, Fresh
    <2> QED BY <2>2, ProgressTells DEF Tells
  <1> QED BY <1>2, <1>3, <1>4, <1>5 DEF FreePlace

\* Where the head of the loop goes, and for which session.
LEMMA DispatchPlace ==
  ASSUME IInv, NEW l \in Loops, LoopDispatches(l)
  PROVE  \/ \E i \in InProgress(features) :
               \/ /\ loop'[l].pc = "preempt"
                  /\ loop'[l].worker = LastWorker(features[i])
               \/ /\ loop'[l].pc = "top"
                  /\ LastWorker(features[i]) \notin {None, loop[l].resume}
               \/ /\ loop'[l].pc = "resume"
                  /\ loop'[l].worker = loop[l].resume
         \/ /\ loop[l].resume = None \/ InProgress(features) = {}
            /\ loop'[l].pc \in {"spawn", "check"}
  <1> DEFINE r == loop[l]
  <1>1. r \in LoopRecord /\ r.pc = "top"
    BY Record DEF LoopDispatches, Proceeds, At
  <1>2. \/ \E i \in InProgress(features) :
              \/ loop' = [loop EXCEPT ![l].pc = "preempt", ![l].id = features[i].id,
                                      ![l].worker = LastWorker(features[i]),
                                      ![l].resume = None]
              \/ /\ LastWorker(features[i]) \notin {None, loop[l].resume}
                 /\ loop' = [loop EXCEPT ![l].resume = None]
              \/ loop' = [loop EXCEPT ![l].pc = "resume", ![l].worker = loop[l].resume,
                                      ![l].resume = None]
        \/ /\ loop[l].resume = None \/ InProgress(features) = {}
           /\ \/ loop' = [loop EXCEPT ![l].pc = "spawn"]
              \/ loop' = [loop EXCEPT ![l].pc = "check", ![l].back = "recheck",
                                      ![l].todo = Milestones]
    BY ZenonT(60) DEF LoopDispatches
  <1>3. ASSUME NEW id, NEW w,
               loop' = [loop EXCEPT ![l].pc = "preempt", ![l].id = id,
                                    ![l].worker = w, ![l].resume = None]
        PROVE  loop'[l].pc = "preempt" /\ loop'[l].worker = w
    <2> DEFINE q == [r EXCEPT !.pc = "preempt", !.id = id, !.worker = w, !.resume = None]
    <2>1. loop' = [loop EXCEPT ![l] = q]
      BY <1>3
    <2> HIDE DEF r
    <2>2. q.pc = "preempt" /\ q.worker = w
      BY <1>1 DEF LoopRecord
    <2> HIDE DEF q
    <2> QED BY <2>1, <2>2, RecordSet
  <1>4. ASSUME NEW w, loop' = [loop EXCEPT ![l].pc = "resume", ![l].worker = w,
                                           ![l].resume = None]
        PROVE  loop'[l].pc = "resume" /\ loop'[l].worker = w
    <2> DEFINE q == [r EXCEPT !.pc = "resume", !.worker = w, !.resume = None]
    <2>1. loop' = [loop EXCEPT ![l] = q]
      BY <1>4
    <2> HIDE DEF r
    <2>2. q.pc = "resume" /\ q.worker = w
      BY <1>1 DEF LoopRecord
    <2> HIDE DEF q
    <2> QED BY <2>1, <2>2, RecordSet
  <1>5. loop' = [loop EXCEPT ![l].resume = None] => loop'[l].pc = "top"
    <2> DEFINE q == [r EXCEPT !.resume = None]
    <2> HIDE DEF r
    <2>1. q.pc = "top"
      BY <1>1 DEF LoopRecord
    <2> USE DEF r
    <2>2. loop' = [loop EXCEPT ![l].resume = None] => loop' = [loop EXCEPT ![l] = q]
      OBVIOUS
    <2> HIDE DEF q
    <2> QED BY <2>1, <2>2, RecordSet
  <1>6. loop' = [loop EXCEPT ![l].pc = "spawn"] => loop'[l].pc = "spawn"
    BY GotoFields DEF Goto
  <1>7. ASSUME loop' = [loop EXCEPT ![l].pc = "check", ![l].back = "recheck",
                                    ![l].todo = Milestones]
        PROVE  loop'[l].pc = "check"
    <2> DEFINE q == [r EXCEPT !.pc = "check", !.back = "recheck", !.todo = Milestones]
    <2>1. loop' = [loop EXCEPT ![l] = q]
      BY <1>7
    <2> HIDE DEF r
    <2>2. q.pc = "check"
      BY <1>1 DEF LoopRecord
    <2> HIDE DEF q
    <2> QED BY <2>1, <2>2, RecordSet
  <1> QED BY <1>2, <1>3, <1>4, <1>5, <1>6, <1>7

LEMMA ProgressDispatches ==
  ASSUME SInv, ValidationInv, PlainIds, ProgressInv, NEW l \in Loops, LoopDispatches(l)
  PROVE  ProgressInv'
  <1> USE DEF SInv
  <1>1. features \in Seq(Feature) /\ OneRuns(features) /\ features' = features
    BY DEF IInv, FilesInv, ProgressInv, LoopDispatches
  <1>2. \A x \in Open(features) : LastWorker(x) = loop[l].resume
    <2>1. loop[l].pc = "top" /\ StandsAt(loop[l], features)
      BY DEF LoopDispatches, Proceeds, At, ProgressInv
    <2> QED BY <2>1 DEF StandsAt
  <1>3. CASE \E i \in InProgress(features) :
                \/ /\ loop'[l].pc = "preempt"
                   /\ loop'[l].worker = LastWorker(features[i])
                \/ /\ loop'[l].pc = "top"
                   /\ LastWorker(features[i]) \notin {None, loop[l].resume}
                \/ /\ loop'[l].pc = "resume"
                   /\ loop'[l].worker = loop[l].resume
    <2>1. PICK i \in InProgress(features) :
             \/ /\ loop'[l].pc = "preempt"
                /\ loop'[l].worker = LastWorker(features[i])
             \/ /\ loop'[l].pc = "top"
                /\ LastWorker(features[i]) \notin {None, loop[l].resume}
             \/ /\ loop'[l].pc = "resume"
                /\ loop'[l].worker = loop[l].resume
      BY <1>3
    <2>2. Open(features) = {features[i]}
      BY <1>1, InProgressIs
    <2>3. LastWorker(features[i]) = loop[l].resume
      BY <1>2, <2>2
    <2>4. loop'[l].pc \in {"preempt", "resume"} /\ loop'[l].worker = loop[l].resume
      BY <2>1, <2>3
    <2>5. StandsAt(loop'[l], features') /\ Fresh(loop[l])'
      BY <1>1, <1>2, <2>4 DEF StandsAt, Clear, ValidationPC, Fresh
    <2> QED BY <2>5, ProgressTells DEF Tells
  <1>4. CASE /\ loop[l].resume = None \/ InProgress(features) = {}
             /\ loop'[l].pc \in {"spawn", "check"}
    <2>1. Open(features) = {}
      <3>1. CASE InProgress(features) = {}
        BY <1>1, <3>1, InProgressIs
      <3>2. CASE loop[l].resume = None
        BY <1>2, <3>2, Assignee DEF ProgressInv, HeldInv, Held
      <3> QED BY <1>4, <3>1, <3>2
    <2>2. StandsAt(loop'[l], features') /\ Fresh(loop[l])'
      BY <1>1, <1>4, <2>1 DEF StandsAt, Fresh
    <2> QED BY <2>2, ProgressTells DEF Tells
  <1> QED BY <1>3, <1>4, DispatchPlace

\* Waiting: a report that was found is in the log, so its feature is closed.
LEMMA ProgressWaits ==
  ASSUME SInv, ValidationInv, PlainIds, ProgressInv, NEW l \in Loops,
         Notified(l) \/ WaitEnds(l)
  PROVE  ProgressInv'
  <1> USE DEF SInv
  <1>1. /\ features' = features /\ loop[l].pc = "waiting" /\ completed' = completed
        /\ StandsAt(loop[l], features) /\ Fresh(loop[l])
        /\ loop[l] \in LoopRecord
    BY Record DEF Notified, WaitEnds, At, ProgressInv
  <1>2. CASE Notified(l)
    <2>1. \/ UNCHANGED loop
          \/ /\ loop' = [loop EXCEPT ![l].done = TRUE]
             /\ loop[l].worker \in completed
      BY <1>2, NotifiedEffect DEF Completes, Handles, Finished
    <2>2. /\ loop'[l].pc = "waiting" /\ loop'[l].worker = loop[l].worker
          /\ loop'[l].done => loop[l].worker \in completed
      <3>1. CASE UNCHANGED loop
        BY <1>1, <3>1 DEF Fresh
      <3>2. CASE ~UNCHANGED loop
        <4> DEFINE q == [loop[l] EXCEPT !.done = TRUE]
        <4>1. loop' = [loop EXCEPT ![l] = q]
          BY <2>1, <3>2
        <4>2. q.pc = "waiting" /\ q.worker = loop[l].worker
          BY <1>1 DEF LoopRecord
        <4> HIDE DEF q
        <4> QED BY <2>1, <3>2, <4>1, <4>2, RecordSet
      <3> QED BY <3>1, <3>2
    <2>3. StandsAt(loop'[l], features') /\ Fresh(loop[l])'
      BY <1>1, <2>2 DEF StandsAt, Clear, ValidationPC, Fresh
    <2> QED BY <1>2, <2>3, ProgressTells DEF Tells
  <1>3. CASE WaitEnds(l)
    <2>1. \E out, ids : /\ Return(l, out, ids)
                        /\ out = "success" => loop[l].done
      BY <1>3 DEF WaitEnds
    <2>2. /\ loop'[l].pc = "post" /\ loop'[l].back = "finish"
          /\ loop'[l].out = "success" => loop[l].done
      BY <2>1, ReturnFields
    <2>3. loop[l].done => Open(features) = {}
      <3>1. SUFFICES ASSUME loop[l].done, NEW x \in Open(features)
                     PROVE  FALSE
        OBVIOUS
      <3>2. LastWorker(x) = loop[l].worker /\ loop[l].worker \in completed
        BY <1>1, <3>1 DEF StandsAt, Fresh
      <3> QED BY <3>2 DEF ProgressInv, HeldInv, Held
    <2>4. StandsAt(loop'[l], features') /\ Fresh(loop[l])'
      BY <1>1, <2>2, <2>3 DEF StandsAt, Clear, ValidationPC, Fresh
    <2> QED BY <1>3, <2>4, ProgressTells DEF Tells
  <1> QED BY <1>2, <1>3

\* A new session has reported nothing yet.
LEMMA ProgressSpawned ==
  ASSUME SInv, ProgressInv, NEW l \in Loops, SessionSpawned(l)
  PROVE  ProgressInv'
  <1> USE DEF SInv
  <1>1. /\ features' = features /\ loop[l].pc = "spawnRpc" /\ completed' = completed
        /\ StandsAt(loop[l], features)
    BY DEF SessionSpawned, At, ProgressInv
  <1>2. /\ loop'[l].pc = "mark" /\ loop'[l].worker \in Unborn
        /\ worker' = [worker EXCEPT ![loop'[l].worker].phase = "ready"]
    BY SpawnedEffect
  <1>3. \A w \in Workers : worker'[w] = worker[w] \/ worker'[w].phase = "ready"
    BY SpawnedWorker
  <1>4. HeldInv'
    <2>1. HeldInv
      BY DEF ProgressInv
    <2>2. \A w \in Workers :
             /\ worker'[w].phase \in Ending => worker[w].phase \in Ending
             /\ worker'[w].phase = "working" =>
                   worker[w].phase = "working" /\ worker'[w].task = worker[w].task
             /\ worker'[w].phase = "unborn" => worker[w].phase = "unborn"
      BY <1>3 DEF Ending
    <2> QED BY <1>1, <2>1, <2>2, HeldKept
  <1>5. Open(features) = {}
    BY <1>1 DEF StandsAt, Clear
  <1>6. /\ loop'[l].worker \notin completed'
        /\ worker'[loop'[l].worker].phase \notin {"working"} \cup Ending
    <2>1. loop'[l].worker \in Workers /\ worker[loop'[l].worker].phase = "unborn"
      BY <1>2 DEF Unborn
    <2>2. loop'[l].worker \notin completed
      BY <2>1 DEF ProgressInv, HeldInv
    <2>3. worker'[loop'[l].worker].phase = "ready"
      BY <1>2, <2>1 DEF IInv, WorkersInv, WorkerRecord
    <2> QED BY <1>1, <2>2, <2>3 DEF Ending
  <1>7. StandsAt(loop'[l], features') /\ Fresh(loop[l])'
    BY <1>1, <1>2, <1>5, <1>6 DEF StandsAt, Fresh, Quiet
  <1>8. OneRuns(features') /\ LoopStep(l)
    BY <1>1 DEF ProgressInv, LoopStep
  <1> QED BY <1>4, <1>7, <1>8, ProgressLoop

\* The entry that is opened is the only one, and its session is new.
LEMMA ProgressMarks ==
  ASSUME SInv, ProgressInv, NEW l \in Loops, MarksInProgress(l)
  PROVE  ProgressInv'
  <1> USE DEF SInv
  <1> DEFINE w == loop[l].worker
             ws == Append(loop[l].snap, w)
  <1>1. /\ loop[l].pc = "mark" /\ UNCHANGED <<worker, completed>>
        /\ features' = AssignFeature(features, loop[l].id, ws)
    BY DEF MarksInProgress, At, WriteFeatures
  <1>2. StandsAt(loop[l], features) /\ Fresh(loop[l]) /\ loop[l] \in LoopRecord
        /\ w \in Workers /\ features \in Seq(Feature)
    BY <1>1, Record, AwaitedWorker DEF ProgressInv, IInv, FilesInv
  <1>3. ws # <<>> /\ ws[Len(ws)] = w
    <2>1. loop[l].snap \in Seq(Workers)
      BY <1>2 DEF LoopRecord
    <2> QED BY <1>2, <2>1
  <1>4. Open(features) = {} /\ Quiet(w)
    BY <1>1, <1>2 DEF StandsAt, Clear, Fresh
  <1> HIDE DEF ws
  <1>5. /\ OneRuns(features')
        /\ \A x \in Open(features') : /\ x.id = loop[l].id /\ x.workers = ws
                                      /\ LastWorker(x) = w
    BY <1>1, <1>2, <1>3, <1>4, AssignOpens DEF LastWorker
  <1> HIDE DEF w
  <1>6. HeldInv'
    <2>1. ASSUME NEW x \in Open(features')
          PROVE  Held(x)'
      <3>1. x.workers # <<>> /\ LastWorker(x) = w
        BY <1>3, <1>5
      <3> QED BY <1>1, <1>4, <3>1 DEF Held, Quiet
    <2> QED BY <1>1, <2>1 DEF ProgressInv, HeldInv
  <1>7. /\ loop'[l].pc = "prompt" /\ loop'[l].worker = w /\ loop'[l].id = loop[l].id
        /\ loop'[l].done = FALSE
    BY MarksEffect DEF w
  <1>8. StandsAt(loop'[l], features') /\ Fresh(loop[l])'
    BY <1>5, <1>7 DEF StandsAt, Clear, ValidationPC, Fresh
  <1>9. LoopStep(l)
    BY DEF LoopStep
  <1> QED BY <1>5, <1>6, <1>8, <1>9, ProgressLoop

LEMMA ProgressResumes ==
  ASSUME SInv, ProgressInv, NEW l \in Loops, ResumeLoads(l)
  PROVE  ProgressInv'
  <1> USE DEF SInv
  <1>1. /\ features' = features /\ loop[l].pc = "resume" /\ completed' = completed
        /\ StandsAt(loop[l], features) /\ loop[l].worker \in Workers
        /\ features \in Seq(Feature) /\ OneRuns(features) /\ HeldInv
    BY AwaitedWorker DEF ResumeLoads, At, ProgressInv, IInv, FilesInv
  <1>2. HeldInv'
    <2>1. \A w \in Workers :
             /\ worker'[w].phase \in Ending => worker[w].phase \in Ending
             /\ worker'[w].phase = "working" =>
                   worker[w].phase = "working" /\ worker'[w].task = worker[w].task
             /\ worker'[w].phase = "unborn" => worker[w].phase = "unborn"
      <3>1. CASE UNCHANGED worker
        BY <3>1
      <3>2. CASE worker' = [worker EXCEPT ![loop[l].worker] = Loaded(@)]
        <4>1. \A s \in WorkerRecord :
                 /\ Loaded(s).phase \in {"ready", "idle", s.phase}
                 /\ Loaded(s).task = s.task
          BY DEF Loaded, WorkerRecord
        <4>2. \A w \in Workers : worker[w] \in WorkerRecord
          BY DEF IInv, WorkersInv
        <4>3. \A w \in Workers : worker'[w] = worker[w] \/ worker'[w] = Loaded(worker[w])
          BY <3>2 DEF IInv, WorkersInv
        <4> QED BY <4>1, <4>2, <4>3 DEF Ending
      <3> QED BY <3>1, <3>2, ResumeLoadsEffect
    <2> QED BY <1>1, <2>1, HeldKept
  <1>3. CASE loop'[l].pc = "post"
    <2>1. loop'[l].out = "return" /\ loop'[l].pc = "post"
      BY <1>3, ResumeLoadsEffect
    <2>2. loop'[l].back = "finish"
      <3>1. CASE Return(l, "return", {})
        BY <3>1, ReturnFields
      <3>2. ASSUME NEW i \in InProgress(features),
                   loop' = [loop EXCEPT ![l].pc = "prompt", ![l].how = "resume",
                                        ![l].id = features[i].id,
                                        ![l].fail = "no", ![l].done = FALSE]
            PROVE  FALSE
        <4> DEFINE q == [loop[l] EXCEPT !.pc = "prompt", !.how = "resume",
                                        !.id = features[i].id, !.fail = "no", !.done = FALSE]
        <4>1. loop' = [loop EXCEPT ![l] = q]
          BY <3>2
        <4>2. q.pc = "prompt"
          BY Record DEF LoopRecord
        <4> HIDE DEF q
        <4> QED BY <2>1, <4>1, <4>2, RecordSet
      <3> QED BY <3>1, <3>2 DEF ResumeLoads
    <2>3. StandsAt(loop'[l], features') /\ Fresh(loop[l])'
      BY <2>1, <2>2, StandsReturned DEF Fresh
    <2> QED BY <1>1, <1>2, <2>3, ProgressLoop DEF LoopStep
  <1>4. CASE loop'[l].pc # "post"
    <2>1. /\ loop'[l].pc = "prompt" /\ loop'[l].done = FALSE
          /\ loop'[l].worker = loop[l].worker
          /\ \E i \in InProgress(features) : loop'[l].id = features[i].id
      BY <1>4, ResumeLoadsEffect
    <2>2. \A x \in Open(features) : x.id = loop'[l].id
      BY <1>1, <2>1, InProgressIs
    <2>3. StandsAt(loop'[l], features') /\ Fresh(loop[l])'
      BY <1>1, <2>1, <2>2 DEF StandsAt, Clear, ValidationPC, Fresh
    <2> QED BY <1>1, <1>2, <2>3, ProgressLoop DEF LoopStep
  <1> QED BY <1>3, <1>4

\* The prompt names the feature that is in progress.
LEMMA ProgressPrompts ==
  ASSUME SInv, ProgressInv, NEW l \in Loops, PromptSent(l) \/ PromptFails(l)
  PROVE  ProgressInv'
  <1> USE DEF SInv
  <1> DEFINE w == loop[l].worker
  <1>1. /\ features' = features /\ loop[l].pc = "prompt" /\ completed' = completed
        /\ StandsAt(loop[l], features) /\ Fresh(loop[l]) /\ w \in Workers
        /\ OneRuns(features) /\ HeldInv
    BY AwaitedWorker DEF PromptSent, PromptFails, At, ProgressInv
  <1>2. \/ UNCHANGED worker
        \/ worker' = [worker EXCEPT ![w].phase = "working", ![w].task = loop[l].id]
    BY DEF PromptSent, PromptFails
  <1>3. HeldInv'
    <2>1. CASE UNCHANGED worker
      BY <1>1, <2>1, HeldKept
    <2>2. CASE worker' = [worker EXCEPT ![w].phase = "working", ![w].task = loop[l].id]
      <3>1. /\ \A v \in Workers \ {w} : worker'[v] = worker[v]
            /\ worker'[w].phase = "working" /\ worker'[w].task = loop[l].id
        BY <1>1, <2>2 DEF IInv, WorkersInv, WorkerRecord
      <3>2. ASSUME NEW x \in Open(features)
            PROVE  Held(x)'
        <4>1. Held(x) /\ LastWorker(x) = w /\ x.id = loop[l].id
          BY <1>1 DEF HeldInv, StandsAt
        <4> QED BY <1>1, <3>1, <4>1 DEF Held, Ending
      <3> QED BY <1>1, <3>1, <3>2 DEF HeldInv
    <2> QED BY <1>2, <2>1, <2>2
  <1>4. \/ loop'[l].pc = "waiting" /\ loop'[l].worker = w /\ loop'[l].done = loop[l].done
        \/ loop'[l].pc = "dispatchFailed"
    BY GotoFields DEF PromptSent, PromptFails
  <1>5. StandsAt(loop'[l], features') /\ Fresh(loop[l])'
    BY <1>1, <1>4 DEF StandsAt, Clear, ValidationPC, Fresh
  <1>6. LoopStep(l)
    BY DEF LoopStep
  <1> QED BY <1>1, <1>3, <1>5, <1>6, ProgressLoop

-----------------------------------------------------------------------------
(* One feature at a time.                                                  *)

LEMMA ProgressNext ==
  ASSUME NoCutOff, "crash" \notin Faults, ~ResumeAny, PlainIds
  PROVE  PInv /\ [Next]_vars => PInv'
  <1> SUFFICES ASSUME PInv, [Next]_vars PROVE ProgressInv'
    BY RunNext, ValidationNext, OnceNext DEF PInv
  <1> USE DEF PInv
  <1>1. ASSUME NEW l \in Loops, LoopStep(l)
        PROVE  ProgressInv'
    BY <1>1, ProgressLaunches, ProgressStops, ProgressReturns, ProgressClear, ProgressTops,
       ProgressDispatches, ProgressWaits, ProgressSpawned, ProgressMarks, ProgressResumes,
       ProgressPrompts DEF LoopStep
  <1>2. ASSUME NEW l \in Loops, HandlerStep(l)
        PROVE  ProgressInv'
    <2>1. IInv /\ Offered /\ OneRuns(features)
      BY DEF SInv, ProgressInv
    <2>2. Shrinks(features', features) /\ SamePhases
      BY <1>2, <2>1, HandlerWrites
    <2>3. tool' = tool
      BY <1>2 DEF HandlerStep, Logs402, Pauses402, RequeuesFailed
    <2>4. Offered'
      BY <2>1, <2>2, <2>3, OfferedKept DEF Shrinks
    <2> QED BY <1>2, <2>1, <2>2, <2>4, HandlerPlace, ProgressUntouched
  <1>3. ASSUME NEW w \in Workers, WorkerStep(w)
        PROVE  ProgressInv'
    BY <1>3, ProgressWorkers
  <1>4. CASE Calls
    <2>1. UNCHANGED loop
      BY <1>4 DEF Calls, StartMissionRun, Abort, UserPauses, UserKills,
         OrchestratorCancels, OrchestratorAdds, Edit, OrchestratorDismisses
    <2>2. \A l \in Loops : SamePlace(loop'[l], loop[l])
      BY <2>1 DEF SamePlace
    <2> QED BY <1>4, <2>2, CallsWrite, CallsOffer, ProgressUntouched DEF SInv
  <1>5. CASE ToolStep \/ OpStep \/ Reload \/ UNCHANGED vars
    <2>1. /\ features' = features /\ UNCHANGED loop /\ SamePhases
          /\ \/ tool' = tool \/ tool' = NoTool
             \/ tool.pc \in {"grant", "run"} /\ tool'.resume = tool.resume
      BY <1>5, ToolWrites DEF SInv
    <2>2. \A l \in Loops : SamePlace(loop'[l], loop[l])
      BY <2>1 DEF SamePlace
    <2>3. Shrinks(features', features)
      BY <2>1, ShrinksItself
    <2>4. Offered'
      BY <2>1, OfferedKept DEF ProgressInv
    <2> QED BY <2>1, <2>2, <2>3, <2>4, ProgressUntouched DEF SInv
  <1>6. ~Crash
    BY DEF Crash
  <1> QED BY <1>1, <1>2, <1>3, <1>4, <1>5, <1>6 DEF Next

LEMMA ProgressInit ==
  ASSUME PlainIds, PlannedOnce
  PROVE  Init => PInv
  <1> SUFFICES ASSUME Init PROVE ProgressInv /\ Once(features, Ids)
    BY RunInit, ValidationInit DEF PInv
  <1>1. /\ DOMAIN features = DOMAIN Planned
        /\ \A i \in DOMAIN features : /\ features[i].id = Planned[i]
                                      /\ features[i].status = "pending"
    BY DEF Init, NewFeature
  <1>2. Once(features, Ids) /\ OneRuns(features) /\ Open(features) = {}
    BY <1>1 DEF Once, PlannedOnce, OneRuns, Open
  <1>3. HeldInv /\ Offered
    BY <1>2 DEF Init, HeldInv, Offered
  <1>4. ASSUME NEW l \in Loops
        PROVE  StandsAt(loop[l], features) /\ Fresh(loop[l])
    <2>1. loop[l].pc = "idle"
      BY DEF Init, Idle
    <2> QED BY <2>1 DEF StandsAt, Clear, ValidationPC, Fresh
  <1> QED BY <1>2, <1>3, <1>4 DEF ProgressInv

\* One feature is in progress at a time, and a loop that waits for a worker waits
\* for the one it is assigned to: cleanup, preemption, resume and requeue close what
\* is open before the runner opens another.
THEOREM OneFeatureInProgress ==
  ASSUME NoCutOff, "crash" \notin Faults, ~ResumeAny, PlainIds, PlannedOnce
  PROVE  Spec => []OneInProgress
  <1>1. Init => PInv
    BY ProgressInit
  <1>2. PInv /\ [Next]_vars => PInv'
    BY ProgressNext
  <1>3. PInv => OneInProgress
    <2> SUFFICES ASSUME PInv PROVE OneInProgress
      OBVIOUS
    <2> USE DEF PInv
    <2>1. \A i, j \in DOMAIN features :
             features[i].status = "in_progress" /\ features[j].status = "in_progress"
             => i = j
      BY DEF ProgressInv, OneRuns
    <2>2. ASSUME NEW l \in Loops, loop[l].pc = "waiting",
                 NEW i \in DOMAIN features, features[i].status = "in_progress"
          PROVE  LastWorker(features[i]) = loop[l].worker
      <3>1. features[i] \in Open(features)
        BY <2>2 DEF Open
      <3> QED BY <2>2, <3>1 DEF ProgressInv, StandsAt
    <2> QED BY <2>1, <2>2 DEF OneInProgress
  <1> QED BY <1>1, <1>2, <1>3, PTL DEF Spec

-----------------------------------------------------------------------------
(* The validators of a milestone keep their order.                         *)

DoneIn(f, id) == \E i \in DOMAIN f : f[i].id = id /\ IsDone(f[i])

\* The entry of id, if there is one, has a done entry of first or one above it.
Ahead(f, first, id) ==
    \A j \in DOMAIN f : f[j].id = id =>
        \E i \in DOMAIN f : f[i].id = first /\ (IsDone(f[i]) \/ i < j)

InLine(f, m) == Ahead(f, Scrutiny(m), UserTesting(m))

\* A write that takes nothing done back and lets no user testing overtake.
KeepsLine(g, f) ==
    /\ \A id : DoneIn(f, id) => DoneIn(g, id)
    /\ \A m \in Milestones : InLine(f, m) => InLine(g, m)

LEMMA LineItself == \A f : KeepsLine(f, f)
  BY DEF KeepsLine

LEMMA PointwiseLine ==
  ASSUME NEW f, NEW g, DOMAIN g = DOMAIN f,
         \A i \in DOMAIN f : g[i].id = f[i].id /\ (IsDone(f[i]) => IsDone(g[i]))
  PROVE  KeepsLine(g, f)
  <1>1. \A id : DoneIn(f, id) => DoneIn(g, id)
    BY DEF DoneIn
  <1>2. \A x, y : Ahead(f, x, y) => Ahead(g, x, y)
    BY DEF Ahead
  <1> QED BY <1>1, <1>2 DEF KeepsLine, InLine

LEMMA PermutedLine ==
  ASSUME NEW f \in Seq(Feature), NEW p \in [DOMAIN f -> DOMAIN f], Injective(p),
         \A i, j \in DOMAIN f : p[i] < p[j] /\ ~IsDone(f[p[i]]) => i < j
  PROVE  KeepsLine([i \in DOMAIN f |-> f[p[i]]], f)
  <1> DEFINE g == [i \in DOMAIN f |-> f[p[i]]]
  <1>1. \A j \in DOMAIN f : \E i \in DOMAIN f : p[i] = j
    BY Onto
  <1>2. DOMAIN g = DOMAIN f /\ \A i \in DOMAIN f : g[i] = f[p[i]] /\ p[i] \in DOMAIN f
    OBVIOUS
  <1> HIDE DEF g
  <1>3. \A id : DoneIn(f, id) => DoneIn(g, id)
    BY <1>1, <1>2 DEF DoneIn
  <1>4. ASSUME NEW x, NEW y, Ahead(f, x, y), NEW j \in DOMAIN f, g[j].id = y
        PROVE  \E i \in DOMAIN f : g[i].id = x /\ (IsDone(g[i]) \/ i < j)
    <2>1. PICK k \in DOMAIN f : f[k].id = x /\ (IsDone(f[k]) \/ k < p[j])
      BY <1>2, <1>4 DEF Ahead
    <2>2. PICK i \in DOMAIN f : p[i] = k
      BY <1>1
    <2>3. g[i] = f[k]
      BY <1>2, <2>2
    <2>4. ~IsDone(f[k]) => i < j
      <3>1. ~IsDone(f[k]) => p[i] < p[j] /\ ~IsDone(f[p[i]])
        BY <2>1, <2>2
      <3> QED BY <3>1
    <2> QED BY <2>1, <2>3, <2>4
  <1>5. ASSUME NEW x, NEW y, Ahead(f, x, y)
        PROVE  Ahead(g, x, y)
    <2>1. DOMAIN g = DOMAIN f
      BY <1>2
    <2>2. \A j \in DOMAIN f : g[j].id = y =>
             \E i \in DOMAIN f : g[i].id = x /\ (IsDone(g[i]) \/ i < j)
      BY <1>4, <1>5
    <2> QED BY <2>1, <2>2 DEF Ahead
  <1>6. KeepsLine(g, f)
    BY <1>3, <1>5 DEF KeepsLine, InLine
  <1> QED BY <1>6 DEF g

\* What is done, or below something active, is not taken above it.
LEMMA StrandedLine ==
  ASSUME NEW f \in Seq(Feature), NEW p, MovesStranded(f, p)
  PROVE  KeepsLine([i \in DOMAIN f |-> f[p[i]]], f)
  <1>1. p \in [DOMAIN f -> DOMAIN f] /\ Injective(p)
    BY StrandedInjective
  <1>2. ASSUME NEW i \in DOMAIN f, NEW j \in DOMAIN f, p[i] < p[j], ~IsDone(f[p[i]])
        PROVE  i < j
    <2>1. i \in Nat /\ j \in Nat /\ p[i] \in Nat /\ p[j] \in Nat
      BY <1>1
    <2>2. p[i] \notin Stranded(f)
      BY <1>2 DEF Stranded
    <2>3. i # j
      BY <1>2, <2>1
    <2>4. CASE j < i
      <3>1. IF (p[j] \in Stranded(f)) = (p[i] \in Stranded(f))
            THEN p[j] < p[i] ELSE p[i] \in Stranded(f)
        BY <2>4 DEF MovesStranded
      <3> QED BY <1>2, <2>1, <2>2, <3>1
    <2> QED BY <2>1, <2>3, <2>4
  <1> QED BY <1>1, <1>2, PermutedLine

\* A done feature goes to the bottom.
LEMMA MovedLine ==
  ASSUME NEW f \in Seq(Feature), NEW id, \A k \in FirstId(f, id) : IsDone(f[k])
  PROVE  KeepsLine(MoveFeatureToBottom(f, id), f)
  <1> DEFINE p == From(f, id)
  <1>1. /\ p \in [DOMAIN f -> DOMAIN f] /\ Injective(p)
        /\ MoveFeatureToBottom(f, id) = [i \in DOMAIN f |-> f[p[i]]]
    BY MovedFrom
  <1>2. ASSUME NEW i \in DOMAIN f, NEW j \in DOMAIN f, p[i] < p[j], ~IsDone(f[p[i]])
        PROVE  i < j
    <2>1. DOMAIN f = 1..Len(f) /\ Len(f) \in Nat
      OBVIOUS
    <2>2. CASE FirstId(f, id) = {}
      BY <1>2, <2>2 DEF From
    <2>3. CASE FirstId(f, id) # {}
      <3>1. PICK k \in FirstId(f, id) : TRUE
        BY <2>3
      <3>2. FirstId(f, id) = {k} /\ k \in DOMAIN f
        BY <3>1, FirstIdOne DEF FirstId
      <3>3. \A n \in DOMAIN f : p[n] = IF n >= k THEN IF n = Len(f) THEN k ELSE n + 1
                                       ELSE n
        BY <3>2 DEF From
      <3>4. p[i] # k
        BY <1>2, <3>1
      <3> HIDE DEF p
      <3> QED BY <1>2, <2>1, <3>2, <3>3, <3>4
    <2> QED BY <2>2, <2>3
  <1> HIDE DEF p
  <1> QED BY <1>1, <1>2, PermutedLine

\* A new entry at the top overtakes what it is not waiting for.
LEMMA InsertedLine ==
  ASSUME NEW f \in Seq(Feature), NEW z \in Ids
  PROVE  LET g == InsertFeatureAtTop(f, z)
         IN /\ \A id : DoneIn(f, id) => DoneIn(g, id)
            /\ \A x, y : y # z /\ (Ahead(f, x, y) \/ x = z) => Ahead(g, x, y)
  <1> DEFINE g == InsertFeatureAtTop(f, z)
  <1>1. /\ DOMAIN f = 1..Len(f) /\ Len(f) \in Nat
        /\ DOMAIN g = 1..(Len(f) + 1)
        /\ g[1].id = z
        /\ \A i \in DOMAIN f : g[i + 1] = f[i]
    BY DEF InsertFeatureAtTop, NewFeature, Feature, FeatureStatus
  <1> HIDE DEF g
  <1>2. \A i \in DOMAIN f : i + 1 \in DOMAIN g /\ g[i + 1] = f[i]
    BY <1>1
  <1>3. ASSUME NEW id, DoneIn(f, id)
        PROVE  DoneIn(g, id)
    BY <1>2, <1>3 DEF DoneIn
  <1>4. ASSUME NEW x, NEW y, y # z, Ahead(f, x, y) \/ x = z,
               NEW j \in DOMAIN g, g[j].id = y
        PROVE  \E i \in DOMAIN g : g[i].id = x /\ (IsDone(g[i]) \/ i < j)
    <2>1. j - 1 \in DOMAIN f /\ f[j - 1] = g[j] /\ j \in Nat /\ 1 < j /\ 1 \in DOMAIN g
      BY <1>1, <1>4
    <2>2. CASE x = z
      BY <1>1, <2>1, <2>2
    <2>3. CASE Ahead(f, x, y)
      <3>1. PICK i \in DOMAIN f : f[i].id = x /\ (IsDone(f[i]) \/ i < j - 1)
        BY <1>4, <2>1, <2>3 DEF Ahead
      <3>2. i + 1 \in DOMAIN g /\ g[i + 1] = f[i]
        BY <1>2
      <3>3. i < j - 1 => i + 1 < j
        BY <1>1, <2>1
      <3> QED BY <3>1, <3>2, <3>3
    <2> QED BY <1>4, <2>2, <2>3
  <1>5. \A x, y : y # z /\ (Ahead(f, x, y) \/ x = z) => Ahead(g, x, y)
    BY <1>4 DEF Ahead
  <1> QED BY <1>3, <1>5 DEF g

\* A change of status, of what is not done or to what is.
LEMMA UpdatedLine ==
  ASSUME NEW f \in Seq(Feature), NEW id, NEW status,
         \/ status \in {"completed", "cancelled"}
         \/ \A i \in FirstId(f, id) : ~IsDone(f[i])
  PROVE  KeepsLine(UpdateFeature(f, id, status), f)
  <1> DEFINE g == UpdateFeature(f, id, status)
  <1>1. ASSUME NEW i \in DOMAIN f
        PROVE  g[i].id = f[i].id /\ (IsDone(f[i]) => IsDone(g[i]))
    <2>1. g[i] = IF i \in FirstId(f, id) THEN [f[i] EXCEPT !.status = status] ELSE f[i]
      BY DEF UpdateFeature
    <2>2. f[i] \in Feature
      OBVIOUS
    <2>3. [f[i] EXCEPT !.status = status].id = f[i].id
          /\ [f[i] EXCEPT !.status = status].status = status
      BY <2>2 DEF Feature
    <2> HIDE DEF g
    <2> QED BY <2>1, <2>3 DEF IsDone
  <1>2. DOMAIN g = DOMAIN f
    BY DEF UpdateFeature
  <1> HIDE DEF g
  <1>3. KeepsLine(g, f)
    BY <1>1, <1>2, PointwiseLine
  <1> QED BY <1>3 DEF g

LEMMA RequeuedLine ==
  ASSUME NEW f \in Seq(Feature), NEW id, NEW w
  PROVE  KeepsLine(Requeue(f, id, w), f)
  <1>1. ASSUME NEW x, Requeueable(f, x, w)
        PROVE  KeepsLine(UpdateFeature(f, x, "pending"), f)
    <2>1. \A i \in FirstId(f, x) : ~IsDone(f[i])
      BY <1>1, FirstIdOne DEF Requeueable, IsDone
    <2> QED BY <2>1, UpdatedLine
  <1>2. \/ Requeue(f, id, w) = f
        \/ \E x : Requeueable(f, x, w) /\ Requeue(f, id, w) = UpdateFeature(f, x, "pending")
    <2>1. CASE id # None /\ Requeueable(f, id, w)
      BY <2>1 DEF Requeue
    <2>2. CASE /\ ~(id # None /\ Requeueable(f, id, w))
               /\ w # None /\ \E other \in Ids : Requeueable(f, other, w)
      <3> DEFINE x == CHOOSE other \in Ids : Requeueable(f, other, w)
      <3>1. Requeueable(f, x, w)
        BY <2>2
      <3>2. Requeue(f, id, w) = UpdateFeature(f, x, "pending")
        BY <2>2 DEF Requeue
      <3> HIDE DEF x
      <3> QED BY <3>1, <3>2
    <2>3. CASE /\ ~(id # None /\ Requeueable(f, id, w))
               /\ ~(w # None /\ \E other \in Ids : Requeueable(f, other, w))
      BY <2>3 DEF Requeue
    <2> QED BY <2>1, <2>2, <2>3
  <1> QED BY <1>1, <1>2, LineItself

LEMMA AssignedLine ==
  ASSUME NEW f \in Seq(Feature), NEW id, NEW workers,
         \A i \in FirstId(f, id) : ~IsDone(f[i])
  PROVE  KeepsLine(AssignFeature(f, id, workers), f)
  <1> DEFINE g == AssignFeature(f, id, workers)
  <1>1. ASSUME NEW i \in DOMAIN f
        PROVE  g[i].id = f[i].id /\ (IsDone(f[i]) => IsDone(g[i]))
    <2>1. g[i] = IF i \in FirstId(f, id)
                 THEN [f[i] EXCEPT !.status = "in_progress", !.workers = workers] ELSE f[i]
      BY DEF AssignFeature
    <2>2. f[i] \in Feature
      OBVIOUS
    <2>3. [f[i] EXCEPT !.status = "in_progress", !.workers = workers].id = f[i].id
      BY <2>2 DEF Feature
    <2> HIDE DEF g
    <2> QED BY <2>1, <2>3
  <1>2. DOMAIN g = DOMAIN f
    BY DEF AssignFeature
  <1> HIDE DEF g
  <1>3. KeepsLine(g, f)
    BY <1>1, <1>2, PointwiseLine
  <1> QED BY <1>3 DEF g

LEMMA CancelledLine ==
  ASSUME NEW f \in Seq(Feature), NEW i \in DOMAIN f
  PROVE  KeepsLine([f EXCEPT ![i].status = "cancelled"], f)
  <1> DEFINE g == [f EXCEPT ![i].status = "cancelled"]
  <1>1. DOMAIN g = DOMAIN f /\ \A j \in DOMAIN f \ {i} : g[j] = f[j]
    OBVIOUS
  <1>2. g[i].id = f[i].id /\ g[i].status = "cancelled"
    <2>1. f[i] \in Feature /\ g[i] = [f[i] EXCEPT !.status = "cancelled"]
      OBVIOUS
    <2> HIDE DEF g
    <2> QED BY <2>1 DEF Feature
  <1> HIDE DEF g
  <1>3. KeepsLine(g, f)
    BY <1>1, <1>2, PointwiseLine DEF IsDone
  <1> QED BY <1>3 DEF g

-----------------------------------------------------------------------------
(* What the steps write keeps the line.                                    *)

LineInv ==
    /\ \A m \in Milestones :
          \/ InLine(features, m)
          \/ \E l \in Loops : loop[l].pc = "insertScrutiny" /\ loop[l].id = UserTesting(m)
    /\ \A l \in Loops, m \in Milestones :
          loop[l].pc \in {"spawnRpc", "mark"} /\ loop[l].id = UserTesting(m) =>
             DoneIn(features, Scrutiny(m))
    /\ \A w \in Workers :
          worker[w].phase = "moving" => DoneIn(features, worker[w].task)

LEMMA FoundNotDone ==
  ASSUME NEW f \in Seq(Feature), Once(f, Ids), NEW id \in Ids,
         Holds(f, id, "pending") \/ Holds(f, id, "in_progress")
  PROVE  \A i \in FirstId(f, id) : ~IsDone(f[i])
  <1>1. PICK i \in DOMAIN f : f[i].id = id /\ f[i].status \in {"pending", "in_progress"}
    BY DEF Holds
  <1>2. FirstId(f, id) = {i}
    BY <1>1, FoundIsIt
  <1> QED BY <1>1, <1>2 DEF IsDone

LEMMA LoopLine ==
  ASSUME DInv, TaskInv, NEW l \in Loops, LoopStep(l) \/ HandlerStep(l),
         ~InsertsUserTesting(l), ~InsertsScrutiny(l)
  PROVE  KeepsLine(features', features)
  <1> USE DEF DInv, BInv, SInv
  <1>1. features \in Seq(Feature)
    BY DEF IInv, FilesInv
  <1>2. CASE MarksInProgress(l)
    <2>1. /\ loop[l].pc = "mark" /\ loop[l].id \in Ids
          /\ features' = AssignFeature(features, loop[l].id,
                                       Append(loop[l].snap, loop[l].worker))
      BY <1>2 DEF MarksInProgress, At, WriteFeatures, IInv, LoopsInv, LoopOK
    <2>2. Holds(features, loop[l].id, "pending")
      BY <2>1 DEF TaskInv, TaskOK
    <2> QED BY <1>1, <2>1, <2>2, FoundNotDone, AssignedLine
  <1>3. CASE Cleanup(l) \/ Preempts(l) \/ DispatchFails(l) \/ RequeuesFailed(l)
    <2>1. features' = features \/ \E id, w : features' = Requeue(features, id, w)
      BY <1>3 DEF Cleanup, Preempts, DispatchFails, RequeuesFailed, WriteFeatures
    <2> QED BY <1>1, <2>1, RequeuedLine, LineItself
  <1>4. CASE /\ ~Cleanup(l) /\ ~Preempts(l) /\ ~DispatchFails(l) /\ ~RequeuesFailed(l)
             /\ ~MarksInProgress(l)
    <2>1. features' = features
      BY <1>4 DEF LoopStep, HandlerStep, ToolLaunches, LoopStops, LoopAborts,
         LoopReopens, LoopSetsRunning, LoopDispatches, SpawnReads,
         ExhaustedLogs, ExhaustedPauses, SessionSpawned, SpawnFails,
         ResumeLoads, ResumeFails, PromptSent, PromptFails, Notified, WaitEnds, Posts,
         Checks, MarksValidated, Finishes, Rechecks,
         SetsCompleted, SetsOrchestratorTurn, LoopEndsWith, LoopPauseLogs, LoopPauses,
         Exits, Logs402, Pauses402
    <2> QED BY <2>1, LineItself
  <1> QED BY <1>2, <1>3, <1>4

\* What a worker reports on is in progress: nothing else is under its loop.
LEMMA EndsOpen ==
  ASSUME DInv, TaskInv, NEW w \in Workers, NEW id \in Ids, NEW report \in Reports,
         Ends(w, id, report)
  PROVE  Holds(features, id, "in_progress")
  <1> USE DEF DInv, BInv, SInv
  <1>1. Working(w) /\ Busy(w)
    BY DEF Ends, Working, Busy
  <1>2. PICK l \in Loops : Hears(loop[l], handler[l], note[l], w)
    BY <1>1 DEF BusyInv
  <1>3. worker[w].task = loop[l].id /\ Holds(features, worker[w].task, "in_progress")
    BY <1>1, <1>2 DEF Hears, TaskInv, TaskOK
  <1> QED BY <1>3 DEF Ends, Holds, InProgress, FirstWith

LEMMA WorkerLine ==
  ASSUME DInv, TaskInv, LineInv, NEW w \in Workers, WorkerStep(w)
  PROVE  KeepsLine(features', features)
  <1> USE DEF DInv, BInv, SInv
  <1>1. features \in Seq(Feature)
    BY DEF IInv, FilesInv
  <1>2. ASSUME NEW id \in Ids, NEW report \in Reports, Ends(w, id, report)
        PROVE  KeepsLine(features', features)
    <2>1. \A i \in FirstId(features, id) : ~IsDone(features[i])
      BY <1>1, <1>2, EndsOpen, FoundNotDone
    <2>2. PICK s : features' = UpdateFeature(features, id, s)
      BY <1>2 DEF Ends, WriteFeatures
    <2> QED BY <1>1, <2>1, <2>2, UpdatedLine
  <1>3. CASE MovesToBottom(w)
    <2>1. /\ features' = MoveFeatureToBottom(features, worker[w].task)
          /\ DoneIn(features, worker[w].task)
      BY <1>3 DEF MovesToBottom, WriteFeatures, LineInv
    <2>2. PICK i \in DOMAIN features : /\ features[i].id = worker[w].task
                                       /\ IsDone(features[i])
      BY <2>1 DEF DoneIn
    <2>3. worker[w].task \in Ids
      <3>1. features[i] \in Feature
        BY <1>1
      <3> QED BY <2>2, <3>1 DEF Feature
    <2>4. FirstId(features, worker[w].task) = {i}
      BY <1>1, <2>2, <2>3, FoundIsIt
    <2> QED BY <1>1, <2>1, <2>2, <2>4, MovedLine
  <1>4. CASE \/ ReturnsToOrchestrator(w) \/ LogsCompleted(w) \/ Signals402(w)
             \/ WorkerExits(w) \/ SessionExpires(w) \/ Obeys(w)
    <2>1. features' = features
      BY <1>4 DEF ReturnsToOrchestrator, LogsCompleted, Signals402, WorkerExits,
         SessionExpires, Obeys
    <2> QED BY <2>1, LineItself
  <1> QED BY <1>2, <1>3, <1>4 DEF WorkerStep

LEMMA CallsLine ==
  ASSUME DInv, PlainIds, Calls
  PROVE  KeepsLine(features', features)
  <1> USE DEF DInv, BInv, SInv
  <1>1. features \in Seq(Feature)
    BY DEF IInv, FilesInv
  <1>2. ASSUME NEW explicit, NEW restart, StartMissionRun(explicit, restart)
        PROVE  KeepsLine(features', features)
    <2>1. PICK p : /\ MovesStranded(features, p)
                   /\ features' = [i \in DOMAIN features |-> features[p[i]]]
      BY <1>2 DEF StartMissionRun, WriteFeatures
    <2> QED BY <1>1, <2>1, StrandedLine
  <1>3. CASE Abort \/ UserPauses \/ OrchestratorDismisses
    <2>1. features' = features
      BY <1>3 DEF Abort, UserPauses, OrchestratorDismisses
    <2> QED BY <2>1, LineItself
  <1>4. ASSUME NEW w \in Workers, UserKills(w)
        PROVE  KeepsLine(features', features)
    <2>1. features' = features \/ \E id : features' = Requeue(features, id, w)
      BY <1>4 DEF UserKills, WriteFeatures
    <2> QED BY <1>1, <2>1, RequeuedLine, LineItself
  <1>5. ASSUME NEW i \in DOMAIN features, OrchestratorCancels(i)
        PROVE  KeepsLine(features', features)
    <2>1. features' = [features EXCEPT ![i].status = "cancelled"]
      BY <1>5 DEF OrchestratorCancels, Edit, WriteFeatures
    <2> QED BY <1>1, <2>1, CancelledLine
  <1>6. ASSUME NEW id \in Extra, OrchestratorAdds(id)
        PROVE  KeepsLine(features', features)
    <2>1. features' = InsertFeatureAtTop(features, id) /\ id \in Ids /\ id \in Features
      BY <1>6, RunAssumption DEF OrchestratorAdds, Edit, WriteFeatures, Ids
    <2>2. \A m \in Milestones : UserTesting(m) # id
      BY <2>1 DEF PlainIds, ValidatorIds
    <2> QED BY <1>1, <2>1, <2>2, InsertedLine DEF KeepsLine, InLine
  <1> QED BY <1>2, <1>3, <1>4, <1>5, <1>6 DEF Calls

\* A session is about to move its feature only after it reported on it.
LEMMA MovingSince ==
  ASSUME DInv, Calm, [Next]_vars, NEW w \in Workers, worker'[w].phase = "moving"
  PROVE  \/ worker[w].phase = "moving" /\ worker'[w].task = worker[w].task
         \/ \E id \in Ids, report \in Reports : Ends(w, id, report)
  <1> USE DEF DInv, BInv, SInv
  <1>0. worker \in [Workers -> WorkerRecord]
    BY DEF IInv, WorkersInv
  <1>1. CASE SamePhases
    BY <1>1 DEF SamePhases
  <1>2. ASSUME NEW l \in Loops, LoopStep(l)
        PROVE  worker[w].phase = "moving" /\ worker'[w].task = worker[w].task
    <2>1. CASE Tells(l)
      BY <2>1, TellsPhases DEF SamePhases
    <2>2. CASE SessionSpawned(l)
      <3>1. PICK v \in Workers : worker' = [worker EXCEPT ![v].phase = "ready"]
        BY <2>2 DEF SessionSpawned, Unborn
      <3> QED BY <1>0, <3>1 DEF WorkerRecord
    <2>3. CASE MarksInProgress(l)
      BY <2>3 DEF MarksInProgress
    <2>4. CASE ResumeLoads(l)
      <3>1. CASE UNCHANGED worker
        BY <3>1
      <3>2. CASE worker' = [worker EXCEPT ![loop[l].worker] = Loaded(@)]
        <4>1. loop[l].worker = w => worker'[w] = Loaded(worker[w])
          BY <1>0, <3>2
        <4>2. loop[l].worker # w => worker'[w] = worker[w]
          BY <1>0, <3>2
        <4>3. worker[w] \in WorkerRecord
          BY <1>0
        <4>4. /\ Loaded(worker[w]).task = worker[w].task
              /\ Loaded(worker[w]).phase \in {"ready", "idle", worker[w].phase}
          BY <4>3 DEF Loaded, WorkerRecord
        <4> QED BY <4>1, <4>2, <4>4
      <3> QED BY <2>4, <3>1, <3>2, ResumeLoadsEffect
    <2>5. CASE PromptSent(l)
      <3>1. worker' = [worker EXCEPT ![loop[l].worker].phase = "working",
                                     ![loop[l].worker].task = loop[l].id]
        BY <2>5 DEF PromptSent
      <3> QED BY <1>0, <3>1 DEF WorkerRecord
    <2>6. CASE PromptFails(l)
      <3>1. \/ UNCHANGED worker
            \/ worker' = [worker EXCEPT ![loop[l].worker].phase = "working",
                                        ![loop[l].worker].task = loop[l].id]
        BY <2>6 DEF PromptFails
      <3> QED BY <1>0, <3>1 DEF WorkerRecord
    <2> QED BY <1>2, <2>1, <2>2, <2>3, <2>4, <2>5, <2>6 DEF LoopStep, Tells
  <1>3. ASSUME NEW v \in Workers, WorkerStep(v)
        PROVE  \/ worker[w].phase = "moving" /\ worker'[w].task = worker[w].task
               \/ \E id \in Ids, report \in Reports : Ends(w, id, report)
    <2>1. CASE v # w
      BY <1>3, <2>1, WorkerPhases
    <2>2. CASE v = w
      <3>1. CASE \/ MovesToBottom(w) \/ ReturnsToOrchestrator(w) \/ LogsCompleted(w)
                 \/ Signals402(w) \/ WorkerExits(w) \/ SessionExpires(w)
        <4>1. worker'[w].phase # "moving"
          BY <1>0, <3>1 DEF MovesToBottom, ReturnsToOrchestrator, LogsCompleted,
             Signals402, WorkerExits, SessionExpires, WorkerRecord
        <4> QED BY <4>1
      <3>2. CASE Obeys(w)
        BY <1>0, <3>2 DEF Obeys, WorkerRecord
      <3> QED BY <1>3, <2>2, <3>1, <3>2 DEF WorkerStep
    <2> QED BY <2>1, <2>2
  <1>4. ~Crash
    BY CalmMeans DEF Crash
  <1>5. CASE ToolStep \/ OpStep \/ Reload \/ UNCHANGED vars
    BY <1>1, <1>5, ToolWrites
  <1>6. CASE Calls
    BY <1>1, <1>6, CallsWrite
  <1>7. ASSUME NEW l \in Loops, HandlerStep(l)
        PROVE  SamePhases
    BY <1>7, HandlerWrites
  <1> QED BY <1>1, <1>2, <1>3, <1>4, <1>5, <1>6, <1>7 DEF Next

LEMMA LineMoving ==
  ASSUME DInv, TaskInv, LineInv, Calm, [Next]_vars,
         \A id : DoneIn(features, id) => DoneIn(features', id),
         NEW w \in Workers, worker'[w].phase = "moving"
  PROVE  DoneIn(features', worker'[w].task)
  <1> USE DEF DInv, BInv, SInv
  <1>1. CASE worker[w].phase = "moving" /\ worker'[w].task = worker[w].task
    BY <1>1 DEF LineInv
  <1>2. ASSUME NEW id \in Ids, NEW report \in Reports, Ends(w, id, report)
        PROVE  DoneIn(features', worker'[w].task)
    <2>1. features \in Seq(Feature) /\ worker \in [Workers -> WorkerRecord]
      BY DEF IInv, FilesInv, WorkersInv
    <2>2. PICK i \in DOMAIN features :
             features[i].id = id /\ features[i].status = "in_progress"
      BY <1>2, EndsOpen DEF Holds
    <2>3. FirstId(features, id) = {i}
      BY <2>1, <2>2, FoundIsIt
    <2>4. worker'[w].task = id
          /\ (Succeeds(report) \/ worker'[w].phase = "returning")
      BY <1>2, <2>1 DEF Ends, WorkerRecord
    <2>5. features' = UpdateFeature(features, id, "completed")
      BY <1>2, <2>4 DEF Ends, WriteFeatures
    <2>6. features'[i] = [features[i] EXCEPT !.status = "completed"] /\ i \in DOMAIN features'
      BY <2>2, <2>3, <2>5 DEF UpdateFeature
    <2>7. features[i] \in Feature
      BY <2>1
    <2>8. features'[i].id = id /\ features'[i].status = "completed"
      BY <2>2, <2>6, <2>7 DEF Feature
    <2> QED BY <2>4, <2>6, <2>8 DEF DoneIn, IsDone
  <1> QED BY <1>1, <1>2, MovingSince

\* A user testing that is picked is the first pending entry: with nothing in
\* progress, the scrutiny above it is done.
LEMMA LinePicks ==
  ASSUME DInv, PInv, LineInv, NEW l \in Loops, SpawnReads(l), NEW m \in Milestones,
         loop'[l].pc = "spawnRpc", loop'[l].id = UserTesting(m)
  PROVE  DoneIn(features, Scrutiny(m))
  <1> USE DEF DInv, BInv, SInv
  <1>1. loop[l].pc = "spawn"
    BY DEF SpawnReads, At
  <1>2. Open(features) = {}
    BY <1>1 DEF PInv, ProgressInv, StandsAt, Clear
  <1>3. PICK j \in NextPending(features) : features[j].id = UserTesting(m)
    BY SpawnReadsEffect
  <1>4. \A k \in Loops : loop[k].pc # "insertScrutiny"
    BY <1>1 DEF CallInv
  <1>5. InLine(features, m)
    BY <1>4 DEF LineInv
  <1>6. /\ features \in Seq(Feature)
        /\ j \in DOMAIN features
        /\ \A i \in 1..(j-1) : features[i].status # "pending"
    BY <1>3 DEF NextPending, FirstWith, IInv, FilesInv
  <1>7. PICK i \in DOMAIN features : /\ features[i].id = Scrutiny(m)
                                     /\ IsDone(features[i]) \/ i < j
    BY <1>3, <1>5, <1>6 DEF InLine, Ahead
  <1>8. CASE i < j
    <2>1. i \in 1..(j-1) /\ features[i] \in Feature
      BY <1>6, <1>8
    <2>2. features[i].status # "pending"
      BY <1>6, <2>1
    <2>3. features[i].status # "in_progress"
      BY <1>2 DEF Open
    <2>4. IsDone(features[i])
      BY <2>1, <2>2, <2>3 DEF Feature, FeatureStatus, IsDone
    <2> QED BY <1>7, <2>4 DEF DoneIn
  <1> QED BY <1>7, <1>8 DEF DoneIn

LEMMA LineStarts ==
  ASSUME DInv, PInv, LineInv, Calm, [Next]_vars,
         \A id : DoneIn(features, id) => DoneIn(features', id),
         NEW l \in Loops, NEW m \in Milestones,
         loop'[l].pc \in {"spawnRpc", "mark"}, loop'[l].id = UserTesting(m)
  PROVE  DoneIn(features', Scrutiny(m))
  <1> USE DEF DInv, BInv, SInv
  <1>1. CASE LoopStep(l)
    <2>1. CASE SpawnReads(l)
      <3>1. loop'[l].pc = "spawnRpc"
        BY <2>1, SpawnReadsEffect
      <3> QED BY <2>1, <3>1, LinePicks
    <2>2. CASE SessionSpawned(l)
      <3>1. loop[l].pc = "spawnRpc" /\ loop'[l].id = loop[l].id
        BY <2>2, SpawnedEffect DEF SessionSpawned, At
      <3> QED BY <3>1 DEF LineInv
    <2>3. CASE MarksInProgress(l)
      BY <2>3, MarksEffect
    <2>4. CASE ResumeLoads(l)
      BY <2>4, ResumeLoadsEffect
    <2>5. CASE PromptSent(l)
      <3>1. loop'[l].pc = "waiting"
        BY <2>5, GotoFields DEF PromptSent
      <3> QED BY <3>1
    <2>6. CASE Notified(l)
      <3>1. loop[l].pc = "waiting"
        BY <2>6 DEF Notified, At
      <3>2. UNCHANGED loop \/ loop' = [loop EXCEPT ![l].done = TRUE]
        BY <2>6, NotifiedEffect DEF Completes, Handles
      <3>3. loop'[l].pc = "waiting"
        BY <3>1, <3>2 DEF IInv, LoopsInv, LoopOK, LoopRecord
      <3> QED BY <3>3
    <2>7. CASE Finishes(l) \/ Rechecks(l)
      BY <2>7, EndEffect
    <2> QED BY <1>1, <2>1, <2>2, <2>3, <2>4, <2>5, <2>6, <2>7, TaskLeft DEF TaskPC
  <1>2. CASE ~LoopStep(l) /\ loop[l].pc # "idle"
    <2>1. loop'[l].pc = loop[l].pc /\ loop'[l].id = loop[l].id
      BY <1>2, WhoWrites
    <2> QED BY <2>1 DEF LineInv
  <1>3. CASE ~LoopStep(l) /\ loop[l].pc = "idle"
    BY <1>3, IdleStays
  <1> QED BY <1>1, <1>2, <1>3

\* The two inserts: between them the loop stands for the milestone, after them
\* the scrutiny is at the top.
LEMMA LineInserts ==
  ASSUME DInv, LineInv, PlainIds, ~SkipScrutiny, NEW l \in Loops,
         InsertsUserTesting(l) \/ InsertsScrutiny(l)
  PROVE  /\ \A id : DoneIn(features, id) => DoneIn(features', id)
         /\ \A n \in Milestones :
               \/ InLine(features', n)
               \/ loop'[l].pc = "insertScrutiny" /\ loop'[l].id = UserTesting(n)
  <1> USE DEF DInv, BInv, SInv
  <1>1. loop[l].pc \in {"insertUserTesting", "insertScrutiny"}
        /\ loop[l].pc \in ValidationPC
    BY DEF InsertsUserTesting, InsertsScrutiny, At, ValidationPC
  <1>2. PICK m \in Milestones : loop[l].id = UserTesting(m)
    BY <1>1 DEF ValidationInv
  <1>3. Validating(l) = m
    BY <1>2, ValidatorOf DEF Validating
  <1>4. features \in Seq(Feature)
    BY DEF IInv, FilesInv
  <1>5. \A n \in Milestones : n # m => InLine(features, n)
    <2>1. \A k \in Loops \ {l} : loop[k].pc = "idle"
      BY <1>1 DEF CallInv
    <2> QED BY <1>2, <2>1, ValidatorOf DEF LineInv
  <1>6. CASE InsertsUserTesting(l)
    <2>1. /\ loop[l].pc = "insertUserTesting" /\ Goto(l, "insertScrutiny")
          /\ \/ features' = features
             \/ features' = InsertFeatureAtTop(features, UserTesting(m))
      BY <1>3, <1>6 DEF InsertsUserTesting, At, WriteFeatures
    <2>2. loop'[l].pc = "insertScrutiny" /\ loop'[l].id = UserTesting(m)
      BY <1>2, <2>1, GotoFields
    <2>3. CASE features' = features
      BY <1>5, <2>2, <2>3
    <2>4. CASE features' = InsertFeatureAtTop(features, UserTesting(m))
      <3>1. UserTesting(m) \in Ids
        BY ValidatorOf
      <3>2. \A n \in Milestones : n # m => InLine(features', n)
        BY <1>4, <1>5, <2>4, <3>1, InsertedLine, ValidatorOf DEF InLine
      <3>3. \A id : DoneIn(features, id) => DoneIn(features', id)
        BY <1>4, <2>4, <3>1, InsertedLine
      <3> QED BY <2>2, <3>2, <3>3
    <2> QED BY <2>1, <2>3, <2>4
  <1>7. CASE InsertsScrutiny(l)
    <2>1. features' = InsertFeatureAtTop(features, Scrutiny(m))
      BY <1>3, <1>7 DEF InsertsScrutiny, At, WriteFeatures
    <2>2. Scrutiny(m) \in Ids /\ \A n \in Milestones : Scrutiny(m) # UserTesting(n)
      BY ValidatorOf
    <2>3. \A n \in Milestones : InLine(features', n)
      BY <1>4, <1>5, <2>1, <2>2, InsertedLine DEF InLine
    <2>4. \A id : DoneIn(features, id) => DoneIn(features', id)
      BY <1>4, <2>1, <2>2, InsertedLine
    <2> QED BY <2>3, <2>4
  <1> QED BY <1>6, <1>7

LEMMA LineNext ==
  ASSUME Calm, ~ResumeAny, ~SkipScrutiny, PlainIds
  PROVE  DInv /\ TaskInv /\ PInv /\ LineInv /\ [Next]_vars => LineInv'
  <1> SUFFICES ASSUME DInv, TaskInv, PInv, LineInv, [Next]_vars
               PROVE  LineInv'
    OBVIOUS
  <1> USE DEF DInv, BInv, SInv
  <1> DEFINE Settled == \A id : DoneIn(features, id) => DoneIn(features', id)
             Placed == \A m \in Milestones :
                          \/ InLine(features', m)
                          \/ \E l \in Loops : /\ loop'[l].pc = "insertScrutiny"
                                              /\ loop'[l].id = UserTesting(m)
  <1>1. Settled /\ Placed
    <2>1. ASSUME NEW l \in Loops, InsertsUserTesting(l) \/ InsertsScrutiny(l)
          PROVE  Settled /\ Placed
      BY <2>1, LineInserts
    <2>2. ASSUME \A l \in Loops : ~InsertsUserTesting(l) /\ ~InsertsScrutiny(l)
          PROVE  Settled /\ Placed
      <3>1. KeepsLine(features', features)
        <4>1. CASE \E l \in Loops : LoopStep(l) \/ HandlerStep(l)
          BY <2>2, <4>1, LoopLine
        <4>2. CASE \E w \in Workers : WorkerStep(w)
          BY <4>2, WorkerLine
        <4>3. CASE Calls
          BY <4>3, CallsLine
        <4>4. CASE ToolStep \/ OpStep \/ Reload \/ UNCHANGED vars
          BY <4>4, ToolWrites, LineItself
        <4>5. ~Crash
          BY CalmMeans DEF Crash
        <4> QED BY <4>1, <4>2, <4>3, <4>4, <4>5 DEF Next
      <3>2. ASSUME NEW l \in Loops, loop[l].pc = "insertScrutiny"
            PROVE  loop'[l].pc = "insertScrutiny" /\ loop'[l].id = loop[l].id
        <4>1. ~LoopStep(l)
          BY <2>2, <3>2 DEF LoopStep, ToolLaunches, Cleanup, LoopStops, LoopAborts,
             LoopReopens, Proceeds, LoopSetsRunning, LoopDispatches, Preempts, SpawnReads,
             ExhaustedLogs, ExhaustedPauses, SessionSpawned, SpawnFails, MarksInProgress,
             ResumeLoads, ResumeFails, PromptSent, PromptFails, DispatchFails, Notified,
             WaitEnds, Posts, Checks, MarksValidated, Finishes, Rechecks, SetsCompleted,
             SetsOrchestratorTurn, LoopEndsWith, LoopPauseLogs, LoopPauses, Exits, At
        <4> QED BY <3>2, <4>1, WhoWrites
      <3> QED BY <3>1, <3>2 DEF KeepsLine, LineInv
    <2> QED BY <2>1, <2>2
  <1>2. ASSUME NEW l \in Loops, NEW m \in Milestones,
               loop'[l].pc \in {"spawnRpc", "mark"}, loop'[l].id = UserTesting(m)
        PROVE  DoneIn(features', Scrutiny(m))
    BY <1>1, <1>2, LineStarts
  <1>3. ASSUME NEW w \in Workers, worker'[w].phase = "moving"
        PROVE  DoneIn(features', worker'[w].task)
    BY <1>1, <1>3, LineMoving
  <1> QED BY <1>1, <1>2, <1>3 DEF LineInv

LEMMA LineInit ==
  ASSUME PlainIds
  PROVE  Init => LineInv
  <1> SUFFICES ASSUME Init PROVE LineInv
    OBVIOUS
  <1>1. ASSUME NEW m \in Milestones
        PROVE  InLine(features, m)
    <2>1. UserTesting(m) \notin Features
      BY DEF PlainIds, ValidatorIds
    <2>2. \A i \in DOMAIN features : features[i].id \in Features
      BY RunAssumption DEF Init, NewFeature
    <2> QED BY <2>1, <2>2 DEF InLine, Ahead
  <1>2. \A l \in Loops : loop[l].pc = "idle"
    BY DEF Init, Idle
  <1>3. \A w \in Workers : worker[w].phase = "unborn"
    BY DEF Init
  <1> QED BY <1>1, <1>2, <1>3 DEF LineInv

\* Only spawnWorker puts a feature in progress.
LEMMA OnlyMarksOpens ==
  ASSUME PInv, PlainIds, "crash" \notin Faults, [Next]_vars,
         \A l \in Loops : ~MarksInProgress(l)
  PROVE  Shrinks(features', features)
  <1> USE DEF PInv, SInv
  <1>1. ASSUME NEW l \in Loops, LoopStep(l)
        PROVE  Shrinks(features', features)
    BY <1>1, LoopShrinks
  <1>2. ASSUME NEW l \in Loops, HandlerStep(l)
        PROVE  Shrinks(features', features)
    BY <1>2, HandlerWrites
  <1>3. ASSUME NEW w \in Workers, WorkerStep(w)
        PROVE  Shrinks(features', features)
    BY <1>3, WorkerWrites
  <1>4. CASE Calls
    BY <1>4, CallsWrite
  <1>5. CASE ToolStep \/ OpStep \/ Reload \/ UNCHANGED vars
    BY <1>5, ToolWrites, ShrinksItself
  <1>6. ~Crash
    BY DEF Crash
  <1> QED BY <1>1, <1>2, <1>3, <1>4, <1>5, <1>6 DEF Next

LEMMA MarksRun ==
  ASSUME SInv, NEW l \in Loops, MarksInProgress(l), NEW id,
         ~Runs(features, id), Runs(features', id)
  PROVE  loop[l].pc = "mark" /\ loop[l].id = id
  <1> DEFINE ws == Append(loop[l].snap, loop[l].worker)
  <1>1. loop[l].pc = "mark" /\ features' = AssignFeature(features, loop[l].id, ws)
    BY DEF MarksInProgress, At, WriteFeatures
  <1>2. PICK i \in DOMAIN features' :
           features'[i].id = id /\ features'[i].status = "in_progress"
    BY DEF Runs
  <1>3. i \in DOMAIN features
    BY <1>1, <1>2 DEF AssignFeature
  <1>4. features[i] \in Feature
    BY <1>3 DEF SInv, IInv, FilesInv
  <1>5. features'[i] # features[i]
    BY <1>2, <1>3 DEF Runs
  <1>6. /\ i \in FirstId(features, loop[l].id)
        /\ features'[i] = [features[i] EXCEPT !.status = "in_progress", !.workers = ws]
    BY <1>1, <1>3, <1>5 DEF AssignFeature
  <1>7. features'[i].id = features[i].id
    BY <1>4, <1>6 DEF Feature
  <1> QED BY <1>1, <1>2, <1>6, <1>7 DEF FirstId

\* User testing of a milestone starts only after its scrutiny is done: inserts,
\* reports, requeues, restarts of the queue and edits keep the scrutiny above it
\* until then (checkMilestoneCompletionAndInjectValidation, insertFeatureAtTop).
THEOREM ScrutinyComesFirst ==
  ASSUME Calm, ~ResumeAny, PlainIds, PlannedOnce
  PROVE  Spec => ScrutinyFirst
  <1> DEFINE A == \A m \in Milestones :
                    ~Runs(features, UserTesting(m)) /\ Runs(features', UserTesting(m)) =>
                       SkipScrutiny \/ \E i \in DOMAIN features :
                          features[i].id = Scrutiny(m) /\ IsDone(features[i])
             RInv == DInv /\ TaskInv /\ PInv /\ LineInv
  <1>1. CASE SkipScrutiny
    <2>1. [Next]_vars => [A]_vars
      BY <1>1
    <2> QED BY <2>1, PTL DEF Spec, ScrutinyFirst
  <1>2. CASE ~SkipScrutiny
    <2>1. Init => RInv
      BY DistinctInit, TaskInit, ProgressInit, LineInit
    <2>2. RInv /\ [Next]_vars => RInv'
      BY <1>2, DistinctNext, TaskNext, ProgressNext, LineNext, CalmMeans
    <2>3. RInv /\ [Next]_vars => [A]_vars
      <3> SUFFICES ASSUME RInv, Next, NEW m \in Milestones,
                          ~Runs(features, UserTesting(m)), Runs(features', UserTesting(m))
                   PROVE  DoneIn(features, Scrutiny(m))
        BY DEF DoneIn
      <3>1. ~Shrinks(features', features)
        <4>1. OneRuns(features)
          BY DEF PInv, ProgressInv
        <4>2. ~(Open(features') \subseteq Open(features))
          BY DEF Runs, Open
        <4> QED BY <4>1, <4>2 DEF Shrinks
      <3>2. PICK l \in Loops : MarksInProgress(l)
        BY <3>1, OnlyMarksOpens, CalmMeans
      <3>3. loop[l].pc = "mark" /\ loop[l].id = UserTesting(m)
        BY <3>2, MarksRun DEF PInv
      <3> QED BY <3>3 DEF LineInv
    <2> QED BY <2>1, <2>2, <2>3, PTL DEF Spec, ScrutinyFirst
  <1> QED BY <1>1, <1>2

=============================================================================
