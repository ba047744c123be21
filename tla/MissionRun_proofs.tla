-------------------------- MODULE MissionRun_proofs --------------------------
(***************************************************************************)
(* Type correctness of MissionRun and the bound on the attempts, for any   *)
(* features, workers, loops, faults and budgets.                           *)
(***************************************************************************)
EXTENDS MissionRun, FiniteSetTheorems, TLAPS

-----------------------------------------------------------------------------
(* What the updates of features.json preserve.                             *)

\* The bound that AttemptsWithinBudget states, of any array.
Bounded(f, b) == \A i \in DOMAIN f : Len(f[i].workers) <= MaxAttempts + b[f[i].id]

\* Every entry of g has the id and the workers of an entry of f.
Descends(g, f) ==
    \A i \in DOMAIN g : \E j \in DOMAIN f :
        g[i].id = f[j].id /\ g[i].workers = f[j].workers

LEMMA NewFeatureType == \A id \in Ids : NewFeature(id) \in Feature
  BY DEF NewFeature, Feature, FeatureStatus

LEMMA FirstIdIndex == \A f, id : FirstId(f, id) \subseteq DOMAIN f
  BY DEF FirstId

\* An array of features given entry by entry.
LEMMA Entries ==
  ASSUME NEW n \in Nat, NEW g,
         g = [i \in 1..n |-> g[i]],
         \A i \in 1..n : g[i] \in Feature
  PROVE  g \in Seq(Feature) /\ Len(g) = n
  <1>1. g \in [1..n -> Feature]
    OBVIOUS
  <1> QED BY <1>1

LEMMA DescendsBounded ==
  \A f, g, b : Descends(g, f) /\ Bounded(f, b) => Bounded(g, b)
  BY DEF Descends, Bounded

LEMMA StatusUpdate ==
  ASSUME NEW f \in Seq(Feature), NEW id, NEW status \in FeatureStatus
  PROVE  /\ UpdateFeature(f, id, status) \in Seq(Feature)
         /\ Descends(UpdateFeature(f, id, status), f)
  <1> DEFINE g == UpdateFeature(f, id, status)
  <1>1. DOMAIN f = 1..Len(f) /\ Len(f) \in Nat
    OBVIOUS
  <1>2. g = [i \in 1..Len(f) |-> g[i]]
    BY <1>1 DEF UpdateFeature
  <1>3. \A i \in 1..Len(f) : g[i] \in Feature /\ g[i].workers = f[i].workers
                            /\ g[i].id = f[i].id
    <2> TAKE i \in 1..Len(f)
    <2>1. f[i] \in Feature
      BY <1>1
    <2>2. g[i] = f[i] \/ g[i] = [f[i] EXCEPT !.status = status]
      BY <1>1 DEF UpdateFeature
    <2> QED BY <2>1, <2>2 DEF Feature
  <1>4. g \in Seq(Feature)
    BY <1>1, <1>2, <1>3, Entries
  <1>5. Descends(g, f)
    BY <1>1, <1>2, <1>3 DEF Descends
  <1> QED BY <1>4, <1>5

LEMMA Requeued ==
  ASSUME NEW f \in Seq(Feature), NEW id, NEW w
  PROVE  Requeue(f, id, w) \in Seq(Feature) /\ Descends(Requeue(f, id, w), f)
  <1>1. Descends(f, f)
    BY DEF Descends
  <1>2. "pending" \in FeatureStatus
    BY DEF FeatureStatus
  <1> QED BY <1>1, <1>2, StatusUpdate DEF Requeue

\* Entries in another order.
LEMMA Rearranged ==
  ASSUME NEW f \in Seq(Feature), NEW g,
         g = [i \in DOMAIN f |-> g[i]],
         \A i \in DOMAIN f : \E j \in DOMAIN f : g[i] = f[j]
  PROVE  g \in Seq(Feature) /\ Descends(g, f)
  <1>1. DOMAIN f = 1..Len(f) /\ Len(f) \in Nat /\ \A j \in DOMAIN f : f[j] \in Feature
    OBVIOUS
  <1>2. g \in Seq(Feature)
    BY <1>1, Entries
  <1>3. Descends(g, f)
    BY <1>1 DEF Descends
  <1> QED BY <1>2, <1>3

LEMMA Permuted ==
  ASSUME NEW f \in Seq(Feature), NEW p \in [DOMAIN f -> DOMAIN f]
  PROVE  /\ [i \in DOMAIN f |-> f[p[i]]] \in Seq(Feature)
         /\ Descends([i \in DOMAIN f |-> f[p[i]]], f)
  <1> DEFINE g == [i \in DOMAIN f |-> f[p[i]]]
  <1>1. g = [i \in DOMAIN f |-> g[i]]
    OBVIOUS
  <1>2. \A i \in DOMAIN f : \E j \in DOMAIN f : g[i] = f[j]
    OBVIOUS
  <1> HIDE DEF g
  <1>3. g \in Seq(Feature) /\ Descends(g, f)
    BY <1>1, <1>2, Rearranged
  <1> QED BY <1>3 DEF g

LEMMA Moved ==
  ASSUME NEW f \in Seq(Feature), NEW id
  PROVE  MoveFeatureToBottom(f, id) \in Seq(Feature)
         /\ Descends(MoveFeatureToBottom(f, id), f)
  <1> DEFINE g == MoveFeatureToBottom(f, id)
  <1>1. g = [i \in DOMAIN f |-> g[i]]
    BY DEF MoveFeatureToBottom
  <1>2. \A i \in DOMAIN f : \E j \in DOMAIN f : g[i] = f[j]
    <2> TAKE i \in DOMAIN f
    <2>1. DOMAIN f = 1..Len(f)
      OBVIOUS
    <2>2. CASE ~ \E k \in FirstId(f, id) : i >= k
      BY <2>2 DEF MoveFeatureToBottom
    <2>3. CASE (\E k \in FirstId(f, id) : i >= k) /\ i # Len(f)
      BY <2>1, <2>3 DEF MoveFeatureToBottom
    <2>4. CASE (\E k \in FirstId(f, id) : i >= k) /\ i = Len(f)
      <3>1. (CHOOSE k \in FirstId(f, id) : TRUE) \in DOMAIN f
        BY <2>4, FirstIdIndex
      <3>2. g[i] = f[CHOOSE k \in FirstId(f, id) : TRUE]
        BY <2>4 DEF MoveFeatureToBottom
      <3> QED BY <3>1, <3>2
    <2> QED BY <2>2, <2>3, <2>4
  <1> QED BY <1>1, <1>2, Rearranged

\* A new entry has no workers, so it is within any budget.
LEMMA Inserted ==
  ASSUME NEW f \in Seq(Feature), NEW id \in Ids
  PROVE  /\ InsertFeatureAtTop(f, id) \in Seq(Feature)
         /\ \A b \in [Ids -> Nat] : Bounded(f, b) => Bounded(InsertFeatureAtTop(f, id), b)
  <1> DEFINE g == InsertFeatureAtTop(f, id)
  <1>1. <<NewFeature(id)>> \in Seq(Feature)
    BY NewFeatureType
  <1>2. g \in Seq(Feature)
    BY <1>1 DEF InsertFeatureAtTop
  <1>3. \A i \in DOMAIN g : g[i] = NewFeature(id) \/ \E j \in DOMAIN f : g[i] = f[j]
    <2>1. DOMAIN g = 1..(Len(f) + 1) /\ DOMAIN f = 1..Len(f)
      BY <1>1 DEF InsertFeatureAtTop
    <2> TAKE i \in DOMAIN g
    <2>2. CASE i = 1
      BY <2>2 DEF InsertFeatureAtTop
    <2>3. CASE i # 1
      <3>1. i - 1 \in DOMAIN f
        BY <2>1, <2>3
      <3>2. g[i] = f[i - 1]
        BY <1>1, <2>1, <2>3 DEF InsertFeatureAtTop
      <3> QED BY <3>1, <3>2
    <2> QED BY <2>2, <2>3
  <1>4. ASSUME NEW b \in [Ids -> Nat], Bounded(f, b)
        PROVE  Bounded(g, b)
    <2>1. Len(NewFeature(id).workers) <= MaxAttempts + b[NewFeature(id).id]
      BY FilesAssumption DEF NewFeature
    <2> QED BY <1>3, <1>4, <2>1 DEF Bounded
  <1> QED BY <1>2, <1>4

\* One more worker for the entries of an id that has one left in its budget.
LEMMA Assigned ==
  ASSUME NEW f \in Seq(Feature), NEW id, NEW workers \in Seq(Workers)
  PROVE  /\ AssignFeature(f, id, workers) \in Seq(Feature)
         /\ \A b : Bounded(f, b) /\ Len(workers) <= MaxAttempts + b[id]
                   => Bounded(AssignFeature(f, id, workers), b)
  <1> DEFINE g == AssignFeature(f, id, workers)
  <1>1. DOMAIN f = 1..Len(f) /\ Len(f) \in Nat
    OBVIOUS
  <1>2. g = [i \in 1..Len(f) |-> g[i]]
    BY <1>1 DEF AssignFeature
  <1>3. \A i \in 1..Len(f) :
          /\ g[i] \in Feature
          /\ g[i].id = f[i].id
          /\ g[i].workers = f[i].workers \/ (g[i].workers = workers /\ g[i].id = id)
    <2> TAKE i \in 1..Len(f)
    <2>1. f[i] \in Feature
      BY <1>1
    <2>2. \/ g[i] = f[i]
          \/ /\ g[i] = [f[i] EXCEPT !.status = "in_progress", !.workers = workers]
             /\ f[i].id = id
      BY <1>1 DEF AssignFeature, FirstId
    <2> QED BY <2>1, <2>2 DEF Feature, FeatureStatus
  <1>4. g \in Seq(Feature)
    BY <1>1, <1>2, <1>3, Entries
  <1>5. DOMAIN g = 1..Len(f)
    BY <1>2
  <1> HIDE DEF g
  <1>6. \A b : Bounded(f, b) /\ Len(workers) <= MaxAttempts + b[id] => Bounded(g, b)
    BY <1>1, <1>3, <1>5 DEF Bounded
  <1> QED BY <1>4, <1>6 DEF g

LEMMA Granted ==
  ASSUME NEW f \in Seq(Feature), NEW b \in [Ids -> Nat]
  PROVE  /\ GrantRetryBudget(f, b) \in [Ids -> Nat]
         /\ \A id \in Ids : GrantRetryBudget(f, b)[id] >= b[id]
  <1>1. \A id \in Ids : MaxAttempts * Cardinality(Exhausted(f, b, id)) \in Nat
    <2> TAKE id \in Ids
    <2>1. IsFiniteSet(1..Len(f))
      BY FS_Interval
    <2>2. Exhausted(f, b, id) \subseteq 1..Len(f)
      BY DEF Exhausted
    <2>3. Cardinality(Exhausted(f, b, id)) \in Nat
      BY <2>1, <2>2, FS_Subset, FS_CardinalityType
    <2>4. \A m, n \in Nat : m * n \in Nat
      OBVIOUS
    <2> QED BY <2>3, <2>4, FilesAssumption
  <1> QED BY <1>1 DEF GrantRetryBudget

LEMMA MilestoneType == \A id \in Ids : Milestone(id) \in Milestones
  BY FilesAssumption DEF Milestone, Ids, ValidatorIds, Scrutiny, UserTesting

-----------------------------------------------------------------------------
(* The inductive invariant, one part per group of variables.               *)

\* What a loop holds between reading a feature and marking it in progress, and
\* the fields its other steps rely on.
LoopOK(r, b) ==
    /\ r \in LoopRecord
    /\ r.pc \in {"resume", "mark", "prompt", "waiting"} => r.worker \in Workers
    /\ r.pc \in {"insertUserTesting", "insertScrutiny", "markValidated",
                 "spawnRpc", "mark"} => r.id \in Ids
    /\ r.pc \in {"spawnRpc", "mark"} => Len(r.snap) < MaxAttempts + b[r.id]

FilesInv ==
    /\ state \in MissionState
    /\ features \in Seq(Feature)
    /\ bonus \in [Ids -> Nat]
    /\ validated \subseteq Milestones
    /\ completed \subseteq Workers
    /\ usage402 \subseteq Workers
    /\ lastPause \in {"none", "user", "retry_limit", "usage402"}
    /\ handoff \in {"none", "open", "addressed"}
    /\ Bounded(features, bonus)

ControlInv ==
    /\ isRunning \in BOOLEAN
    /\ signal \in Loops \cup {None}
    /\ aborted \subseteq Loops
    /\ tool \in [pc : {"idle", "grant", "run", "launch", "waiting"},
                 resume : Workers \cup {None}, loop : Loops \cup {None}]
    /\ tool.pc = "waiting" => tool.loop \in Loops
    /\ pausing \in {"idle", "log", "write", "check", "overwrite"}
    /\ killing \in Workers \cup {None}
    /\ up \in BOOLEAN
    /\ events \in 0..MaxEvents
    /\ limited \subseteq Workers

LoopsInv ==
    /\ loop = [l \in Loops |-> loop[l]]
    /\ \A l \in Loops : LoopOK(loop[l], bonus)

WorkersInv == worker \in [Workers -> WorkerRecord]
HandlersInv == handler \in [Loops -> HandlerRecord]
NotesInv == note \in [Loops -> Seq(Notification)]

IInv == FilesInv /\ ControlInv /\ LoopsInv /\ WorkersInv /\ HandlersInv /\ NotesInv

LEMMA IInvMeans == IInv => TypeOK /\ AttemptsWithinBudget
  BY DEF IInv, FilesInv, ControlInv, LoopsInv, LoopOK, WorkersInv, HandlersInv,
         NotesInv, TypeOK, AttemptsWithinBudget, Bounded

USE DEF files, log, runner, daemon, ops, env

-----------------------------------------------------------------------------
(* The groups under the steps actions are made of.                         *)

LEMMA FilesKept == FilesInv /\ UNCHANGED files => FilesInv'
  BY DEF FilesInv, Bounded

\* A write of features.json and nothing else.
LEMMA FeaturesWritten ==
  ASSUME FilesInv, NEW f \in Seq(Feature), Bounded(f, bonus), WriteFeatures(f),
         UNCHANGED <<state, bonus, log>>
  PROVE  FilesInv'
  BY DEF FilesInv, WriteFeatures, Bounded

\* A write of the files that leaves features.json and the budgets alone.
LEMMA LogWritten ==
  ASSUME FilesInv, UNCHANGED <<features, bonus>>,
         state' \in MissionState,
         validated' \subseteq Milestones,
         completed' \subseteq Workers,
         usage402' \subseteq Workers,
         lastPause' \in {"none", "user", "retry_limit", "usage402"},
         handoff' \in {"none", "open", "addressed"}
  PROVE  FilesInv'
  BY DEF FilesInv, Bounded

LEMMA ControlKept ==
  ControlInv /\ UNCHANGED <<runner, ops, env, limited>> => ControlInv'
  BY DEF ControlInv

LEMMA LoopsKept == LoopsInv /\ UNCHANGED <<loop, bonus>> => LoopsInv'
  BY DEF LoopsInv

\* One loop moves to a record that is all right.
LEMMA LoopSet ==
  ASSUME LoopsInv, NEW l \in Loops, NEW r, LoopOK(r, bonus),
         loop' = [loop EXCEPT ![l] = r], bonus' = bonus
  PROVE  LoopsInv'
  <1>1. \A k \in Loops : loop'[k] = IF k = l THEN r ELSE loop[k]
    BY DEF LoopsInv
  <1>2. loop' = [k \in Loops |-> loop'[k]]
    BY DEF LoopsInv
  <1> QED BY <1>1, <1>2 DEF LoopsInv

\* The places a loop may go to without anything in its record.
FreePC == LoopPC \ {"resume", "mark", "prompt", "waiting", "insertUserTesting",
                    "insertScrutiny", "markValidated", "spawnRpc"}

LEMMA LoopMoves ==
  ASSUME LoopsInv, NEW l \in Loops, NEW pc \in LoopPC \ {"spawnRpc", "mark"},
         pc \in {"resume", "prompt", "waiting"} => loop[l].worker \in Workers,
         pc \in {"insertUserTesting", "insertScrutiny", "markValidated"} =>
            loop[l].id \in Ids,
         Goto(l, pc), bonus' = bonus
  PROVE  LoopsInv'
  <1> DEFINE r == [loop[l] EXCEPT !.pc = pc]
  <1>1. LoopOK(loop[l], bonus)
    BY DEF LoopsInv
  <1>2. LoopOK(r, bonus)
    BY <1>1 DEF LoopOK, LoopRecord
  <1>3. loop' = [loop EXCEPT ![l] = r]
    BY DEF Goto
  <1> HIDE DEF r
  <1> QED BY <1>2, <1>3, LoopSet

LEMMA LoopGoes ==
  ASSUME LoopsInv, NEW l \in Loops, NEW pc \in FreePC, Goto(l, pc), bonus' = bonus
  PROVE  LoopsInv'
  BY LoopMoves DEF FreePC

LEMMA ReturnRecord ==
  ASSUME NEW r \in LoopRecord, NEW out \in {"success", "return", "paused"},
         NEW T \in SUBSET Milestones
  PROVE  LET q == [r EXCEPT !.pc = "post", !.out = out, !.back = "finish", !.todo = T]
         IN q \in LoopRecord /\ q.pc = "post"
  <1> DEFINE q1 == [r EXCEPT !.pc = "post", !.out = out]
             q == [r EXCEPT !.pc = "post", !.out = out, !.back = "finish", !.todo = T]
  <1>1. q1 \in LoopRecord /\ q1.pc = "post"
    <2> DEFINE q0 == [r EXCEPT !.pc = "post"]
    <2>1. "post" \in LoopPC
      BY DEF LoopPC
    <2> HIDE DEF LoopPC
    <2>2. q0 \in LoopRecord /\ q0.pc = "post"
      BY <2>1 DEF LoopRecord
    <2>3. q1 = [q0 EXCEPT !.out = out]
      BY DEF LoopRecord
    <2> HIDE DEF q0
    <2> QED BY <2>2, <2>3 DEF LoopRecord
  <1>2. q = [q1 EXCEPT !.back = "finish", !.todo = T]
    BY DEF LoopRecord
  <1> HIDE DEF q1
  <1>3. q \in LoopRecord /\ q.pc = "post"
    BY <1>1, <1>2 DEF LoopRecord
  <1> QED BY <1>3

LEMMA CheckRecord ==
  ASSUME NEW r \in LoopRecord, NEW back \in {"finish", "recheck"},
         NEW T \in SUBSET Milestones
  PROVE  LET q == [r EXCEPT !.pc = "check", !.back = back, !.todo = T]
         IN q \in LoopRecord /\ q.pc = "check"
  <1> DEFINE q1 == [r EXCEPT !.pc = "check", !.back = back]
             q == [r EXCEPT !.pc = "check", !.back = back, !.todo = T]
  <1>0. "check" \in LoopPC
    BY DEF LoopPC
  <1>1. q1 \in LoopRecord /\ q1.pc = "check"
    BY <1>0 DEF LoopRecord
  <1>2. q = [q1 EXCEPT !.todo = T]
    BY DEF LoopRecord
  <1> HIDE DEF q1
  <1>3. q \in LoopRecord /\ q.pc = "check"
    BY <1>1, <1>2 DEF LoopRecord
  <1> QED BY <1>3

LEMMA LoopReturns ==
  ASSUME LoopsInv, NEW l \in Loops, NEW out \in {"success", "return", "paused"},
         NEW ids \in SUBSET (Ids \cup {None}), Return(l, out, ids), bonus' = bonus
  PROVE  LoopsInv'
  <1> DEFINE T == {Milestone(id) : id \in ids \ {None}}
             r == [loop[l] EXCEPT !.pc = "post", !.out = out, !.back = "finish",
                                  !.todo = T]
  <1>1. LoopOK(loop[l], bonus)
    BY DEF LoopsInv
  <1>2. T \subseteq Milestones
    BY MilestoneType
  <1>3. loop' = [loop EXCEPT ![l] = r]
    BY DEF Return
  <1> HIDE DEF T
  <1>4. LoopOK(r, bonus)
    BY <1>1, <1>2, ReturnRecord DEF LoopOK
  <1> HIDE DEF r
  <1> QED BY <1>3, <1>4, LoopSet

LEMMA WorkerTold ==
  ASSUME WorkersInv, NEW ws, NEW what \in {"interrupt", "close"}, Tell(ws, what)
  PROVE  WorkersInv'
  <1>1. \A w \in Workers : worker[w] \in WorkerRecord
                            /\ [worker[w] EXCEPT !.told = what] \in WorkerRecord
    BY DEF WorkersInv, WorkerRecord
  <1> QED BY <1>1 DEF WorkersInv, Tell

LEMMA WorkersKept == WorkersInv /\ UNCHANGED worker => WorkersInv'
  BY DEF WorkersInv
LEMMA HandlersKept == HandlersInv /\ UNCHANGED handler => HandlersInv'
  BY DEF HandlersInv
LEMMA NotesKept == NotesInv /\ UNCHANGED note => NotesInv'
  BY DEF NotesInv

LEMMA Emitted ==
  ASSUME NotesInv, NEW w, NEW ns \in Seq(Notification), Emit(w, ns)
  PROVE  NotesInv'
  <1>1. \A l \in Loops : note[l] \in Seq(Notification) /\ note[l] \o ns \in Seq(Notification)
    BY DEF NotesInv
  <1> QED BY <1>1 DEF NotesInv, Emit

LEMMA CurrentType == FilesInv => Current \subseteq Workers
  <1> SUFFICES ASSUME FilesInv, NEW i \in InProgress(features)
               PROVE  LastWorker(features[i]) \in Workers \cup {None}
    BY DEF Current
  <1>1. features[i] \in Feature
    BY DEF FilesInv, InProgress, FirstWith
  <1> QED BY <1>1 DEF LastWorker, Feature

-----------------------------------------------------------------------------
(* The start_mission_run tool, pauses, kills and edits.                    *)

LEMMA CallPauseType ==
  ASSUME ControlInv, CallPause
  PROVE  isRunning' \in BOOLEAN
         /\ pausing' \in {"idle", "log", "write", "check", "overwrite"}
  BY DEF ControlInv, CallPause

LEMMA AbortedLoop ==
  ASSUME ControlInv, aborted' = aborted \cup {tool.loop}, tool.pc = "waiting"
  PROVE  aborted' \subseteq Loops
  BY DEF ControlInv

LEMMA IntervenedType == ControlInv /\ Intervene => events' \in 0..MaxEvents
  BY RunAssumption DEF ControlInv, Intervene

LEMMA StartInv ==
  ASSUME IInv, NEW explicit \in Workers \cup {None}, NEW restart \in BOOLEAN,
         StartMissionRun(explicit, restart)
  PROVE  IInv'
  <1>1. FilesInv'
    <2>1. PICK p \in [DOMAIN features -> DOMAIN features] :
             WriteFeatures([i \in DOMAIN features |-> features[p[i]]])
      BY DEF StartMissionRun
    <2>2. features \in Seq(Feature) /\ Bounded(features, bonus)
      BY DEF IInv, FilesInv
    <2> DEFINE f == [i \in DOMAIN features |-> features[p[i]]]
    <2>3. f \in Seq(Feature) /\ Bounded(f, bonus)
      BY <2>2, Permuted, DescendsBounded
    <2> HIDE DEF f
    <2>4. WriteFeatures(f) /\ UNCHANGED <<state, bonus, log>> /\ FilesInv
      BY <2>1 DEF StartMissionRun, IInv, f
    <2> QED BY <2>3, <2>4, FeaturesWritten
  <1>2. ControlInv'
    <2>1. Current # {} => (CHOOSE w \in Current : TRUE) \in Workers
      BY CurrentType DEF IInv
    <2> QED BY <2>1 DEF IInv, ControlInv, StartMissionRun
  <1>3. UNCHANGED <<loop, bonus, worker, handler, note>>
    BY DEF StartMissionRun
  <1> QED BY <1>1, <1>2, <1>3, LoopsKept, WorkersKept, HandlersKept, NotesKept DEF IInv

LEMMA GrantInv ==
  ASSUME IInv, ToolGrants
  PROVE  IInv'
  <1>1. bonus' \in [Ids -> Nat] /\ \A id \in Ids : bonus'[id] >= bonus[id]
    BY Granted DEF IInv, FilesInv, ToolGrants
  <1>2. FilesInv'
    <2>1. ASSUME NEW i \in DOMAIN features
          PROVE  Len(features[i].workers) <= MaxAttempts + bonus'[features[i].id]
      <3>1. features[i] \in Feature /\ bonus \in [Ids -> Nat]
        BY DEF IInv, FilesInv
      <3>2. Len(features[i].workers) \in Nat /\ features[i].id \in Ids
        BY <3>1 DEF Feature
      <3>3. Len(features[i].workers) <= MaxAttempts + bonus[features[i].id]
        BY DEF IInv, FilesInv, Bounded
      <3> QED BY <1>1, <3>1, <3>2, <3>3, FilesAssumption
    <2> QED BY <1>1, <2>1 DEF IInv, FilesInv, Bounded, ToolGrants
  <1>3. LoopsInv'
    <2>1. ASSUME NEW l \in Loops
          PROVE  LoopOK(loop[l], bonus')
      <3>1. LoopOK(loop[l], bonus) /\ bonus \in [Ids -> Nat]
        BY DEF IInv, FilesInv, LoopsInv
      <3>2. CASE loop[l].pc \in {"spawnRpc", "mark"}
        <4>1. loop[l].id \in Ids /\ Len(loop[l].snap) \in Nat
          BY <3>1, <3>2 DEF LoopOK, LoopRecord
        <4>2. bonus'[loop[l].id] >= bonus[loop[l].id]
              /\ bonus'[loop[l].id] \in Nat /\ bonus[loop[l].id] \in Nat
          BY <1>1, <3>1, <4>1
        <4>3. Len(loop[l].snap) < MaxAttempts + bonus'[loop[l].id]
          BY <3>1, <3>2, <4>1, <4>2, FilesAssumption DEF LoopOK
        <4> QED BY <3>1, <4>3 DEF LoopOK
      <3>3. CASE loop[l].pc \notin {"spawnRpc", "mark"}
        BY <3>1, <3>3 DEF LoopOK
      <3> QED BY <3>2, <3>3
    <2> QED BY <2>1 DEF IInv, LoopsInv, ToolGrants
  <1>4. ControlInv'
    BY DEF IInv, ControlInv, ToolGrants
  <1>5. UNCHANGED <<worker, handler, note>>
    BY DEF ToolGrants
  <1> QED BY <1>2, <1>3, <1>4, <1>5, WorkersKept, HandlersKept, NotesKept DEF IInv

LEMMA SetsRunningInv ==
  ASSUME IInv, ToolSetsRunning
  PROVE  IInv'
  <1>1. FilesInv'
    BY DEF IInv, FilesInv, Bounded, ToolSetsRunning, MissionState
  <1>2. ControlInv'
    BY DEF IInv, ControlInv, ToolSetsRunning
  <1>3. UNCHANGED <<loop, bonus, worker, handler, note>>
    BY DEF ToolSetsRunning
  <1> QED BY <1>1, <1>2, <1>3, LoopsKept, WorkersKept, HandlersKept, NotesKept DEF IInv

LEMMA LaunchInv ==
  ASSUME IInv, NEW l \in Loops, ToolLaunches(l)
  PROVE  IInv'
  <1>1. UNCHANGED <<files, bonus, worker, handler, note>>
    BY DEF ToolLaunches
  <1>2. ControlInv'
    <2>1. CASE isRunning
      BY <2>1 DEF IInv, ControlInv, ToolLaunches, NoTool
    <2>2. CASE ~isRunning
      <3>1. tool' = [tool EXCEPT !.pc = "waiting", !.loop = l]
        BY <2>2 DEF ToolLaunches
      <3>2. tool' \in [pc : {"idle", "grant", "run", "launch", "waiting"},
                       resume : Workers \cup {None}, loop : Loops \cup {None}]
            /\ tool'.loop = l
        BY <3>1 DEF IInv, ControlInv
      <3>3. isRunning' = TRUE /\ signal' = l /\ aborted' = aborted \ {l}
            /\ UNCHANGED <<pausing, killing, env, limited>>
        BY <2>2 DEF ToolLaunches
      <3> QED BY <3>2, <3>3 DEF IInv, ControlInv
    <2> QED BY <2>1, <2>2
  <1>3. LoopsInv'
    <2>1. CASE isRunning
      BY <1>1, <2>1, LoopsKept DEF ToolLaunches, IInv
    <2>2. CASE ~isRunning
      <3> DEFINE r == [Idle EXCEPT !.resume = tool.resume,
                          !.pc = IF tool.resume = None THEN "cleanup" ELSE "top"]
      <3>1. LoopOK(r, bonus)
        <4>1. Idle \in LoopRecord /\ tool.resume \in Workers \cup {None}
          BY DEF IInv, ControlInv, LoopRecord, LoopPC, Idle
        <4>2. r \in LoopRecord /\ r.pc \in {"cleanup", "top"}
          BY ZenonT(60), <4>1 DEF LoopRecord, LoopPC
        <4> QED BY <4>2 DEF LoopOK
      <3>2. loop' = [loop EXCEPT ![l] = r]
        BY <2>2 DEF ToolLaunches
      <3> HIDE DEF r
      <3> QED BY <1>1, <3>1, <3>2, LoopSet DEF IInv
    <2> QED BY <2>1, <2>2
  <1> QED BY <1>1, <1>2, <1>3, FilesKept, WorkersKept, HandlersKept, NotesKept DEF IInv

LEMMA AbortInv ==
  ASSUME IInv, Abort
  PROVE  IInv'
  <1>1. UNCHANGED <<files, bonus, loop, worker, handler, note>>
    BY DEF Abort
  <1>2. ControlInv'
    <2>1. tool.loop \in Loops \cup {None}
      BY DEF IInv, ControlInv
    <2>2. isRunning' \in BOOLEAN
          /\ pausing' \in {"idle", "log", "write", "check", "overwrite"}
      BY CallPauseType DEF IInv, Abort
    <2>3. aborted' \subseteq Loops
      BY AbortedLoop DEF Abort, IInv
    <2>4. events' \in 0..MaxEvents
      BY IntervenedType DEF IInv, Abort
    <2> QED BY <2>2, <2>3, <2>4 DEF IInv, ControlInv, Abort, NoTool
  <1> QED BY <1>1, <1>2, FilesKept, LoopsKept, WorkersKept, HandlersKept, NotesKept DEF IInv

LEMMA UserPausesInv ==
  ASSUME IInv, UserPauses
  PROVE  IInv'
  <1>1. UNCHANGED <<files, bonus, loop, worker, handler, note>>
    BY DEF UserPauses
  <1>2. ControlInv'
    <2>1. isRunning' \in BOOLEAN
          /\ pausing' \in {"idle", "log", "write", "check", "overwrite"}
      BY CallPauseType DEF IInv, UserPauses
    <2>2. events' \in 0..MaxEvents
      BY IntervenedType DEF IInv, UserPauses
    <2> QED BY <2>1, <2>2 DEF IInv, ControlInv, UserPauses
  <1> QED BY <1>1, <1>2, FilesKept, LoopsKept, WorkersKept, HandlersKept, NotesKept DEF IInv

LEMMA PauseInv ==
  ASSUME IInv, PauseLogs \/ PauseWrites \/ PauseChecks \/ PauseOverwrites
  PROVE  IInv'
  <1>1. UNCHANGED <<features, bonus, loop, handler, note>>
    BY DEF PauseLogs, PauseWrites, PauseChecks, PauseOverwrites
  <1>2. FilesInv'
    <2>1. FilesInv /\ UNCHANGED <<validated, completed, usage402, handoff>>
          /\ lastPause' \in {lastPause, "user"} /\ state' \in {state, "paused"}
      BY DEF PauseLogs, PauseWrites, PauseChecks, PauseOverwrites, IInv
    <2> QED BY <1>1, <2>1, LogWritten DEF FilesInv, MissionState
  <1>3. ControlInv'
    <2>1. pausing' \in {"idle", "log", "write", "check", "overwrite"}
          /\ UNCHANGED <<isRunning, signal, aborted, tool, killing, up, events, limited>>
      BY DEF PauseLogs, PauseWrites, PauseChecks, PauseOverwrites
    <2> QED BY <2>1 DEF IInv, ControlInv
  <1>4. WorkersInv'
    <2>1. UNCHANGED worker \/ Tell(Current, "interrupt")
      BY DEF PauseLogs, PauseWrites, PauseChecks, PauseOverwrites
    <2> QED BY <2>1, WorkersKept, WorkerTold DEF IInv
  <1> QED BY <1>1, <1>2, <1>3, <1>4, LoopsKept, HandlersKept, NotesKept DEF IInv

LEMMA KillsInv ==
  ASSUME IInv, NEW w \in Workers, UserKills(w)
  PROVE  IInv'
  <1>1. FilesInv'
    <2>1. FilesInv /\ features \in Seq(Feature) /\ Bounded(features, bonus)
      BY DEF IInv, FilesInv
    <2>2. PICK f : /\ WriteFeatures(f)
                   /\ f = features \/ \E id : f = Requeue(features, id, w)
      BY DEF UserKills
    <2>3. f \in Seq(Feature) /\ Bounded(f, bonus)
      BY <2>1, <2>2, Requeued, DescendsBounded
    <2> QED BY <2>1, <2>2, <2>3, FeaturesWritten DEF UserKills
  <1>2. ControlInv'
    <2>1. events' \in 0..MaxEvents
      BY IntervenedType DEF IInv, UserKills
    <2> QED BY <2>1 DEF IInv, ControlInv, UserKills
  <1>3. UNCHANGED <<loop, bonus, worker, handler, note>>
    BY DEF UserKills
  <1> QED BY <1>1, <1>2, <1>3, LoopsKept, WorkersKept, HandlersKept, NotesKept DEF IInv

LEMMA KillInterruptsInv ==
  ASSUME IInv, KillInterrupts
  PROVE  IInv'
  <1>1. UNCHANGED <<features, bonus, loop, handler, note>>
    BY DEF KillInterrupts
  <1>2. FilesInv'
    BY <1>1, LogWritten DEF IInv, FilesInv, KillInterrupts, MissionState
  <1>3. WorkersInv'
    BY WorkerTold DEF IInv, KillInterrupts
  <1>4. ControlInv'
    <2>1. CASE tool.pc = "waiting"
      <3>1. isRunning' \in BOOLEAN
            /\ pausing' \in {"idle", "log", "write", "check", "overwrite"}
        BY <2>1, CallPauseType DEF IInv, KillInterrupts
      <3>2. aborted' \subseteq Loops
        BY <2>1, AbortedLoop DEF KillInterrupts, IInv
      <3> QED BY <2>1, <3>1, <3>2 DEF IInv, ControlInv, KillInterrupts, NoTool
    <2>2. CASE tool.pc # "waiting"
      BY <2>2 DEF IInv, ControlInv, KillInterrupts
    <2> QED BY <2>1, <2>2
  <1> QED BY <1>1, <1>2, <1>3, <1>4, LoopsKept, HandlersKept, NotesKept DEF IInv

LEMMA EditInv ==
  ASSUME IInv, NEW f \in Seq(Feature), Bounded(f, bonus), Edit(f)
  PROVE  IInv'
  <1>1. FilesInv'
    BY FeaturesWritten DEF IInv, Edit
  <1>2. ControlInv'
    <2>1. events' \in 0..MaxEvents
      BY IntervenedType DEF IInv, Edit
    <2> QED BY <2>1 DEF IInv, ControlInv, Edit
  <1>3. UNCHANGED <<loop, bonus, worker, handler, note>>
    BY DEF Edit
  <1> QED BY <1>1, <1>2, <1>3, LoopsKept, WorkersKept, HandlersKept, NotesKept DEF IInv

LEMMA OrchestratorInv ==
  ASSUME IInv,
         \/ \E i \in DOMAIN features : OrchestratorCancels(i)
         \/ \E id \in Extra : OrchestratorAdds(id)
         \/ OrchestratorDismisses
  PROVE  IInv'
  <1>1. features \in Seq(Feature) /\ Bounded(features, bonus) /\ bonus \in [Ids -> Nat]
    BY DEF IInv, FilesInv
  <1>2. ASSUME NEW i \in DOMAIN features, OrchestratorCancels(i)
        PROVE  IInv'
    <2> DEFINE f == [features EXCEPT ![i].status = "cancelled"]
    <2>1. /\ DOMAIN features = 1..Len(features) /\ Len(features) \in Nat
          /\ \A j \in DOMAIN features : features[j] \in Feature
          /\ f = [j \in 1..Len(features) |-> f[j]]
      <3>1. DOMAIN features = 1..Len(features) /\ Len(features) \in Nat
            /\ \A j \in DOMAIN features : features[j] \in Feature
        BY <1>1
      <3>2. f = [j \in DOMAIN features |-> f[j]]
        OBVIOUS
      <3> QED BY <3>1, <3>2
    <2>2. \A j \in 1..Len(features) :
            f[j] \in Feature /\ f[j].id = features[j].id /\ f[j].workers = features[j].workers
      <3> TAKE j \in 1..Len(features)
      <3>1. f[j] = features[j] \/ f[j] = [features[j] EXCEPT !.status = "cancelled"]
        BY <2>1
      <3> QED BY <2>1, <3>1 DEF Feature, FeatureStatus
    <2>3. f \in Seq(Feature)
      BY <2>1, <2>2, Entries
    <2>4. Descends(f, features)
      BY <2>1, <2>2 DEF Descends
    <2>5. Edit(f)
      BY <1>2 DEF OrchestratorCancels
    <2> HIDE DEF f
    <2> QED BY <1>1, <2>3, <2>4, <2>5, DescendsBounded, EditInv
  <1>3. ASSUME NEW id \in Extra, OrchestratorAdds(id)
        PROVE  IInv'
    <2>1. id \in Ids
      BY RunAssumption DEF Ids
    <2> QED BY <1>1, <1>3, <2>1, Inserted, EditInv DEF OrchestratorAdds
  <1>4. CASE OrchestratorDismisses
    <2>1. FilesInv'
      BY <1>4, LogWritten DEF IInv, FilesInv, OrchestratorDismisses
    <2>2. UNCHANGED <<loop, bonus, worker, handler, note, runner, ops, env, limited>>
      BY <1>4 DEF OrchestratorDismisses
    <2> QED BY <2>1, <2>2, ControlKept, LoopsKept, WorkersKept, HandlersKept,
               NotesKept DEF IInv
  <1> QED BY <1>2, <1>3, <1>4

LEMMA CrashInv ==
  ASSUME IInv, Crash
  PROVE  IInv'
  <1>1. UNCHANGED <<files, bonus, worker>>
    BY DEF Crash
  <1>2. ControlInv'
    <2>1. events' \in 0..MaxEvents
      BY IntervenedType DEF IInv, Crash
    <2> QED BY <2>1 DEF IInv, ControlInv, Crash, NoTool
  <1>3. LoopsInv'
    <2>1. LoopOK(Idle, bonus)
      BY DEF LoopOK, LoopRecord, LoopPC, Idle
    <2> QED BY <1>1, <2>1 DEF LoopsInv, Crash
  <1>4. HandlersInv' /\ NotesInv'
    BY DEF HandlersInv, NotesInv, Crash, HandlerRecord, NoHandler
  <1> QED BY <1>1, <1>2, <1>3, <1>4, FilesKept, WorkersKept DEF IInv

LEMMA ReloadInv ==
  ASSUME IInv, Reload
  PROVE  IInv'
  <1>1. FilesInv'
    <2>1. FilesInv /\ UNCHANGED <<features, bonus, validated, completed, usage402, handoff>>
          /\ lastPause' \in {lastPause, "user"} /\ state' \in {state, "paused"}
      BY DEF Reload, IInv
    <2> QED BY <2>1, LogWritten DEF FilesInv, MissionState
  <1>2. ControlInv'
    BY DEF IInv, ControlInv, Reload
  <1>3. UNCHANGED <<loop, bonus, worker, handler, note>>
    BY DEF Reload
  <1> QED BY <1>1, <1>2, <1>3, LoopsKept, WorkersKept, HandlersKept, NotesKept DEF IInv

-----------------------------------------------------------------------------
(* The runner loop.                                                        *)

LEMMA LoopOnly ==
  ASSUME IInv, LoopsInv', UNCHANGED <<files, runner, handler, daemon, ops, env, limited>>
  PROVE  IInv'
  BY FilesKept, ControlKept, WorkersKept, HandlersKept, NotesKept DEF IInv

LEMMA FilesAndLoop ==
  ASSUME IInv, FilesInv', LoopsInv',
         UNCHANGED <<runner, handler, daemon, ops, env, limited>>
  PROVE  IInv'
  BY ControlKept, WorkersKept, HandlersKept, NotesKept DEF IInv

LEMMA RunnerStops ==
  ASSUME IInv, LoopsInv', isRunning' \in BOOLEAN,
         UNCHANGED <<files, signal, aborted, handler, daemon, ops, env, limited>>
  PROVE  IInv'
  <1>1. ControlInv'
    BY DEF IInv, ControlInv
  <1> QED BY <1>1, FilesKept, WorkersKept, HandlersKept, NotesKept DEF IInv

LEMMA RequeueWritten ==
  ASSUME FilesInv, NEW id, NEW w, WriteFeatures(Requeue(features, id, w)),
         UNCHANGED <<state, bonus, log>>
  PROVE  FilesInv'
  <1>1. Requeue(features, id, w) \in Seq(Feature)
        /\ Bounded(Requeue(features, id, w), bonus)
    BY Requeued, DescendsBounded DEF FilesInv
  <1> QED BY <1>1, FeaturesWritten

LEMMA InsertWritten ==
  ASSUME FilesInv, NEW id \in Ids, WriteFeatures(InsertFeatureAtTop(features, id)),
         UNCHANGED <<state, bonus, log>>
  PROVE  FilesInv'
  <1>1. InsertFeatureAtTop(features, id) \in Seq(Feature)
        /\ Bounded(InsertFeatureAtTop(features, id), bonus)
    BY Inserted DEF FilesInv
  <1> QED BY <1>1, FeaturesWritten

LEMMA SameWritten ==
  ASSUME FilesInv, WriteFeatures(features), UNCHANGED <<state, bonus, log>>
  PROVE  FilesInv'
  BY FeaturesWritten DEF FilesInv

LEMMA CleanupInv ==
  ASSUME IInv, NEW l \in Loops, Cleanup(l)
  PROVE  IInv'
  <1>1. FilesInv'
    <2>1. CASE Current = {}
      BY <2>1, FilesKept DEF Cleanup, IInv
    <2>2. CASE Current # {}
      BY <2>2, RequeueWritten DEF Cleanup, IInv
    <2> QED BY <2>1, <2>2
  <1>2. LoopsInv'
    BY LoopGoes DEF Cleanup, IInv, FreePC, LoopPC
  <1>3. WorkersInv'
    BY WorkerTold DEF Cleanup, IInv
  <1>4. UNCHANGED <<runner, handler, note, ops, env, limited>>
    BY DEF Cleanup
  <1> QED BY <1>1, <1>2, <1>3, <1>4, ControlKept, HandlersKept, NotesKept DEF IInv

LEMMA HeadInv ==
  ASSUME IInv, NEW l \in Loops,
         LoopStops(l) \/ LoopReopens(l) \/ SpawnFails(l) \/ Finishes(l) \/ Rechecks(l)
  PROVE  IInv'
  <1>1. \E pc \in FreePC : Goto(l, pc)
    <2>1. ASSUME Finishes(l) PROVE \E pc \in FreePC : Goto(l, pc)
      <3>1. loop[l].out \in {"success", "return", "paused"}
        BY DEF IInv, LoopsInv, LoopOK, LoopRecord
      <3> QED BY <2>1, <3>1 DEF Finishes, FreePC, LoopPC
    <2> QED BY <2>1 DEF LoopStops, LoopReopens, SpawnFails, Rechecks, FreePC, LoopPC
  <1>2. UNCHANGED <<files, runner, handler, daemon, ops, env, limited>>
    BY DEF LoopStops, LoopReopens, SpawnFails, Finishes, Rechecks
  <1>3. LoopsInv'
    BY <1>1, <1>2, LoopGoes DEF IInv
  <1> QED BY <1>2, <1>3, LoopOnly

LEMMA PostsInv ==
  ASSUME IInv, NEW l \in Loops, LoopAborts(l) \/ Posts(l)
  PROVE  IInv'
  <1>1. isRunning' \in BOOLEAN
    BY DEF IInv, ControlInv, LoopAborts, Posts
  <1>2. \E pc \in FreePC : Goto(l, pc)
    BY DEF LoopAborts, Posts, FreePC, LoopPC
  <1>3. UNCHANGED <<files, signal, aborted, handler, daemon, ops, env, limited>>
    BY DEF LoopAborts, Posts
  <1>4. LoopsInv'
    BY <1>2, <1>3, LoopGoes DEF IInv
  <1> QED BY <1>1, <1>3, <1>4, RunnerStops

LEMMA StateSetInv ==
  ASSUME IInv, NEW l \in Loops,
         LoopSetsRunning(l) \/ SetsCompleted(l) \/ SetsOrchestratorTurn(l) \/ LoopPauses(l)
  PROVE  IInv'
  <1>1. \E pc \in FreePC : Goto(l, pc)
    BY DEF LoopSetsRunning, SetsCompleted, SetsOrchestratorTurn, LoopPauses,
           LoopEndsWith, FreePC, LoopPC
  <1>2. /\ state' \in MissionState
        /\ UNCHANGED <<features, bonus, log, handoff, runner, handler, daemon, ops, env,
                       limited>>
    BY DEF LoopSetsRunning, SetsCompleted, SetsOrchestratorTurn, LoopPauses,
           LoopEndsWith, MissionState
  <1>3. FilesInv'
    BY <1>2, LogWritten DEF IInv, FilesInv
  <1>4. LoopsInv'
    BY SMTT(30), <1>1, <1>2, LoopGoes DEF IInv
  <1> QED BY <1>2, <1>3, <1>4, FilesAndLoop

LEMMA DispatchesInv ==
  ASSUME IInv, NEW l \in Loops, LoopDispatches(l)
  PROVE  IInv'
  <1> DEFINE r == loop[l]
  <1>1. LoopOK(r, bonus)
    BY DEF IInv, LoopsInv
  <1>2. UNCHANGED <<files, runner, handler, daemon, ops, env, limited>>
    BY DEF LoopDispatches
  <1>3. ASSUME NEW q, LoopOK(q, bonus), loop' = [loop EXCEPT ![l] = q]
        PROVE  IInv'
    <2>1. LoopsInv'
      BY <1>2, <1>3, LoopSet DEF IInv
    <2> QED BY <1>2, <2>1, LoopOnly
  <1>4. ASSUME NEW i \in InProgress(features), r.resume # None,
               loop' = [loop EXCEPT ![l].pc = "preempt", ![l].id = features[i].id,
                                    ![l].worker = LastWorker(features[i]),
                                    ![l].resume = None]
        PROVE  IInv'
    <2> DEFINE id == features[i].id
               last == LastWorker(features[i])
               q1 == [r EXCEPT !.pc = "preempt", !.id = id]
               q == [r EXCEPT !.pc = "preempt", !.id = id, !.worker = last,
                              !.resume = None]
    <2>1. features[i] \in Feature
      BY DEF IInv, FilesInv, InProgress, FirstWith
    <2>2. id \in Ids /\ last \in Workers \cup {None}
      BY <2>1 DEF Feature, LastWorker
    <2>3. loop' = [loop EXCEPT ![l] = q]
      BY <1>4
    <2> HIDE DEF id, last
    <2>4. q1 \in LoopRecord /\ q1.pc = "preempt"
      BY ZenonT(60), <1>1, <2>2 DEF LoopOK, LoopRecord, LoopPC
    <2>5. q = [q1 EXCEPT !.worker = last, !.resume = None]
      BY <1>1 DEF LoopOK, LoopRecord
    <2> HIDE DEF q1
    <2>6. q \in LoopRecord /\ q.pc = "preempt"
      BY <2>2, <2>4, <2>5 DEF LoopRecord
    <2> HIDE DEF q
    <2> QED BY <1>3, <2>3, <2>6 DEF LoopOK
  <1>5. ASSUME loop' = [loop EXCEPT ![l].resume = None]
        PROVE  IInv'
    <2> DEFINE q == [r EXCEPT !.resume = None]
    <2>1. LoopOK(q, bonus)
      BY <1>1 DEF LoopOK, LoopRecord
    <2>2. loop' = [loop EXCEPT ![l] = q]
      BY <1>5
    <2> HIDE DEF q
    <2> QED BY <1>3, <2>1, <2>2
  <1>6. ASSUME r.resume # None,
               loop' = [loop EXCEPT ![l].pc = "resume", ![l].worker = r.resume,
                                    ![l].resume = None]
        PROVE  IInv'
    <2> DEFINE q == [r EXCEPT !.pc = "resume", !.worker = r.resume, !.resume = None]
    <2>1. q \in LoopRecord /\ q.pc = "resume" /\ q.worker \in Workers
      BY <1>1, <1>6 DEF LoopOK, LoopRecord, LoopPC
    <2>2. loop' = [loop EXCEPT ![l] = q]
      BY <1>6
    <2> HIDE DEF q
    <2> QED BY <1>3, <2>1, <2>2 DEF LoopOK
  <1>7. ASSUME Goto(l, "spawn")
        PROVE  IInv'
    <2>1. LoopsInv'
      BY <1>2, <1>7, LoopGoes DEF IInv, FreePC, LoopPC
    <2> QED BY <1>2, <2>1, LoopOnly
  <1>8. ASSUME loop' = [loop EXCEPT ![l].pc = "check", ![l].back = "recheck",
                                    ![l].todo = Milestones]
        PROVE  IInv'
    <2> DEFINE q == [r EXCEPT !.pc = "check", !.back = "recheck", !.todo = Milestones]
    <2>1. r \in LoopRecord
      BY <1>1 DEF LoopOK
    <2> HIDE DEF r
    <2>2. q \in LoopRecord /\ q.pc = "check"
      BY <2>1, CheckRecord
    <2>3. loop' = [loop EXCEPT ![l] = q]
      BY <1>8 DEF r
    <2> HIDE DEF q
    <2> QED BY <1>3, <2>2, <2>3 DEF LoopOK
  <1> QED BY <1>4, <1>5, <1>6, <1>7, <1>8 DEF LoopDispatches, Goto

LEMMA PreemptsInv ==
  ASSUME IInv, NEW l \in Loops, Preempts(l)
  PROVE  IInv'
  <1>1. FilesInv'
    BY RequeueWritten DEF IInv, Preempts
  <1>2. LoopsInv'
    BY LoopGoes DEF IInv, Preempts, FreePC, LoopPC
  <1> QED BY <1>1, <1>2, FilesAndLoop DEF Preempts

\* A loop that reads a feature finds it within its budget, or goes nowhere.
LEMMA SpawnReadsInv ==
  ASSUME IInv, NEW l \in Loops, SpawnReads(l)
  PROVE  IInv'
  <1>1. UNCHANGED <<files, runner, handler, daemon, ops, env, limited>>
    BY DEF SpawnReads
  <1>2. CASE Return(l, "return", {})
    <2>1. LoopsInv'
      BY <1>1, <1>2, LoopReturns DEF IInv
    <2> QED BY <1>1, <2>1, LoopOnly
  <1>3. ASSUME NEW i \in NextPending(features),
               loop' = [loop EXCEPT
                  ![l].pc = IF Len(features[i].workers) >= MaxAttempts + bonus[features[i].id]
                            THEN "exhausted" ELSE "spawnRpc",
                  ![l].how = "spawn", ![l].id = features[i].id,
                  ![l].snap = features[i].workers, ![l].worker = None]
        PROVE  IInv'
    <2> DEFINE r == loop[l]
               id == features[i].id
               ws == features[i].workers
               pc == IF Len(ws) >= MaxAttempts + bonus[id] THEN "exhausted" ELSE "spawnRpc"
               q1 == [r EXCEPT !.pc = pc, !.how = "spawn"]
               q2 == [q1 EXCEPT !.id = id, !.snap = ws]
               q == [r EXCEPT !.pc = pc, !.how = "spawn", !.id = id, !.snap = ws,
                              !.worker = None]
    <2>1. r \in LoopRecord /\ features[i] \in Feature /\ bonus \in [Ids -> Nat]
      BY DEF IInv, FilesInv, LoopsInv, LoopOK, NextPending, FirstWith
    <2>2. id \in Ids /\ ws \in Seq(Workers) /\ pc \in {"exhausted", "spawnRpc"}
      BY <2>1 DEF Feature
    <2>3. pc = "spawnRpc" => Len(ws) < MaxAttempts + bonus[id]
      BY <2>1, <2>2, FilesAssumption
    <2>4. loop' = [loop EXCEPT ![l] = q]
      BY <1>3
    <2> HIDE DEF id, ws, pc, r
    <2>5. q1 \in LoopRecord /\ q1.pc = pc
      <3>1. pc \in LoopPC
        BY <2>2 DEF LoopPC
      <3> QED BY <2>1, <3>1 DEF LoopRecord
    <2> HIDE DEF q1
    <2>6. q2 \in LoopRecord /\ q2.pc = pc /\ q2.id = id /\ q2.snap = ws
      BY <2>2, <2>5 DEF LoopRecord
    <2>7. q = [q2 EXCEPT !.worker = None]
      BY <2>1 DEF LoopRecord, q1
    <2> HIDE DEF q2, q
    <2>8. q \in LoopRecord /\ q.pc = pc /\ q.id = id /\ q.snap = ws
      BY <2>6, <2>7 DEF LoopRecord
    <2> HIDE DEF q
    <2>9. LoopOK(q, bonus)
      BY <2>2, <2>3, <2>8 DEF LoopOK
    <2>10. LoopsInv'
      BY <1>1, <2>4, <2>9, LoopSet DEF IInv, r
    <2> QED BY <1>1, <2>10, LoopOnly
  <1> QED BY ZenonT(60), <1>2, <1>3 DEF SpawnReads

LEMMA ExhaustedInv ==
  ASSUME IInv, NEW l \in Loops, ExhaustedLogs(l) \/ ExhaustedPauses(l)
  PROVE  IInv'
  <1>1. FilesInv'
    BY LogWritten DEF IInv, FilesInv, ExhaustedLogs, ExhaustedPauses, MissionState
  <1>2. LoopsInv'
    <2>1. CASE ExhaustedLogs(l)
      BY <2>1, LoopGoes DEF IInv, ExhaustedLogs, FreePC, LoopPC
    <2>2. CASE ExhaustedPauses(l)
      <3>1. {loop[l].id} \in SUBSET (Ids \cup {None})
        BY DEF IInv, LoopsInv, LoopOK, LoopRecord
      <3> QED BY <2>2, <3>1, LoopReturns DEF IInv, ExhaustedPauses
    <2> QED BY <2>1, <2>2
  <1>3. UNCHANGED <<runner, handler, daemon, ops, env, limited>>
    BY DEF ExhaustedLogs, ExhaustedPauses
  <1> QED BY <1>1, <1>2, <1>3, FilesAndLoop

LEMMA SpawnedInv ==
  ASSUME IInv, NEW l \in Loops, SessionSpawned(l)
  PROVE  IInv'
  <1>1. PICK w \in Unborn :
           /\ worker' = [worker EXCEPT ![w].phase = "ready"]
           /\ loop' = [loop EXCEPT ![l].pc = "mark", ![l].worker = w]
    BY DEF SessionSpawned
  <1>2. w \in Workers
    BY DEF Unborn
  <1>3. WorkersInv'
    BY <1>1, <1>2 DEF IInv, WorkersInv, WorkerRecord, Phase
  <1>4. LoopsInv'
    <2> DEFINE q == [loop[l] EXCEPT !.pc = "mark", !.worker = w]
    <2>1. LoopOK(loop[l], bonus) /\ loop[l].pc = "spawnRpc"
      BY DEF IInv, LoopsInv, SessionSpawned, At
    <2>2. LoopOK(q, bonus)
      BY <1>2, <2>1 DEF LoopOK, LoopRecord, LoopPC
    <2>3. loop' = [loop EXCEPT ![l] = q] /\ bonus' = bonus
      BY <1>1 DEF SessionSpawned
    <2> HIDE DEF q
    <2> QED BY <2>2, <2>3, LoopSet DEF IInv
  <1>5. UNCHANGED <<files, runner, handler, note, ops, env, limited>>
    BY DEF SessionSpawned
  <1> QED BY <1>3, <1>4, <1>5, FilesKept, ControlKept, HandlersKept, NotesKept DEF IInv

\* The list of workers that is written is the one that was within the budget,
\* with one more.
LEMMA MarksInv ==
  ASSUME IInv, NEW l \in Loops, MarksInProgress(l)
  PROVE  IInv'
  <1> DEFINE r == loop[l]
             ws == Append(r.snap, r.worker)
  <1>1. LoopOK(r, bonus) /\ r.pc = "mark"
    BY DEF IInv, LoopsInv, MarksInProgress, At
  <1>2. r.id \in Ids /\ ws \in Seq(Workers) /\ Len(ws) <= MaxAttempts + bonus[r.id]
    <2>1. r.id \in Ids /\ r.worker \in Workers /\ r.snap \in Seq(Workers)
          /\ Len(r.snap) < MaxAttempts + bonus[r.id]
      BY <1>1 DEF LoopOK, LoopRecord
    <2>2. bonus[r.id] \in Nat
      BY <2>1 DEF IInv, FilesInv
    <2> QED BY <2>1, <2>2, FilesAssumption
  <1>3. FilesInv'
    <2>1. AssignFeature(features, r.id, ws) \in Seq(Feature)
          /\ Bounded(AssignFeature(features, r.id, ws), bonus)
      BY <1>2, Assigned DEF IInv, FilesInv
    <2> QED BY <2>1, FeaturesWritten DEF IInv, MarksInProgress
  <1>4. LoopsInv'
    <2> DEFINE q == [r EXCEPT !.pc = "prompt", !.fail = "no", !.done = FALSE]
    <2>1. LoopOK(q, bonus)
      <3>1. q \in LoopRecord /\ q.pc = "prompt" /\ q.worker = r.worker
        BY <1>1 DEF LoopOK, LoopRecord, LoopPC
      <3>2. r.worker \in Workers
        BY <1>1 DEF LoopOK
      <3> QED BY <3>1, <3>2 DEF LoopOK
    <2>2. loop' = [loop EXCEPT ![l] = q] /\ bonus' = bonus
      BY DEF MarksInProgress
    <2> HIDE DEF q
    <2> QED BY <2>1, <2>2, LoopSet DEF IInv
  <1> QED BY <1>3, <1>4, FilesAndLoop DEF MarksInProgress

LEMMA ResumedRecord ==
  ASSUME NEW r \in LoopRecord, NEW place \in LoopPC, NEW feature \in Ids
  PROVE  [r EXCEPT !.pc = place, !.how = "resume", !.id = feature] \in LoopRecord
  <1> DEFINE q0 == [r EXCEPT !.pc = place, !.how = "resume"]
             q == [r EXCEPT !.pc = place, !.how = "resume", !.id = feature]
  <1>1. q0 \in LoopRecord
    BY DEF LoopRecord
  <1>2. q = [q0 EXCEPT !.id = feature]
    BY DEF LoopRecord
  <1> HIDE DEF q0
  <1>3. q \in LoopRecord
    BY <1>1, <1>2 DEF LoopRecord
  <1> QED BY <1>3

\* One session moves to a record that is all right.
LEMMA WorkerSet ==
  ASSUME WorkersInv, NEW w \in Workers, NEW r \in WorkerRecord,
         worker' = [worker EXCEPT ![w] = r]
  PROVE  WorkersInv'
  BY DEF WorkersInv

LEMMA LoadedType == \A session \in WorkerRecord : Loaded(session) \in WorkerRecord
  BY DEF Loaded, WorkerRecord, Phase

LEMMA AwaitedWorker ==
  ASSUME IInv, NEW l \in Loops
  PROVE  /\ loop[l] \in LoopRecord
         /\ loop[l].pc \in {"resume", "mark", "prompt", "waiting"} =>
               loop[l].worker \in Workers
         /\ loop[l].id \in Ids \cup {None}
  BY DEF IInv, LoopsInv, LoopOK, LoopRecord

LEMMA InProgressId ==
  ASSUME IInv, NEW i \in InProgress(features)
  PROVE  features[i].id \in Ids
  <1>1. features[i] \in Feature
    BY DEF IInv, FilesInv, InProgress, FirstWith
  <1> QED BY <1>1 DEF Feature

LEMMA ResumeLoadsInv ==
  ASSUME IInv, NEW l \in Loops, ResumeLoads(l)
  PROVE  IInv'
  <1>1. UNCHANGED <<files, runner, handler, note, ops, env, limited>>
    BY DEF ResumeLoads
  <1> DEFINE w == loop[l].worker
  <1>2. loop[l] \in LoopRecord /\ w \in Workers
    BY ZenonT(60), AwaitedWorker DEF ResumeLoads, At
  <1>3. LoopsInv' /\ WorkersInv'
    <2>1. CASE Return(l, "return", {}) /\ UNCHANGED worker
      BY <1>1, <2>1, LoopReturns, WorkersKept DEF IInv
    <2>2. ASSUME NEW i \in InProgress(features),
                 worker' = [worker EXCEPT ![w] = Loaded(@)],
                 loop' = [loop EXCEPT ![l].pc = "prompt", ![l].how = "resume",
                                      ![l].id = features[i].id,
                                      ![l].fail = "no", ![l].done = FALSE]
          PROVE  LoopsInv' /\ WorkersInv'
      <3> DEFINE id == features[i].id
                 r == loop[l]
                 pc == "prompt"
                 q1 == [r EXCEPT !.pc = pc, !.how = "resume", !.id = id]
                 q == [r EXCEPT !.pc = pc, !.how = "resume", !.id = id,
                                !.fail = "no", !.done = FALSE]
      <3>1. id \in Ids /\ pc \in LoopPC
        BY InProgressId DEF LoopPC
      <3>2. loop' = [loop EXCEPT ![l] = q]
        BY <2>2
      <3>3. q \in LoopRecord /\ q.pc = pc /\ q.worker \in Workers
        <4>1. r \in LoopRecord /\ r.worker \in Workers
          BY <1>2
        <4> HIDE DEF id, r, pc
        <4>2. q1 \in LoopRecord
          BY <3>1, <4>1, ResumedRecord
        <4>3. q1.pc = pc /\ q1.worker \in Workers
          BY <4>1 DEF LoopRecord
        <4>4. q = [q1 EXCEPT !.fail = "no", !.done = FALSE]
          BY <4>1 DEF LoopRecord
        <4> HIDE DEF q1
        <4> QED BY <4>2, <4>3, <4>4 DEF LoopRecord
      <3> HIDE DEF q
      <3>4. LoopsInv'
        <4>1. LoopOK(q, bonus)
          BY <3>3 DEF LoopOK
        <4> QED BY <1>1, <3>2, <4>1, LoopSet DEF IInv
      <3>5. WorkersInv'
        <4>1. worker[w] \in WorkerRecord
          BY <1>2 DEF IInv, WorkersInv
        <4>2. worker' = [worker EXCEPT ![w] = Loaded(worker[w])]
          BY <2>2
        <4> QED BY <1>2, <4>1, <4>2, LoadedType, WorkerSet DEF IInv
      <3> QED BY <3>4, <3>5
    <2> QED BY <2>1, <2>2 DEF ResumeLoads
  <1> QED BY <1>1, <1>3, FilesKept, ControlKept, HandlersKept, NotesKept DEF IInv

LEMMA ResumeFailsInv ==
  ASSUME IInv, NEW l \in Loops, ResumeFails(l)
  PROVE  IInv'
  <1>1. UNCHANGED <<files, runner, handler, daemon, ops, env, limited>>
    BY DEF ResumeFails
  <1>2. PICK i \in InProgress(features) :
           loop' = [loop EXCEPT ![l].pc = "dispatchFailed", ![l].how = "resume",
                                ![l].id = features[i].id]
    BY DEF ResumeFails
  <1> DEFINE id == features[i].id
             r == loop[l]
             pc == "dispatchFailed"
             q == [r EXCEPT !.pc = pc, !.how = "resume", !.id = id]
  <1>3. id \in Ids /\ pc \in LoopPC
    BY InProgressId DEF LoopPC
  <1>4. loop' = [loop EXCEPT ![l] = q]
    BY <1>2
  <1>5. q \in LoopRecord /\ q.pc = pc
    <2>1. r \in LoopRecord
      BY AwaitedWorker
    <2> HIDE DEF id, r, pc
    <2>2. q \in LoopRecord
      BY <1>3, <2>1, ResumedRecord
    <2>3. q.pc = pc
      BY <2>1 DEF LoopRecord
    <2> QED BY <2>2, <2>3
  <1> HIDE DEF q
  <1>6. LoopOK(q, bonus)
    BY <1>5 DEF LoopOK
  <1>7. LoopsInv'
    BY <1>1, <1>4, <1>6, LoopSet DEF IInv
  <1> QED BY <1>1, <1>7, LoopOnly

LEMMA PromptSentInv ==
  ASSUME IInv, NEW l \in Loops, PromptSent(l)
  PROVE  IInv'
  <1> DEFINE w == loop[l].worker
             r == [worker[w] EXCEPT !.phase = "working", !.task = loop[l].id]
  <1>1. w \in Workers /\ loop[l].id \in Ids \cup {None}
    BY AwaitedWorker DEF PromptSent, At
  <1>2. UNCHANGED <<files, runner, handler, note, ops, env>> /\ limited' = limited \ {w}
    BY DEF PromptSent
  <1>3. WorkersInv'
    <2>1. worker' = [worker EXCEPT ![w] = r]
      BY DEF PromptSent
    <2>2. r \in WorkerRecord
      BY ZenonT(60), <1>1 DEF IInv, WorkersInv, WorkerRecord, Phase
    <2> HIDE DEF r, w
    <2> QED BY <1>1, <2>1, <2>2, WorkerSet DEF IInv
  <1>4. LoopsInv'
    BY <1>1, <1>2, LoopMoves DEF IInv, PromptSent, LoopPC
  <1>5. ControlInv'
    BY <1>2 DEF IInv, ControlInv
  <1> QED BY <1>2, <1>3, <1>4, <1>5, FilesKept, HandlersKept, NotesKept DEF IInv

LEMMA NotesCleared ==
  ASSUME NotesInv, NEW l \in Loops, note' = [note EXCEPT ![l] = <<>>]
  PROVE  NotesInv'
  BY DEF NotesInv

LEMMA PromptFailsInv ==
  ASSUME IInv, NEW l \in Loops, PromptFails(l)
  PROVE  IInv'
  <1> DEFINE w == loop[l].worker
             r == [worker[w] EXCEPT !.phase = "working", !.task = loop[l].id]
  <1>1. w \in Workers /\ loop[l].id \in Ids \cup {None}
    BY AwaitedWorker DEF PromptFails, At
  <1>2. UNCHANGED <<files, runner, handler, ops, env, limited>>
    BY DEF PromptFails
  <1>3. WorkersInv'
    <2>1. UNCHANGED worker \/ worker' = [worker EXCEPT ![w] = r]
      BY DEF PromptFails
    <2>2. r \in WorkerRecord
      BY <1>1 DEF IInv, WorkersInv, WorkerRecord, Phase
    <2> HIDE DEF r, w
    <2> QED BY <1>1, <2>1, <2>2, WorkerSet, WorkersKept DEF IInv
  <1>4. LoopsInv'
    BY <1>2, LoopGoes DEF IInv, PromptFails, FreePC, LoopPC
  <1>5. NotesInv'
    BY NotesCleared DEF IInv, PromptFails
  <1> QED BY <1>2, <1>3, <1>4, <1>5, FilesKept, ControlKept, HandlersKept DEF IInv

LEMMA DispatchFailsInv ==
  ASSUME IInv, NEW l \in Loops, DispatchFails(l)
  PROVE  IInv'
  <1>1. UNCHANGED <<state, bonus, log, runner, handler, note, ops, env, limited>>
    BY DEF DispatchFails
  <1>2. \/ UNCHANGED <<features, handoff, worker>>
        \/ /\ WriteFeatures(Requeue(features, loop[l].id, loop[l].worker))
           /\ Tell({loop[l].worker}, "close")
    BY DEF DispatchFails
  <1>3. FilesInv'
    BY <1>1, <1>2, FilesKept, RequeueWritten DEF IInv
  <1>4. WorkersInv'
    BY <1>2, WorkersKept, WorkerTold DEF IInv
  <1>5. LoopsInv'
    <2>1. PICK ids \in {{}, {loop[l].id}} : Return(l, "return", ids)
      BY DEF DispatchFails
    <2>2. ids \in SUBSET (Ids \cup {None})
      BY <2>1, AwaitedWorker
    <2> QED BY <1>1, <2>1, <2>2, LoopReturns DEF IInv
  <1> QED BY <1>1, <1>3, <1>4, <1>5, ControlKept, HandlersKept, NotesKept DEF IInv

LEMMA FailSet ==
  ASSUME LoopsInv, NEW l \in Loops, NEW fail \in {"no", "requeued", "paused"},
         loop' = [loop EXCEPT ![l].fail = fail], bonus' = bonus
  PROVE  LoopsInv'
  <1> DEFINE q == [loop[l] EXCEPT !.fail = fail]
  <1>1. LoopOK(loop[l], bonus)
    BY DEF LoopsInv
  <1>2. LoopOK(q, bonus)
    BY <1>1 DEF LoopOK, LoopRecord
  <1>3. loop' = [loop EXCEPT ![l] = q]
    OBVIOUS
  <1> HIDE DEF q
  <1> QED BY <1>2, <1>3, LoopSet

LEMMA DoneSet ==
  ASSUME LoopsInv, NEW l \in Loops,
         loop' = [loop EXCEPT ![l].done = TRUE], bonus' = bonus
  PROVE  LoopsInv'
  <1> DEFINE q == [loop[l] EXCEPT !.done = TRUE]
  <1>1. LoopOK(loop[l], bonus)
    BY DEF LoopsInv
  <1>2. LoopOK(q, bonus)
    BY <1>1 DEF LoopOK, LoopRecord
  <1>3. loop' = [loop EXCEPT ![l] = q]
    OBVIOUS
  <1> HIDE DEF q
  <1> QED BY <1>2, <1>3, LoopSet

LEMMA HandlesType ==
  ASSUME IInv, NEW l \in Loops, NEW pc \in {"log402", "fail"}, Handles(l, pc)
  PROVE  HandlersInv'
  <1> DEFINE r == [pc |-> pc, worker |-> loop[l].worker, id |-> loop[l].id, live |-> TRUE]
  <1>1. loop[l].worker \in Workers \cup {None} /\ loop[l].id \in Ids \cup {None}
    BY DEF IInv, LoopsInv, LoopOK, LoopRecord
  <1>2. r \in HandlerRecord
    BY <1>1 DEF HandlerRecord
  <1>3. handler' = [handler EXCEPT ![l] = r]
    BY DEF Handles
  <1> HIDE DEF r
  <1> QED BY <1>2, <1>3 DEF IInv, HandlersInv

LEMMA NotifiedInv ==
  ASSUME IInv, NEW l \in Loops, Notified(l)
  PROVE  IInv'
  <1>1. UNCHANGED <<files, runner, ops, env, limited>>
        /\ note' = [note EXCEPT ![l] = Tail(@)] /\ note[l] # <<>>
    BY DEF Notified
  <1>2. \/ UNCHANGED <<loop, worker, handler>>
        \/ Completes(l)
        \/ \E pc \in {"log402", "fail"} : Handles(l, pc)
    <2>1. Head(note[l]) \in {"progress", "completed", "exit"}
      BY <1>1 DEF IInv, NotesInv, Notification
    <2> QED BY <2>1 DEF Notified
  <1>3. NotesInv'
    <2>1. note[l] \in Seq(Notification)
      BY DEF IInv, NotesInv
    <2>2. Tail(note[l]) \in Seq(Notification)
      BY <1>1, <2>1
    <2> QED BY <1>1, <2>2 DEF IInv, NotesInv
  <1>4. LoopsInv'
    BY <1>1, <1>2, LoopsKept, DoneSet DEF Completes, Handles, IInv
  <1>5. WorkersInv'
    BY <1>2, WorkersKept, WorkerTold DEF Completes, Handles, IInv
  <1>6. HandlersInv'
    BY <1>2, HandlersKept, HandlesType DEF Completes, IInv
  <1> QED BY <1>1, <1>3, <1>4, <1>5, <1>6, FilesKept, ControlKept DEF IInv

LEMMA WaitEndsInv ==
  ASSUME IInv, NEW l \in Loops, WaitEnds(l)
  PROVE  IInv'
  <1> DEFINE w == loop[l].worker
  <1>1. UNCHANGED <<files, runner, ops, env, limited>>
        /\ note' = [note EXCEPT ![l] = <<>>]
        /\ handler' = [handler EXCEPT ![l].live = FALSE]
    BY DEF WaitEnds
  <1>2. UNCHANGED worker \/ Tell({w}, "interrupt")
    BY DEF WaitEnds
  <1>3. w \in Workers
    BY AwaitedWorker DEF WaitEnds, At
  <1>4. \E out \in {"success", "return", "paused"} :
           \E ids \in {{}, {loop[l].id}, {worker[w].task}} : Return(l, out, ids)
    BY DEF WaitEnds
  <1>5. LoopsInv'
    <2>1. loop[l].id \in Ids \cup {None} /\ worker[w].task \in Ids \cup {None}
      BY <1>3, AwaitedWorker DEF IInv, WorkersInv, WorkerRecord
    <2> HIDE DEF w
    <2>2. \E out \in {"success", "return", "paused"}, ids \in SUBSET (Ids \cup {None}) :
             Return(l, out, ids)
      BY <1>4, <2>1
    <2> QED BY <1>1, <2>2, LoopReturns DEF IInv
  <1>6. WorkersInv'
    BY <1>2, WorkersKept, WorkerTold DEF IInv
  <1>7. HandlersInv'
    BY ZenonT(60), <1>1 DEF IInv, HandlersInv, HandlerRecord
  <1> QED BY <1>1, <1>5, <1>6, <1>7, NotesCleared, FilesKept, ControlKept DEF IInv

\* A milestone due for validation names its validators.
LEMMA ChecksInv ==
  ASSUME IInv, NEW l \in Loops, Checks(l)
  PROVE  IInv'
  <1> DEFINE r == loop[l]
  <1>1. UNCHANGED <<files, runner, handler, daemon, ops, env, limited>>
    BY ZenonT(60) DEF Checks
  <1>2. r \in LoopRecord /\ r.pc = "check" /\ r.todo \in SUBSET Milestones
        /\ r.back \in {"finish", "recheck"}
    BY AwaitedWorker DEF Checks, At, LoopRecord
  <1>3. ASSUME NEW q, LoopOK(q, bonus), loop' = [loop EXCEPT ![l] = q]
        PROVE  IInv'
    <2>1. LoopsInv'
      BY <1>1, <1>3, LoopSet DEF IInv
    <2> QED BY <1>1, <2>1, LoopOnly
  <1>4. CASE Goto(l, r.back)
    <2>1. LoopsInv'
      BY <1>1, <1>2, <1>4, LoopGoes DEF IInv, FreePC, LoopPC
    <2> QED BY <1>1, <2>1, LoopOnly
  <1>5. ASSUME NEW m \in r.todo,
               loop' = [loop EXCEPT ![l].todo = {m} \cup @,
                                    ![l].pc = "insertUserTesting",
                                    ![l].id = UserTesting(m)]
        PROVE  IInv'
    <2> DEFINE T == {m} \cup r.todo
               id == UserTesting(m)
               q0 == [r EXCEPT !.todo = T]
               q == [r EXCEPT !.todo = T, !.pc = "insertUserTesting", !.id = id]
    <2>1. id \in Ids /\ T \in SUBSET Milestones /\ "insertUserTesting" \in LoopPC
      BY <1>2 DEF Ids, ValidatorIds, LoopPC
    <2>2. loop' = [loop EXCEPT ![l] = q]
      BY <1>5
    <2> HIDE DEF T, id, r
    <2>3. q0 \in LoopRecord
      BY <1>2, <2>1 DEF LoopRecord
    <2>4. q = [q0 EXCEPT !.pc = "insertUserTesting", !.id = id]
      BY <1>2 DEF LoopRecord
    <2> HIDE DEF q0, q
    <2>5. q \in LoopRecord /\ q.pc = "insertUserTesting" /\ q.id = id
      BY <2>1, <2>3, <2>4 DEF LoopRecord
    <2> QED BY <1>3, <2>1, <2>2, <2>5 DEF LoopOK
  <1>6. ASSUME NEW m \in r.todo, loop' = [loop EXCEPT ![l].todo = @ \ {m}]
        PROVE  IInv'
    <2> DEFINE T == r.todo \ {m}
               q == [r EXCEPT !.todo = T]
    <2>1. T \in SUBSET Milestones
      BY <1>2
    <2>2. loop' = [loop EXCEPT ![l] = q]
      BY <1>6
    <2> HIDE DEF T, r
    <2>3. q \in LoopRecord /\ q.pc = "check"
      BY <1>2, <2>1 DEF LoopRecord
    <2> HIDE DEF q
    <2> QED BY <1>3, <2>2, <2>3 DEF LoopOK
  <1> QED BY <1>4, <1>5, <1>6 DEF Checks

LEMMA InsertsInv ==
  ASSUME IInv, NEW l \in Loops, InsertsUserTesting(l) \/ InsertsScrutiny(l)
  PROVE  IInv'
  <1>1. UNCHANGED <<state, bonus, log, runner, handler, daemon, ops, env, limited>>
    BY DEF InsertsUserTesting, InsertsScrutiny
  <1>2. loop[l].id \in Ids
    BY DEF InsertsUserTesting, InsertsScrutiny, At, IInv, LoopsInv, LoopOK
  <1>3. FilesInv'
    <2>1. Validating(l) \in Milestones
      BY <1>2, MilestoneType DEF Validating
    <2>2. UserTesting(Validating(l)) \in Ids /\ Scrutiny(Validating(l)) \in Ids
      BY <2>1 DEF Ids, ValidatorIds
    <2>3. \/ WriteFeatures(features)
          \/ \E id \in Ids : WriteFeatures(InsertFeatureAtTop(features, id))
      BY <2>2 DEF InsertsUserTesting, InsertsScrutiny
    <2> QED BY <1>1, <2>3, SameWritten, InsertWritten DEF IInv
  <1>4. LoopsInv'
    BY <1>1, <1>2, LoopMoves DEF IInv, InsertsUserTesting, InsertsScrutiny, LoopPC
  <1> QED BY <1>1, <1>3, <1>4, FilesAndLoop

LEMMA MarksValidatedInv ==
  ASSUME IInv, NEW l \in Loops, MarksValidated(l)
  PROVE  IInv'
  <1> DEFINE r == loop[l]
             T == r.todo \ {Validating(l)}
             q == [r EXCEPT !.pc = "check", !.todo = T]
  <1>1. r \in LoopRecord /\ r.id \in Ids
    BY DEF MarksValidated, At, IInv, LoopsInv, LoopOK
  <1>2. Validating(l) \in Milestones
    BY <1>1, MilestoneType DEF Validating
  <1>3. FilesInv'
    BY <1>2, LogWritten DEF IInv, FilesInv, MarksValidated
  <1>4. LoopsInv'
    <2>1. T \in SUBSET Milestones /\ "check" \in LoopPC
      BY <1>1 DEF LoopRecord, LoopPC
    <2>2. loop' = [loop EXCEPT ![l] = q] /\ bonus' = bonus
      BY DEF MarksValidated
    <2> HIDE DEF T, r
    <2>3. q \in LoopRecord /\ q.pc = "check"
      BY <1>1, <2>1 DEF LoopRecord
    <2> HIDE DEF q
    <2>4. LoopOK(q, bonus)
      BY <2>3 DEF LoopOK
    <2> QED BY <2>2, <2>4, LoopSet DEF IInv
  <1> QED BY <1>3, <1>4, FilesAndLoop DEF MarksValidated

LEMMA LoopPauseLogsInv ==
  ASSUME IInv, NEW l \in Loops, LoopPauseLogs(l)
  PROVE  IInv'
  <1>1. FilesInv'
    BY LogWritten DEF IInv, FilesInv, LoopPauseLogs
  <1>2. LoopsInv'
    BY LoopGoes DEF IInv, LoopPauseLogs, FreePC, LoopPC
  <1>3. WorkersInv'
    BY WorkerTold DEF IInv, LoopPauseLogs
  <1>4. UNCHANGED <<runner, handler, note, ops, env, limited>>
    BY DEF LoopPauseLogs
  <1> QED BY <1>1, <1>2, <1>3, <1>4, ControlKept, HandlersKept, NotesKept DEF IInv

LEMMA ExitsInv ==
  ASSUME IInv, NEW l \in Loops, Exits(l)
  PROVE  IInv'
  <1>1. UNCHANGED <<files, bonus, handler, daemon>>
    BY DEF Exits
  <1>2. LoopsInv'
    <2>1. LoopOK(Idle, bonus)
      BY DEF LoopOK, LoopRecord, LoopPC, Idle
    <2> QED BY <1>1, <2>1, LoopSet DEF IInv, Exits
  <1>3. ControlInv'
    BY DEF IInv, ControlInv, Exits, NoTool
  <1> QED BY <1>1, <1>2, <1>3, FilesKept, WorkersKept, HandlersKept, NotesKept DEF IInv

-----------------------------------------------------------------------------
(* The notification handlers and the worker sessions.                      *)

LEMMA HandlerEnded ==
  ASSUME IInv, NEW l \in Loops, NEW result \in {"no", "requeued", "paused"},
         HandlerEnds(l, result), bonus' = bonus
  PROVE  LoopsInv' /\ HandlersInv'
  <1>1. loop[l].fail \in {"no", "requeued", "paused"}
    BY DEF IInv, LoopsInv, LoopOK, LoopRecord
  <1>2. \E fail \in {"no", "requeued", "paused"} : loop' = [loop EXCEPT ![l].fail = fail]
    BY <1>1 DEF HandlerEnds
  <1>3. LoopsInv'
    BY <1>2, FailSet DEF IInv
  <1>4. HandlersInv'
    BY DEF IInv, HandlersInv, HandlerEnds, HandlerRecord, NoHandler
  <1> QED BY <1>3, <1>4

LEMMA HandlerStepInv ==
  ASSUME IInv, NEW l \in Loops, HandlerStep(l)
  PROVE  IInv'
  <1>1. CASE Logs402(l)
    <2>1. FilesInv'
      BY <1>1, LogWritten DEF IInv, FilesInv, Logs402
    <2>2. HandlersInv'
      BY <1>1 DEF IInv, HandlersInv, Logs402, HandlerRecord
    <2>3. UNCHANGED <<runner, loop, bonus, daemon, ops, env, limited>>
      BY <1>1 DEF Logs402
    <2> QED BY <2>1, <2>2, <2>3, ControlKept, LoopsKept, WorkersKept, NotesKept DEF IInv
  <1>2. CASE Pauses402(l)
    <2>1. FilesInv'
      BY <1>2, LogWritten DEF IInv, FilesInv, Pauses402, MissionState
    <2>2. WorkersInv'
      BY <1>2, WorkerTold DEF IInv, Pauses402
    <2>3. LoopsInv' /\ HandlersInv'
      BY <1>2, HandlerEnded DEF Pauses402
    <2>4. UNCHANGED <<runner, note, ops, env, limited>>
      BY <1>2 DEF Pauses402
    <2> QED BY <2>1, <2>2, <2>3, <2>4, ControlKept, NotesKept DEF IInv
  <1>3. CASE RequeuesFailed(l)
    <2>1. FilesInv'
      BY <1>3, RequeueWritten DEF IInv, RequeuesFailed
    <2>2. LoopsInv' /\ HandlersInv'
      BY <1>3, HandlerEnded DEF RequeuesFailed
    <2>3. UNCHANGED <<runner, daemon, ops, env, limited>>
      BY <1>3 DEF RequeuesFailed
    <2> QED BY <2>1, <2>2, <2>3, ControlKept, WorkersKept, NotesKept DEF IInv
  <1> QED BY <1>1, <1>2, <1>3 DEF HandlerStep

LEMMA StatusWritten ==
  ASSUME FilesInv, NEW id, NEW status \in FeatureStatus,
         WriteFeatures(UpdateFeature(features, id, status)),
         UNCHANGED <<state, bonus, log>>
  PROVE  FilesInv'
  <1>1. UpdateFeature(features, id, status) \in Seq(Feature)
        /\ Bounded(UpdateFeature(features, id, status), bonus)
    BY StatusUpdate, DescendsBounded DEF FilesInv
  <1> QED BY <1>1, FeaturesWritten

LEMMA MoveWritten ==
  ASSUME FilesInv, NEW id, WriteFeatures(MoveFeatureToBottom(features, id)),
         UNCHANGED <<state, bonus, log>>
  PROVE  FilesInv'
  <1>1. MoveFeatureToBottom(features, id) \in Seq(Feature)
        /\ Bounded(MoveFeatureToBottom(features, id), bonus)
    BY Moved, DescendsBounded DEF FilesInv
  <1> QED BY <1>1, FeaturesWritten

\* The steps of a session that leave its task and its report alone.
LEMMA PhaseSet ==
  ASSUME WorkersInv, NEW w \in Workers, NEW phase \in Phase,
         worker' = [worker EXCEPT ![w].phase = phase]
  PROVE  WorkersInv'
  BY DEF WorkersInv, WorkerRecord

LEMMA WorkerOnly ==
  ASSUME IInv, NotesInv', WorkersInv',
         UNCHANGED <<files, runner, loop, handler, ops, env, limited>>
  PROVE  IInv'
  BY FilesKept, ControlKept, LoopsKept, HandlersKept DEF IInv

LEMMA FilesAndWorker ==
  ASSUME IInv, FilesInv', WorkersInv', NotesInv', bonus' = bonus,
         UNCHANGED <<runner, loop, handler, ops, env, limited>>
  PROVE  IInv'
  BY ControlKept, LoopsKept, HandlersKept DEF IInv

LEMMA EndsInv ==
  ASSUME IInv, NEW w \in Workers, NEW id \in Ids, NEW report \in Reports,
         Ends(w, id, report)
  PROVE  IInv'
  <1> DEFINE phase == IF Succeeds(report) THEN "moving" ELSE "returning"
             r == [worker[w] EXCEPT !.phase = phase, !.task = id, !.report = report]
  <1>1. FilesInv'
    <2>1. \E status \in FeatureStatus : WriteFeatures(UpdateFeature(features, id, status))
      BY DEF Ends, FeatureStatus
    <2> QED BY <2>1, StatusWritten DEF IInv, Ends
  <1>2. WorkersInv'
    <2>1. worker' = [worker EXCEPT ![w] = r]
      BY DEF Ends
    <2>2. worker[w] \in WorkerRecord /\ phase \in Phase
      BY DEF IInv, WorkersInv, Phase, Ending
    <2> HIDE DEF phase
    <2>3. r \in WorkerRecord
      BY <2>2 DEF WorkerRecord
    <2> HIDE DEF r
    <2> QED BY <2>1, <2>3, WorkerSet DEF IInv
  <1> QED BY <1>1, <1>2, NotesKept, FilesAndWorker DEF Ends, IInv

LEMMA WorkerStepInv ==
  ASSUME IInv, NEW w \in Workers, WorkerStep(w)
  PROVE  IInv'
  <1>1. ASSUME NEW id \in Ids, NEW report \in Reports, Ends(w, id, report)
        PROVE  IInv'
    BY <1>1, EndsInv
  <1>2. CASE MovesToBottom(w)
    <2>1. FilesInv'
      BY <1>2, MoveWritten DEF IInv, MovesToBottom
    <2>2. WorkersInv'
      BY <1>2, PhaseSet DEF IInv, MovesToBottom, Phase, Ending
    <2> QED BY <1>2, <2>1, <2>2, NotesKept, FilesAndWorker DEF MovesToBottom, IInv
  <1>3. CASE ReturnsToOrchestrator(w)
    <2>1. FilesInv'
      BY <1>3, LogWritten DEF IInv, FilesInv, ReturnsToOrchestrator, MissionState
    <2>2. WorkersInv'
      BY <1>3, PhaseSet DEF IInv, ReturnsToOrchestrator, Phase, Ending
    <2> QED BY <1>3, <2>1, <2>2, NotesKept, FilesAndWorker DEF ReturnsToOrchestrator, IInv
  <1>4. CASE LogsCompleted(w)
    <2>1. FilesInv'
      BY <1>4, LogWritten DEF IInv, FilesInv, LogsCompleted
    <2>2. WorkersInv'
      BY <1>4, PhaseSet DEF IInv, LogsCompleted, Phase
    <2>3. NotesInv'
      <3>1. <<"progress", "completed">> \in Seq(Notification)
        BY DEF Notification
      <3> QED BY <1>4, <3>1, Emitted DEF IInv, LogsCompleted
    <2> QED BY <1>4, <2>1, <2>2, <2>3, FilesAndWorker DEF LogsCompleted
  <1>5. CASE Signals402(w)
    <2>1. FilesInv'
      BY <1>5, LogWritten DEF IInv, FilesInv, Signals402
    <2>2. WorkersInv'
      BY <1>5, PhaseSet DEF IInv, Signals402, Phase
    <2>3. NotesInv'
      <3>1. <<"progress">> \in Seq(Notification)
        BY DEF Notification
      <3> QED BY <1>5, <3>1, Emitted DEF IInv, Signals402
    <2>4. ControlInv'
      BY <1>5 DEF IInv, ControlInv, Signals402
    <2> QED BY <1>5, <2>1, <2>2, <2>3, <2>4, LoopsKept, HandlersKept DEF Signals402, IInv
  <1>6. CASE WorkerExits(w) \/ SessionExpires(w)
    <2>1. WorkersInv'
      BY <1>6, PhaseSet DEF IInv, WorkerExits, SessionExpires, Phase
    <2>2. NotesInv'
      <3>1. <<>> \in Seq(Notification) /\ <<"exit">> \in Seq(Notification)
        BY DEF Notification
      <3> QED BY <1>6, <3>1, Emitted DEF IInv, WorkerExits, SessionExpires
    <2> QED BY <1>6, <2>1, <2>2, WorkerOnly DEF WorkerExits, SessionExpires
  <1>7. CASE Obeys(w)
    <2>1. \E phase \in Phase :
             worker' = [worker EXCEPT ![w].told = "nothing", ![w].phase = phase]
      BY <1>7 DEF Obeys, IInv, WorkersInv, WorkerRecord, Phase
    <2>2. PICK phase \in Phase :
             worker' = [worker EXCEPT ![w].told = "nothing", ![w].phase = phase]
      BY <2>1
    <2>3. worker \in [Workers -> WorkerRecord]
      BY DEF IInv, WorkersInv
    <2>4. [worker[w] EXCEPT !.told = "nothing", !.phase = phase] \in WorkerRecord
      <3>1. worker[w] \in WorkerRecord
        BY <2>3
      <3> HIDE DEF Phase
      <3> QED BY <3>1, <2>2 DEF WorkerRecord
    <2>5. worker' = [worker EXCEPT ![w] =
                        [worker[w] EXCEPT !.told = "nothing", !.phase = phase]]
      BY <2>2, <2>3 DEF WorkerRecord
    <2> HIDE DEF WorkerRecord
    <2>6. WorkersInv'
      BY <2>3, <2>4, <2>5 DEF WorkersInv
    <2> QED BY <1>7, <2>6, NotesKept, WorkerOnly DEF Obeys, IInv
  <1> QED BY <1>1, <1>2, <1>3, <1>4, <1>5, <1>6, <1>7 DEF WorkerStep

-----------------------------------------------------------------------------
(* The invariant, from the initial states and through every step.          *)

LEMMA LoopStepInv ==
  ASSUME IInv, NEW l \in Loops, LoopStep(l)
  PROVE  IInv'
  BY LaunchInv, CleanupInv, HeadInv, PostsInv, StateSetInv, DispatchesInv, PreemptsInv,
     SpawnReadsInv, ExhaustedInv, SpawnedInv, MarksInv, ResumeLoadsInv, ResumeFailsInv,
     PromptSentInv, PromptFailsInv, DispatchFailsInv, NotifiedInv, WaitEndsInv,
     ChecksInv, InsertsInv, MarksValidatedInv, LoopPauseLogsInv, ExitsInv
  DEF LoopStep

LEMMA CallsInv ==
  ASSUME IInv, Calls
  PROVE  IInv'
  <1>1. ASSUME NEW explicit \in (IF ResumeAny THEN Workers ELSE {}) \cup {None},
               NEW restart \in BOOLEAN, StartMissionRun(explicit, restart)
        PROVE  IInv'
    BY <1>1, StartInv
  <1> QED BY <1>1, AbortInv, UserPausesInv, KillsInv, OrchestratorInv DEF Calls

LEMMA Unchanged == IInv /\ UNCHANGED vars => IInv'
  BY FilesKept, ControlKept, LoopsKept, WorkersKept, HandlersKept, NotesKept
  DEF IInv, vars

LEMMA NextInv == IInv /\ [Next]_vars => IInv'
  <1> SUFFICES ASSUME IInv, [Next]_vars PROVE IInv'
    OBVIOUS
  <1>1. CASE \E l \in Loops : LoopStep(l) \/ HandlerStep(l)
    BY <1>1, LoopStepInv, HandlerStepInv
  <1>2. CASE ToolStep
    BY <1>2, GrantInv, SetsRunningInv DEF ToolStep
  <1>3. CASE OpStep
    BY <1>3, PauseInv, KillInterruptsInv DEF OpStep
  <1>4. CASE \E w \in Workers : WorkerStep(w)
    BY <1>4, WorkerStepInv
  <1>5. CASE Calls
    BY <1>5, CallsInv
  <1>6. CASE Crash \/ Reload
    BY <1>6, CrashInv, ReloadInv
  <1>7. CASE UNCHANGED vars
    BY <1>7, Unchanged
  <1> QED BY <1>1, <1>2, <1>3, <1>4, <1>5, <1>6, <1>7 DEF Next

LEMMA InitInv == Init => IInv
  <1> SUFFICES ASSUME Init PROVE IInv
    OBVIOUS
  <1>1. FilesInv
    <2>1. features \in Seq(Feature)
      <3>1. Planned \in Seq(Ids) /\ Len(Planned) \in Nat /\ DOMAIN Planned = 1..Len(Planned)
        BY RunAssumption DEF Ids
      <3>2. \A i \in 1..Len(Planned) : features[i] \in Feature
        BY <3>1, NewFeatureType DEF Init
      <3>3. features = [i \in 1..Len(Planned) |-> features[i]]
        BY <3>1 DEF Init
      <3> QED BY <3>1, <3>2, <3>3, Entries
    <2>2. bonus \in [Ids -> Nat]
      BY DEF Init
    <2>3. Bounded(features, bonus)
      <3>1. \A i \in DOMAIN features : features[i].workers = <<>> /\ features[i].id \in Ids
        BY <2>1, RunAssumption DEF Init, NewFeature, Ids
      <3> QED BY <2>2, <3>1, FilesAssumption DEF Bounded
    <2> QED BY <2>1, <2>2, <2>3 DEF Init, FilesInv, MissionState
  <1>2. ControlInv
    <2>1. 0 \in 0..MaxEvents
      BY RunAssumption
    <2>2. tool \in [pc : {"idle", "grant", "run", "launch", "waiting"},
                    resume : Workers \cup {None}, loop : Loops \cup {None}]
          /\ tool.pc = "idle"
      BY DEF Init, NoTool
    <2> QED BY <2>1, <2>2 DEF Init, ControlInv
  <1>3. LoopsInv
    <2>1. LoopOK(Idle, bonus)
      BY DEF LoopOK, LoopRecord, LoopPC, Idle
    <2> QED BY <2>1 DEF LoopsInv, Init
  <1>4. WorkersInv /\ HandlersInv /\ NotesInv
    BY DEF Init, WorkersInv, WorkerRecord, Phase, HandlersInv, HandlerRecord, NoHandler,
           NotesInv
  <1> QED BY <1>1, <1>2, <1>3, <1>4 DEF IInv

\* The variables keep their types whatever the runner, its tool calls, the pauses,
\* the kills, the worker sessions and the crashes do in any order.
THEOREM TypeCorrect == Spec => []TypeOK
  <1>1. Spec => []IInv
    BY InitInv, NextInv, PTL DEF Spec
  <1>2. IInv => TypeOK
    BY IInvMeans
  <1> QED BY <1>1, <1>2, PTL

\* getEffectiveMaxFeatureAttempts bounds the workers of every feature, for any
\* number of features, workers and overlapping loops: a loop writes the list it
\* read when it looked at the budget, and the budget only grows in between.
THEOREM BudgetRespected == Spec => []AttemptsWithinBudget
  <1>1. Spec => []IInv
    BY InitInv, NextInv, PTL DEF Spec
  <1>2. IInv => AttemptsWithinBudget
    BY IInvMeans
  <1> QED BY <1>1, <1>2, PTL
=============================================================================
