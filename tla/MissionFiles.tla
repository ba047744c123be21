---------------------------- MODULE MissionFiles ----------------------------
(***************************************************************************)
(* features.json of a mission, as values: an array of features in running  *)
(* order, and the pure part of the operations MissionFileService,          *)
(* requeueFeatureIfInProgress and retryBudget define on it.                *)
(*                                                                         *)
(* A feature is reduced to its id, its status and the worker sessions that *)
(* were assigned to it, oldest first.  Ids are looked up the way the code  *)
(* does, by the first entry that carries them, because nothing in the code *)
(* keeps the ids of the array distinct.                                    *)
(***************************************************************************)
EXTENDS Naturals, Sequences, FiniteSets

CONSTANTS Features,    \* ids of the implementation features
          Milestones,
          MilestoneOf, \* [Features -> Milestones]
          Workers,     \* worker session ids
          None,        \* null
          MaxAttempts  \* MAX_FEATURE_ATTEMPTS

ASSUME FilesAssumption ==
    /\ MaxAttempts \in Nat \ {0}
    /\ MilestoneOf \in [Features -> Milestones]
    /\ None \notin Workers

\* The two validators the runner injects for a milestone.
Scrutiny(m) == <<"scrutiny-validator", m>>
UserTesting(m) == <<"user-testing-validator", m>>

ValidatorIds == {Scrutiny(m) : m \in Milestones}
                \cup {UserTesting(m) : m \in Milestones}
Ids == Features \cup ValidatorIds

FeatureStatus == {"pending", "in_progress", "completed", "cancelled"}

Feature == [id : Ids, status : FeatureStatus, workers : Seq(Workers)]

NewFeature(id) == [id |-> id, status |-> "pending", workers |-> <<>>]

\* The milestone an id belongs to.
Milestone(id) == IF id \in Features THEN MilestoneOf[id] ELSE id[2]

-----------------------------------------------------------------------------
(* Lookups.  A lookup is the set of the index it finds, empty for null.    *)

FirstId(f, id) ==
    {i \in DOMAIN f : f[i].id = id /\ \A j \in 1..(i-1) : f[j].id # id}

FirstWith(f, status) ==
    {i \in DOMAIN f : f[i].status = status
                      /\ \A j \in 1..(i-1) : f[j].status # status}

NextPending(f) == FirstWith(f, "pending")
InProgress(f) == FirstWith(f, "in_progress")

\* The session a feature is currently assigned to.
LastWorker(feature) ==
    IF feature.workers = <<>> THEN None
    ELSE feature.workers[Len(feature.workers)]

IsDone(feature) == feature.status \in {"completed", "cancelled"}

AllDone(f) == \A i \in DOMAIN f : IsDone(f[i])

\* Only implementation features count, and there must be one.
ImplementationComplete(f, m) ==
    LET I == {i \in DOMAIN f : f[i].id \in Features /\ Milestone(f[i].id) = m}
    IN I # {} /\ \A i \in I : IsDone(f[i])

HasCompleted(f, m) ==
    \E i \in DOMAIN f : f[i].status = "completed" /\ Milestone(f[i].id) = m

-----------------------------------------------------------------------------
(* Updates.                                                                *)

UpdateFeature(f, id, status) ==
    [i \in DOMAIN f |-> IF i \in FirstId(f, id)
                        THEN [f[i] EXCEPT !.status = status] ELSE f[i]]

\* The update spawnWorker makes: both fields are overwritten.
AssignFeature(f, id, workers) ==
    [i \in DOMAIN f |->
        IF i \in FirstId(f, id)
        THEN [f[i] EXCEPT !.status = "in_progress", !.workers = workers]
        ELSE f[i]]

\* Mutant: the new feature goes to the bottom.
InsertAtBottom(f, id) == Append(f, NewFeature(id))

InsertFeatureAtTop(f, id) == <<NewFeature(id)>> \o f

MoveFeatureToBottom(f, id) ==
    [i \in DOMAIN f |->
        IF \E k \in FirstId(f, id) : i >= k
        THEN IF i = Len(f) THEN f[CHOOSE k \in FirstId(f, id) : TRUE] ELSE f[i+1]
        ELSE f[i]]

\* Done features above an active one.
Stranded(f) ==
    {i \in DOMAIN f : IsDone(f[i]) /\ \E j \in (i+1)..Len(f) : ~IsDone(f[j])}

\* p lists the positions in their new order: the stranded ones last, the order
\* within the stranded and within the others kept.
MovesStranded(f, p) ==
    /\ p \in [DOMAIN f -> DOMAIN f]
    /\ \A i, j \in DOMAIN f : i < j =>
          IF (p[i] \in Stranded(f)) = (p[j] \in Stranded(f))
          THEN p[i] < p[j] ELSE p[j] \in Stranded(f)

\* requeueFeature: the feature found under the id is in progress and, when a
\* worker is given, assigned to it.
Requeueable(f, id, w) ==
    \E i \in FirstId(f, id) : /\ f[i].status = "in_progress"
                              /\ w = None \/ LastWorker(f[i]) = w

\* Mutant: the worker is not compared.
RequeueAnyWorker(f, id, w) == UpdateFeature(f, id, "pending")

\* requeueFeatureIfInProgress, with its second attempt by worker.
Requeue(f, id, w) ==
    IF id # None /\ Requeueable(f, id, w) THEN UpdateFeature(f, id, "pending")
    ELSE IF w # None /\ \E other \in Ids : Requeueable(f, other, w)
    THEN UpdateFeature(f, CHOOSE other \in Ids : Requeueable(f, other, w),
                       "pending")
    ELSE f

\* grantRetryBudgetForExhaustedFeatures: every exhausted pending entry counts.
Exhausted(f, bonus, id) ==
    {i \in DOMAIN f : /\ f[i].id = id
                      /\ f[i].status = "pending"
                      /\ Len(f[i].workers) >= MaxAttempts + bonus[id]}

\* Mutant: the bonuses granted before are dropped.
GrantDropsOthers(f, bonus) ==
    [id \in {id \in Ids : Exhausted(f, bonus, id) # {}} |-> MaxAttempts]

GrantRetryBudget(f, bonus) ==
    [id \in Ids |->
        bonus[id] + MaxAttempts * Cardinality(Exhausted(f, bonus, id))]

=============================================================================
