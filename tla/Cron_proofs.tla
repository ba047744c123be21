---------------------------- MODULE Cron_proofs ----------------------------
(***************************************************************************)
(* The safety properties of Cron, for any sessions, expressions, numbers   *)
(* of crons and numbers of overlapping fires.                              *)
(***************************************************************************)
EXTENDS Cron, FiniteSetTheorems, FunctionTheorems, TLAPS

-----------------------------------------------------------------------------
(* The inductive invariant.                                                *)

Cells == [cron : CronRecord, job : Exprs \cup {NoJob}, fires : Fires]
Idle(x) == \A i \in FireIds : x.fires[i] = "none"

\* What sync relies on and keeps, of the cron c when the user set those of R
\* back to 'active': a running cron has a fire, an active one has room for the
\* next, and none in flight unless it was reactivated.
Fine(c, x, R) ==
    /\ x \in Cells
    /\ x.cron.status = "running" => ~ Idle(x)
    /\ x.cron.status = "active" => \E i \in FireIds : x.fires[i] = "none"
    /\ x.cron.status = "absent" => Idle(x)
    /\ c \notin R => /\ x.cron.status = "active" => Idle(x)
                     /\ \A i, j \in FireIds : x.fires[i] # "none" /\ x.fires[j] # "none" => i = j

\* What sync establishes.
Synced(x, t) ==
    /\ x.job # NoJob => x.cron.status \in {"active", "running"}
    /\ x.cron.status = "active" /\ ShouldRegister(x.cron, t) => x.job = x.cron.expr

\* Of a cron while no process runs.
Off(x) == x \in Cells /\ x.job = NoJob /\ Idle(x)

StateInv ==
    /\ cron \in [CronIds -> CronRecord]
    /\ job \in [CronIds -> Exprs \cup {NoJob}]
    /\ fires \in [CronIds -> Fires]
    /\ alive \subseteq Sessions
    /\ tui \in BOOLEAN
    /\ up \in BOOLEAN
    /\ deleted \subseteq CronIds
    /\ reactivated \subseteq CronIds
    /\ ~ up => ~ tui /\ alive = {}

UsedInv == \E n \in 0..MaxCrons : Used = 1..n

UpInv == up => \A c \in CronIds : Fine(c, Cell(c), reactivated) /\ Synced(Cell(c), tui)
DownInv == ~ up => \A c \in CronIds : Off(Cell(c))

IInv == StateInv /\ UsedInv /\ UpInv /\ DownInv

-----------------------------------------------------------------------------
(* The operators on one cron.                                              *)

\* Of a cron that a step changes: it does not appear or vanish, and is not
\* cancelled.
Same(x, y) ==
    /\ y.cron.status = "absent" <=> x.cron.status = "absent"
    /\ y.cron.status = "cancelled" => x.cron.status = "cancelled"

LEMMA Slots ==
  /\ MaxCrons \in Nat \ {0} /\ MaxFires \in Nat \ {0} /\ 1 \in FireIds
  /\ NoJob \notin Exprs \cup BadExprs
  BY CronAssumption DEF FireIds

\* The fields of a cron.
LEMMA CellFields ==
  ASSUME NEW x \in Cells
  PROVE  /\ x.cron \in CronRecord /\ x.job \in Exprs \cup {NoJob} /\ x.fires \in Fires
         /\ x.cron.status \in Status /\ x.cron.scope \in Sessions \cup {Root}
         /\ x.cron.recurring \in BOOLEAN /\ x.cron.expr \in Exprs \cup BadExprs
         /\ x.cron.due \in Due /\ x.cron.guard \in BOOLEAN
  BY DEF Cells, CronRecord

\* A status is written.
LEMMA WithStatusFields ==
  ASSUME NEW x \in Cells, NEW st \in Status
  PROVE  /\ WithStatus(x, st) \in Cells
         /\ WithStatus(x, st).cron = [x.cron EXCEPT !.status = st]
         /\ WithStatus(x, st).cron.status = st
         /\ WithStatus(x, st).cron.scope = x.cron.scope
         /\ WithStatus(x, st).cron.expr = x.cron.expr
         /\ WithStatus(x, st).cron.recurring = x.cron.recurring
         /\ WithStatus(x, st).cron.due = x.cron.due
         /\ WithStatus(x, st).job = x.job
         /\ WithStatus(x, st).fires = x.fires
  BY DEF WithStatus, Cells, CronRecord

LEMMA WithoutJobFields ==
  ASSUME NEW x \in Cells
  PROVE  /\ WithoutJob(x) \in Cells
         /\ WithoutJob(x).cron = x.cron
         /\ WithoutJob(x).job = NoJob
         /\ WithoutJob(x).fires = x.fires
  BY DEF WithoutJob, Cells

\* What the start of a fire makes of x.
Started(x, y, t) ==
    /\ y \in Cells
    /\ y.cron.scope = x.cron.scope
    /\ y.cron.expr = x.cron.expr
    /\ y.cron.recurring = x.cron.recurring
    /\ IF x.cron.scope = Root /\ ~ t
       THEN y.cron = x.cron /\ y.job = NoJob /\ y.fires = x.fires
       ELSE /\ y.cron.status = "running" /\ y.job = x.job
            /\ \E i \in FireIds : /\ x.fires[i] = "none"
                                  /\ y.fires[i] # "none"
                                  /\ \A j \in FireIds \ {i} : y.fires[j] = x.fires[j]

\* A fire starts when there is room for it.
LEMMA StartFireFields ==
  ASSUME NEW x \in Cells, NEW t \in BOOLEAN, \E i \in FireIds : x.fires[i] = "none"
  PROVE  Started(x, StartFire(x, t), t)
  <1>1. CASE x.cron.scope = Root /\ ~ t
    BY <1>1 DEF StartFire, Cells, Started
  <1>2. CASE ~ (x.cron.scope = Root /\ ~ t)
    <2> DEFINE i == Free(x)
               st == IF x.cron.scope = Root THEN "root" ELSE "client"
               y == StartFire(x, t)
    <2>1. i \in FireIds /\ x.fires[i] = "none"
      BY DEF Free
    <2>2. st \in Stage /\ st # "none"
      BY DEF Stage
    <2> HIDE DEF i, st
    <2>3. y = [x EXCEPT !.cron.status = "running", !.fires[i] = st]
      BY <1>2 DEF StartFire, i, st
    <2> HIDE DEF y
    <2>4. /\ y.cron = [x.cron EXCEPT !.status = "running"]
          /\ y.job = x.job
          /\ y.fires = [x.fires EXCEPT ![i] = st]
          /\ y = [cron |-> y.cron, job |-> y.job, fires |-> y.fires]
      BY <2>3 DEF Cells
    <2>5. y.cron \in CronRecord /\ y.cron.status = "running"
          /\ y.cron.scope = x.cron.scope /\ y.cron.expr = x.cron.expr
          /\ y.cron.recurring = x.cron.recurring
      BY <2>4, CellFields DEF CronRecord, Status
    <2>6. y.fires \in Fires /\ y.fires[i] = st /\ \A j \in FireIds \ {i} : y.fires[j] = x.fires[j]
      BY <2>1, <2>2, <2>4, CellFields DEF Fires
    <2>7. y \in Cells
      BY <2>4, <2>5, <2>6, CellFields DEF Cells
    <2> QED BY <1>2, <2>1, <2>2, <2>4, <2>5, <2>6, <2>7 DEF y, Started
  <1> QED BY <1>1, <1>2

LEMMA RegisterFields ==
  ASSUME NEW x \in Cells, NEW near
  PROVE  /\ Register(x, near) \in Cells
         /\ Register(x, near).cron.scope = x.cron.scope
         /\ Register(x, near).cron.expr = x.cron.expr
         /\ Register(x, near).cron.recurring = x.cron.recurring
         /\ Register(x, near).fires = x.fires
         /\ \/ Register(x, near).cron.status = "error" /\ Register(x, near).job = x.job
            \/ /\ Register(x, near).cron.status = x.cron.status
               /\ Register(x, near).job = x.cron.expr
  <1> DEFINE y == Register(x, near)
  <1>1. CASE x.cron.expr \in BadExprs
    <2>1. y = [x EXCEPT !.cron.status = "error"]
      BY <1>1 DEF Register, WithStatus
    <2> HIDE DEF y
    <2>2. /\ y.cron = [x.cron EXCEPT !.status = "error"]
          /\ y.job = x.job /\ y.fires = x.fires
          /\ y = [cron |-> y.cron, job |-> y.job, fires |-> y.fires]
      BY <2>1 DEF Cells
    <2>3. y.cron \in CronRecord /\ y.cron.status = "error"
          /\ y.cron.scope = x.cron.scope /\ y.cron.expr = x.cron.expr
          /\ y.cron.recurring = x.cron.recurring
      BY <2>2, CellFields DEF CronRecord, Status
    <2>4. y \in Cells
      BY <2>2, <2>3, CellFields DEF Cells
    <2> QED BY <2>2, <2>3, <2>4 DEF y
  <1>2. CASE x.cron.expr \notin BadExprs
    <2> DEFINE g == x.cron.expr \in near
    <2>1. x.cron.expr \in Exprs /\ g \in BOOLEAN
      BY <1>2, CellFields
    <2>2. y = [x EXCEPT !.cron.due = "ahead", !.cron.guard = g, !.job = x.cron.expr]
      BY <1>2 DEF Register
    <2> HIDE DEF y, g
    <2>3. /\ y.cron = [x.cron EXCEPT !.due = "ahead", !.guard = g]
          /\ y.job = x.cron.expr /\ y.fires = x.fires
          /\ y = [cron |-> y.cron, job |-> y.job, fires |-> y.fires]
      BY <2>2 DEF Cells
    <2>4. y.cron \in CronRecord /\ y.cron.status = x.cron.status
          /\ y.cron.scope = x.cron.scope /\ y.cron.expr = x.cron.expr
          /\ y.cron.recurring = x.cron.recurring
      BY <2>1, <2>3, CellFields DEF CronRecord, Due
    <2>5. y \in Cells
      BY <2>1, <2>3, <2>4, CellFields DEF Cells
    <2> QED BY <2>3, <2>4, <2>5 DEF y
  <1> QED BY <1>1, <1>2

\* sync, of one cron.
LEMMA SyncOneFine ==
  ASSUME NEW c, NEW R, NEW x, Fine(c, x, R), NEW t \in BOOLEAN, NEW near
  PROVE  /\ Fine(c, SyncOne(x, t, near), R)
         /\ Synced(SyncOne(x, t, near), t)
         /\ Same(x, SyncOne(x, t, near))
         /\ SyncOne(x, t, near).cron.scope = x.cron.scope
         /\ SyncOne(x, t, near).cron.expr = x.cron.expr
         /\ SyncOne(x, t, near).cron.recurring = x.cron.recurring
         /\ x.cron.status # "active" => SyncOne(x, t, near) = WithoutJob(x)
         /\ x.cron.status = "active" /\ x.cron.due # "late" =>
               SyncOne(x, t, near).cron.status \in {"active", "error"}
  <1> DEFINE y == SyncOne(x, t, near)
             w == WithoutJob(x)
             k == IF x.job = x.cron.expr THEN x ELSE w
  <1>1. x \in Cells
    BY DEF Fine
  <1>2. w \in Cells /\ w.cron = x.cron /\ w.job = NoJob /\ w.fires = x.fires
    BY <1>1, WithoutJobFields
  <1>3. Fine(c, w, R)
    BY <1>2 DEF Fine, Idle
  <1> HIDE DEF w
  <1>4. CASE ~ Wanted(x, t)
    <2>1. y = w
      BY <1>4 DEF SyncOne, w
    <2> QED BY <1>2, <1>3, <1>4, <2>1 DEF Synced, Same, Wanted, y, w
  <1>5. CASE Wanted(x, t)
    <2>1. y = SyncWanted(k, t, near) /\ k \in Cells /\ k.cron = x.cron /\ k.fires = x.fires
          /\ (k.job = NoJob \/ k.job = x.cron.expr) /\ Fine(c, k, R)
      BY <1>1, <1>2, <1>3, <1>5 DEF SyncOne, w
    <2>2. /\ x.cron.status = "active" /\ ~ (x.cron.scope = Root /\ ~ t)
          /\ ShouldRegister(x.cron, t)
          /\ \E i \in FireIds : x.fires[i] = "none"
      BY <1>5 DEF Wanted, ShouldRegister, Fine
    <2> HIDE DEF k, y
    <2>3. CASE x.cron.due = "late"
      <3> DEFINE v == WithoutJob(k)
      <3>1. v \in Cells /\ v.cron = x.cron /\ v.job = NoJob /\ v.fires = x.fires
        BY <2>1, WithoutJobFields
      <3>2. y = StartFire(v, t)
        BY <2>1, <2>3 DEF SyncWanted
      <3> HIDE DEF v
      <3>3. Started(v, y, t)
        BY <2>2, <3>1, <3>2, StartFireFields
      <3>4. Fine(c, y, R)
        BY <2>2, <3>1, <3>3 DEF Started, Fine, Idle
      <3> QED BY <2>2, <2>3, <3>1, <3>3, <3>4 DEF Started, Synced, Same, y
    <2>4. CASE x.cron.due # "late" /\ k.job = NoJob
      <3>1. y = Register(k, near)
        BY <2>1, <2>4 DEF SyncWanted
      <3>2. /\ y \in Cells
            /\ y.cron.scope = x.cron.scope /\ y.cron.expr = x.cron.expr
            /\ y.cron.recurring = x.cron.recurring /\ y.fires = x.fires
            /\ \/ y.cron.status = "error" /\ y.job = NoJob
               \/ y.cron.status = "active" /\ y.job = x.cron.expr
        BY <2>1, <2>2, <2>4, <3>1, RegisterFields
      <3>3. Fine(c, y, R)
        BY <2>1, <2>2, <3>2 DEF Fine, Idle
      <3> QED BY <2>2, <2>4, <3>2, <3>3 DEF Synced, Same, y
    <2>5. CASE x.cron.due # "late" /\ k.job # NoJob
      <3>1. y = k
        BY <2>1, <2>5 DEF SyncWanted
      <3> QED BY <2>1, <2>2, <2>5, <3>1 DEF Synced, Same, y
    <2> QED BY <2>3, <2>4, <2>5
  <1> QED BY <1>4, <1>5

\* Fires end.
LEMMA EndedFields ==
  ASSUME NEW x \in Cells, NEW F
  PROVE  /\ Ended(x, F) \in Cells
         /\ Ended(x, F).cron = x.cron
         /\ Ended(x, F).job = NoJob
         /\ \A i \in FireIds : Ended(x, F).fires[i] = IF i \in F THEN "none" ELSE x.fires[i]
  <1> DEFINE y == Ended(x, F)
             g == [i \in FireIds |-> IF i \in F THEN "none" ELSE x.fires[i]]
  <1>0. y = [x EXCEPT !.job = NoJob, !.fires = g]
    BY DEF Ended
  <1>4. g \in Fires /\ \A i \in FireIds : g[i] = IF i \in F THEN "none" ELSE x.fires[i]
    BY CellFields DEF Fires
  <1> HIDE DEF y, g
  <1>1. /\ y.cron = x.cron /\ y.job = NoJob /\ y.fires = g
        /\ y = [cron |-> y.cron, job |-> y.job, fires |-> y.fires]
    BY <1>0 DEF Cells
  <1>2. y.fires \in Fires /\ \A i \in FireIds : y.fires[i] = IF i \in F THEN "none" ELSE x.fires[i]
    BY <1>1, <1>4
  <1>3. y \in Cells
    BY <1>1, <1>2, CellFields DEF Cells
  <1> QED BY <1>1, <1>2, <1>3 DEF y

\* A cron of which fires return, and of which the fire i fails.
LEMMA FireReturnedFine ==
  ASSUME NEW c, NEW R, NEW x, Fine(c, x, R), NEW F, F \subseteq InFlight(x),
         x.cron.status = "running" => F # {}
  PROVE  /\ Fine(c, FireReturned(x, F), R)
         /\ Same(x, FireReturned(x, F))
  <1> DEFINE a == [x EXCEPT !.cron = Advance(@)]
             y == FireReturned(x, F)
  <1>1. x \in Cells /\ x.cron \in CronRecord
    BY CellFields DEF Fine
  <1>2. /\ Advance(x.cron) \in CronRecord
        /\ \/ x.cron.status # "running" /\ Advance(x.cron) = x.cron
           \/ x.cron.status = "running" /\ Advance(x.cron).status \in {"active", "expired", "error"}
    BY <1>1 DEF Advance, CronRecord, Settled, Due, Status
  <1>3. a \in Cells /\ a.cron = Advance(x.cron) /\ a.fires = x.fires
    BY <1>1, <1>2 DEF Cells
  <1>4. y = Ended(a, F)
    BY DEF FireReturned
  <1> HIDE DEF a, y
  <1>5. /\ y \in Cells /\ y.cron = Advance(x.cron)
        /\ \A i \in FireIds : y.fires[i] = IF i \in F THEN "none" ELSE x.fires[i]
    BY <1>3, <1>4, EndedFields
  <1>6. Same(x, y)
    BY <1>2, <1>5 DEF Same
  <1>7. Fine(c, y, R)
    <2>1. CASE x.cron.status # "running"
      BY <1>2, <1>5, <2>1 DEF Fine, Idle
    <2>2. CASE x.cron.status = "running"
      <3>1. PICK i \in F : i \in FireIds /\ x.fires[i] # "none"
        BY <2>2 DEF InFlight
      <3>2. c \notin R => Idle(y)
        BY <1>5, <3>1 DEF Fine, Idle
      <3>3. y.fires[i] = "none"
        BY <1>5, <3>1
      <3> QED BY <1>2, <1>5, <2>2, <3>1, <3>2, <3>3 DEF Fine, Idle
    <2> QED BY <2>1, <2>2
  <1> QED BY <1>6, <1>7 DEF y

LEMMA FireThrewFine ==
  ASSUME NEW c, NEW R, NEW x, Fine(c, x, R), NEW i \in InFlight(x)
  PROVE  /\ Fine(c, FireThrew(x, i), R)
         /\ Same(x, FireThrew(x, i))
  <1> DEFINE d == Settled(x.cron.due)
             a == [x EXCEPT !.cron.status = "error", !.cron.due = d]
             y == FireThrew(x, i)
  <1>1. x \in Cells /\ x.cron \in CronRecord
    BY CellFields DEF Fine
  <1>2. d \in Due
    BY <1>1 DEF CronRecord, Settled, Due
  <1>4. y = Ended(a, {i})
    BY DEF FireThrew
  <1> HIDE DEF d, y
  <1>8. a = [x EXCEPT !.cron.status = "error", !.cron.due = d]
    OBVIOUS
  <1> HIDE DEF a
  <1>3. /\ a.cron = [x.cron EXCEPT !.status = "error", !.due = d]
        /\ a.job = x.job /\ a.fires = x.fires
        /\ a = [cron |-> a.cron, job |-> a.job, fires |-> a.fires]
    BY <1>1, <1>8 DEF Cells, CronRecord
  <1>5. a.cron \in CronRecord /\ a.cron.status = "error"
    BY <1>1, <1>2, <1>3 DEF CronRecord, Status
  <1>6. a \in Cells
    BY <1>1, <1>3, <1>5, CellFields DEF Cells
  <1>7. /\ y \in Cells /\ y.cron.status = "error"
        /\ \A j \in FireIds : y.fires[j] = "none" \/ y.fires[j] = x.fires[j]
    <2> DEFINE F == {i}
    <2> HIDE DEF F
    <2>1. /\ Ended(a, F) \in Cells /\ Ended(a, F).cron = a.cron
          /\ \A j \in FireIds : Ended(a, F).fires[j] = IF j \in F THEN "none" ELSE a.fires[j]
      BY <1>6, EndedFields
    <2>2. y = Ended(a, F)
      BY <1>4 DEF F
    <2> QED BY <1>3, <1>5, <2>1, <2>2
  <1>9. x.cron.status # "absent"
    BY DEF Fine, Idle, InFlight
  <1> QED BY <1>7, <1>9 DEF Fine, Idle, Same, y

\* A status other than 'active' and 'running' is written.
LEMMA WithStatusFine ==
  ASSUME NEW c, NEW R, NEW x, Fine(c, x, R), x.cron.status # "absent",
         NEW st \in {"paused", "held", "cancelled"}
  PROVE  /\ Fine(c, WithStatus(x, st), R)
         /\ st # "cancelled" => Same(x, WithStatus(x, st))
         /\ WithStatus(x, st).cron.status = st
         /\ WithStatus(x, st).fires = x.fires
  <1>1. x \in Cells /\ st \in Status /\ st \notin {"active", "running", "absent"}
    BY DEF Fine, Status
  <1>2. /\ WithStatus(x, st) \in Cells /\ WithStatus(x, st).cron.status = st
        /\ WithStatus(x, st).fires = x.fires
    BY <1>1, WithStatusFields
  <1> QED BY <1>1, <1>2 DEF Fine, Idle, Same

\* A fire of an active cron starts.
LEMMA StartFine ==
  ASSUME NEW c, NEW R, NEW x, Fine(c, x, R), x.cron.status = "active",
         NEW t \in BOOLEAN, Synced(x, t)
  PROVE  /\ Fine(c, StartFire(x, t), R)
         /\ Synced(StartFire(x, t), t)
         /\ Same(x, StartFire(x, t))
  <1> DEFINE y == StartFire(x, t)
  <1>1. x \in Cells /\ \E i \in FireIds : x.fires[i] = "none"
    BY DEF Fine
  <1>2. Started(x, y, t)
    BY <1>1, StartFireFields
  <1> HIDE DEF y
  <1>3. Fine(c, y, R)
    <2>1. CASE x.cron.scope = Root /\ ~ t
      BY <1>2, <2>1 DEF Started, Fine, Idle
    <2>2. CASE ~ (x.cron.scope = Root /\ ~ t)
      <3>1. PICK i \in FireIds : /\ x.fires[i] = "none" /\ y.fires[i] # "none"
                                /\ \A j \in FireIds \ {i} : y.fires[j] = x.fires[j]
        BY <1>2, <2>2 DEF Started
      <3>2. y \in Cells /\ y.cron.status = "running"
        BY <1>2, <2>2 DEF Started
      <3>3. c \notin R => \A j \in FireIds : x.fires[j] = "none"
        BY DEF Fine, Idle
      <3> QED BY <3>1, <3>2, <3>3 DEF Fine, Idle
    <2> QED BY <2>1, <2>2
  <1>4. Synced(y, t) /\ Same(x, y)
    BY <1>2 DEF Started, Synced, Same, ShouldRegister
  <1> QED BY <1>3, <1>4 DEF y

\* The timer job of an active cron runs.
LEMMA TickedFine ==
  ASSUME NEW c, NEW R, NEW x, Fine(c, x, R), NEW t \in BOOLEAN, Synced(x, t)
  PROVE  /\ Fine(c, Ticked(x, t), R)
         /\ Synced(Ticked(x, t), t)
         /\ Same(x, Ticked(x, t))
  <1> DEFINE y == Ticked(x, t)
  <1>1. x \in Cells /\ x.cron \in CronRecord
    BY CellFields DEF Fine
  <1>2. CASE x.cron.status # "active"
    BY <1>2 DEF Ticked, Same
  <1>3. CASE x.cron.status = "active" /\ x.cron.guard /\ x.cron.due # "late"
    <2>1. y = [x EXCEPT !.cron.due = "ahead", !.cron.guard = FALSE]
      BY <1>3 DEF Ticked
    <2> HIDE DEF y
    <2>2. /\ y.cron = [x.cron EXCEPT !.due = "ahead", !.guard = FALSE]
          /\ y.job = x.job /\ y.fires = x.fires
          /\ y = [cron |-> y.cron, job |-> y.job, fires |-> y.fires]
      BY <1>1, <2>1 DEF Cells, CronRecord
    <2>3. y.cron \in CronRecord /\ y.cron.status = x.cron.status
          /\ y.cron.scope = x.cron.scope /\ y.cron.expr = x.cron.expr
      BY <1>1, <2>2 DEF CronRecord, Due
    <2>4. y \in Cells
      BY <1>1, <2>2, <2>3, CellFields DEF Cells
    <2> QED BY <2>2, <2>3, <2>4 DEF Fine, Idle, Synced, Same, ShouldRegister, y
  <1>4. CASE x.cron.status = "active" /\ ~ (x.cron.guard /\ x.cron.due # "late")
    <2> DEFINE d == IF x.cron.due = "ahead" THEN "passed" ELSE x.cron.due
               n == [x EXCEPT !.cron.due = d]
    <2>1. y = StartFire(n, t) /\ d \in Due
      BY <1>1, <1>4 DEF Ticked, CronRecord, Due
    <2> HIDE DEF d
    <2>2. n = [x EXCEPT !.cron.due = d]
      OBVIOUS
    <2> HIDE DEF n, y
    <2>3. /\ n.cron = [x.cron EXCEPT !.due = d]
          /\ n.job = x.job /\ n.fires = x.fires
          /\ n = [cron |-> n.cron, job |-> n.job, fires |-> n.fires]
      BY <1>1, <2>2 DEF Cells, CronRecord
    <2>4. n.cron \in CronRecord /\ n.cron.status = "active"
          /\ n.cron.scope = x.cron.scope /\ n.cron.expr = x.cron.expr
      BY <1>1, <1>4, <2>1, <2>3 DEF CronRecord
    <2>5. n \in Cells
      BY <1>1, <2>3, <2>4, CellFields DEF Cells
    <2>6. Fine(c, n, R) /\ Synced(n, t) /\ Same(x, n)
      BY <1>4, <2>3, <2>4, <2>5 DEF Fine, Idle, Synced, Same, ShouldRegister
    <2>7. Fine(c, y, R) /\ Synced(y, t) /\ Same(n, y)
      BY <2>1, <2>4, <2>6, StartFine
    <2> QED BY <2>6, <2>7 DEF Same, y
  <1> QED BY <1>2, <1>3, <1>4

\* What an earlier process left, once repaired.
LEMMA RepairedFine ==
  ASSUME NEW c, NEW R, NEW x, Off(x)
  PROVE  /\ Fine(c, Repaired(x), R)
         /\ Same(x, Repaired(x))
  <1> DEFINE y == Repaired(x)
  <1>1. x \in Cells /\ x.cron.scope \in Sessions \cup {Root}
    BY CellFields DEF Off
  <1>2. /\ y \in Cells /\ y.fires = x.fires
        /\ \/ y = x /\ x.cron.status \notin {"running"}
           \/ x.cron.status \in {"active", "running"} /\ y.cron.status \in {"active", "held"}
    <2>1. \A st \in Status : /\ WithStatus(x, st) \in Cells
                             /\ WithStatus(x, st).cron.status = st
                             /\ WithStatus(x, st).fires = x.fires
      BY <1>1, WithStatusFields
    <2> QED BY <1>1, <2>1 DEF Repaired, Status
  <1> HIDE DEF y
  <1>3. 1 \in FireIds
    BY Slots
  <1> QED BY <1>2, <1>3 DEF Off, Fine, Idle, Same, y

-----------------------------------------------------------------------------
(* Snapshots.                                                              *)

FineAll(S, R) == S \in [CronIds -> Cells] /\ \A c \in CronIds : Fine(c, S[c], R)
SyncedAll(S, t) == \A c \in CronIds : Synced(S[c], t)
SameAll(S, T) == \A c \in CronIds : Same(S[c], T[c])

LEMMA SyncFine ==
  ASSUME NEW S, NEW R, FineAll(S, R), NEW t \in BOOLEAN, NEW near
  PROVE  /\ FineAll(Sync(S, t, near), R)
         /\ SyncedAll(Sync(S, t, near), t)
         /\ SameAll(S, Sync(S, t, near))
         /\ \A c \in CronIds : Sync(S, t, near)[c] = SyncOne(S[c], t, near)
  <1>1. \A c \in CronIds : Sync(S, t, near)[c] = SyncOne(S[c], t, near)
    BY DEF Sync
  <1>2. \A c \in CronIds : /\ Fine(c, SyncOne(S[c], t, near), R)
                           /\ Synced(SyncOne(S[c], t, near), t)
                           /\ Same(S[c], SyncOne(S[c], t, near))
    BY SyncOneFine DEF FineAll
  <1>3. Sync(S, t, near) \in [CronIds -> Cells]
    BY <1>2 DEF Sync, Fine
  <1> QED BY <1>1, <1>2, <1>3 DEF FineAll, SyncedAll, SameAll

\* One cron of a snapshot changes.
LEMMA OneFine ==
  ASSUME NEW S, NEW R, FineAll(S, R), NEW c \in CronIds, NEW y, Fine(c, y, R), Same(S[c], y)
  PROVE  FineAll([S EXCEPT ![c] = y], R) /\ SameAll(S, [S EXCEPT ![c] = y])
  BY DEF FineAll, SameAll, Fine, Same

\* A status is written to crons that exist.
LEMMA SetStatusFine ==
  ASSUME NEW S, NEW R, FineAll(S, R), NEW C, \A c \in C : S[c].cron.status # "absent",
         C \subseteq CronIds, NEW st \in {"paused", "held", "cancelled"}
  PROVE  /\ FineAll(SetStatus(S, C, st), R)
         /\ st # "cancelled" => SameAll(S, SetStatus(S, C, st))
         /\ \A c \in CronIds : SetStatus(S, C, st)[c] = IF c \in C THEN WithStatus(S[c], st) ELSE S[c]
  <1>1. \A c \in CronIds : SetStatus(S, C, st)[c] = IF c \in C THEN WithStatus(S[c], st) ELSE S[c]
    BY DEF SetStatus
  <1>2. \A c \in CronIds : /\ Fine(c, SetStatus(S, C, st)[c], R)
                           /\ st # "cancelled" => Same(S[c], SetStatus(S, C, st)[c])
    BY <1>1, WithStatusFine DEF FineAll, Same
  <1>3. SetStatus(S, C, st) \in [CronIds -> Cells]
    BY <1>1, <1>2 DEF SetStatus, Fine
  <1> QED BY <1>1, <1>2, <1>3 DEF FineAll, SameAll

\* Crons are held by updateCron and sync.
LEMMA HoldCronFine ==
  ASSUME NEW S, NEW R, FineAll(S, R), NEW C, \A c \in C : S[c].cron.status # "absent",
         C \subseteq CronIds, NEW t \in BOOLEAN, NEW near
  PROVE  /\ FineAll(HoldCron(S, C, t, near), R)
         /\ SyncedAll(HoldCron(S, C, t, near), t)
         /\ SameAll(S, HoldCron(S, C, t, near))
         /\ \A c \in C : /\ HoldCron(S, C, t, near)[c].cron.status = "held"
                         /\ HoldCron(S, C, t, near)[c].fires = S[c].fires
  <1> DEFINE A == SetStatus(S, C, "held")
             H == HoldCron(S, C, t, near)
  <1>1. \A st \in {"paused", "held", "cancelled"} :
           /\ FineAll(SetStatus(S, C, st), R)
           /\ st # "cancelled" => SameAll(S, SetStatus(S, C, st))
           /\ \A c \in CronIds :
                 SetStatus(S, C, st)[c] = IF c \in C THEN WithStatus(S[c], st) ELSE S[c]
    BY SetStatusFine
  <1>2. /\ FineAll(A, R) /\ SameAll(S, A)
        /\ \A c \in C : A[c] = WithStatus(S[c], "held")
    BY <1>1
  <1>3. H = Sync(A, t, near)
    BY DEF HoldCron
  <1> HIDE DEF A, H
  <1>4. /\ FineAll(H, R) /\ SyncedAll(H, t) /\ SameAll(A, H)
        /\ \A c \in CronIds : H[c] = SyncOne(A[c], t, near)
    BY <1>2, <1>3, SyncFine
  <1>5. SameAll(S, H)
    BY <1>2, <1>4 DEF SameAll, Same
  <1>6. ASSUME NEW c \in C
        PROVE  H[c].cron.status = "held" /\ H[c].fires = S[c].fires
    <2>1. \A st \in {"paused", "held", "cancelled"} :
             /\ WithStatus(S[c], st).cron.status = st
             /\ WithStatus(S[c], st).fires = S[c].fires
      <3>1. S[c] \in Cells
        BY <1>6 DEF FineAll
      <3>2. {"paused", "held", "cancelled"} \subseteq Status
        BY DEF Status
      <3> QED BY <3>1, <3>2, WithStatusFields
    <2>2. A[c].cron.status = "held" /\ A[c].fires = S[c].fires
      BY <1>2, <1>6, <2>1
    <2>3. Fine(c, A[c], R) /\ A[c] \in Cells
      BY <1>2, <1>6 DEF FineAll, Fine
    <2>4. H[c] = WithoutJob(A[c])
      BY <1>4, <1>6, <2>2, <2>3, SyncOneFine
    <2> QED BY <2>2, <2>3, <2>4, WithoutJobFields
  <1> QED BY <1>4, <1>5, <1>6 DEF H

\* holdPendingCronPromptsForSession.
LEMMA HoldPendingFine ==
  ASSUME NEW S, NEW R, FineAll(S, R), NEW t \in BOOLEAN, NEW near, NEW ss
  PROVE  /\ FineAll(HoldPendingCronPrompts(S, ss, t, near), R)
         /\ SyncedAll(S, t) => SyncedAll(HoldPendingCronPrompts(S, ss, t, near), t)
         /\ SameAll(S, HoldPendingCronPrompts(S, ss, t, near))
  <1> DEFINE W == Waiting(S, ss)
             H == HoldCron(S, W, t, near)
             E == [c \in CronIds |-> IF c \in W THEN FireReturned(H[c], Waiters(H[c])) ELSE H[c]]
             P == HoldPendingCronPrompts(S, ss, t, near)
  <1>1. CASE W = {}
    <2>1. P = S
      BY <1>1 DEF HoldPendingCronPrompts
    <2> QED BY <2>1 DEF SameAll, Same
  <1>2. CASE W # {}
    <2>1. P = Sync(E, t, near)
      BY <1>2 DEF HoldPendingCronPrompts
    <2>2. W \subseteq CronIds /\ \A c \in W : S[c].cron.status # "absent"
      BY DEF Waiting, SessionCrons, Waiters, IsWaiter, FineAll, Fine, Idle
    <2> HIDE DEF W
    <2>3. /\ FineAll(H, R) /\ SameAll(S, H)
          /\ \A c \in W : H[c].cron.status = "held"
      BY <2>2, HoldCronFine
    <2> HIDE DEF H, P
    <2>4. \A c \in CronIds : /\ Fine(c, E[c], R)
                             /\ Same(H[c], E[c])
      <3> SUFFICES ASSUME NEW c \in CronIds
                   PROVE  Fine(c, E[c], R) /\ Same(H[c], E[c])
        OBVIOUS
      <3>1. CASE c \notin W
        BY <2>3, <3>1 DEF FineAll, Same
      <3>2. CASE c \in W
        <4> DEFINE F == Waiters(H[c])
        <4>1. F \subseteq InFlight(H[c])
          BY DEF Waiters, IsWaiter, InFlight
        <4>2. E[c] = FireReturned(H[c], F)
          BY <3>2
        <4> HIDE DEF E, F
        <4> QED BY <2>3, <3>2, <4>1, <4>2, FireReturnedFine DEF FineAll
      <3> QED BY <3>1, <3>2
    <2>5. E \in [CronIds -> Cells]
      <3> HIDE DEF E
      <3>1. \A c \in CronIds : E[c] \in Cells
        BY <2>4 DEF Fine
      <3>2. E = [c \in CronIds |-> E[c]]
        BY DEF E
      <3> QED BY <3>1, <3>2
    <2> HIDE DEF E
    <2>6. /\ FineAll(P, R) /\ SyncedAll(P, t) /\ SameAll(E, P)
      BY <2>1, <2>4, <2>5, SyncFine DEF FineAll
    <2>7. SameAll(S, P)
      BY <2>3, <2>4, <2>6 DEF SameAll, Same
    <2> QED BY <2>6, <2>7 DEF P
  <1> QED BY <1>1, <1>2

\* CronRegistry.holdSessionCrons.
LEMMA HoldSessionFine ==
  ASSUME NEW S, NEW R, FineAll(S, R), NEW ss
  PROVE  /\ FineAll(HoldSessionCrons(S, ss), R)
         /\ SameAll(S, HoldSessionCrons(S, ss))
  <1> DEFINE C == {c \in SessionCrons(S, ss) : S[c].cron.status \in {"active", "running"}}
  <1>1. C \subseteq CronIds /\ \A c \in C : S[c].cron.status # "absent"
    BY DEF SessionCrons
  <1>2. HoldSessionCrons(S, ss) = SetStatus(S, C, "held")
    BY DEF HoldSessionCrons
  <1> HIDE DEF C
  <1>3. \A st \in {"paused", "held", "cancelled"} :
           FineAll(SetStatus(S, C, st), R) /\ (st # "cancelled" => SameAll(S, SetStatus(S, C, st)))
    BY <1>1, SetStatusFine
  <1> QED BY <1>2, <1>3

-----------------------------------------------------------------------------
(* Steps.                                                                  *)

LEMMA SnapshotFields ==
  ASSUME StateInv
  PROVE  /\ Snapshot \in [CronIds -> Cells]
         /\ \A c \in CronIds : /\ Snapshot[c] = Cell(c) /\ Cell(c) \in Cells
                               /\ Cell(c).cron = cron[c] /\ Cell(c).job = job[c]
                               /\ Cell(c).fires = fires[c]
  <1>1. \A c \in CronIds : /\ Cell(c) \in Cells
                           /\ Cell(c).cron = cron[c] /\ Cell(c).job = job[c]
                           /\ Cell(c).fires = fires[c]
    BY DEF Cell, Cells, StateInv
  <1> QED BY <1>1 DEF Snapshot

LEMMA Committed ==
  ASSUME NEW S \in [CronIds -> Cells], Commit(S)
  PROVE  /\ cron' \in [CronIds -> CronRecord]
         /\ job' \in [CronIds -> Exprs \cup {NoJob}]
         /\ fires' \in [CronIds -> Fires]
         /\ \A c \in CronIds : cron'[c] = S[c].cron /\ Cell(c)' = S[c]
  <1>1. \A c \in CronIds : /\ cron'[c] = S[c].cron /\ job'[c] = S[c].job /\ fires'[c] = S[c].fires
                           /\ S[c].cron \in CronRecord /\ S[c].job \in Exprs \cup {NoJob}
                           /\ S[c].fires \in Fires
                           /\ S[c] = [cron |-> S[c].cron, job |-> S[c].job, fires |-> S[c].fires]
    <2>1. \A x \in Cells : /\ x.cron \in CronRecord /\ x.job \in Exprs \cup {NoJob}
                           /\ x.fires \in Fires
                           /\ x = [cron |-> x.cron, job |-> x.job, fires |-> x.fires]
      BY DEF Cells
    <2> QED BY <2>1 DEF Commit
  <1>2. \A c \in CronIds : Cell(c)' = S[c]
    BY <1>1 DEF Cell
  <1>3. /\ cron' \in [CronIds -> CronRecord] /\ job' \in [CronIds -> Exprs \cup {NoJob}]
        /\ fires' \in [CronIds -> Fires]
    BY <1>1 DEF Commit
  <1> QED BY <1>1, <1>2, <1>3

\* The state of a running process after a step that commits S.
Globals ==
    /\ alive' \subseteq Sessions
    /\ tui' \in BOOLEAN
    /\ up' = TRUE
    /\ deleted' \subseteq CronIds
    /\ reactivated' \subseteq CronIds

NoneCancelled == \A c \in CronIds : cron'[c].status = "cancelled" => cron[c].status = "cancelled"

LEMMA Keeps ==
  ASSUME IInv, NEW S, FineAll(S, reactivated'), SyncedAll(S, tui'), Commit(S), Globals,
         SameAll(Snapshot, S)
  PROVE  IInv' /\ NoneCancelled
  <1>1. /\ StateInv' /\ \A c \in CronIds : cron'[c] = S[c].cron /\ Cell(c)' = S[c]
    BY Committed DEF FineAll, StateInv, Globals
  <1>2. UpInv' /\ DownInv'
    BY <1>1 DEF UpInv, DownInv, FineAll, SyncedAll, Globals
  <1>3. \A c \in CronIds : /\ cron'[c].status = "absent" <=> cron[c].status = "absent"
                           /\ cron'[c].status = "cancelled" => cron[c].status = "cancelled"
    BY <1>1, SnapshotFields DEF SameAll, Same, IInv
  <1>4. Used' = Used
    BY <1>3 DEF Used
  <1> QED BY <1>1, <1>2, <1>3, <1>4 DEF IInv, UsedInv, NoneCancelled

LEMMA KeepsSync ==
  ASSUME IInv, NEW S, FineAll(S, reactivated'), NEW t \in BOOLEAN, tui' = t, NEW near,
         Commit(Sync(S, t, near)), Globals, SameAll(Snapshot, S)
  PROVE  IInv' /\ NoneCancelled
  <1> DEFINE T == Sync(S, t, near)
  <1>1. FineAll(T, reactivated') /\ SyncedAll(T, t) /\ SameAll(S, T)
    BY SyncFine
  <1>2. Commit(T)
    OBVIOUS
  <1> HIDE DEF T
  <1>3. SameAll(Snapshot, T)
    BY <1>1 DEF SameAll, Same
  <1> QED BY <1>1, <1>2, <1>3, Keeps

\* What a step of a running process starts from.
LEMMA Running ==
  ASSUME IInv, up
  PROVE  /\ FineAll(Snapshot, reactivated) /\ SyncedAll(Snapshot, tui)
         /\ SameAll(Snapshot, Snapshot)
         /\ tui \in BOOLEAN /\ alive \subseteq Sessions
         /\ deleted \subseteq CronIds /\ reactivated \subseteq CronIds
         /\ \A c \in CronIds : /\ Snapshot[c] = Cell(c) /\ Cell(c) \in Cells
                               /\ Cell(c).cron = cron[c] /\ Cell(c).job = job[c]
                               /\ Cell(c).fires = fires[c]
                               /\ Fine(c, Cell(c), reactivated) /\ Synced(Cell(c), tui)
  <1>1. StateInv
    BY DEF IInv
  <1> QED BY <1>1, SnapshotFields DEF IInv, UpInv, StateInv, FineAll, SyncedAll, SameAll, Same

\* A fire in flight belongs to a running process.
LEMMA FireRuns ==
  ASSUME IInv, NEW c \in CronIds, NEW i \in FireIds, fires[c][i] # "none"
  PROVE  up
  <1>1. Cell(c).fires = fires[c]
    BY SnapshotFields DEF IInv
  <1> QED BY <1>1 DEF IInv, DownInv, Off, Idle

LEMMA UpdateStatusInv ==
  ASSUME IInv, NEW c \in CronIds, NEW st \in {"active", "paused"}, NEW near,
         UpdateStatus(c, st, near)
  PROVE  IInv' /\ NoneCancelled
  <1> DEFINE S == SetStatus(Snapshot, {c}, st)
             x == Cell(c)
             y == WithStatus(x, st)
  <1>1. /\ up /\ cron[c].status # "absent"
        /\ Cardinality(InFlight(x)) < MaxFires
        /\ Commit(Sync(S, tui, near)) /\ UNCHANGED <<alive, tui, up>>
        /\ reactivated' = IF st = "active" THEN reactivated \cup {c} ELSE reactivated
        /\ deleted' = IF st = "active" THEN deleted \ {c} ELSE deleted
    BY DEF UpdateStatus, Listed
  <1>2. /\ FineAll(Snapshot, reactivated) /\ tui \in BOOLEAN /\ Snapshot[c] = x
        /\ x \in Cells /\ x.cron = cron[c] /\ Fine(c, x, reactivated)
    BY <1>1, Running
  <1>3. \E i \in FireIds : x.fires[i] = "none"
    <2> SUFFICES ASSUME \A i \in FireIds : x.fires[i] # "none"
                 PROVE  FALSE
      OBVIOUS
    <2>1. InFlight(x) = 1..MaxFires
      BY DEF InFlight, FireIds
    <2>2. Cardinality(1..MaxFires) = MaxFires
      BY FS_Interval, Slots
    <2> QED BY <1>1, <2>1, <2>2, Slots
  <1>4. /\ y \in Cells /\ y.cron.status = st /\ y.fires = x.fires
    <2>1. {"active", "paused"} \subseteq Status
      BY DEF Status
    <2> QED BY <1>2, <2>1, WithStatusFields
  <1>5. S = [Snapshot EXCEPT ![c] = y]
    BY <1>2 DEF SetStatus, FineAll
  <1> HIDE DEF S, y, x
  <1>6. Fine(c, y, reactivated') /\ Same(x, y)
    BY <1>1, <1>2, <1>3, <1>4 DEF Fine, Idle, Same
  <1>7. FineAll(Snapshot, reactivated')
    BY <1>1, <1>2 DEF FineAll, Fine
  <1>8. FineAll(S, reactivated') /\ SameAll(Snapshot, S)
    BY <1>2, <1>5, <1>6, <1>7, OneFine
  <1>9. Globals
    BY <1>1, Running DEF Globals
  <1> QED BY <1>1, <1>2, <1>8, <1>9, KeepsSync DEF S

LEMMA UpdateScheduleInv ==
  ASSUME IInv, NEW c \in CronIds, NEW e \in Exprs \cup BadExprs, NEW rec \in Recurrences,
         NEW near, UpdateSchedule(c, e, rec, near)
  PROVE  IInv' /\ NoneCancelled
  <1> DEFINE S == [Snapshot EXCEPT ![c].cron.expr = e, ![c].cron.recurring = rec]
             x == Cell(c)
             y == [x EXCEPT !.cron.expr = e, !.cron.recurring = rec]
  <1>1. /\ up /\ Commit(Sync(S, tui, near))
        /\ UNCHANGED <<alive, tui, up, deleted, reactivated>>
    BY DEF UpdateSchedule
  <1>2. /\ FineAll(Snapshot, reactivated) /\ tui \in BOOLEAN /\ Snapshot[c] = x
        /\ x \in Cells /\ Fine(c, x, reactivated)
    BY <1>1, Running
  <1>3. S = [Snapshot EXCEPT ![c] = y]
    BY <1>2 DEF FineAll
  <1> HIDE DEF S, x
  <1>4. y = [x EXCEPT !.cron.expr = e, !.cron.recurring = rec]
    OBVIOUS
  <1> HIDE DEF y
  <1>5. /\ y.cron = [x.cron EXCEPT !.expr = e, !.recurring = rec]
        /\ y.job = x.job /\ y.fires = x.fires
        /\ y = [cron |-> y.cron, job |-> y.job, fires |-> y.fires]
    BY <1>2, <1>4 DEF Cells, CronRecord
  <1>6. y.cron \in CronRecord /\ y.cron.status = x.cron.status
    BY <1>2, <1>5, CellFields, CronAssumption DEF CronRecord
  <1>7. y \in Cells
    BY <1>2, <1>5, <1>6, CellFields DEF Cells
  <1>8. Fine(c, y, reactivated) /\ Same(x, y)
    BY <1>2, <1>5, <1>6, <1>7 DEF Fine, Idle, Same
  <1>9. FineAll(S, reactivated) /\ SameAll(Snapshot, S)
    BY <1>2, <1>3, <1>8, OneFine
  <1>10. Globals
    BY <1>1, Running DEF Globals
  <1> QED BY <1>1, <1>2, <1>9, <1>10, KeepsSync DEF S

LEMMA TickInv ==
  ASSUME IInv, NEW c \in CronIds, Tick(c)
  PROVE  IInv' /\ NoneCancelled
  <1> DEFINE x == Cell(c)
             y == Ticked(x, tui)
             S == [Snapshot EXCEPT ![c] = y]
  <1>1. /\ up /\ UNCHANGED <<alive, tui, up, deleted, reactivated>>
        /\ Commit([Snapshot EXCEPT ![c] = Ticked(Snapshot[c], tui)])
    BY DEF Tick
  <1>2. /\ FineAll(Snapshot, reactivated) /\ SyncedAll(Snapshot, tui) /\ tui \in BOOLEAN
        /\ Snapshot[c] = x /\ Fine(c, x, reactivated) /\ Synced(x, tui)
    BY <1>1, Running
  <1>3. Commit(S)
    BY <1>1, <1>2
  <1>4. Fine(c, y, reactivated) /\ Synced(y, tui) /\ Same(x, y)
    BY <1>2, TickedFine
  <1> HIDE DEF x, y
  <1>5. FineAll(S, reactivated) /\ SameAll(Snapshot, S)
    BY <1>2, <1>4, OneFine
  <1>6. SyncedAll(S, tui)
    BY <1>2, <1>4 DEF SyncedAll, FineAll
  <1>7. Globals
    BY <1>1, Running DEF Globals
  <1> HIDE DEF S
  <1> QED BY <1>1, <1>3, <1>5, <1>6, <1>7, Keeps

LEMMA WatchdogInv ==
  ASSUME IInv, NEW near, Watchdog(near) \/ Authenticate(near) \/ Logout(near)
  PROVE  IInv' /\ NoneCancelled
  <1>1. /\ up /\ UNCHANGED <<alive, up, deleted, reactivated>>
        /\ \/ tui' = tui /\ Commit(Sync(Snapshot, tui, near))
           \/ tui' = TRUE /\ Commit(Sync(Snapshot, TRUE, near))
           \/ tui' = FALSE /\ Commit(Sync(Snapshot, FALSE, near))
    BY DEF Watchdog, Authenticate, Logout
  <1>2. PICK t \in BOOLEAN : tui' = t /\ Commit(Sync(Snapshot, t, near))
    BY <1>1, Running
  <1>3. Globals
    BY <1>1, <1>2, Running DEF Globals
  <1>4. FineAll(Snapshot, reactivated') /\ SameAll(Snapshot, Snapshot)
    BY <1>1, Running
  <1> QED BY <1>2, <1>3, <1>4, KeepsSync

-----------------------------------------------------------------------------
\* A fire that goes on to its next await.
LEMMA FireGoesOn ==
  ASSUME IInv, NEW c \in CronIds, NEW i \in FireIds, fires[c][i] # "none", NEW st \in Stage,
         Commit([Snapshot EXCEPT ![c].fires[i] = st]),
         UNCHANGED <<alive, tui, up, deleted, reactivated>>
  PROVE  IInv' /\ NoneCancelled
  <1> DEFINE x == Cell(c)
             y == [x EXCEPT !.fires[i] = st]
             S == [Snapshot EXCEPT ![c] = y]
  <1>1. up
    BY FireRuns
  <1>2. /\ FineAll(Snapshot, reactivated) /\ SyncedAll(Snapshot, tui)
        /\ Snapshot[c] = x /\ x \in Cells /\ Fine(c, x, reactivated) /\ Synced(x, tui)
        /\ x.fires = fires[c]
    BY <1>1, Running
  <1>3. Commit(S)
    BY <1>2 DEF FineAll
  <1> HIDE DEF x
  <1>4. y \in Cells /\ y.cron = x.cron /\ y.job = x.job
        /\ y.fires = [x.fires EXCEPT ![i] = st]
    BY <1>2 DEF Cells, Fires
  <1> HIDE DEF y
  <1>5. y.fires[i] # "none" /\ \A j \in FireIds \ {i} : y.fires[j] = x.fires[j]
    BY <1>2, <1>4, CellFields DEF Fires, Stage
  <1>6. Fine(c, y, reactivated) /\ Same(x, y) /\ Synced(y, tui)
    BY <1>2, <1>4, <1>5 DEF Fine, Idle, Same, Synced
  <1>7. FineAll(S, reactivated) /\ SameAll(Snapshot, S)
    BY <1>2, <1>6, OneFine
  <1>8. SyncedAll(S, tui)
    BY <1>2, <1>6 DEF SyncedAll, FineAll
  <1>9. Globals
    BY <1>1, Running DEF Globals
  <1> HIDE DEF S
  <1> QED BY <1>3, <1>7, <1>8, <1>9, Keeps

LEMMA FoundClientInv ==
  ASSUME IInv, NEW c \in CronIds, NEW i \in FireIds, NEW near, FoundClient(c, i, near)
  PROVE  IInv' /\ NoneCancelled
  <1>1. /\ fires[c][i] = "client" /\ UNCHANGED <<alive, tui, up, deleted, reactivated>>
    BY DEF FoundClient
  <1>2. CASE cron[c].scope \in alive
    <2>1. Commit([Snapshot EXCEPT ![c].fires[i] = "sent"])
      BY <1>2 DEF FoundClient
    <2>2. PICK st \in Stage : st = "sent"
      BY DEF Stage
    <2> QED BY <1>1, <2>1, <2>2, FireGoesOn
  <1>3. CASE cron[c].scope \notin alive
    <2> DEFINE C == {c}
               F == {i}
               H == HoldCron(Snapshot, C, tui, near)
               y == FireReturned(H[c], F)
               S == [H EXCEPT ![c] = y]
    <2>1. Commit(Sync(S, tui, near))
      BY <1>3 DEF FoundClient
    <2>2. up
      BY <1>1, FireRuns
    <2>3. /\ FineAll(Snapshot, reactivated) /\ tui \in BOOLEAN
          /\ Snapshot[c] = Cell(c) /\ Cell(c).cron = cron[c] /\ Cell(c).fires = fires[c]
          /\ Fine(c, Cell(c), reactivated)
      BY <2>2, Running
    <2>4. cron[c].status # "absent"
      BY <1>1, <2>3 DEF Fine, Idle
    <2>5. C \subseteq CronIds /\ c \in C /\ \A d \in C : Snapshot[d].cron.status # "absent"
      BY <2>3, <2>4
    <2>6. F \subseteq FireIds /\ \A j \in F : j = i
      OBVIOUS
    <2> HIDE DEF C, F
    <2>7. /\ FineAll(H, reactivated) /\ SameAll(Snapshot, H)
          /\ H[c].cron.status = "held" /\ H[c].fires = Snapshot[c].fires
      BY <2>3, <2>5, HoldCronFine
    <2> HIDE DEF H
    <2>8. F \subseteq InFlight(H[c])
      BY <1>1, <2>3, <2>6, <2>7 DEF InFlight
    <2>9. Fine(c, y, reactivated) /\ Same(H[c], y)
      BY <2>7, <2>8, FireReturnedFine DEF FineAll
    <2> HIDE DEF y
    <2>10. FineAll(S, reactivated) /\ SameAll(H, S)
      BY <2>7, <2>9, OneFine
    <2> HIDE DEF S
    <2>11. SameAll(Snapshot, S)
      BY <2>7, <2>10 DEF SameAll, Same
    <2>12. Globals
      BY <1>1, <2>2, Running DEF Globals
    <2> QED BY <1>1, <2>1, <2>3, <2>10, <2>11, <2>12, KeepsSync
  <1> QED BY <1>2, <1>3

LEMMA MessageCreatedInv ==
  ASSUME IInv, NEW c \in CronIds, NEW i \in FireIds, MessageCreated(c, i)
  PROVE  IInv' /\ NoneCancelled
  <1>1. PICK st \in Stage : st = "created"
    BY DEF Stage
  <1> QED BY <1>1, FireGoesOn DEF MessageCreated

LEMMA TurnCompletedInv ==
  ASSUME IInv, NEW s \in Sessions, NEW near, TurnCompleted(s, near)
  PROVE  IInv' /\ NoneCancelled
  <1> DEFINE Over(c) == {i \in FireIds : fires[c][i] = "created"}
             C == {c \in CronIds : cron[c].scope = s /\ Over(c) # {}}
             S == [c \in CronIds |-> IF c \in C THEN FireReturned(Cell(c), Over(c)) ELSE Cell(c)]
  <1>1. /\ s \in alive /\ Commit(Sync(S, tui, near))
        /\ UNCHANGED <<alive, tui, up, deleted, reactivated>>
    BY DEF TurnCompleted
  <1>2. up
    BY <1>1 DEF IInv, StateInv
  <1>3. /\ FineAll(Snapshot, reactivated) /\ tui \in BOOLEAN
        /\ \A c \in CronIds : /\ Snapshot[c] = Cell(c) /\ Cell(c).fires = fires[c]
                              /\ Fine(c, Cell(c), reactivated)
    BY <1>2, Running
  <1>4. \A c \in CronIds : Fine(c, S[c], reactivated) /\ Same(Cell(c), S[c])
    <2> SUFFICES ASSUME NEW c \in CronIds
                 PROVE  Fine(c, S[c], reactivated) /\ Same(Cell(c), S[c])
      OBVIOUS
    <2>1. CASE c \notin C
      BY <1>3, <2>1 DEF Same
    <2>2. CASE c \in C
      <3> DEFINE F == Over(c)
      <3>1. F \subseteq InFlight(Cell(c)) /\ F # {}
        BY <1>3, <2>2 DEF InFlight
      <3>2. S[c] = FireReturned(Cell(c), F)
        BY <2>2
      <3> HIDE DEF F, S
      <3> QED BY <1>3, <3>1, <3>2, FireReturnedFine
    <2> QED BY <2>1, <2>2
  <1>5. FineAll(S, reactivated) /\ SameAll(Snapshot, S)
    <2>1. S \in [CronIds -> Cells]
      <3>1. \A c \in CronIds : S[c] \in Cells
        BY <1>4 DEF Fine
      <3>2. S = [c \in CronIds |-> S[c]]
        OBVIOUS
      <3> HIDE DEF S
      <3> QED BY <3>1, <3>2
    <2> HIDE DEF S
    <2> QED BY <1>3, <1>4, <2>1 DEF FineAll, SameAll
  <1> HIDE DEF S
  <1>6. Globals
    BY <1>1, <1>2, Running DEF Globals
  <1> QED BY <1>1, <1>3, <1>5, <1>6, KeepsSync

LEMMA RootPromptSentInv ==
  ASSUME IInv, NEW c \in CronIds, NEW i \in FireIds, NEW near, RootPromptSent(c, i, near)
  PROVE  IInv' /\ NoneCancelled
  <1> DEFINE F == {i}
             y == FireReturned(Cell(c), F)
             S == [Snapshot EXCEPT ![c] = y]
  <1>1. /\ fires[c][i] = "root" /\ UNCHANGED <<alive, tui, up, deleted, reactivated>>
        /\ Commit(Sync([Snapshot EXCEPT ![c] = FireReturned(Snapshot[c], F)], tui, near))
    BY DEF RootPromptSent
  <1>2. up
    BY <1>1, FireRuns
  <1>3. /\ FineAll(Snapshot, reactivated) /\ tui \in BOOLEAN
        /\ Snapshot[c] = Cell(c) /\ Cell(c).fires = fires[c] /\ Fine(c, Cell(c), reactivated)
    BY <1>2, Running
  <1>4. F \subseteq InFlight(Cell(c)) /\ F # {}
    BY <1>1, <1>3 DEF InFlight
  <1>5. Commit(Sync(S, tui, near))
    BY <1>1, <1>3
  <1> HIDE DEF F
  <1>6. Fine(c, y, reactivated) /\ Same(Cell(c), y)
    BY <1>3, <1>4, FireReturnedFine
  <1> HIDE DEF y
  <1>7. FineAll(S, reactivated) /\ SameAll(Snapshot, S)
    BY <1>3, <1>6, OneFine
  <1> HIDE DEF S
  <1>8. Globals
    BY <1>1, <1>2, Running DEF Globals
  <1> QED BY <1>1, <1>3, <1>5, <1>7, <1>8, KeepsSync

LEMMA PromptFailedInv ==
  ASSUME IInv, NEW c \in CronIds, NEW i \in FireIds, NEW near, PromptFailed(c, i, near)
  PROVE  IInv' /\ NoneCancelled
  <1> DEFINE y == FireThrew(Cell(c), i)
             S == [Snapshot EXCEPT ![c] = y]
  <1>1. /\ fires[c][i] # "none" /\ UNCHANGED <<alive, tui, up, deleted, reactivated>>
        /\ Commit(Sync([Snapshot EXCEPT ![c] = FireThrew(Snapshot[c], i)], tui, near))
    BY DEF PromptFailed
  <1>2. up
    BY <1>1, FireRuns
  <1>3. /\ FineAll(Snapshot, reactivated) /\ tui \in BOOLEAN
        /\ Snapshot[c] = Cell(c) /\ Cell(c).fires = fires[c] /\ Fine(c, Cell(c), reactivated)
    BY <1>2, Running
  <1>4. i \in InFlight(Cell(c))
    BY <1>1, <1>3 DEF InFlight
  <1>5. Commit(Sync(S, tui, near))
    BY <1>1, <1>3
  <1>6. Fine(c, y, reactivated) /\ Same(Cell(c), y)
    BY <1>3, <1>4, FireThrewFine
  <1> HIDE DEF y
  <1>7. FineAll(S, reactivated) /\ SameAll(Snapshot, S)
    BY <1>3, <1>6, OneFine
  <1> HIDE DEF S
  <1>8. Globals
    BY <1>1, <1>2, Running DEF Globals
  <1> QED BY <1>1, <1>3, <1>5, <1>7, <1>8, KeepsSync

-----------------------------------------------------------------------------
LEMMA SessionClosesInv ==
  ASSUME IInv, NEW s \in Sessions, NEW near, SessionCloses(s, near) \/ SessionCrashes(s, near)
  PROVE  IInv' /\ NoneCancelled
  <1> DEFINE P == HoldPendingCronPrompts(Snapshot, {s}, tui, near)
             S == HoldSessionCrons(P, {s})
  <1>1. /\ up /\ alive' = alive \ {s} /\ UNCHANGED <<tui, up, deleted, reactivated>>
        /\ Commit(Sync(S, tui, near)) \/ Commit(P)
    BY DEF SessionCloses, SessionCrashes
  <1>2. FineAll(Snapshot, reactivated) /\ SyncedAll(Snapshot, tui) /\ tui \in BOOLEAN
    BY <1>1, Running
  <1>3. FineAll(P, reactivated) /\ SyncedAll(P, tui) /\ SameAll(Snapshot, P)
    BY <1>2, HoldPendingFine
  <1> HIDE DEF P
  <1>4. FineAll(S, reactivated) /\ SameAll(P, S)
    BY <1>3, HoldSessionFine
  <1> HIDE DEF S
  <1>5. SameAll(Snapshot, S)
    BY <1>3, <1>4 DEF SameAll, Same
  <1>6. Globals
    BY <1>1, Running DEF Globals
  <1>7. CASE Commit(P)
    BY <1>1, <1>3, <1>6, <1>7, Keeps
  <1>8. CASE Commit(Sync(S, tui, near))
    BY <1>1, <1>2, <1>4, <1>5, <1>6, <1>8, KeepsSync
  <1> QED BY <1>1, <1>7, <1>8

LEMMA DisconnectInv ==
  ASSUME IInv, NEW near, Disconnect(near)
  PROVE  IInv' /\ NoneCancelled
  <1> DEFINE A == Sync(Snapshot, FALSE, near)
             P == HoldPendingCronPrompts(A, alive, FALSE, near)
             S == HoldSessionCrons(P, alive)
  <1>1. /\ up /\ tui' = FALSE /\ alive' = {} /\ UNCHANGED <<up, deleted, reactivated>>
        /\ Commit(Sync(S, FALSE, near))
    BY DEF Disconnect
  <1>2. FineAll(Snapshot, reactivated) /\ FALSE \in BOOLEAN
    BY <1>1, Running
  <1>3. PICK t \in BOOLEAN : t = FALSE
    OBVIOUS
  <1>4. FineAll(A, reactivated) /\ SameAll(Snapshot, A)
    BY <1>2, <1>3, SyncFine
  <1> HIDE DEF A
  <1>5. FineAll(P, reactivated) /\ SameAll(A, P)
    BY <1>3, <1>4, HoldPendingFine
  <1> HIDE DEF P
  <1>6. FineAll(S, reactivated) /\ SameAll(P, S)
    BY <1>5, HoldSessionFine
  <1> HIDE DEF S
  <1>7. SameAll(Snapshot, S)
    BY <1>4, <1>5, <1>6 DEF SameAll, Same
  <1>8. Globals
    BY <1>1, Running DEF Globals
  <1>9. tui' = t /\ Commit(Sync(S, t, near)) /\ FineAll(S, reactivated')
    BY <1>1, <1>3, <1>6
  <1> QED BY <1>7, <1>8, <1>9, KeepsSync

\* Records and statuses are unchanged.
LEMMA CrashInv ==
  ASSUME IInv, Crash
  PROVE  IInv' /\ NoneCancelled
  <1>1. /\ up' = FALSE /\ tui' = FALSE /\ alive' = {} /\ cron' = cron
        /\ UNCHANGED <<deleted, reactivated>>
        /\ job' = [c \in CronIds |-> NoJob] /\ fires' = [c \in CronIds |-> NoFires]
    BY DEF Crash
  <1>2. StateInv'
    BY <1>1 DEF IInv, StateInv, NoFires, Fires
  <1>3. DownInv'
    <2> SUFFICES ASSUME NEW c \in CronIds
                 PROVE  Off(Cell(c))'
      BY DEF DownInv
    <2>1. /\ Cell(c)' \in Cells /\ Cell(c)'.job = job'[c] /\ Cell(c)'.fires = fires'[c]
      BY <1>2 DEF Cell, Cells, StateInv
    <2> QED BY <1>1, <2>1 DEF Off, Idle, NoFires
  <1>4. UpInv' /\ UsedInv' /\ NoneCancelled
    BY <1>1 DEF IInv, UpInv, UsedInv, Used, NoneCancelled
  <1> QED BY <1>2, <1>3, <1>4 DEF IInv

LEMMA RestartInv ==
  ASSUME IInv, NEW near, Restart(near)
  PROVE  IInv' /\ NoneCancelled
  <1> DEFINE S == [c \in CronIds |-> Repaired(Cell(c))]
  <1>1. /\ ~ up /\ up' = TRUE /\ UNCHANGED <<alive, tui, deleted, reactivated>>
        /\ Commit(Sync(S, FALSE, near))
    BY DEF Restart
  <1>2. /\ StateInv /\ ~ tui
        /\ \A c \in CronIds : Off(Cell(c)) /\ Snapshot[c] = Cell(c)
    BY <1>1, SnapshotFields DEF IInv, StateInv, DownInv
  <1>3. \A c \in CronIds : Fine(c, S[c], reactivated) /\ Same(Cell(c), S[c])
    BY <1>2, RepairedFine
  <1>4. FineAll(S, reactivated) /\ SameAll(Snapshot, S)
    <2>1. \A c \in CronIds : S[c] \in Cells
      BY <1>3 DEF Fine
    <2>2. S \in [CronIds -> Cells]
      BY <2>1
    <2> HIDE DEF S
    <2> QED BY <1>2, <1>3, <2>2 DEF FineAll, SameAll
  <1> HIDE DEF S
  <1>5. PICK t \in BOOLEAN : t = FALSE
    OBVIOUS
  <1>6. tui' = t /\ Commit(Sync(S, t, near)) /\ FineAll(S, reactivated')
    BY <1>1, <1>2, <1>4, <1>5 DEF StateInv
  <1>7. Globals
    BY <1>1, <1>2 DEF Globals, StateInv
  <1> QED BY <1>4, <1>6, <1>7, KeepsSync

LEMMA TimePassesInv ==
  ASSUME IInv, NEW c \in CronIds, TimePasses(c)
  PROVE  IInv' /\ NoneCancelled
  <1> DEFINE d == IF cron[c].due = "ahead" THEN "passed" ELSE "late"
  <1>1. /\ cron' = [cron EXCEPT ![c].due = d]
        /\ UNCHANGED <<job, fires, alive, tui, up, deleted, reactivated>>
    BY DEF TimePasses
  <1>2. d \in Due
    BY DEF Due
  <1> HIDE DEF d
  <1>3. \A b \in CronIds : /\ cron'[b] \in CronRecord
                           /\ cron'[b].status = cron[b].status
                           /\ cron'[b].scope = cron[b].scope
                           /\ cron'[b].expr = cron[b].expr
    BY <1>1, <1>2 DEF IInv, StateInv, CronRecord
  <1>4. StateInv'
    BY <1>1, <1>3 DEF IInv, StateInv
  <1>5. \A b \in CronIds : /\ Cell(b)' \in Cells
                           /\ Cell(b)'.cron = cron'[b] /\ Cell(b)'.job = Cell(b).job
                           /\ Cell(b)'.fires = Cell(b).fires
    BY <1>1, <1>4 DEF Cell, Cells, StateInv
  <1>6. \A b \in CronIds : Cell(b).cron = cron[b]
    BY DEF Cell
  <1>7. UpInv'
    <2> SUFFICES ASSUME up, NEW b \in CronIds
                 PROVE  Fine(b, Cell(b), reactivated)' /\ Synced(Cell(b), tui)'
      BY <1>1 DEF UpInv
    <2>1. Fine(b, Cell(b), reactivated) /\ Synced(Cell(b), tui)
      BY DEF IInv, UpInv
    <2>2. Cell(b)'.cron.status = Cell(b).cron.status
      BY <1>3, <1>5, <1>6
    <2>3. Fine(b, Cell(b), reactivated)'
      BY <1>1, <1>5, <2>1, <2>2 DEF Fine, Idle
    <2>4. Synced(Cell(b), tui)'
      BY <1>1, <1>3, <1>5, <1>6, <2>1 DEF Synced, ShouldRegister
    <2> QED BY <2>3, <2>4
  <1>8. DownInv'
    BY <1>1, <1>5 DEF IInv, DownInv, Off, Idle
  <1>9. UsedInv' /\ NoneCancelled
    <2>1. Used' = Used
      BY <1>3 DEF Used
    <2> QED BY <1>3, <2>1 DEF IInv, UsedInv, NoneCancelled
  <1> QED BY <1>4, <1>7, <1>8, <1>9 DEF IInv

-----------------------------------------------------------------------------
(* Records that appear or are cancelled.                                   *)

\* Records are used in order.
LEMMA UsedFacts ==
  ASSUME UsedInv
  PROVE  \E n \in 0..MaxCrons : /\ Used = 1..n /\ NextId = n + 1
                                /\ \A c \in CronIds : cron[c].status = "absent" <=> c > n
  <1>1. PICK n \in 0..MaxCrons : Used = 1..n
    BY DEF UsedInv
  <1>2. n \in Nat /\ Cardinality(1..n) = n
    BY FS_Interval, Slots
  <1>3. NextId = n + 1
    BY <1>1, <1>2 DEF NextId
  <1>4. \A c \in CronIds : c \in Used <=> cron[c].status # "absent"
    BY DEF Used
  <1>5. \A c \in CronIds : c \in 1..n <=> ~ (c > n)
    BY <1>2, Slots DEF CronIds
  <1>6. \A c \in CronIds : cron[c].status = "absent" <=> c > n
    BY <1>1, <1>4, <1>5
  <1> QED BY <1>1, <1>3, <1>6

\* A step that uses the records up to n.
LEMMA Uses ==
  ASSUME IInv, NEW S, FineAll(S, reactivated'), NEW t \in BOOLEAN, tui' = t,
         SyncedAll(S, t), Commit(S), Globals, NEW n \in 0..MaxCrons,
         \A c \in CronIds : S[c].cron.status = "absent" <=> c > n
  PROVE  IInv' /\ \A c \in CronIds : cron'[c] = S[c].cron
  <1>1. /\ StateInv' /\ \A c \in CronIds : cron'[c] = S[c].cron /\ Cell(c)' = S[c]
    BY Committed DEF FineAll, StateInv, Globals
  <1>2. UpInv' /\ DownInv'
    BY <1>1 DEF UpInv, DownInv, FineAll, SyncedAll, Globals
  <1>3. Used' = 1..n
    <2>1. \A c \in CronIds : cron'[c].status # "absent" <=> c \in 1..n
      BY <1>1, Slots DEF CronIds
    <2>2. 1..n \subseteq CronIds
      BY Slots DEF CronIds
    <2> QED BY <2>1, <2>2 DEF Used
  <1> QED BY <1>1, <1>2, <1>3 DEF IInv, UsedInv

\* A fresh record is written.
LEMMA NewCronFine ==
  ASSUME NEW c, NEW R, NEW x, Fine(c, x, R), x.cron.status = "absent",
         NEW sc \in Sessions \cup {Root}, NEW rec \in BOOLEAN, NEW e \in Exprs \cup BadExprs,
         NEW y, y = [x EXCEPT !.cron = NewCron(sc, rec, e)]
  PROVE  /\ Fine(c, y, R)
         /\ y.cron = NewCron(sc, rec, e)
         /\ y.cron.status = "active" /\ y.cron.due = "none" /\ y.cron.scope = sc
         /\ y.cron.recurring = rec /\ y.cron.expr = e
  <1> DEFINE r == NewCron(sc, rec, e)
  <1>1. /\ r \in CronRecord /\ r.status = "active" /\ r.due = "none" /\ r.scope = sc
        /\ r.recurring = rec /\ r.expr = e
    BY DEF NewCron, CronRecord, Status, Due
  <1>2. y = [x EXCEPT !.cron = r]
    OBVIOUS
  <1> HIDE DEF r
  <1>3. x \in Cells
    BY DEF Fine
  <1>4. y.cron = r /\ y.job = x.job /\ y.fires = x.fires /\ y \in Cells
    BY <1>1, <1>2, <1>3 DEF Cells
  <1>5. 1 \in FireIds
    BY Slots
  <1>6. Fine(c, y, R)
    BY <1>1, <1>4, <1>5 DEF Fine, Idle
  <1> QED BY <1>1, <1>4, <1>6 DEF r

LEMMA CreateCronInv ==
  ASSUME IInv, NEW sc \in Scopes, NEW rec \in Recurrences, NEW e \in Exprs \cup BadExprs,
         NEW imm \in BOOLEAN, NEW near, CreateCron(sc, rec, e, imm, near)
  PROVE  IInv' /\ NoneCancelled
  <1>1. PICK n \in 0..MaxCrons : /\ Used = 1..n /\ NextId = n + 1
                                 /\ \A c \in CronIds : cron[c].status = "absent" <=> c > n
    BY UsedFacts DEF IInv
  <1> DEFINE d == NextId
             y == [Cell(d) EXCEPT !.cron = NewCron(sc, rec, e)]
             A == [Snapshot EXCEPT ![d] = y]
             S == Sync(A, tui, near)
             T == IF imm /\ S[d].cron.status = "active"
                  THEN [S EXCEPT ![d] = StartFire(S[d], tui)] ELSE S
  <1>2. /\ up /\ d \in CronIds /\ UNCHANGED <<alive, tui, up, deleted, reactivated>>
    BY DEF CreateCron
  <1>3. /\ FineAll(Snapshot, reactivated) /\ tui \in BOOLEAN
        /\ Snapshot[d] = Cell(d)
        /\ \A c \in CronIds : Snapshot[c].cron = cron[c] /\ Fine(c, Snapshot[c], reactivated)
    BY <1>2, Running
  <1>4. Commit(T)
    <2>1. A = [Snapshot EXCEPT ![d].cron = NewCron(sc, rec, e)]
      BY <1>2, <1>3 DEF FineAll
    <2> QED BY <2>1 DEF CreateCron
  <1>5. cron[d].status = "absent"
    BY <1>1, <1>2 DEF CronIds
  <1>6. /\ sc \in Sessions \cup {Root} /\ rec \in BOOLEAN
    BY CronAssumption
  <1>7. Fine(d, y, reactivated) /\ y.cron.status = "active"
    BY <1>2, <1>3, <1>5, <1>6, NewCronFine
  <1> HIDE DEF y, d
  <1>8. /\ FineAll(A, reactivated)
        /\ \A c \in CronIds : /\ A[c].cron.status = "absent" <=> c > n + 1
                              /\ A[c].cron.status = "cancelled" => cron[c].status = "cancelled"
    <2>1. A \in [CronIds -> Cells] /\ \A c \in CronIds : A[c] = IF c = d THEN y ELSE Snapshot[c]
      BY <1>2, <1>3, <1>7 DEF FineAll, Fine
    <2> HIDE DEF A
    <2>2. \A c \in CronIds : Fine(c, A[c], reactivated)
      BY <1>3, <1>7, <2>1
    <2>3. d = n + 1
      BY <1>1 DEF d
    <2>4. \A c \in CronIds : A[c].cron.status = "absent" <=> c > n + 1
      BY <1>1, <1>3, <1>7, <2>1, <2>3, Slots DEF CronIds
    <2> QED BY <1>3, <1>7, <2>1, <2>2, <2>4 DEF FineAll
  <1> HIDE DEF A
  <1>9. FineAll(S, reactivated) /\ SyncedAll(S, tui) /\ SameAll(A, S)
    BY <1>3, <1>8, SyncFine
  <1> HIDE DEF S
  <1>10. FineAll(T, reactivated) /\ SyncedAll(T, tui) /\ SameAll(S, T)
    <2>1. CASE imm /\ S[d].cron.status = "active"
      <3> DEFINE z == StartFire(S[d], tui)
      <3>1. Fine(d, z, reactivated) /\ Synced(z, tui) /\ Same(S[d], z)
        BY <1>2, <1>3, <1>9, <2>1, StartFine DEF FineAll, SyncedAll
      <3>2. T = [S EXCEPT ![d] = z]
        BY <2>1
      <3> HIDE DEF T, z
      <3>3. FineAll(T, reactivated) /\ SameAll(S, T)
        BY <1>2, <1>9, <3>1, <3>2, OneFine
      <3> QED BY <1>9, <3>1, <3>2, <3>3 DEF SyncedAll, FineAll
    <2>2. CASE ~ (imm /\ S[d].cron.status = "active")
      BY <1>9, <2>2 DEF SameAll, Same
    <2> QED BY <2>1, <2>2
  <1> HIDE DEF T
  <1>11. \A c \in CronIds : /\ T[c].cron.status = "absent" <=> c > n + 1
                            /\ T[c].cron.status = "cancelled" => cron[c].status = "cancelled"
    BY <1>8, <1>9, <1>10 DEF SameAll, Same
  <1>12. n + 1 \in 0..MaxCrons
    BY <1>1, <1>2, Slots DEF CronIds, d
  <1>13. Globals
    BY <1>2, Running DEF Globals
  <1>14. FineAll(T, reactivated')
    BY <1>2, <1>10
  <1>15. IInv' /\ \A c \in CronIds : cron'[c] = T[c].cron
    BY <1>2, <1>3, <1>4, <1>10, <1>11, <1>12, <1>13, <1>14, Uses
  <1> QED BY <1>11, <1>15 DEF NoneCancelled

\* What ScheduleSurvives says of a step.
Survives ==
    \A c \in CronIds :
       cron[c].status # "cancelled" /\ cron'[c].status = "cancelled" =>
          \/ c \in deleted'
          \/ \E n \in CronIds :
                /\ cron[n].status = "absent"
                /\ cron'[n].status \in {"active", "error"}
                /\ cron'[n].scope = cron[c].scope
                /\ cron'[n].expr = cron[c].expr
                /\ cron'[n].recurring = cron[c].recurring

LEMMA DeleteCronInv ==
  ASSUME IInv, NEW c \in CronIds, NEW near, DeleteCron(c, near)
  PROVE  IInv' /\ Survives
  <1>1. PICK n \in 0..MaxCrons : \A d \in CronIds : cron[d].status = "absent" <=> d > n
    BY UsedFacts DEF IInv
  <1> DEFINE C == {c}
             A == SetStatus(Snapshot, C, "cancelled")
             S == Sync(A, tui, near)
  <1>2. /\ up /\ cron[c].status # "absent" /\ Commit(S)
        /\ UNCHANGED <<alive, tui, up, reactivated>> /\ deleted' = deleted \cup C
    BY DEF DeleteCron, Listed
  <1>3. /\ FineAll(Snapshot, reactivated) /\ tui \in BOOLEAN
        /\ \A d \in CronIds : Snapshot[d] \in Cells /\ Snapshot[d].cron = cron[d]
    BY <1>2, Running DEF FineAll
  <1>4. C \subseteq CronIds /\ \A d \in C : d = c /\ Snapshot[d].cron.status # "absent"
    BY <1>2, <1>3
  <1> HIDE DEF C
  <1>5. /\ FineAll(A, reactivated)
        /\ \A d \in CronIds : A[d] = IF d \in C THEN WithStatus(Snapshot[d], "cancelled") ELSE Snapshot[d]
    <2>1. \A st \in {"paused", "held", "cancelled"} :
             /\ FineAll(SetStatus(Snapshot, C, st), reactivated)
             /\ \A d \in CronIds : SetStatus(Snapshot, C, st)[d] =
                   IF d \in C THEN WithStatus(Snapshot[d], st) ELSE Snapshot[d]
      BY <1>3, <1>4, SetStatusFine
    <2> QED BY <2>1
  <1> HIDE DEF A
  <1>6. \A d \in CronIds : /\ A[d].cron.status = "absent" <=> d > n
                           /\ A[d].cron.status = "cancelled" => d \in C \/ cron[d].status = "cancelled"
    <2>1. \A x \in Cells : \A st \in Status : WithStatus(x, st).cron.status = st
      BY WithStatusFields
    <2>2. \A d \in C : WithStatus(Snapshot[d], "cancelled").cron.status = "cancelled"
      BY <1>3, <1>4, <2>1 DEF Status
    <2> QED BY <1>1, <1>3, <1>4, <1>5, <2>2
  <1>7. FineAll(S, reactivated) /\ SyncedAll(S, tui) /\ SameAll(A, S)
    BY <1>3, <1>5, SyncFine
  <1> HIDE DEF S
  <1>8. \A d \in CronIds : /\ S[d].cron.status = "absent" <=> d > n
                           /\ S[d].cron.status = "cancelled" => d \in C \/ cron[d].status = "cancelled"
    BY <1>6, <1>7 DEF SameAll, Same
  <1>9. Globals
    BY <1>2, <1>4, Running DEF Globals
  <1>10. FineAll(S, reactivated')
    BY <1>2, <1>7
  <1>11. IInv' /\ \A d \in CronIds : cron'[d] = S[d].cron
    BY <1>2, <1>3, <1>7, <1>8, <1>9, <1>10, Uses
  <1> QED BY <1>2, <1>8, <1>11 DEF Survives

\* The records that copies are written to: one for each, the first ones unused.
LEMMA Copies ==
  ASSUME NEW n \in Nat, NextId = n + 1, NEW H, H \subseteq 1..n
  PROVE  /\ Cardinality(H) \in Nat
         /\ \A h \in H : CopyOf(H, h) \in (n + 1)..(n + Cardinality(H))
         /\ \A g, h \in H : CopyOf(H, g) = CopyOf(H, h) => g = h
         /\ \A k \in (n + 1)..(n + Cardinality(H)) : \E h \in H : CopyOf(H, h) = k
  <1> DEFINE m == Cardinality(H)
             Below(h) == {x \in H : x < h}
             f == [h \in H |-> CopyOf(H, h)]
             T == (n + 1)..(n + m)
  <1>1. IsFiniteSet(H) /\ m \in Nat
    <2>1. IsFiniteSet(1..n)
      BY FS_Interval
    <2> QED BY <2>1, FS_Subset, FS_CardinalityType
  <1>2. \A h \in H : h \in Nat
    OBVIOUS
  <1>3. \A h \in H : IsFiniteSet(Below(h)) /\ Cardinality(Below(h)) \in Nat
    <2> SUFFICES ASSUME NEW h \in H
                 PROVE  IsFiniteSet(Below(h)) /\ Cardinality(Below(h)) \in Nat
      OBVIOUS
    <2>1. Below(h) \in SUBSET H
      OBVIOUS
    <2> HIDE DEF Below
    <2> QED BY <1>1, <2>1, FS_Subset, FS_CardinalityType
  <1>4. \A h \in H : CopyOf(H, h) = n + 1 + Cardinality(Below(h))
    BY DEF CopyOf
  <1>5. \A h \in H : Cardinality(Below(h)) < m
    <2> SUFFICES ASSUME NEW h \in H
                 PROVE  Cardinality(Below(h)) < m
      OBVIOUS
    <2>1. Below(h) \in SUBSET H /\ Below(h) # H
      BY <1>2
    <2> HIDE DEF Below
    <2>2. Cardinality(Below(h)) <= m /\ Cardinality(Below(h)) # m
      BY <1>1, <2>1, FS_Subset
    <2> QED BY <1>1, <1>3, <2>2
  <1>6. \A g, h \in H : g < h => Cardinality(Below(g)) < Cardinality(Below(h))
    <2> SUFFICES ASSUME NEW g \in H, NEW h \in H, g < h
                 PROVE  Cardinality(Below(g)) < Cardinality(Below(h))
      OBVIOUS
    <2>1. Below(g) \in SUBSET Below(h) /\ Below(g) # Below(h)
      <3>1. g \in Below(h) /\ g \notin Below(g)
        BY <1>2
      <3>2. \A x \in Below(g) : x \in Below(h)
        BY <1>2
      <3> HIDE DEF Below
      <3> QED BY <3>1, <3>2
    <2> HIDE DEF Below
    <2>2. /\ Cardinality(Below(g)) <= Cardinality(Below(h))
          /\ Cardinality(Below(g)) # Cardinality(Below(h))
      BY <1>3, <2>1, FS_Subset
    <2> QED BY <1>3, <2>2
  <1> HIDE DEF m, Below
  <1>7. \A h \in H : CopyOf(H, h) \in T
    BY <1>1, <1>3, <1>4, <1>5
  <1>8. \A g, h \in H : CopyOf(H, g) = CopyOf(H, h) => g = h
    <2> SUFFICES ASSUME NEW g \in H, NEW h \in H, CopyOf(H, g) = CopyOf(H, h)
                 PROVE  g = h
      OBVIOUS
    <2>1. Cardinality(Below(g)) = Cardinality(Below(h))
      BY <1>3, <1>4
    <2> QED BY <1>2, <1>3, <1>6, <2>1
  <1>9. \A k \in T : \E h \in H : CopyOf(H, h) = k
    <2>1. IsFiniteSet(T) /\ Cardinality(T) = m
      <3>1. PICK a \in Int, b \in Int : a = n + 1 /\ b = n + m
        BY <1>1
      <3>2. IsFiniteSet(a..b) /\ Cardinality(a..b) = IF a > b THEN 0 ELSE b - a + 1
        BY FS_Interval
      <3> QED BY <1>1, <3>1, <3>2
    <2> HIDE DEF T
    <2>2. f \in [H -> T]
      BY <1>7
    <2>3. \A a, b \in H : f[a] = f[b] => a = b
      BY <1>8
    <2>4. \A h \in H : f[h] = CopyOf(H, h)
      OBVIOUS
    <2> HIDE DEF f
    <2>5. f \in Injection(H, T)
      BY <2>2, <2>3, Fun_IsInj
    <2>6. f \in Surjection(H, T)
      BY <2>1, <2>5, FS_Injection DEF m
    <2>7. \A k \in T : \E h \in H : f[h] = k
      BY <2>6, Fun_SurjectionProperties
    <2> QED BY <2>4, <2>7
  <1> QED BY <1>1, <1>7, <1>8, <1>9 DEF m, T

LEMMA SessionOpensInv ==
  ASSUME IInv, NEW s \in Sessions, NEW near, SessionOpens(s, near)
  PROVE  IInv' /\ Survives
  <1>1. PICK n \in 0..MaxCrons : /\ Used = 1..n /\ NextId = n + 1
                                 /\ \A c \in CronIds : cron[c].status = "absent" <=> c > n
    BY UsedFacts DEF IInv
  <1> DEFINE H == HeldOf(Snapshot, s)
             m == Cardinality(H)
             Copied(k) == CHOOSE h \in H : CopyOf(H, h) = k
             A == ResumeSessionCrons(Snapshot, s)
             S == Sync(A, tui, near)
  <1>2. /\ up /\ Commit(S) /\ UNCHANGED <<tui, up, reactivated>>
        /\ NextId + m - 1 <= MaxCrons
        /\ alive' = alive \cup {s}
        /\ deleted' = deleted \cup {CopyOf(H, h) : h \in H \cap deleted}
    BY DEF SessionOpens
  <1>3. /\ FineAll(Snapshot, reactivated) /\ tui \in BOOLEAN
        /\ \A c \in CronIds : /\ Snapshot[c] \in Cells /\ Snapshot[c].cron = cron[c]
                              /\ Fine(c, Snapshot[c], reactivated)
    BY <1>2, Running DEF FineAll
  <1>4. H \subseteq CronIds /\ \A h \in H : cron[h].status = "held" /\ cron[h].scope = s /\ h <= n
    BY <1>1, <1>3 DEF HeldOf, CronIds
  <1>5. n \in Nat /\ n <= MaxCrons /\ H \subseteq 1..n
    BY <1>1, <1>4, Slots DEF CronIds
  <1>6. \A c \in CronIds :
           A[c] = IF c \in H THEN WithStatus(Snapshot[c], "cancelled")
                  ELSE IF \E h \in H : CopyOf(H, h) = c
                  THEN [Snapshot[c] EXCEPT !.cron = NewCron(s, Snapshot[Copied(c)].cron.recurring,
                                                            Snapshot[Copied(c)].cron.expr)]
                  ELSE Snapshot[c]
    BY DEF ResumeSessionCrons
  <1>7. DOMAIN A = CronIds /\ A = [c \in CronIds |-> A[c]]
    BY DEF ResumeSessionCrons
  <1> HIDE DEF H, A
  <1>8. /\ m \in Nat
        /\ \A h \in H : CopyOf(H, h) \in (n + 1)..(n + m)
        /\ \A g, h \in H : CopyOf(H, g) = CopyOf(H, h) => g = h
        /\ \A k \in (n + 1)..(n + m) : \E h \in H : CopyOf(H, h) = k
    BY <1>1, <1>5, Copies
  <1> HIDE DEF m
  <1>9. n + m \in 0..MaxCrons /\ (n + 1)..(n + m) \subseteq CronIds
    BY <1>1, <1>2, <1>5, <1>8, Slots DEF CronIds
  <1>10. ASSUME NEW h \in H
         PROVE  /\ CopyOf(H, h) \in CronIds /\ CopyOf(H, h) > n /\ CopyOf(H, h) \notin H
                /\ Copied(CopyOf(H, h)) = h
    <2>1. CopyOf(H, h) \in CronIds /\ CopyOf(H, h) > n /\ CopyOf(H, h) \notin H
      BY <1>4, <1>5, <1>8, <1>9
    <2>2. Copied(CopyOf(H, h)) \in H /\ CopyOf(H, Copied(CopyOf(H, h))) = CopyOf(H, h)
      OBVIOUS
    <2> HIDE DEF Copied
    <2> QED BY <1>8, <2>1, <2>2
  <1> HIDE DEF Copied
  \* The copy of h.
  <1>11. ASSUME NEW h \in H
         PROVE  /\ Fine(CopyOf(H, h), A[CopyOf(H, h)], reactivated)
                /\ A[CopyOf(H, h)].cron.status = "active"
                /\ A[CopyOf(H, h)].cron.due = "none"
                /\ A[CopyOf(H, h)].cron.scope = s
                /\ A[CopyOf(H, h)].cron.recurring = cron[h].recurring
                /\ A[CopyOf(H, h)].cron.expr = cron[h].expr
    <2> DEFINE k == CopyOf(H, h)
               rec == cron[h].recurring
               e == cron[h].expr
               y == A[k]
    <2>1. /\ k \in CronIds /\ k > n /\ k \notin H /\ Copied(k) = h
          /\ h \in CronIds /\ Snapshot[h].cron = cron[h]
      BY <1>3, <1>4, <1>10
    <2>2. rec \in BOOLEAN /\ e \in Exprs \cup BadExprs
      BY <2>1 DEF IInv, StateInv, CronRecord
    <2>3. y = [Snapshot[k] EXCEPT !.cron = NewCron(s, rec, e)]
      BY <1>6, <2>1
    <2>4. Fine(k, Snapshot[k], reactivated) /\ Snapshot[k].cron.status = "absent"
      BY <1>1, <1>3, <2>1
    <2> HIDE DEF k, rec, e, y
    <2>5. /\ Fine(k, y, reactivated)
          /\ y.cron.status = "active" /\ y.cron.due = "none" /\ y.cron.scope = s
          /\ y.cron.recurring = rec /\ y.cron.expr = e
      BY <2>2, <2>3, <2>4, NewCronFine
    <2> QED BY <2>5 DEF k, y, rec, e
  \* The other crons.
  <1>12. ASSUME NEW c \in H
         PROVE  Fine(c, A[c], reactivated) /\ A[c].cron.status = "cancelled"
    <2>1. /\ A[c] = WithStatus(Snapshot[c], "cancelled") /\ Snapshot[c].cron.status # "absent"
          /\ Fine(c, Snapshot[c], reactivated)
      BY <1>3, <1>4, <1>6
    <2>2. \A st \in {"paused", "held", "cancelled"} :
             /\ Fine(c, WithStatus(Snapshot[c], st), reactivated)
             /\ WithStatus(Snapshot[c], st).cron.status = st
      BY <2>1, WithStatusFine
    <2> QED BY <2>1, <2>2
  <1>13. ASSUME NEW c \in CronIds, c \notin H, ~ \E h \in H : CopyOf(H, h) = c
         PROVE  A[c] = Snapshot[c]
    BY <1>6, <1>13
  <1>14. \A c \in CronIds : Fine(c, A[c], reactivated)
    BY <1>3, <1>11, <1>12, <1>13
  <1>15. FineAll(A, reactivated)
    <2>1. \A c \in CronIds : A[c] \in Cells
      BY <1>14 DEF Fine
    <2> QED BY <1>7, <1>14, <2>1 DEF FineAll
  <1>16. \A c \in CronIds : /\ A[c].cron.status = "absent" <=> c > n + m
                            /\ A[c].cron.status = "cancelled" => c \in H \/ cron[c].status = "cancelled"
    <2> SUFFICES ASSUME NEW c \in CronIds
                 PROVE  /\ A[c].cron.status = "absent" <=> c > n + m
                        /\ A[c].cron.status = "cancelled" => c \in H \/ cron[c].status = "cancelled"
      OBVIOUS
    <2>0. c \in Nat
      BY Slots DEF CronIds
    <2>1. CASE c \in H
      BY <1>5, <1>8, <1>12, <2>0, <2>1
    <2>2. CASE \E h \in H : CopyOf(H, h) = c
      <3>1. c \in (n + 1)..(n + m) /\ A[c].cron.status = "active"
        BY <1>8, <1>11, <2>2
      <3> QED BY <1>5, <1>8, <2>0, <3>1
    <2>3. CASE c \notin H /\ ~ \E h \in H : CopyOf(H, h) = c
      <3>1. c \notin (n + 1)..(n + m)
        BY <1>8, <2>3
      <3>2. A[c].cron = cron[c]
        BY <1>3, <1>13, <2>3
      <3> QED BY <1>1, <1>5, <1>8, <2>0, <3>1, <3>2
    <2> QED BY <2>1, <2>2, <2>3
  <1>17. /\ FineAll(S, reactivated) /\ SyncedAll(S, tui) /\ SameAll(A, S)
         /\ \A c \in CronIds : S[c] = SyncOne(A[c], tui, near)
    BY <1>3, <1>15, SyncFine
  <1> HIDE DEF S
  <1>18. \A c \in CronIds : /\ S[c].cron.status = "absent" <=> c > n + m
                            /\ S[c].cron.status = "cancelled" => c \in H \/ cron[c].status = "cancelled"
    BY <1>16, <1>17 DEF SameAll, Same
  <1>19. Globals
    BY <1>2, <1>10, Running DEF Globals
  <1>20. FineAll(S, reactivated')
    BY <1>2, <1>17
  <1>21. IInv' /\ \A c \in CronIds : cron'[c] = S[c].cron
    BY <1>2, <1>3, <1>9, <1>17, <1>18, <1>19, <1>20, Uses
  <1>22. Survives
    <2> SUFFICES ASSUME NEW c \in CronIds, cron[c].status # "cancelled",
                        cron'[c].status = "cancelled"
                 PROVE  \E k \in CronIds : /\ cron[k].status = "absent"
                                           /\ cron'[k].status \in {"active", "error"}
                                           /\ cron'[k].scope = cron[c].scope
                                           /\ cron'[k].expr = cron[c].expr
                                           /\ cron'[k].recurring = cron[c].recurring
      BY DEF Survives
    <2> DEFINE k == CopyOf(H, c)
    <2>1. c \in H /\ k \in CronIds /\ k > n /\ cron[c].scope = s
      BY <1>4, <1>10, <1>18, <1>21
    <2>2. cron[k].status = "absent"
      BY <1>1, <2>1
    <2>3. /\ Fine(k, A[k], reactivated)
          /\ A[k].cron.status = "active" /\ A[k].cron.due = "none"
          /\ A[k].cron.scope = s
          /\ A[k].cron.recurring = cron[c].recurring /\ A[k].cron.expr = cron[c].expr
      BY <1>11, <2>1
    <2> HIDE DEF k
    <2>4. /\ S[k].cron.status \in {"active", "error"}
          /\ S[k].cron.scope = s
          /\ S[k].cron.recurring = cron[c].recurring /\ S[k].cron.expr = cron[c].expr
      BY <1>3, <1>17, <2>1, <2>3, SyncOneFine
    <2> QED BY <1>21, <2>1, <2>2, <2>4
  <1> QED BY <1>21, <1>22

-----------------------------------------------------------------------------
(* The theorems.                                                           *)

LEMMA NoneSurvives ==
  ASSUME NoneCancelled
  PROVE  Survives
  BY DEF NoneCancelled, Survives

LEMMA InitInv == Init => IInv
  <1> SUFFICES ASSUME Init
               PROVE  IInv
    OBVIOUS
  <1> DEFINE e == CHOOSE e \in Exprs : TRUE
             r == [NewCron(Root, FALSE, e) EXCEPT !.status = "absent"]
  <1>1. e \in Exprs
    BY CronAssumption
  <1>2. cron = [c \in CronIds |-> r]
    BY DEF Init
  <1> HIDE DEF e
  <1>3. r \in CronRecord /\ r.status = "absent"
    BY <1>1 DEF NewCron, CronRecord, Status, Due
  <1> HIDE DEF r
  <1>4. StateInv
    BY <1>2, <1>3 DEF Init, StateInv, NoFires, Fires
  <1>5. UsedInv
    <2>1. Used = {} /\ 1..0 = {} /\ 0 \in 0..MaxCrons
      BY <1>2, <1>3, Slots DEF Used
    <2> QED BY <2>1 DEF UsedInv
  <1>6. UpInv
    <2> SUFFICES ASSUME NEW c \in CronIds
                 PROVE  Fine(c, Cell(c), reactivated) /\ Synced(Cell(c), tui)
      BY DEF UpInv
    <2>1. /\ Cell(c) \in Cells /\ Cell(c).cron = r /\ Cell(c).job = NoJob
          /\ Cell(c).fires = NoFires
      BY <1>2, <1>4, SnapshotFields DEF Init
    <2>2. Idle(Cell(c))
      BY <2>1 DEF Idle, NoFires
    <2> QED BY <1>3, <2>1, <2>2 DEF Fine, Idle, Synced
  <1>7. DownInv
    BY DEF Init, DownInv
  <1> QED BY <1>4, <1>5, <1>6, <1>7 DEF IInv

LEMMA NextInv == IInv /\ [Next]_vars => IInv' /\ (Survives \/ UNCHANGED vars)
  <1> SUFFICES ASSUME IInv, Next
               PROVE  IInv' /\ Survives
    <2>1. ASSUME IInv, UNCHANGED vars
          PROVE  IInv'
      BY <2>1 DEF IInv, StateInv, UsedInv, Used, UpInv, DownInv, Fine, Cell, Off, Idle, Synced, vars
    <2> QED BY <2>1
  <1>1. CASE Clock
    <2>1. PICK c \in CronIds : Tick(c) \/ TimePasses(c)
      BY <1>1 DEF Clock
    <2> QED BY <2>1, TickInv, TimePassesInv, NoneSurvives
  <1>2. ASSUME NEW near, User(near)
        PROVE  IInv' /\ Survives
    <2>1. ASSUME NEW sc \in Scopes, NEW rec \in Recurrences, NEW imm \in BOOLEAN,
                 NEW e \in Exprs \cup BadExprs, CreateCron(sc, rec, e, imm, near)
          PROVE  IInv' /\ Survives
      BY <2>1, CreateCronInv, NoneSurvives
    <2>2. ASSUME NEW c \in CronIds, NEW st \in {"active", "paused"}, UpdateStatus(c, st, near)
          PROVE  IInv' /\ Survives
      BY <2>2, UpdateStatusInv, NoneSurvives
    <2>3. ASSUME NEW c \in CronIds, NEW e \in Exprs \cup BadExprs, NEW rec \in Recurrences,
                 UpdateSchedule(c, e, rec, near)
          PROVE  IInv' /\ Survives
      BY <2>3, UpdateScheduleInv, NoneSurvives
    <2>4. ASSUME NEW c \in CronIds, DeleteCron(c, near)
          PROVE  IInv' /\ Survives
      BY <2>4, DeleteCronInv
    <2> QED BY <1>2, <2>1, <2>2, <2>3, <2>4 DEF User
  <1>3. ASSUME NEW near, Fire(near)
        PROVE  IInv' /\ Survives
    BY <1>3, FoundClientInv, MessageCreatedInv, RootPromptSentInv, PromptFailedInv, NoneSurvives
       DEF Fire
  <1>4. ASSUME NEW near, Environment(near)
        PROVE  IInv' /\ Survives
    <2>1. ASSUME NEW s \in Sessions,
                 \/ SessionOpens(s, near) \/ SessionCloses(s, near)
                 \/ SessionCrashes(s, near) \/ TurnCompleted(s, near)
          PROVE  IInv' /\ Survives
      BY <2>1, SessionOpensInv, SessionClosesInv, TurnCompletedInv, NoneSurvives
    <2>2. CASE Authenticate(near) \/ Logout(near)
      BY <2>2, WatchdogInv, NoneSurvives
    <2>3. CASE Disconnect(near) \/ Crash \/ Restart(near)
      BY <2>3, DisconnectInv, CrashInv, RestartInv, NoneSurvives
    <2> QED BY <1>4, <2>1, <2>2, <2>3 DEF Environment
  <1>5. ASSUME NEW near, Watchdog(near)
        PROVE  IInv' /\ Survives
    BY <1>5, WatchdogInv, NoneSurvives
  <1> QED BY <1>1, <1>2, <1>3, <1>4, <1>5 DEF Next

LEMMA Inductive == Spec => []IInv
  <1>1. IInv /\ [Next]_vars => IInv'
    BY NextInv
  <1> QED BY <1>1, InitInv, PTL DEF Spec

\* Every variable keeps its type, for any numbers of crons and fires: among it
\* that no more than MaxFires fires of a cron overlap, although only the user's
\* reactivation is bounded, and that no job is registered with an expression
\* that cannot be parsed (CronRuntime.register).
THEOREM CronTypeCorrect == Spec => []TypeOK
  <1>1. IInv => TypeOK
    BY DEF IInv, StateInv, TypeOK
  <1> QED BY <1>1, Inductive, PTL

\* No order of edits, fires, closes, crashes and restarts leaves an active cron
\* unscheduled or scheduled with a replaced expression (CronRuntime.sync).
THEOREM ActiveScheduled == Spec => []ActiveIsScheduled
  <1>1. IInv => ActiveIsScheduled
    <2> SUFFICES ASSUME IInv, NEW c \in CronIds, up, cron[c].status = "active",
                        ShouldRegister(cron[c], tui)
                 PROVE  job[c] = cron[c].expr
      BY DEF ActiveIsScheduled
    <2>1. Synced(Cell(c), tui) /\ Cell(c).cron = cron[c] /\ Cell(c).job = job[c]
      BY Running
    <2> QED BY <2>1 DEF Synced
  <1> QED BY <1>1, Inductive, PTL

\* A timer job never outlives the schedule it serves (the first loop of
\* CronRuntime.sync, the finally block of fire).
THEOREM JobsServeCrons == Spec => []NoOrphanJob
  <1>1. IInv => NoOrphanJob
    <2> SUFFICES ASSUME IInv, NEW c \in CronIds, job[c] # NoJob
                 PROVE  cron[c].status \in {"active", "running"}
      BY DEF NoOrphanJob
    <2>1. Cell(c).cron = cron[c] /\ Cell(c).job = job[c]
      BY SnapshotFields DEF IInv
    <2>2. up
      BY <2>1 DEF IInv, DownInv, Off
    <2>3. Synced(Cell(c), tui)
      BY <2>2, Running
    <2> QED BY <2>1, <2>3 DEF Synced
  <1> QED BY <1>1, Inductive, PTL

\* No crash, hold or late result leaves a cron 'running' with no fire in flight
\* (CronRuntime.start and the end of fire).
THEOREM RunningFires == Spec => []RunningHasFire
  <1>1. IInv => RunningHasFire
    <2> SUFFICES ASSUME IInv, NEW c \in CronIds, up, cron[c].status = "running"
                 PROVE  InFlight(Cell(c)) # {}
      BY DEF RunningHasFire
    <2>1. Fine(c, Cell(c), reactivated) /\ Cell(c).cron = cron[c]
      BY Running
    <2> QED BY <2>1 DEF Fine, Idle, InFlight
  <1> QED BY <1>1, Inductive, PTL

\* Timers, overdue catch-up, edits and restarts never overlap two fires of a
\* cron that the user did not set back to 'active' (the status check of fire).
THEOREM FiresAlone == Spec => []OverlapNeedsReactivation
  <1>1. IInv => OverlapNeedsReactivation
    <2> SUFFICES ASSUME IInv, NEW c \in CronIds, c \notin reactivated
                 PROVE  ~ (Cardinality(InFlight(Cell(c))) > 1)
      BY DEF OverlapNeedsReactivation
    <2>1. \A i, j \in InFlight(Cell(c)) : i = j
      <3>1. CASE up
        BY <3>1, Running DEF Fine, InFlight
      <3>2. CASE ~ up
        BY <3>2 DEF IInv, DownInv, Off, Idle, InFlight
      <3> QED BY <3>1, <3>2
    <2>2. CASE InFlight(Cell(c)) = {}
      BY <2>2, FS_EmptySet
    <2>3. CASE InFlight(Cell(c)) # {}
      <3>1. PICK i : InFlight(Cell(c)) = {i}
        BY <2>1, <2>3
      <3>2. \A n \in Nat : n = 1 => ~ (n > 1)
        OBVIOUS
      <3>3. Cardinality({i}) = 1
        BY FS_Singleton
      <3>4. Cardinality(InFlight(Cell(c))) = 1
        BY <3>1, <3>3
      <3> QED BY <3>2, <3>4
    <2> QED BY <2>2, <2>3
  <1> QED BY <1>1, Inductive, PTL

\* Closing and opening a session loses no schedule, however many of its crons
\* are held: each is cancelled only in the step that writes a copy of it into a
\* record of its own, or because the user deleted it (resumeSessionCrons).
THEOREM SchedulesSurvive == Spec => ScheduleSurvives
  <1>1. IInv /\ [Next]_vars => [Survives]_vars
    BY NextInv
  <1>2. Spec => [][Survives]_vars
    BY <1>1, Inductive, PTL DEF Spec
  <1> QED BY <1>2 DEF ScheduleSurvives, Survives
=============================================================================
