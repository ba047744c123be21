-------------------------------- MODULE Cron --------------------------------
(***************************************************************************)
(* The cron scheduler of the in-process daemon: the file-backed            *)
(* CronRegistry, the CronRuntime that keeps one timer job per active cron, *)
(* and the prompt handlers of InProcessDaemonRuntime that a fire awaits.   *)
(*                                                                         *)
(* The runtime is one JavaScript thread, so the code between two awaits is *)
(* one action.  Files survive a crash of the process; jobs, fires, sessions *)
(* and the TUI connection do not.                                          *)
(*                                                                         *)
(* Wall-clock time is abstracted to how a cron's nextRunAt relates to now  *)
(* and to the last completion: "none" (never scheduled), "ahead",          *)
(* "passed" (reached, within OVERDUE_FIRE_GRACE_MS), "late" (more than the *)
(* grace ago), "met" (a completion at or after it).                        *)
(***************************************************************************)
EXTENDS Naturals, FiniteSets

CONSTANTS Sessions,   \* session ids that may own session_prompt crons
          Root,       \* scope of a root_prompt cron
          Exprs,      \* cron expressions Bun.cron.parse accepts
          BadExprs,   \* expressions it rejects
          Scopes,     \* scopes the user creates crons in
          Recurrences, \* values of 'recurring' the user creates crons with
          NoJob,      \* no entry in CronRuntime.jobs
          MaxCrons,   \* bound: cron records ever created
          MaxFires    \* bound: fires of one cron in flight at a time

ASSUME CronAssumption ==
    /\ MaxCrons \in Nat \ {0}
    /\ MaxFires \in Nat \ {0}
    /\ Root \notin Sessions
    /\ Scopes \subseteq Sessions \cup {Root}
    /\ Recurrences \subseteq BOOLEAN
    /\ NoJob \notin Exprs \cup BadExprs
    /\ Exprs \cap BadExprs = {}
    /\ Exprs # {}

CronIds == 1..MaxCrons
FireIds == 1..MaxFires

Status == {"absent", "active", "paused", "running", "held", "cancelled",
           "expired", "error"}
Due == {"none", "ahead", "passed", "late", "met"}

\* Where a fire is suspended: looking the client up, waiting for the message
\* to be echoed, waiting for the turn to end, or starting a root session.
Stage == {"client", "sent", "created", "root"}
Fires == [FireIds -> Stage \cup {"none"}]
NoFires == [i \in FireIds |-> "none"]

CronRecord == [status : Status, scope : Sessions \cup {Root},
               recurring : BOOLEAN, expr : Exprs \cup BadExprs,
               due : Due, guard : BOOLEAN]

VARIABLES
    cron,     \* the JSON files of the registry
    job,      \* CronRuntime.jobs: the expression of the live timer job
    fires,    \* fires of each cron that are suspended at an await
    alive,    \* sessions whose client is in the DroolRegistry
    tui,      \* tuiConnection !== null
    up,       \* the process runs
    deleted,  \* history: crons the user deleted, and their resumed copies
    reactivated \* history: crons the user set back to 'active'

vars == <<cron, job, fires, alive, tui, up, deleted, reactivated>>

Used == {c \in CronIds : cron[c].status # "absent"}
NextId == Cardinality(Used) + 1

TypeOK ==
    /\ cron \in [CronIds -> CronRecord]
    /\ job \in [CronIds -> Exprs \cup {NoJob}]
    /\ fires \in [CronIds -> Fires]
    /\ alive \subseteq Sessions
    /\ tui \in BOOLEAN
    /\ up \in BOOLEAN
    /\ deleted \subseteq CronIds
    /\ reactivated \subseteq CronIds

-----------------------------------------------------------------------------
(* CronRuntime, as functions of one cron x: its file, timer job and fires.  *)
(* A snapshot S holds the x of every cron.                                 *)

Cell(c) == [cron |-> cron[c], job |-> job[c], fires |-> fires[c]]
Snapshot == [c \in CronIds |-> Cell(c)]
Commit(S) ==
    /\ cron' = [c \in CronIds |-> S[c].cron]
    /\ job' = [c \in CronIds |-> S[c].job]
    /\ fires' = [c \in CronIds |-> S[c].fires]

\* The fires of x in flight.
InFlight(x) == {i \in FireIds : x.fires[i] # "none"}
Free(x) == CHOOSE i \in FireIds : x.fires[i] = "none"

WithStatus(x, st) == [x EXCEPT !.cron.status = st]
SetStatus(S, C, st) == [c \in CronIds |-> IF c \in C THEN WithStatus(S[c], st) ELSE S[c]]

ShouldRegister(r, t) == r.scope # Root \/ t

\* The sync part of fire() for an active cron: 'running' is written, then the
\* handler runs to its first await.  A root prompt without a TUI is deferred,
\* which puts the cron back to 'active' and ends the fire.
StartFire(x, t) ==
    IF x.cron.scope = Root /\ ~t
    THEN [x EXCEPT !.job = NoJob]
    ELSE [x EXCEPT !.cron.status = "running",
                   !.fires[Free(x)] = IF x.cron.scope = Root THEN "root" ELSE "client"]

\* Mutant: an expression that cannot be parsed is registered.
RegisterAnyway(x, near) ==
    [x EXCEPT !.cron.due = "ahead", !.cron.guard = x.cron.expr \in near, !.job = x.cron.expr]

\* register(): 'near' holds the expressions whose next instant is less than
\* FIRST_FIRE_GRACE_MS away, which arms the first-fire guard.
Register(x, near) ==
    IF x.cron.expr \in BadExprs
    THEN WithStatus(x, "error")
    ELSE [x EXCEPT !.cron.due = "ahead",
                   !.cron.guard = x.cron.expr \in near,
                   !.job = x.cron.expr]

WithoutJob(x) == [x EXCEPT !.job = NoJob]
Wanted(x, t) == x.cron.status = "active" /\ ShouldRegister(x.cron, t)

\* The second loop of sync(): a wanted cron is caught up with or registered.
SyncWanted(x, t, near) ==
    CASE x.cron.due = "late" -> StartFire(WithoutJob(x), t)
      [] x.cron.due # "late" /\ x.job = NoJob -> Register(x, near)
      [] OTHER -> x

\* Mutant: a live job is kept although the expression was replaced.
SyncOneKeepsExpression(x, t, near) ==
    IF Wanted(x, t) THEN SyncWanted(x, t, near) ELSE WithoutJob(x)

\* Mutant: the loop that stops jobs is missing.
SyncOneNeverStops(x, t, near) == IF Wanted(x, t) THEN SyncWanted(x, t, near) ELSE x

\* Mutant: the overdue catch-up is missing.
SyncOneNoCatchUp(x, t, near) ==
    LET k == IF x.job = x.cron.expr THEN x ELSE WithoutJob(x)
    IN IF ~Wanted(x, t) THEN WithoutJob(x)
       ELSE IF k.job = NoJob THEN Register(k, near) ELSE k

\* The two loops of sync() for one cron.
SyncOne(x, t, near) ==
    IF Wanted(x, t)
    THEN SyncWanted(IF x.job = x.cron.expr THEN x ELSE WithoutJob(x), t, near)
    ELSE WithoutJob(x)

\* sync() treats every cron by itself, so the order of the files is irrelevant.
Sync(S, t, near) == [c \in CronIds |-> SyncOne(S[c], t, near)]

\* The finally block of the fires F of x, but for its sync.
Ended(x, F) ==
    [x EXCEPT !.job = NoJob,
              !.fires = [i \in FireIds |-> IF i \in F THEN "none" ELSE @[i]]]

Settled(due) == IF due \in {"passed", "late"} THEN "met" ELSE due

\* The handler returned: only a cron that is still 'running' is advanced.  An
\* expression that was replaced by a bad one in the meantime throws.
Advance(r) ==
    CASE r.status # "running" -> r
      [] r.status = "running" /\ r.recurring /\ r.expr \in Exprs ->
            [r EXCEPT !.status = "active", !.due = "ahead", !.guard = FALSE]
      [] r.status = "running" /\ r.recurring /\ r.expr \in BadExprs ->
            [r EXCEPT !.status = "error", !.due = Settled(@)]
      [] r.status = "running" /\ ~r.recurring ->
            [r EXCEPT !.status = "expired", !.due = Settled(@)]

FireReturned(x, F) == Ended([x EXCEPT !.cron = Advance(@)], F)

\* The handler threw: 'error' is written whatever the record says by then.
FireThrew(x, i) ==
    Ended([x EXCEPT !.cron.status = "error", !.cron.due = Settled(@)], {i})

HoldCron(S, C, t, near) == Sync(SetStatus(S, C, "held"), t, near)

SessionCrons(S, ss) == {c \in CronIds : S[c].cron.scope \in ss}

\* CronRegistry.holdSessionCrons (session crons always have runPolicy hold).
HoldSessionCrons(S, ss) ==
    SetStatus(S, {c \in SessionCrons(S, ss) :
                    S[c].cron.status \in {"active", "running"}}, "held")

\* The waiters: fires whose prompt was handed to the session's client.
IsWaiter(st) == st \in {"sent", "created"}
Waiters(x) == {i \in FireIds : IsWaiter(x.fires[i])}
Waiting(S, ss) == {c \in SessionCrons(S, ss) : Waiters(S[c]) # {}}

\* holdPendingCronPromptsForSession: the cron of every waiter is held, whatever
\* its status, and the fire returns.
HoldPendingCronPrompts(S, ss, t, near) ==
    LET W == Waiting(S, ss)
        H == HoldCron(S, W, t, near)
    IN IF W = {} THEN S
       ELSE Sync([c \in CronIds |-> IF c \in W THEN FireReturned(H[c], Waiters(H[c]))
                                    ELSE H[c]], t, near)

\* createCron writes an 'active' record that has no nextRunAt yet.
NewCron(sc, rec, e) == [status |-> "active", scope |-> sc, recurring |-> rec,
                        expr |-> e, due |-> "none", guard |-> FALSE]

-----------------------------------------------------------------------------
(* The requests of the user and of the agent's cron tools.                 *)

\* createCron: write, sync, and fire at once when asked to.
CreateCron(sc, rec, e, immediately, near) ==
    LET S == Sync([Snapshot EXCEPT ![NextId].cron = NewCron(sc, rec, e)], tui, near)
    IN /\ up
       /\ NextId \in CronIds
       /\ Commit(IF immediately /\ S[NextId].cron.status = "active"
                 THEN [S EXCEPT ![NextId] = StartFire(@, tui)] ELSE S)
       /\ UNCHANGED <<alive, tui, up, deleted, reactivated>>

\* The crons the modal and the list tool offer.
Listed(c) == cron[c].status \notin {"absent", "cancelled", "expired"}

\* updateCron with a status: 'paused' or 'active', whatever the cron is doing.
UpdateStatus(c, st, near) ==
    /\ up
    /\ Listed(c)
    /\ Cardinality(InFlight(Cell(c))) < MaxFires  \* bound: the user does not pile up more fires
    /\ Commit(Sync(SetStatus(Snapshot, {c}, st), tui, near))
    /\ reactivated' = IF st = "active" THEN reactivated \cup {c} ELSE reactivated
    /\ deleted' = IF st = "active" THEN deleted \ {c} ELSE deleted
    /\ UNCHANGED <<alive, tui, up>>

\* updateCron with a schedule: nextRunAt is kept until sync re-registers.
UpdateSchedule(c, e, rec, near) ==
    /\ up
    /\ Listed(c)
    /\ Commit(Sync([Snapshot EXCEPT ![c].cron.expr = e,
                                    ![c].cron.recurring = rec], tui, near))
    /\ UNCHANGED <<alive, tui, up, deleted, reactivated>>

DeleteCron(c, near) ==
    /\ up
    /\ Listed(c)
    /\ Commit(Sync(SetStatus(Snapshot, {c}, "cancelled"), tui, near))
    /\ deleted' = deleted \cup {c}
    /\ UNCHANGED <<alive, tui, up, reactivated>>

-----------------------------------------------------------------------------
(* Timers.                                                                 *)

\* Mutant: a tick does not look at the status.
TickedAnyStatus(x, t) == StartFire(x, t)

\* A timer job runs: skipped by the first-fire guard, else a fire starts.
\* The job is the one set at registration, nextRunAt is the present instant.
Ticked(x, t) ==
    CASE x.cron.status # "active" -> x
      [] x.cron.status = "active" /\ x.cron.guard /\ x.cron.due # "late" ->
            [x EXCEPT !.cron.due = "ahead", !.cron.guard = FALSE]
      [] OTHER -> StartFire([x EXCEPT !.cron.due = IF @ = "ahead" THEN "passed" ELSE @], t)

Tick(c) ==
    /\ up
    /\ job[c] # NoJob
    /\ Commit([Snapshot EXCEPT ![c] = Ticked(@, tui)])
    /\ UNCHANGED <<alive, tui, up, deleted, reactivated>>

\* The instant nextRunAt goes by without its job running (a suspended laptop,
\* a process that is down, a cron that is not registered).  The instant of a
\* cancelled or expired cron is never looked at again.
TimePasses(c) ==
    /\ Listed(c)
    /\ cron[c].due \in {"ahead", "passed"}
    /\ cron' = [cron EXCEPT ![c].due = IF @ = "ahead" THEN "passed" ELSE "late"]
    /\ UNCHANGED <<job, fires, alive, tui, up, deleted, reactivated>>

Watchdog(near) ==
    /\ up
    /\ Commit(Sync(Snapshot, tui, near))
    /\ UNCHANGED <<alive, tui, up, deleted, reactivated>>

-----------------------------------------------------------------------------
(* The fires in flight.                                                    *)

\* runCronSessionPrompt after getClientOrThrow: hand the prompt to the client,
\* or hold the cron when the session is gone.
FoundClient(c, i, near) ==
    /\ fires[c][i] = "client"
    /\ IF cron[c].scope \in alive
       THEN Commit([Snapshot EXCEPT ![c].fires[i] = "sent"])
       ELSE Commit(Sync([HoldCron(Snapshot, {c}, tui, near)
                           EXCEPT ![c] = FireReturned(@, {i})], tui, near))
    /\ UNCHANGED <<alive, tui, up, deleted, reactivated>>

\* CREATE_MESSAGE carries the waiter's request id.
MessageCreated(c, i) ==
    /\ fires[c][i] = "sent"
    /\ Commit([Snapshot EXCEPT ![c].fires[i] = "created"])
    /\ UNCHANGED <<alive, tui, up, deleted, reactivated>>

\* AGENT_TURN_COMPLETED resolves every waiter of the session whose message was
\* created.
TurnCompleted(s, near) ==
    LET Over(c) == {i \in FireIds : fires[c][i] = "created"}
        C == {c \in CronIds : cron[c].scope = s /\ Over(c) # {}}
    IN /\ s \in alive
       /\ C # {}
       /\ Commit(Sync([c \in CronIds |-> IF c \in C THEN FireReturned(Cell(c), Over(c))
                                         ELSE Cell(c)], tui, near))
       /\ UNCHANGED <<alive, tui, up, deleted, reactivated>>

\* The root session exists and accepted the prompt.
RootPromptSent(c, i, near) ==
    /\ fires[c][i] = "root"
    /\ Commit(Sync([Snapshot EXCEPT ![c] = FireReturned(@, {i})], tui, near))
    /\ UNCHANGED <<alive, tui, up, deleted, reactivated>>

\* addUserMessage rejected, or the root session could not be created.
PromptFailed(c, i, near) ==
    /\ fires[c][i] \in {"sent", "created", "root"}
    /\ Commit(Sync([Snapshot EXCEPT ![c] = FireThrew(@, i)], tui, near))
    /\ UNCHANGED <<alive, tui, up, deleted, reactivated>>

-----------------------------------------------------------------------------
(* Sessions, the TUI connection and the process.                           *)

HeldOf(S, s) == {c \in CronIds : S[c].cron.scope = s /\ S[c].cron.status = "held"}

\* Mutant: the held cron is cancelled but not copied.
ResumeWithoutCopy(S, s) == SetStatus(S, HeldOf(S, s), "cancelled")

\* The record that the copy of h is written to: the held ones are copied in
\* order into the records not used yet.
CopyOf(H, h) == NextId + Cardinality({x \in H : x < h})

\* resumeSessionCrons: every held cron of the session is copied into a fresh
\* active record and then cancelled.
ResumeSessionCrons(S, s) ==
    LET H == HeldOf(S, s)
        Copied(n) == CHOOSE h \in H : CopyOf(H, h) = n
    IN [c \in CronIds |->
          IF c \in H THEN WithStatus(S[c], "cancelled")
          ELSE IF \E h \in H : CopyOf(H, h) = c
          THEN [S[c] EXCEPT !.cron = NewCron(s, S[Copied(c)].cron.recurring,
                                             S[Copied(c)].cron.expr)]
          ELSE S[c]]

\* A client is registered for the session (created or loaded).  The copies of
\* a deleted cron count as deleted.
SessionOpens(s, near) ==
    LET H == HeldOf(Snapshot, s)
    IN /\ up /\ tui
       /\ s \notin alive
       /\ NextId + Cardinality(H) - 1 <= MaxCrons
       /\ Commit(Sync(ResumeSessionCrons(Snapshot, s), tui, near))
       /\ alive' = alive \cup {s}
       /\ deleted' = deleted \cup {CopyOf(H, h) : h \in H \cap deleted}
       /\ UNCHANGED <<tui, up, reactivated>>

\* closeSession: the waiters are held, then every active or running cron.
SessionCloses(s, near) ==
    /\ up
    /\ s \in alive
    /\ Commit(Sync(HoldSessionCrons(
                     HoldPendingCronPrompts(Snapshot, {s}, tui, near), {s}),
                   tui, near))
    /\ alive' = alive \ {s}
    /\ UNCHANGED <<tui, up, deleted, reactivated>>

\* The session's process exits: only the waiters are held; its active crons
\* stay registered and are held one by one when they next fire.
SessionCrashes(s, near) ==
    /\ up
    /\ s \in alive
    /\ Commit(HoldPendingCronPrompts(Snapshot, {s}, tui, near))
    /\ alive' = alive \ {s}
    /\ UNCHANGED <<tui, up, deleted, reactivated>>

\* destroyAllSessions: the TUI disconnects and every session is closed.
Disconnect(near) ==
    LET S0 == Sync(Snapshot, FALSE, near)
        S1 == HoldPendingCronPrompts(S0, alive, FALSE, near)
    IN /\ up
       /\ tui
       /\ Commit(Sync(HoldSessionCrons(S1, alive), FALSE, near))
       /\ tui' = FALSE
       /\ alive' = {}
       /\ UNCHANGED <<up, deleted, reactivated>>

\* authenticate installs the TUI connection; logout removes it.
Authenticate(near) ==
    /\ up
    /\ tui' = TRUE
    /\ Commit(Sync(Snapshot, TRUE, near))
    /\ UNCHANGED <<alive, up, deleted, reactivated>>

Logout(near) ==
    /\ up /\ tui
    /\ tui' = FALSE
    /\ Commit(Sync(Snapshot, FALSE, near))
    /\ UNCHANGED <<alive, up, deleted, reactivated>>

Crash ==
    /\ up
    /\ up' = FALSE
    /\ tui' = FALSE
    /\ alive' = {}
    /\ job' = [c \in CronIds |-> NoJob]
    /\ fires' = [c \in CronIds |-> NoFires]
    /\ UNCHANGED <<cron, deleted, reactivated>>

\* Mutant: a session cron that was running is left as it is.
RepairKeepsRunning(x) ==
    IF x.cron.scope # Root /\ x.cron.status = "active" THEN WithStatus(x, "held") ELSE x

\* What CronRuntime.start writes over what an earlier process left.
Repaired(x) ==
    CASE x.cron.scope = Root /\ x.cron.status = "running" -> WithStatus(x, "active")
      [] x.cron.scope # Root /\ x.cron.status \in {"active", "running"} ->
            WithStatus(x, "held")
      [] OTHER -> x

\* CronRuntime.start in the constructor of the next process.
Restart(near) ==
    /\ ~up
    /\ up' = TRUE
    /\ Commit(Sync([c \in CronIds |-> Repaired(Cell(c))], FALSE, near))
    /\ UNCHANGED <<alive, tui, deleted, reactivated>>

-----------------------------------------------------------------------------
Init ==
    /\ cron = [c \in CronIds |-> [NewCron(Root, FALSE, CHOOSE e \in Exprs : TRUE)
                                    EXCEPT !.status = "absent"]]
    /\ job = [c \in CronIds |-> NoJob]
    /\ fires = [c \in CronIds |-> NoFires]
    /\ alive = {}
    /\ tui = FALSE
    /\ up = TRUE
    /\ deleted = {}
    /\ reactivated = {}

User(near) ==
    \/ \E sc \in Scopes \cap (alive \cup {Root}), rec \in Recurrences,
          imm \in BOOLEAN, e \in Exprs \cup BadExprs :
          CreateCron(sc, rec, e, imm, near)
    \/ \E c \in CronIds, st \in {"active", "paused"} : UpdateStatus(c, st, near)
    \/ \E c \in CronIds, e \in Exprs \cup BadExprs, rec \in Recurrences :
          UpdateSchedule(c, e, rec, near)
    \/ \E c \in CronIds : DeleteCron(c, near)

Clock ==
    \/ \E c \in CronIds : Tick(c) \/ TimePasses(c)

Fire(near) ==
    \E c \in CronIds, i \in FireIds :
       \/ FoundClient(c, i, near)
       \/ MessageCreated(c, i)
       \/ RootPromptSent(c, i, near)
       \/ PromptFailed(c, i, near)

Environment(near) ==
    \/ \E s \in Sessions : SessionOpens(s, near) \/ SessionCloses(s, near)
                           \/ SessionCrashes(s, near) \/ TurnCompleted(s, near)
    \/ Authenticate(near) \/ Logout(near) \/ Disconnect(near) \/ Crash \/ Restart(near)

Next == \/ Clock
        \/ \E near \in SUBSET Exprs : User(near) \/ Watchdog(near)
                                      \/ Fire(near) \/ Environment(near)

\* The watchdog is an interval timer of the running process.
WatchdogRuns == \E near \in SUBSET Exprs : Watchdog(near)

Spec == Init /\ [][Next]_vars /\ WF_vars(WatchdogRuns)

-----------------------------------------------------------------------------
(* Properties.                                                             *)

\* After every step of a running process, a cron that is active and may be
\* registered has a live timer job for the expression in its file: no order of
\* edits, fires, closes and restarts leaves an active cron unscheduled or
\* scheduled with a replaced expression (CronRuntime.sync and its callers).
ActiveIsScheduled ==
    \A c \in CronIds : up /\ cron[c].status = "active"
                          /\ ShouldRegister(cron[c], tui) => job[c] = cron[c].expr

\* A timer job never outlives the schedule it serves: a paused, held, deleted,
\* expired or failed cron has none (the first loop of CronRuntime.sync).
NoOrphanJob ==
    \A c \in CronIds : job[c] # NoJob => cron[c].status \in {"active", "running"}

\* A record says 'running' only while some fire of it is in flight, so that no
\* crash, hold or late result leaves a cron 'running' for ever (CronRuntime.start
\* repairs what a crash left; fire leaves 'running' only through its own end).
RunningHasFire ==
    \A c \in CronIds : up /\ cron[c].status = "running" => InFlight(Cell(c)) # {}

\* Two fires of one cron overlap only when the user put the cron back to
\* 'active' while it ran: timers, overdue catch-up and restarts never overlap
\* (the status check at the top of CronRuntime.fire).
OverlapNeedsReactivation ==
    \A c \in CronIds : Cardinality(InFlight(Cell(c))) > 1 => c \in reactivated

\* An active cron whose nextRunAt went by unnoticed is fired by the watchdog, or
\* stops being a registered active cron (CronRuntime.isOverdue).
Missed(c) == /\ up
             /\ cron[c].status = "active"
             /\ ShouldRegister(cron[c], tui)
             /\ cron[c].due = "late"
OverdueIsFired == \A c \in CronIds : Missed(c) ~> ~Missed(c)

\* A schedule is never lost to a close and reopen of its session: a cron turns
\* 'cancelled' only because the user deleted it, or in the step that writes a
\* fresh record with its scope, expression and recurrence (resumeSessionCrons).
ScheduleSurvives ==
    [][\A c \in CronIds :
         cron[c].status # "cancelled" /\ cron'[c].status = "cancelled" =>
            \/ c \in deleted'
            \/ \E n \in CronIds :
                  /\ cron[n].status = "absent"
                  /\ cron'[n].status \in {"active", "error"}
                  /\ cron'[n].scope = cron[c].scope
                  /\ cron'[n].expr = cron[c].expr
                  /\ cron'[n].recurring = cron[c].recurring]_vars
=============================================================================
