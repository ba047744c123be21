--------------------------- MODULE DroolRegistry ---------------------------
(***************************************************************************)
(* One session of the daemon: its entry in the DroolRegistry, the drool    *)
(* processes started for it, its inactivity timer, and the handlers of the *)
(* load, add-message and close requests that overlap on it.                *)
(*                                                                         *)
(* The daemon runs on one event loop.  A step is one event (a request, an  *)
(* answer or the exit of a child process, a timer, a setImmediate) with    *)
(* the code it runs up to the next await of real I/O.  Code resumed by a   *)
(* settled promise runs before the next event: its steps are the Resume    *)
(* actions, and every event waits until Settled.                           *)
(*                                                                         *)
(* All maps of the registry are keyed by session and the sessions do not   *)
(* touch each other, so the module follows one key, of a session that      *)
(* exists on disk and is not archived.                                     *)
(***************************************************************************)
EXTENDS Naturals, FiniteSets

CONSTANTS
    Slots,        \* bound: requests in flight at once
    Clients,      \* bound: DroolClients (and processes) ever created
    Conns,        \* connections of interactive frontends
    None,
    MaxRequests,  \* bound
    MaxExpiries,  \* bound: timers that fire; 0 is a session with
                  \* disableInactivityTimeout
    MaxCrashes    \* bound: processes that die unasked

ASSUME RegistryAssumption ==
    /\ MaxRequests \in Nat
    /\ MaxExpiries \in Nat
    /\ MaxCrashes \in Nat
    /\ None \notin Slots \cup Clients \cup Conns
    /\ Slots \cap Clients = {}

VARIABLES
    proc,             \* the child process of each client
    registered,       \* droolClients: the client of the session
    listeners,        \* sessionStates: sessionListeners
    timer,            \* sessionStates: an armed timeout
    orphans,          \* armed timeouts that no session state holds
    expiring,         \* clients whose close a fired timeout awaits
    immediate,        \* the cleanup of a crash is scheduled: clients then born
    pendingLoad,      \* pendingLoadOperations: the slot that loads
    pendingCreation,  \* pendingClientCreations: the slot that creates
    req,              \* the requests in flight
    open,             \* connections still open
    counts            \* requests, expiries and crashes so far

registry == <<registered, listeners, timer>>
timers == <<orphans, expiring, immediate>>
pending == <<pendingLoad, pendingCreation>>
vars == <<proc, registry, timers, pending, req, open, counts>>

Process == {"unborn", "up", "closing", "exited", "crashed"}
Kind == {"load", "message", "close"}
\* Where a handler is suspended, and on what.
WaitsForLoad == {"follow"}                    \* another slot's load
WaitsForCreation == {"awaitCreation"}         \* another slot's new client
WaitsForExit == {"unregister", "failing"}     \* the process of a client
WaitsForAnswer == {"create", "load", "send"}  \* the process of a client
Ready == {"joined", "retry", "reuse", "reject", "lost"}
PC == {"idle"} \cup WaitsForLoad \cup WaitsForCreation \cup WaitsForExit
      \cup WaitsForAnswer \cup Ready

Request == [kind : Kind \cup {None}, pc : PC, conn : Conns \cup {None},
            on : Slots \cup Clients \cup {None}]
NoRequest == [kind |-> None, pc |-> "idle", conn |-> None, on |-> None]

\* A suspended handler awaits a slot or a client; an idle slot is blank.
WellFormed(q) ==
    /\ q.pc = "idle" <=> q = NoRequest
    /\ q.pc \in WaitsForLoad \cup WaitsForCreation => q.on \in Slots
    /\ q.pc \in WaitsForExit \cup WaitsForAnswer \cup {"reuse", "lost"} => q.on \in Clients
    /\ q.pc \in {"joined", "retry", "reject"} => q.on = None
    /\ q.pc \in WaitsForLoad \cup WaitsForCreation \cup {"load"} => q.kind = "load"

TypeOK ==
    /\ proc \in [Clients -> Process]
    /\ registered \in Clients \cup {None}
    /\ listeners \subseteq Conns
    /\ timer \in BOOLEAN
    /\ orphans \in Nat
    /\ expiring \subseteq Clients
    /\ immediate \subseteq Clients
    /\ pendingLoad \in Slots \cup {None}
    /\ pendingCreation \in Slots \cup {None}
    /\ req \in [Slots -> Request]
    /\ \A r \in Slots : WellFormed(req[r])
    /\ open \subseteq Conns
    /\ counts \in [{"requests", "expiries", "crashes"} -> Nat]

Init ==
    /\ proc = [c \in Clients |-> "unborn"]
    /\ registered = None
    /\ listeners = {}
    /\ timer = FALSE
    /\ orphans = 0
    /\ expiring = {}
    /\ immediate = {}
    /\ pendingLoad = None
    /\ pendingCreation = None
    /\ req = [r \in Slots |-> NoRequest]
    /\ open = Conns
    /\ counts = [n \in {"requests", "expiries", "crashes"} |-> 0]

-----------------------------------------------------------------------------
(* Clients and their processes.                                            *)

IsConnected(c) == proc[c] = "up"

\* Mutant: close waits for the exit of a process that is gone.
ReleasedByExit(c) == proc[c] = "exited"

\* What ManagedProcessImpl.close waits for: nothing, when the process is gone.
Released(c) == proc[c] \in {"exited", "crashed"}

\* close(): the process is told to end, requests pending on the client fail.
Closed(c) == [proc EXCEPT ![c] = IF @ = "up" THEN "closing" ELSE @]
FailedNever(c, rs) == rs  \* Mutant: close leaves the pending requests alone.
Failed(c, rs) ==
    [r \in Slots |-> IF rs[r].on = c /\ rs[r].pc \in WaitsForAnswer
                     THEN [rs[r] EXCEPT !.pc = "lost"] ELSE rs[r]]

\* Events wait until no handler can go on.
Settled ==
    \A r \in Slots : /\ req[r].pc \notin Ready
                     /\ req[r].pc \in WaitsForExit => ~Released(req[r].on)

Count(n, max) == counts[n] < max /\ counts' = [counts EXCEPT ![n] = @ + 1]

-----------------------------------------------------------------------------
(* Operations of the registry.                                             *)

\* registerClient: a client already there is replaced, and closed unawaited.
RegisterClient(r, next) ==
    LET c == req[r].on
        old == registered
    IN /\ registered' = c
       /\ listeners' = listeners \cup {req[r].conn}
       /\ timer' = TRUE
       /\ IF old = None THEN proc' = proc /\ req' = next
          ELSE proc' = Closed(old) /\ req' = Failed(old, next)

\* addConnectionToSession, of a session that has a client.
AddConnection(k) ==
    /\ listeners' = listeners \cup {k}
    /\ timer' = TRUE
    /\ UNCHANGED registered

\* unregisterDroolClient up to its await.
Unregister(next) ==
    /\ proc' = Closed(registered)
    /\ req' = Failed(registered, next)
    /\ registered' = None
    /\ listeners' = {}
    /\ timer' = FALSE

-----------------------------------------------------------------------------
(* Starting and ending the work of a request.                              *)

\* createDroolClientForLoadSession up to its await: a process is started.
Spawn(r, q) ==
    \E c \in Clients :
        /\ c = CHOOSE d \in Clients : proc[d] = "unborn"
        /\ proc[c] = "unborn"
        /\ proc' = [proc EXCEPT ![c] = "up"]
        /\ req' = [req EXCEPT ![r] = [q EXCEPT !.pc = "create", !.on = c]]

\* Mutant: the pending creation is not looked up.
CreateAlways(r, q) == Spawn(r, q) /\ pendingCreation' = r

\* A load that found no client joins the creation of another load or begins one.
CreateOrAwait(r, q) ==
    IF pendingCreation # None
    THEN /\ req' = [req EXCEPT ![r] = [q EXCEPT !.pc = "awaitCreation",
                                                !.on = pendingCreation]]
         /\ UNCHANGED <<proc, pendingCreation>>
    ELSE Spawn(r, q) /\ pendingCreation' = r

\* The load operation of handleLoadSession up to its first await.
StartLoad(r, q) ==
    /\ pendingLoad' = r
    /\ \/ /\ registered # None /\ IsConnected(registered)
          /\ AddConnection(q.conn)
          /\ req' = [req EXCEPT ![r] = [q EXCEPT !.pc = "load", !.on = registered]]
          /\ UNCHANGED <<proc, pendingCreation>>
       \/ /\ registered # None /\ ~IsConnected(registered)
          /\ Unregister([req EXCEPT ![r] = [q EXCEPT !.pc = "unregister",
                                                     !.on = registered]])
          /\ UNCHANGED pendingCreation
       \/ /\ registered = None
          /\ CreateOrAwait(r, q)
          /\ UNCHANGED registry

\* Mutant: the creation resolves without its client.
WokenEmpty(r, c, ok, q) ==
    CASE q.pc = "follow" /\ q.on = r ->
             [q EXCEPT !.pc = IF ok THEN "joined" ELSE "retry", !.on = None]
      [] q.pc = "awaitCreation" /\ q.on = r ->
             [q EXCEPT !.pc = IF ok THEN "reuse" ELSE "reject", !.on = None]
      [] OTHER -> q

\* A load settles: its promises leave the two maps and wake who awaits them.
WokenBy(r, c, ok, q) ==
    CASE q.pc = "follow" /\ q.on = r ->
             [q EXCEPT !.pc = IF ok THEN "joined" ELSE "retry", !.on = None]
      [] q.pc = "awaitCreation" /\ q.on = r ->
             IF ok THEN [q EXCEPT !.pc = "reuse", !.on = c]
             ELSE [q EXCEPT !.pc = "reject", !.on = None]
      [] OTHER -> q
LoadSettles(r, ok) ==
    [[s \in Slots |-> WokenBy(r, req[r].on, ok, req[s])] EXCEPT ![r] = NoRequest]
SettlePending(r) ==
    /\ pendingLoad' = None
    /\ pendingCreation' = IF pendingCreation = r THEN None ELSE pendingCreation

\* An error reaches the caller of a request.
Fails(r) ==
    IF req[r].kind = "load" THEN req' = LoadSettles(r, FALSE) /\ SettlePending(r)
    ELSE req' = [req EXCEPT ![r] = NoRequest] /\ UNCHANGED pending

-----------------------------------------------------------------------------
(* Requests arrive.                                                        *)

\* A request takes the first free slot.
Arrives(r, k) ==
    /\ Settled
    /\ req[r].pc = "idle"
    /\ r = CHOOSE s \in Slots : req[s].pc = "idle"
    /\ k \in open
    /\ Count("requests", MaxRequests)
    /\ UNCHANGED <<timers, open>>

New(kind, k) == [kind |-> kind, pc |-> "idle", conn |-> k, on |-> None]

LoadSession(r, k) ==
    /\ Arrives(r, k)
    /\ \/ /\ pendingLoad # None
          /\ req' = [req EXCEPT ![r] = [New("load", k) EXCEPT !.pc = "follow",
                                                              !.on = pendingLoad]]
          /\ UNCHANGED <<proc, registry, pending>>
       \/ /\ pendingLoad = None
          /\ StartLoad(r, New("load", k))

\* It asks neither of the pending maps before it starts a process.
AddUserMessage(r, k) ==
    LET q == New("message", k)
    IN /\ Arrives(r, k)
       /\ \/ /\ registered # None /\ IsConnected(registered)
             /\ req' = [req EXCEPT ![r] = [q EXCEPT !.pc = "send", !.on = registered]]
             /\ UNCHANGED <<proc, registry>>
          \/ /\ registered # None /\ ~IsConnected(registered)
             /\ Unregister([req EXCEPT ![r] = [q EXCEPT !.pc = "unregister",
                                                        !.on = registered]])
          \/ /\ registered = None
             /\ Spawn(r, q)
             /\ UNCHANGED registry
       /\ UNCHANGED pending

\* Without a client the request is answered at once.
CloseSession(r, k) ==
    /\ Arrives(r, k)
    /\ registered # None
    /\ Unregister([req EXCEPT ![r] = [New("close", k) EXCEPT !.pc = "unregister",
                                                             !.on = registered]])
    /\ UNCHANGED pending

-----------------------------------------------------------------------------
(* Handlers go on when what they await has settled.                        *)

\* A load that followed another one: it joins the result, or tries itself.
ResumeFollower(r) ==
    /\ \/ /\ req[r].pc = "joined" /\ registered # None
          /\ AddConnection(req[r].conn)
          /\ req' = [req EXCEPT ![r] = NoRequest]
          /\ UNCHANGED <<proc, pending>>
       \/ /\ req[r].pc = "retry" \/ (req[r].pc = "joined" /\ registered = None)
          /\ StartLoad(r, req[r])
    /\ UNCHANGED <<timers, open, counts>>

\* A load that awaited the creation of another one.
ResumeAwaiting(r) ==
    /\ \/ /\ req[r].pc = "reuse"
          /\ AddConnection(req[r].conn)
          /\ req' = [req EXCEPT ![r].pc = "load"]
          /\ UNCHANGED pending
       \/ /\ req[r].pc = "reject"
          /\ Fails(r)
          /\ UNCHANGED registry
    /\ UNCHANGED <<proc, timers, open, counts>>

\* unregisterDroolClient or the close of a failed creation returns.
ResumeClosed(r) ==
    /\ req[r].pc \in WaitsForExit /\ Released(req[r].on)
    /\ \/ /\ req[r].pc = "failing"
          /\ Fails(r) /\ UNCHANGED proc
       \/ /\ req[r].pc = "unregister" /\ req[r].kind = "load"
          /\ CreateOrAwait(r, req[r]) /\ UNCHANGED pendingLoad
       \/ /\ req[r].pc = "unregister" /\ req[r].kind = "message"
          /\ Spawn(r, req[r]) /\ UNCHANGED pending
       \/ /\ req[r].pc = "unregister" /\ req[r].kind = "close"
          /\ req' = [req EXCEPT ![r] = NoRequest] /\ UNCHANGED <<proc, pending>>
    /\ UNCHANGED <<registry, timers, open, counts>>

\* The client of a request went away under it.  addUserMessage retries only
\* errors whose text none of these has.
ResumeLost(r) ==
    /\ req[r].pc = "lost"
    /\ Fails(r)
    /\ UNCHANGED <<proc, registry, timers, open, counts>>

-----------------------------------------------------------------------------
(* Child processes answer, exit and crash.                                 *)

Answered(r, pc) ==
    /\ Settled
    /\ req[r].pc = pc /\ IsConnected(req[r].on)
    /\ UNCHANGED <<timers, open, counts>>

\* Right after a crash only a process born before can have answered.
InTime(c) == immediate = {} \/ c \in immediate

\* The new client loaded the session: it is registered, and a message is sent.
Created(r) ==
    /\ Answered(r, "create") /\ InTime(req[r].on)
    /\ IF req[r].kind = "load"
       THEN RegisterClient(r, LoadSettles(r, TRUE)) /\ SettlePending(r)
       ELSE RegisterClient(r, [req EXCEPT ![r].pc = "send"]) /\ UNCHANGED pending

\* Mutant: the catch block does not close the new client.
CreationLeaks(r) ==
    /\ Answered(r, "create") /\ InTime(req[r].on)
    /\ Fails(r)
    /\ UNCHANGED <<proc, registry>>

\* It answered with an error, or not in time.
CreationFails(r) ==
    /\ Answered(r, "create") /\ InTime(req[r].on)
    /\ proc' = Closed(req[r].on)
    /\ req' = [req EXCEPT ![r].pc = "failing"]
    /\ UNCHANGED <<registry, pending>>

LoadAnswered(r) ==
    /\ Answered(r, "load")
    /\ \E ok \in BOOLEAN : req' = LoadSettles(r, ok)
    /\ SettlePending(r)
    /\ UNCHANGED <<proc, registry>>

MessageAnswered(r) ==
    /\ Answered(r, "send")
    /\ req' = [req EXCEPT ![r] = NoRequest]
    /\ UNCHANGED <<proc, registry, pending>>

\* The state held by the registry is dropped; a timeout it held stays armed.
Drop ==
    /\ registered' = None
    /\ listeners' = {}
    /\ timer' = FALSE
    /\ orphans' = IF timer THEN orphans + 1 ELSE orphans

\* A closed process ends (it is killed after 5 s).  A timeout that closed it
\* then deletes whatever client and state the session has.
Exits(c) ==
    /\ Settled
    /\ proc[c] = "closing"
    /\ proc' = [proc EXCEPT ![c] = "exited"]
    /\ IF c \in expiring THEN Drop ELSE UNCHANGED <<registry, orphans>>
    /\ expiring' = expiring \ {c}
    /\ UNCHANGED <<immediate, pending, req, open, counts>>

\* Mutant: only the event is forwarded, no clean-up is scheduled.
CrashKeepsEntry(c) ==
    /\ Settled
    /\ proc[c] = "up"
    /\ Count("crashes", MaxCrashes)
    /\ proc' = [proc EXCEPT ![c] = "crashed"]
    /\ req' = Failed(c, req)
    /\ UNCHANGED <<registry, timers, pending, open>>

\* A process dies unasked.  Of a client once registered, the notification
\* handler schedules the clean-up of the session's entry.
Forwards(c) == \A r \in Slots : ~(req[r].pc = "create" /\ req[r].on = c)
Crashes(c) ==
    /\ Settled
    /\ proc[c] = "up"
    /\ Count("crashes", MaxCrashes)
    /\ proc' = [proc EXCEPT ![c] = "crashed"]
    /\ req' = Failed(c, req)
    /\ immediate' = IF Forwards(c)
                    THEN immediate \cup {d \in Clients : proc[d] # "unborn"}
                    ELSE immediate
    /\ UNCHANGED <<registry, orphans, expiring, pending, open>>

RunImmediate ==
    /\ Settled
    /\ immediate # {}
    /\ immediate' = {}
    /\ IF registered # None THEN Unregister(req) ELSE UNCHANGED <<proc, registry, req>>
    /\ UNCHANGED <<orphans, expiring, pending, open, counts>>

-----------------------------------------------------------------------------
(* Timers and connections.                                                 *)

\* The callback of an armed timeout, the one the state holds or another.  A
\* setImmediate runs before the next timer.
Expires ==
    /\ Settled
    /\ immediate = {}
    /\ Count("expiries", MaxExpiries)
    /\ \/ timer /\ timer' = FALSE /\ UNCHANGED orphans
       \/ orphans > 0 /\ orphans' = orphans - 1 /\ UNCHANGED timer
    /\ IF registered = None THEN UNCHANGED <<proc, req, expiring>>
       ELSE /\ proc' = Closed(registered)
            /\ req' = Failed(registered, req)
            /\ expiring' = expiring \cup {registered}
    /\ UNCHANGED <<registered, listeners, immediate, pending, open>>

\* The session lives on without the connection; requests in flight go on too.
Disconnects(k) ==
    /\ Settled
    /\ k \in open
    /\ open' = open \ {k}
    /\ listeners' = listeners \ {k}
    /\ UNCHANGED <<proc, registered, timer, timers, pending, req, counts>>

-----------------------------------------------------------------------------
Resume(r) == ResumeFollower(r) \/ ResumeAwaiting(r) \/ ResumeClosed(r) \/ ResumeLost(r)
Answer(r) == Created(r) \/ CreationFails(r) \/ LoadAnswered(r) \/ MessageAnswered(r)

Next ==
    \/ \E r \in Slots, k \in Conns :
          LoadSession(r, k) \/ AddUserMessage(r, k) \/ CloseSession(r, k)
    \/ \E r \in Slots : Resume(r) \/ Answer(r)
    \/ \E c \in Clients : Exits(c) \/ Crashes(c)
    \/ RunImmediate \/ Expires
    \/ \E k \in Conns : Disconnects(k)

\* Settled promises resume and callbacks run.  A closed process is killed after
\* 5 s, and a load is answered or times out; an added message may wait forever.
Fairness ==
    /\ WF_vars(\E r \in Slots : Resume(r))
    /\ \A r \in Slots : WF_vars(Created(r) \/ CreationFails(r) \/ LoadAnswered(r))
    /\ WF_vars(\E c \in Clients : Exits(c))
    /\ WF_vars(RunImmediate)

Spec == Init /\ [][Next]_vars /\ Fairness
-----------------------------------------------------------------------------
(* Properties.                                                             *)

Creating(r) == req[r].pc = "create"

\* While no timeout has expired, every process the daemon started for the session
\* is reachable: it is the registered client or one a request is creating.  None
\* is left running where close, crash clean-up and shutdown do not find it.
ProcessAccounted ==
    counts["expiries"] = 0 =>
        \A c \in Clients : proc[c] = "up" =>
            c = registered \/ \E r \in Slots : Creating(r) /\ req[r].on = c

\* However loads overlap, fail and are retried by those that waited for them, at
\* most one of them creates a client.
OneLoadCreates ==
    \A r, s \in Slots :
        Creating(r) /\ Creating(s) /\ req[r].kind = "load" /\ req[s].kind = "load" => r = s

\* The registry keeps no dead client for good: one that is not connected is being
\* closed by a timeout or has the clean-up of its crash scheduled.
DeadEntryIsTransient ==
    registered # None /\ ~IsConnected(registered) =>
        registered \in expiring \/ immediate # {}

\* While no timeout has expired, a load that waits for the answer of a live client
\* will be told what happens: its client is the registered one and its connection,
\* unless gone, is among the listeners.
LoadListens ==
    counts["expiries"] = 0 =>
        \A r \in Slots : req[r].pc = "load" =>
            /\ registered = req[r].on
            /\ req[r].conn \in open => req[r].conn \in listeners

\* Every load is answered, whatever it waits for: another load, a creation, the
\* exit of a process that may have died before it was closed.
LoadEnds ==
    \A r \in Slots : req[r].kind = "load" ~> req[r].kind # "load"
=============================================================================
