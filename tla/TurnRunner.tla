----------------------------- MODULE TurnRunner -----------------------------
(***************************************************************************)
(* A drool process that runs one session for a client on stdin: the queue  *)
(* of user messages, the coroutines that take items from it and run a turn *)
(* for each, the interrupts, and the end of the process.                   *)
(*                                                                         *)
(* The process runs on one event loop: an action is a request, or the      *)
(* continuation of a coroutine, with the code up to its next await that    *)
(* can really take time.  A coroutine of processRequestQueue is known by   *)
(* the item it handles; code that a settled promise resumes runs in the    *)
(* step that settles it.                                                   *)
(***************************************************************************)
EXTENDS AgentLoop, Queue

CONSTANTS
    Messages,     \* the user messages (add_user_message); the other item of the
                  \* queue is Resume, which load_session queues
    EndOfLoop,    \* those sent to wait for the end of the loop
    Interrupts,   \* the interrupt_session requests
    None

ASSUME TurnRunnerAssumption ==
    /\ EndOfLoop \subseteq Messages
    /\ Resume \notin Messages
    /\ None \notin Messages \cup {Resume} \cup Loops
    /\ Turns = Messages \cup {Resume}

VARIABLES
    messageQueue,
    atEnd,       \* queued messages with placement EndOfLoop
    item,        \* what became of each item
    runner,      \* the fields of the runner
    interrupt,   \* where the handler of each interrupt is
    awaits,      \* the loop it stops, then the turn whose end it awaits
    mode         \* whether the process runs, and how it ended

vars == <<loopVars, messageQueue, atEnd, item, runner, interrupt, awaits, mode>>

\* "prepare" is an item that a coroutine took and prepares, "gate" one that
\* waits for the MCP servers, "turn" one whose agent loop is in progress.
Handled == {"prepare", "gate", "turn"}
\* "injected" messages were put into a turn in progress, "dropped" ones were
\* blocked by a hook, withdrawn meanwhile, or only stored.
Gone == {"ended", "injected", "dropped", "withdrawn", "discarded"}
Item == {"new", "queued"} \cup Handled \cup Gone

\* "closing": shutdown waits; "leaving": run() has returned without it.  The
\* process then ends as "exited", or as "left" wherever its coroutines are.
Mode == {"up", "closing", "leaving", "exited", "left"}

Runner == [isProcessing : BOOLEAN, isAgentLoopInProgress : BOOLEAN,
           interruptAgent : Loops \cup {None}, pendingInterrupt : BOOLEAN,
           wasInterrupted : BOOLEAN, activeTurn : Turns \cup {None},
           blockOnMcpLoad : BOOLEAN, delegated : BOOLEAN]

\* The queue holds the queued items, each once, and a loop is one of a turn.
WellFormed ==
    /\ Distinct(messageQueue)
    /\ \A i \in Turns : item[i] = "queued" <=> i \in Members(messageQueue)
    /\ atEnd \subseteq Members(messageQueue)
    /\ \A i \in Turns : item[i] = "turn" <=> loop[i] # "off"

TypeOK ==
    /\ LoopTypeOK
    /\ messageQueue \in Seq(Turns)
    /\ atEnd \in SUBSET Messages
    /\ item \in [Turns -> Item]
    /\ runner \in Runner
    /\ interrupt \in [Interrupts -> {"new", "stop", "settle", "joined", "answered"}]
    /\ awaits \in [Interrupts -> Loops \cup Turns \cup {None}]
    /\ mode \in Mode
    /\ WellFormed

\* blockOnMcpLoad stands for the flag and the latch of the gate together:
\* the gate is still to be passed.  Only delegated sessions ask for it.
Init ==
    /\ LoopInit
    /\ messageQueue = <<>> /\ atEnd = {}
    /\ item = [i \in Turns |-> "new"]
    /\ \E mcp, delegated \in BOOLEAN :
        /\ mcp => delegated
        /\ runner = [isProcessing |-> FALSE, isAgentLoopInProgress |-> FALSE,
                     interruptAgent |-> None, pendingInterrupt |-> FALSE,
                     wasInterrupted |-> FALSE, activeTurn |-> None,
                     blockOnMcpLoad |-> mcp, delegated |-> delegated]
    /\ interrupt = [r \in Interrupts |-> "new"]
    /\ awaits = [r \in Interrupts |-> None]
    /\ mode = "up"

HandledItems == {i \in Turns : item[i] \in Handled}

-----------------------------------------------------------------------------
\* The fields of the runner.

\* Reset of the interrupt state before a turn; a latch keeps wasInterrupted.
Reset(r) == [r EXCEPT !.interruptAgent = None,
                      !.wasInterrupted = @ /\ r.pendingInterrupt]

\* beginAgentLoop: the promise of a turn in progress is overwritten.
Begin(r, i) == [r EXCEPT !.isAgentLoopInProgress = TRUE, !.activeTurn = i]

\* awaitMcpLoadIfBlocking passes its latch before it waits.
EnterGate(r) == [r EXCEPT !.blockOnMcpLoad = FALSE]

\* finishAgentLoop.
\* Mutant: a latch set in the turn is kept for the next one.
KeepsLatch(r) == [r EXCEPT !.isAgentLoopInProgress = FALSE,
                           !.interruptAgent = None, !.activeTurn = None]
\* Mutant: the resolved promise is kept.
KeepsPromise(r) == [r EXCEPT !.isAgentLoopInProgress = FALSE,
                             !.interruptAgent = None, !.pendingInterrupt = FALSE]
Finish(r) == [r EXCEPT !.isAgentLoopInProgress = FALSE,
                       !.interruptAgent = None, !.pendingInterrupt = FALSE,
                       !.activeTurn = None]

\* processRequestQueue finds nothing more to take.
\* Mutant: isProcessing is left set.
LeavesProcessing(r) ==
    [r EXCEPT !.pendingInterrupt = @ /\ (r.isAgentLoopInProgress
                                         \/ r.interruptAgent # None)]
LeaveQueue(r) ==
    [r EXCEPT !.isProcessing = FALSE,
              !.pendingInterrupt = @ /\ (r.isAgentLoopInProgress
                                         \/ r.interruptAgent # None)]

-----------------------------------------------------------------------------
\* The queue.

\* takeNextQueuedItemForProcessing: a message for the end of the loop waits
\* for every other item.
\* Mutant: the queue is served in its order alone.
InOrder(q, ends) == IF q = <<>> THEN None ELSE Head(q)
\* Mutant: only a loop takes the messages for its end.
NeverAtEnd(q, ends) ==
    LET steering == Keep(q, Members(q) \ ends)
    IN IF steering # <<>> THEN Head(steering) ELSE None
NextItem(q, ends) ==
    LET steering == Keep(q, Members(q) \ ends)
    IN IF steering # <<>> THEN Head(steering)
       ELSE IF q # <<>> THEN Head(q) ELSE None

\* The loop of processRequestQueue from its test on, in a coroutine that
\* finds the runner r, the queue q with the placements ends, the items its
\* and the loops lps.  It leaves when the process closes, when an agent loop
\* is in progress or when the queue is empty.  A resumption is reset and
\* begun without an await, unless it has to pass the gate.
ServeQueue(r, q, ends, its, lps) ==
    LET n == IF mode # "up" \/ r.isAgentLoopInProgress THEN None
             ELSE NextItem(q, ends)
        stage == IF n # Resume THEN "prepare"
                 ELSE IF r.blockOnMcpLoad THEN "gate" ELSE "turn"
    IN /\ messageQueue' = Without(q, n)
       /\ atEnd' = ends \ {n}
       /\ item' = IF n = None THEN its ELSE [its EXCEPT ![n] = stage]
       /\ runner' = IF n = None THEN LeaveQueue(r)
                    ELSE IF n # Resume THEN r
                    ELSE IF stage = "gate" THEN EnterGate(Reset(r))
                    ELSE Begin(Reset(r), n)
       /\ loop' = IF n = Resume /\ stage = "turn"
                  THEN [lps EXCEPT ![n] = "setup"] ELSE lps

\* An item was put into the queue: a coroutine starts when none is thought
\* to run.
\* Mutant: it always starts.
AlwaysServes(q, ends, its) ==
    ServeQueue([runner EXCEPT !.isProcessing = TRUE], q, ends, its, loop)
Queued(q, ends, its) ==
    IF runner.isProcessing
    THEN /\ messageQueue' = q /\ atEnd' = ends /\ item' = its
         /\ UNCHANGED <<runner, loop>>
    ELSE ServeQueue([runner EXCEPT !.isProcessing = TRUE], q, ends, its, loop)

LoopDetail == <<generation, rounds, aborted, pendingAbort, payload, stopping>>

\* enqueueRequest.  With nothing in progress the placement is stripped.
Enqueue(m) ==
    /\ mode = "up" /\ item[m] = "new"
    /\ LET waits == m \in EndOfLoop
                    /\ (runner.isProcessing \/ runner.isAgentLoopInProgress)
       IN Queued(Append(messageQueue, m),
                 IF waits THEN atEnd \cup {m} ELSE atEnd,
                 [item EXCEPT ![m] = "queued"])
    /\ UNCHANGED <<LoopDetail, told, interrupt, awaits, mode>>

\* The end of handleLoadSession.
LoadSession ==
    /\ mode = "up" /\ item[Resume] = "new"
    /\ Queued(Append(messageQueue, Resume), atEnd, [item EXCEPT ![Resume] = "queued"])
    /\ UNCHANGED <<LoopDetail, told, interrupt, awaits, mode>>

\* processResolveQueuedUserMessage: the client takes a queued message back,
\* or moves it to the front with another placement.
Withdraw(m) ==
    /\ mode = "up" /\ item[m] = "queued"
    /\ messageQueue' = Without(messageQueue, m)
    /\ atEnd' = atEnd \ {m}
    /\ item' = [item EXCEPT ![m] = "withdrawn"]
    /\ UNCHANGED <<loopVars, runner, interrupt, awaits, mode>>

UpdateQueue(m) ==
    /\ mode = "up" /\ item[m] = "queued"
    /\ \E ends \in {atEnd \cup {m}, atEnd \ {m}} :
           Queued(<<m>> \o Without(messageQueue, m), ends, item)
    /\ UNCHANGED <<LoopDetail, told, interrupt, awaits, mode>>

-----------------------------------------------------------------------------
\* The coroutine that handles the item i.

Running == mode \in {"up", "closing", "leaving"}

\* A deferred message is gone, a hook blocks it, or it is only stored.
PreparationEnds(i) ==
    /\ Running /\ item[i] = "prepare"
    /\ ServeQueue(runner, messageQueue, atEnd, [item EXCEPT ![i] = "dropped"], loop)
    /\ told' = told \ {i}
    /\ UNCHANGED <<LoopDetail, interrupt, awaits, mode>>

\* The agent loop begins, or waits for the MCP servers first.
Prepared(i) ==
    /\ Running /\ item[i] = "prepare"
    /\ IF runner.blockOnMcpLoad
       THEN /\ item' = [item EXCEPT ![i] = "gate"]
            /\ runner' = EnterGate(Reset(runner))
            /\ UNCHANGED loop
       ELSE /\ item' = [item EXCEPT ![i] = "turn"]
            /\ runner' = Begin(Reset(runner), i)
            /\ Goto(i, "setup")
    /\ UNCHANGED <<LoopDetail, told, messageQueue, atEnd, interrupt,
                   awaits, mode>>

GatePasses(i) ==
    /\ Running /\ item[i] = "gate"
    /\ item' = [item EXCEPT ![i] = "turn"]
    /\ runner' = Begin(runner, i)
    /\ Goto(i, "setup")
    /\ UNCHANGED <<LoopDetail, told, messageQueue, atEnd, interrupt,
                   awaits, mode>>

\* The loop exists and its run has started: onInterruptReady installs
\* stopAgent, and calls it when an interrupt was latched.
HandlerReady(i) ==
    /\ Running /\ loop[i] = "setup"
    /\ LET first == IF i = Resume THEN "reprime" ELSE "prime"
           l == LoopOf(i)
           s == Stops(l, first)
           latched == runner.pendingInterrupt
       IN /\ Goto(i, first)
          /\ runner' = [runner EXCEPT !.interruptAgent = l, !.pendingInterrupt = FALSE]
          /\ aborted' = IF latched THEN s.aborted ELSE aborted
          /\ pendingAbort' = IF latched THEN s.flag ELSE pendingAbort
          /\ stopping' = IF latched THEN stopping \cup {l} ELSE stopping
    /\ UNCHANGED <<generation, rounds, payload, told, messageQueue, atEnd,
                   item, interrupt, awaits, mode>>

\* No tool waits for a result: there is nothing to resume.
NothingToResume ==
    /\ Running /\ loop[Resume] = "setup"
    /\ Goto(Resume, "report")
    /\ UNCHANGED <<LoopDetail, told, messageQueue, atEnd, item,
                   runner, interrupt, awaits, mode>>

\* The steps of the loop that leave the runner and its queue alone.
LoopStep(i) ==
    /\ Running
    /\ \/ PrimeFails(i) \/ CallFails(i) \/ SendRequest(i)
       \/ RequestAborted(i) \/ RequestAnswered(i) \/ ToolsCalled(i)
       \/ Rerun(i) \/ RerunDone(i) \/ ToolsStop(i) \/ RunAgain(i) \/ RunEnds(i)
       \/ HandOff(i) \/ HandOffFails(i)
    /\ UNCHANGED <<messageQueue, atEnd, item, runner, interrupt, awaits, mode>>

\* After its own tools the loop takes every message that does not wait for
\* its end; deferred ones may have been withdrawn.
ToolsFinish(i) ==
    /\ Running /\ ToolsDone(i)
    /\ LET drained == {m \in Messages : item[m] = "queued" /\ m \notin atEnd}
       IN \E gone \in SUBSET drained :
            item' = [m \in Turns |-> IF m \in gone THEN "dropped"
                                     ELSE IF m \in drained THEN "injected"
                                     ELSE item[m]]
    /\ messageQueue' = Keep(messageQueue, atEnd \cup {Resume})
    /\ UNCHANGED <<atEnd, runner, interrupt, awaits, mode>>

\* drainEndOfLoopQueuedMessage at the end of a run, while every queued item
\* waits for it: the first is run by a nested run, or was withdrawn.
EndOfLoopTaken(i) ==
    /\ Running /\ loop[i] = "hooks"
    /\ messageQueue # <<>>
    /\ \A k \in DOMAIN messageQueue : messageQueue[k] \in atEnd
    /\ LET m == Head(messageQueue) IN
       /\ \/ RunAgain(i) /\ item' = [item EXCEPT ![m] = "injected"]
          \/ RunEnds(i) /\ item' = [item EXCEPT ![m] = "dropped"]
       /\ atEnd' = atEnd \ {m}
    /\ messageQueue' = Tail(messageQueue)
    /\ UNCHANGED <<runner, interrupt, awaits, mode>>

\* The interrupt r and those that joined it are answered.
Answered(r) == [q \in Interrupts |->
                   IF q = r \/ interrupt[q] = "joined" THEN "answered"
                   ELSE interrupt[q]]

\* The result is collected and reported, the turn is over: its promise
\* resolves, a delegated session exits unless it was interrupted, another
\* one goes on with the queue.  The loop is gone, and its signals with it.
TurnEnds(i) ==
    /\ Running /\ loop[i] = "report"
    /\ LET its == [item EXCEPT ![i] = "ended"]
           lps == [loop EXCEPT ![i] = "off"]
       IN IF runner.delegated /\ i # Resume /\ ~ runner.wasInterrupted
          THEN /\ mode' = "exited"
               /\ runner' = Finish(runner) /\ item' = its /\ loop' = lps
               /\ UNCHANGED <<messageQueue, atEnd>>
          ELSE /\ ServeQueue(Finish(runner), messageQueue, atEnd, its, lps)
               /\ UNCHANGED mode
    /\ rounds' = [rounds EXCEPT ![i] = 0]
    /\ aborted' = aborted \ {i} /\ pendingAbort' = pendingAbort \ {i}
    /\ told' = told \ {i}
    /\ LET waiting == {r \in Interrupts : /\ interrupt[r] = "settle"
                                          /\ awaits[r] = runner.activeTurn}
       IN /\ awaits' = [r \in Interrupts |-> IF r \in waiting THEN None ELSE awaits[r]]
          /\ interrupt' = IF waiting = {} THEN interrupt
                          ELSE Answered(CHOOSE r \in waiting : TRUE)
    /\ UNCHANGED <<generation, payload, stopping>>

-----------------------------------------------------------------------------
\* handleInterruptSession.

Active(r) == interrupt[r] \in {"stop", "settle"}

\* The await of the turn in progress, if there is one.
Settle(r, turn) ==
    /\ interrupt' = IF turn = None THEN Answered(r)
                    ELSE [interrupt EXCEPT ![r] = "settle"]
    /\ awaits' = [awaits EXCEPT ![r] = turn]

\* drainQueueAndNotify, and the await of the turn in progress.
\* Mutant: the messages that wait for the end of the loop stay queued.
DrainsSteering(r, f) ==
    /\ messageQueue' = Keep(messageQueue, atEnd)
    /\ item' = [i \in Turns |-> IF item[i] = "queued" THEN "discarded" ELSE item[i]]
    /\ runner' = [f EXCEPT !.isProcessing = @ /\ messageQueue = <<>>]
    /\ Settle(r, f.activeTurn)
    /\ UNCHANGED atEnd
DrainAndSettle(r, f) ==
    /\ messageQueue' = <<>> /\ atEnd' = {}
    /\ item' = [i \in Turns |-> IF item[i] = "queued" THEN "discarded" ELSE item[i]]
    /\ runner' = [f EXCEPT !.isProcessing = @ /\ messageQueue = <<>>]
    /\ Settle(r, f.activeTurn)

HasActiveExecution ==
    \/ runner.isAgentLoopInProgress \/ runner.interruptAgent # None
    \/ runner.isProcessing \/ messageQueue # <<>>

InterruptIdle(r) ==
    /\ mode = "up" /\ interrupt[r] = "new"
    /\ ~ HasActiveExecution
    /\ interrupt' = [interrupt EXCEPT ![r] = "answered"]
    /\ runner' = [runner EXCEPT !.wasInterrupted = @ \/ runner.delegated]
    /\ UNCHANGED <<loopVars, messageQueue, atEnd, item, awaits, mode>>

InterruptJoins(r) ==
    /\ mode = "up" /\ interrupt[r] = "new"
    /\ HasActiveExecution
    /\ \E q \in Interrupts : Active(q)
    /\ interrupt' = [interrupt EXCEPT ![r] = "joined"]
    /\ UNCHANGED <<loopVars, messageQueue, atEnd, item, runner, awaits, mode>>

\* No handler to call: the interrupt is latched for the turn in preparation,
\* the queue is emptied, and the turn in progress awaited.
InterruptLatches(r) ==
    /\ mode = "up" /\ interrupt[r] = "new"
    /\ HasActiveExecution /\ runner.interruptAgent = None
    /\ \A q \in Interrupts : ~ Active(q)
    /\ LET latch == runner.isProcessing \/ runner.isAgentLoopInProgress IN
       /\ DrainAndSettle(r, [runner EXCEPT !.wasInterrupted = TRUE,
                                           !.pendingInterrupt = latch])
       /\ told' = IF latch
                  THEN told \cup {i \in Turns : \/ item[i] \in {"prepare", "gate"}
                                                \/ loop[i] = "setup"}
                  ELSE told
    /\ UNCHANGED <<loop, LoopDetail, mode>>

\* The handler is called and awaited.  One of a loop that was handed off, or
\* that is still returning from an earlier call, reaches nothing.
InterruptStops(r) ==
    /\ mode = "up" /\ interrupt[r] = "new"
    /\ runner.interruptAgent # None
    /\ \A q \in Interrupts : ~ Active(q)
    /\ LET l == runner.interruptAgent IN
       /\ StopAgent(l)
       /\ told' = IF l = LoopOf(l[1]) /\ l \notin stopping
                  THEN told \cup {l[1]} ELSE told
       /\ awaits' = [awaits EXCEPT ![r] = l]
    /\ interrupt' = [interrupt EXCEPT ![r] = "stop"]
    /\ runner' = [runner EXCEPT !.wasInterrupted = TRUE]
    /\ UNCHANGED <<messageQueue, atEnd, item, mode>>

\* stopAgent returns; the interrupt that called it goes on.
StopReturns(l) ==
    /\ Running /\ StopEnds(l)
    /\ IF \E r \in Interrupts : interrupt[r] = "stop" /\ awaits[r] = l
       THEN \E r \in Interrupts :
              /\ interrupt[r] = "stop" /\ awaits[r] = l
              /\ DrainAndSettle(r, [runner EXCEPT !.interruptAgent = None,
                                                  !.pendingInterrupt = FALSE])
       ELSE UNCHANGED <<messageQueue, atEnd, item, runner, interrupt, awaits>>
    /\ UNCHANGED mode

-----------------------------------------------------------------------------
\* The end of the process.

ModeBecomes(m) ==
    /\ mode' = m
    /\ UNCHANGED <<loopVars, messageQueue, atEnd, item, runner, interrupt, awaits>>

\* The input ends: no request comes any more, and shutdown begins to wait.
Close == mode = "up" /\ ModeBecomes("closing")

\* shutdown waits until the queue is empty and nothing is handled; a request
\* is pending while its handler runs, which a resumption has not.
\* Mutant: only the queue and the pending requests are waited for.
QuietQueue ==
    /\ messageQueue = <<>>
    /\ \A m \in Messages : item[m] \notin Handled
    /\ \A r \in Interrupts : interrupt[r] \notin {"stop", "settle", "joined"}
Quiet ==
    /\ messageQueue = <<>> /\ ~ runner.isProcessing
    /\ \A m \in Messages : item[m] \notin Handled
    /\ \A r \in Interrupts : interrupt[r] \notin {"stop", "settle", "joined"}
Shutdown == mode = "closing" /\ Quiet /\ ModeBecomes("exited")

\* A signal, or a broken pipe to the parent: the input is closed as well, but
\* run() returns at once.
Signalled == mode \in {"up", "closing"} /\ ModeBecomes("leaving")

\* shutdown has waited for 30 s.
ShutdownTimesOut == mode = "closing" /\ ~ Quiet /\ ModeBecomes("leaving")

\* exitWithCode: the process ends when its shutdown hooks have run, whatever
\* its coroutines have reached by then.
Leave == mode = "leaving" /\ ModeBecomes("left")

-----------------------------------------------------------------------------
Request ==
    \/ LoadSession \/ Close \/ Signalled
    \/ \E m \in Messages : Enqueue(m) \/ Withdraw(m) \/ UpdateQueue(m)
    \/ \E r \in Interrupts : \/ InterruptIdle(r) \/ InterruptJoins(r)
                             \/ InterruptLatches(r) \/ InterruptStops(r)

ItemStep(i) ==
    \/ PreparationEnds(i) \/ Prepared(i) \/ GatePasses(i) \/ HandlerReady(i)
    \/ i = Resume /\ NothingToResume
    \/ LoopStep(i) \/ ToolsFinish(i) \/ EndOfLoopTaken(i) \/ TurnEnds(i)

Next ==
    \/ Request \/ Shutdown \/ ShutdownTimesOut \/ Leave
    \/ \E i \in Turns : ItemStep(i)
    \/ \E l \in Loops : StopReturns(l)

\* Every await of a coroutine ends: hooks and servers have timeouts, the
\* model answers or fails, a tool ends or its permission is answered, tasks
\* are killed after 5 s.
Fairness ==
    /\ \A i \in Turns : WF_vars(ItemStep(i))
    /\ \A l \in Loops : WF_vars(StopReturns(l))

Spec == Init /\ [][Next]_vars /\ Fairness

-----------------------------------------------------------------------------
\* Properties.

Discarded == \E i \in Turns : item[i] = "discarded"

\* While the process takes requests, a queued item is never left without a
\* coroutine that will come back to the queue, and isProcessing is never set
\* without one: what enqueueRequest and the ends of the coroutines rely on,
\* although isProcessing may be cleared under a coroutine that runs.
QueueServed ==
    mode = "up" /\ (messageQueue # <<>> \/ runner.isProcessing)
        => HandledItems # {}

\* Two items are handled at once only after an interrupt discarded a queued
\* item and cleared isProcessing under the coroutine of another.
OverlapNeedsDiscard == Cardinality(HandledItems) > 1 => Discarded

\* As long as that has not happened, a turn told to stop during its
\* preparation or in its loop stays told: the latch is kept until the loop
\* exists, and the loop sends no request that the model answers.
InterruptSticks ==
    ~ Discarded =>
        \A i \in Turns :
            /\ StopSticks(i)
            /\ i \in told /\ (item[i] \in {"prepare", "gate"} \/ loop[i] = "setup")
                   => runner.pendingInterrupt

\* A loop is stopped only for an interrupt that came while its item was
\* prepared or handled.  The latch may reach another item than the one it was
\* set for: after a discard, and when the item never began a turn.
StopNeedsCause ==
    \/ aborted \cup pendingAbort \subseteq told
    \/ Discarded \/ \E i \in Turns : item[i] = "dropped"

\* Neither the end of the input nor the exit of a delegated session cuts an
\* item short, unless a discard cleared isProcessing: what shutdown waits for
\* covers every coroutine.  Signals, a broken pipe and the limit of 30 s do
\* cut turns short: they end in "left".
WaitedExitIsClean == mode = "exited" /\ ~ Discarded => HandledItems = {}

\* A message that was accepted is handled, injected, given back or discarded
\* sooner or later, unless the process ends.
MessagesSettle ==
    \A m \in Messages :
        item[m] = "queued" ~> item[m] \in Gone \/ mode # "up"

\* What the sender of an item sees of what became of it.
Standing(stage) ==
    CASE stage = "queued" -> "waiting"
      [] stage \in Handled -> "working"
      [] stage \in {"withdrawn", "discarded"} -> "returned"
      [] stage \in {"ended", "injected", "dropped"} -> "done"
      [] OTHER -> "new"

\* The session keeps the promise of Mailbox.
M == INSTANCE Mailbox WITH
         Items <- Turns, Nobody <- None, line <- messageQueue, patient <- atEnd,
         state <- [i \in Turns |-> Standing(item[i])]
Mailbox == M!Spec

Overlap == \E i, j \in Turns : i # j /\ loop[i] # "off" /\ loop[j] # "off"

\* Every interrupt is answered sooner or later, unless two turns run at once
\* meanwhile or the process ends.
InterruptsAnswered ==
    \A r \in Interrupts :
        interrupt[r] \in {"stop", "settle", "joined"}
            ~> interrupt[r] = "answered" \/ Overlap \/ mode # "up"
=============================================================================
