----------------------------- MODULE AgentLoop -----------------------------
(***************************************************************************)
(* The agent loops of one drool process, one for each turn: requests to    *)
(* the model, batches of tools, Stop hooks, nested runs, the hand-off of   *)
(* an approved spec to a loop in a new session, and stopAgent, which may   *)
(* come at any point of them.                                              *)
(*                                                                         *)
(* The process runs on one event loop: an action is the code between two   *)
(* awaits that can really take time.  The actions of this module change    *)
(* the loop alone; TurnRunner composes them with the queue of messages.    *)
(*                                                                         *)
(* A stop finds its target through one of two signals: the controller of   *)
(* the request or of the batch of tools in flight (aborted), or, while     *)
(* there is no request in flight, a flag that the next request applies to  *)
(* itself (pendingAbort).                                                  *)
(***************************************************************************)
EXTENDS Naturals

CONSTANTS
    Turns,        \* whatever a turn can be about: a message, a resumption
    Resume,       \* the turn that resumes the tools of a former process
    MaxRounds,    \* bound: times a turn goes on after a request or a run
    MaxHandoffs   \* bound: hand-offs of a spec in one turn

ASSUME AgentLoopAssumption ==
    /\ MaxRounds \in Nat
    /\ MaxHandoffs \in Nat

VARIABLES
    loop,          \* where the turn's loop is
    generation,    \* loops created for the turn before this one
    rounds,        \* times the turn went on after a request or a run
    aborted,       \* turns whose request or batch in flight is aborted
    pendingAbort,  \* turns whose next request will abort
    payload,       \* turns whose loop holds an approved spec to hand off
    stopping,      \* loops whose stopAgent is still killing background tasks
    told           \* history: turns an interrupt has told to stop

loopVars == <<loop, generation, rounds, aborted, pendingAbort, payload,
              stopping, told>>

Phase ==
    {"off",
     "setup",    \* feature flags are fetched, there is no loop to stop
     "reprime",  \* the model for the resumed turn is chosen
     "rerun",    \* the tools a former process left open run
     "prime",    \* before the controller of a request: routing, compaction,
                 \* drained messages, the preamble of sendMessage
     "request",  \* the model is answering
     "tools",    \* the tools it called wait for approval or run
     "hooks",    \* the run is over, the Stop hooks run
     "handoff",  \* the session of an approved spec is being created
     "report"}   \* the loop is disposed of, the result is collected

\* A stop request holds the loop it was made of.
LoopOf(i) == <<i, generation[i]>>
Loops == Turns \X (0 .. MaxHandoffs)

LoopTypeOK ==
    /\ loop \in [Turns -> Phase]
    /\ generation \in [Turns -> 0 .. MaxHandoffs]
    /\ rounds \in [Turns -> 0 .. MaxRounds]
    /\ aborted \in SUBSET Turns
    /\ pendingAbort \in SUBSET Turns
    /\ payload \in SUBSET Turns
    /\ stopping \in SUBSET Loops
    /\ told \in SUBSET Turns

LoopInit ==
    /\ loop = [i \in Turns |-> "off"]
    /\ generation = [i \in Turns |-> 0]
    /\ rounds = [i \in Turns |-> 0]
    /\ aborted = {} /\ pendingAbort = {} /\ payload = {}
    /\ stopping = {} /\ told = {}

GoesOn(i) == /\ rounds[i] < MaxRounds
             /\ rounds' = [rounds EXCEPT ![i] = @ + 1]
Goto(i, p) == loop' = [loop EXCEPT ![i] = p]

-----------------------------------------------------------------------------
\* Requests to the model.

\* Priming fails: the run ends with an error, and its Stop hooks run.
PrimeFails(i) ==
    /\ loop[i] \in {"reprime", "prime"}
    /\ Goto(i, "hooks")
    /\ UNCHANGED <<generation, rounds, aborted, pendingAbort, payload, stopping,
                   told>>

\* sendMessage fails before it made a controller.  Its finally clears the
\* flag, and with it any stop that was waiting for the controller.
CallFails(i) ==
    /\ loop[i] = "prime"
    /\ Goto(i, "hooks")
    /\ pendingAbort' = pendingAbort \ {i}
    /\ told' = told \ {i}
    /\ UNCHANGED <<generation, rounds, aborted, payload, stopping>>

\* The signal of a new controller.
\* Mutant: the flag is not applied to the new controller.
SignalIgnoresFlag(i) == aborted \ {i}
Signal(i) == IF i \in pendingAbort THEN aborted \cup {i} ELSE aborted \ {i}

\* The controller is made and applies the flag to itself.
SendRequest(i) ==
    /\ loop[i] = "prime"
    /\ aborted' = Signal(i)
    /\ pendingAbort' = pendingAbort \ {i}
    /\ Goto(i, "request")
    /\ UNCHANGED <<generation, rounds, payload, stopping, told>>

\* Where a run ends and no nested run follows: a spec approved in it is
\* handed off even when the run was cancelled.
AfterRun(i) == IF i \in payload THEN "handoff" ELSE "report"

\* The stream of an aborted request ends, or the compaction before a request
\* was aborted.  The run is cancelled: no Stop hook runs and no queued message
\* is taken.
RequestAborted(i) ==
    /\ \/ loop[i] = "request" /\ i \in aborted
       \/ loop[i] = "prime" /\ i \in pendingAbort
    /\ Goto(i, AfterRun(i))
    /\ aborted' = aborted \ {i}
    /\ pendingAbort' = pendingAbort \ {i}
    /\ UNCHANGED <<generation, rounds, payload, stopping, told>>

\* The model answers without a tool call: the loop goes on after an answer
\* cut short, an empty one, a reminder of open todos, a swap to a core model
\* or a retry, and ends otherwise.  An error of the provider ends it too.
RequestAnswered(i) ==
    /\ loop[i] = "request" /\ i \notin aborted
    /\ \/ GoesOn(i) /\ Goto(i, "prime")
       \/ Goto(i, "hooks") /\ UNCHANGED rounds
    /\ pendingAbort' = pendingAbort \ {i}
    /\ UNCHANGED <<generation, aborted, payload, stopping, told>>

\* The model calls tools, whose batch gets a controller of its own.
ToolsCalled(i) ==
    /\ loop[i] = "request" /\ i \notin aborted
    /\ GoesOn(i)
    /\ Goto(i, "tools")
    /\ pendingAbort' = pendingAbort \ {i}
    /\ UNCHANGED <<generation, aborted, payload, stopping, told>>

-----------------------------------------------------------------------------
\* Batches of tools.

\* Every tool of the batch has its result, and the loop goes on.  An aborted
\* batch may end like this too, when the tools were past their last check.
ToolsDone(i) ==
    /\ loop[i] = "tools"
    /\ Goto(i, "prime")
    /\ aborted' = aborted \ {i}
    /\ UNCHANGED <<generation, rounds, pendingAbort, payload, stopping, told>>

\* The batch of a resumed turn begins, with a controller of its own, and ends.
Rerun(i) ==
    /\ loop[i] = "reprime"
    /\ Goto(i, "rerun")
    /\ aborted' = aborted \ {i}
    /\ UNCHANGED <<generation, rounds, pendingAbort, payload, stopping, told>>

RerunDone(i) ==
    /\ loop[i] = "rerun"
    /\ Goto(i, "prime")
    /\ aborted' = aborted \ {i}
    /\ UNCHANGED <<generation, rounds, pendingAbort, payload, stopping, told>>

\* A tool was refused or cancelled, or asked to stop: the run ends without
\* being marked cancelled, and its Stop hooks run.  An approved spec that is
\* to be carried out in a new session is kept for the end of the turn; that of
\* a resumed turn is never asked for.
ToolsStop(i) ==
    /\ loop[i] \in {"rerun", "tools"}
    /\ Goto(i, "hooks")
    /\ aborted' = aborted \ {i}
    /\ \/ payload' = payload
       \/ /\ i # Resume /\ generation[i] < MaxHandoffs
          /\ payload' = payload \cup {i}
    /\ UNCHANGED <<generation, rounds, pendingAbort, stopping, told>>

-----------------------------------------------------------------------------
\* The end of a run.

\* A Stop hook asks to continue, or an end-of-loop message was taken: a
\* nested run of the same loop, with the flag as the first one left it.
RunAgain(i) ==
    /\ loop[i] = "hooks"
    /\ GoesOn(i)
    /\ Goto(i, "prime")
    /\ UNCHANGED <<generation, aborted, pendingAbort, payload, stopping,
                   told>>

\* Nothing continues the run.
RunEnds(i) ==
    /\ loop[i] = "hooks"
    /\ Goto(i, AfterRun(i))
    /\ pendingAbort' = pendingAbort \ {i}
    /\ UNCHANGED <<generation, rounds, aborted, payload, stopping, told>>

\* The session of the spec exists: the old loop is disposed of and the new
\* one is set up.  A stop made of the old loop is lost with it.
HandOff(i) ==
    /\ loop[i] = "handoff"
    /\ Goto(i, "setup")
    /\ generation' = [generation EXCEPT ![i] = @ + 1]
    /\ payload' = payload \ {i}
    /\ pendingAbort' = pendingAbort \ {i}
    /\ told' = told \ {i}
    /\ UNCHANGED <<rounds, aborted, stopping>>

\* Creating it failed: logged, and the turn is reported.
HandOffFails(i) ==
    /\ loop[i] = "handoff"
    /\ Goto(i, "report")
    /\ payload' = payload \ {i}
    /\ UNCHANGED <<generation, rounds, aborted, pendingAbort, stopping,
                   told>>

-----------------------------------------------------------------------------
\* stopAgent of the loop l, up to the await of killAllTasks: it aborts what
\* is in flight, or sets the flag.  A second call joins the first.  The
\* state of the loop alone; StopAgent is an action of it.
Stops(l, phase) ==
    LET i == l[1]
        live == l \notin stopping /\ l[2] = generation[i]
    IN [aborted |-> IF live /\ phase \in {"request", "rerun", "tools"}
                    THEN aborted \cup {i} ELSE aborted,
        flag |-> IF live /\ phase # "request"
                 THEN pendingAbort \cup {i} ELSE pendingAbort]

StopAgent(l) ==
    LET s == Stops(l, loop[l[1]]) IN
    /\ aborted' = s.aborted
    /\ pendingAbort' = s.flag
    /\ stopping' = stopping \cup {l}
    /\ UNCHANGED <<loop, generation, rounds, payload>>

\* The background tasks are gone and stopAgent returns.  (It also gives every
\* tool call of the conversation without a result a cancelled one; results
\* are not modelled.)
StopEnds(l) ==
    /\ l \in stopping
    /\ stopping' = stopping \ {l}
    /\ UNCHANGED <<loop, generation, rounds, aborted, pendingAbort, payload,
                   told>>

-----------------------------------------------------------------------------
\* A turn that was told to stop sends no request that the model answers: the
\* request in flight is aborted, or the flag waits for the next one.
StopSticks(i) ==
    i \in told =>
        /\ loop[i] = "request" => i \in aborted
        /\ loop[i] \in {"reprime", "rerun", "prime", "tools", "hooks"} =>
               i \in pendingAbort
=============================================================================
