-------------------------- MODULE RelayConnection --------------------------
(***************************************************************************)
(* The RelayConnection objects of a daemon and their WebSockets: the        *)
(* bounded attempts of start, the reconnect timer, the ping timer, stop,   *)
(* and the life of one socket from the credential it needs to its close    *)
(* event.                                                                  *)
(*                                                                         *)
(* The process runs on one event loop: an action is one event with the     *)
(* promise continuations it causes.  close() of a WebSocket only begins    *)
(* the closing handshake; the close event comes later.                     *)
(***************************************************************************)
EXTENDS Naturals

CONSTANTS
    Relays,           \* the RelayConnection objects
    Sockets,          \* bound: calls of connect in flight and sockets of each
    InitialAttempts,  \* INITIAL_CONNECT_MAX_ATTEMPTS
    None

ASSUME RelayAssumption ==
    /\ InitialAttempts \in Nat \ {0}
    /\ None \notin Sockets

VARIABLES
    phase,          \* of start
    tries,          \* connect calls start has made, 0 when it is over
    socket,         \* what each call of connect, or its socket, is at
    ws,             \* the field of the transport
    timer,          \* relays whose reconnectTimer is armed
    ping,           \* relays whose pingTimer runs
    connectedOnce,  \* hasConnectedOnce
    stopped

relayVars == <<phase, tries, socket, ws, timer, ping, connectedOnce, stopped>>

Phase == {"none", "trying", "waiting", "returned", "threw"}

Stage ==
    {"free",
     "credential",      \* connect awaits resolveCredential
     "opening",         \* the first socket of transport.connect
     "reopening",       \* the one without the subprotocol
     "probing",         \* open, the health of the relay is fetched
     "authenticating",  \* relay.authenticate was sent
     "aborted",         \* closed by us in one of these two
     "live",            \* established
     "closing"}         \* established and closed by us

\* The stages of a connect call that has not returned.
Attempt == {"credential", "opening", "reopening", "probing",
            "authenticating", "aborted"}
\* readyState is OPEN.
Open == {"probing", "authenticating", "live"}

\* The transport's field is the open socket.
RelayTypeOK ==
    /\ phase \in [Relays -> Phase]
    /\ tries \in [Relays -> 0 .. InitialAttempts]
    /\ socket \in [Relays -> [Sockets -> Stage]]
    /\ ws \in [Relays -> Sockets \cup {None}]
    /\ timer \in SUBSET Relays
    /\ ping \in SUBSET Relays
    /\ connectedOnce \in SUBSET Relays
    /\ stopped \in SUBSET Relays
    /\ \A c \in Relays, s \in Sockets : socket[c][s] \in Open <=> ws[c] = s

RelayInit ==
    /\ phase = [c \in Relays |-> "none"]
    /\ tries = [c \in Relays |-> 0]
    /\ socket = [c \in Relays |-> [s \in Sockets |-> "free"]]
    /\ ws = [c \in Relays |-> None]
    /\ timer = {} /\ ping = {} /\ connectedOnce = {} /\ stopped = {}

Become(c, s, stage) == socket' = [socket EXCEPT ![c][s] = stage]

\* Only start's loop drives connect, and a close must not schedule anything.
InInitialConnect(c) == phase[c] \in {"trying", "waiting"}

\* The onclose of a socket, and the clean-up of a rejected one.
\* Mutant: the field keeps a socket that is gone.
FieldKept(c, s) == ws
FieldCleared(c, s) == IF ws[c] = s THEN [ws EXCEPT ![c] = None] ELSE ws

\* transport.close().
TransportClose(c) ==
    /\ socket' = [socket EXCEPT ![c] =
           [s \in Sockets |-> IF s # ws[c] THEN @[s]
                              ELSE IF @[s] = "live" THEN "closing" ELSE "aborted"]]
    /\ ws' = [ws EXCEPT ![c] = None]

-----------------------------------------------------------------------------
\* start and the timers.

\* connect is called; it awaits the credential first.
Connect(c) ==
    LET free == {s \in Sockets : socket[c][s] = "free"}
    IN free # {} /\ Become(c, CHOOSE s \in free : TRUE, "credential")

Start(c) ==
    /\ phase[c] = "none"
    /\ phase' = [phase EXCEPT ![c] = "trying"]
    /\ tries' = [tries EXCEPT ![c] = 1]
    /\ Connect(c)
    /\ UNCHANGED <<ws, timer, ping, connectedOnce, stopped>>

\* The wait between two initial attempts ends; stopped is not looked at.
RetryStart(c) ==
    /\ phase[c] = "waiting"
    /\ phase' = [phase EXCEPT ![c] = "trying"]
    /\ tries' = [tries EXCEPT ![c] = @ + 1]
    /\ Connect(c)
    /\ UNCHANGED <<ws, timer, ping, connectedOnce, stopped>>

TimerFires(c) ==
    /\ c \in timer
    /\ timer' = timer \ {c}
    /\ Connect(c)
    /\ UNCHANGED <<phase, tries, ws, ping, connectedOnce, stopped>>

\* No pong came in time, or the ping could not be sent.
PongTimeout(c) ==
    /\ c \in ping
    /\ ping' = ping \ {c}
    /\ TransportClose(c)
    /\ UNCHANGED <<phase, tries, timer, connectedOnce, stopped>>

StopRelayConnection(c) ==
    /\ stopped' = stopped \cup {c}
    /\ timer' = timer \ {c} /\ ping' = ping \ {c}
    /\ TransportClose(c)
    /\ UNCHANGED <<phase, tries, connectedOnce>>

-----------------------------------------------------------------------------
\* One call of connect and its socket.

\* start returns with the call of connect it awaits.
Returns(c) == /\ phase' = IF phase[c] = "trying" THEN [phase EXCEPT ![c] = "returned"]
                          ELSE phase
              /\ tries' = [tries EXCEPT ![c] = 0]

CredentialResolved(c, s) ==
    /\ socket[c][s] = "credential"
    /\ IF c \in stopped
       THEN Become(c, s, "free") /\ Returns(c)
       ELSE Become(c, s, "opening") /\ UNCHANGED <<phase, tries>>
    /\ UNCHANGED <<ws, timer, ping, connectedOnce, stopped>>

\* The relay did not echo the subprotocol (close code 1002): one more try.
WithoutSubprotocol(c, s) ==
    /\ socket[c][s] = "opening"
    /\ Become(c, s, "reopening")
    /\ UNCHANGED <<phase, tries, ws, timer, ping, connectedOnce, stopped>>

Opens(c, s) ==
    /\ socket[c][s] \in {"opening", "reopening"}
    /\ Become(c, s, "probing")
    /\ ws' = [ws EXCEPT ![c] = s]
    /\ UNCHANGED <<phase, tries, timer, ping, connectedOnce, stopped>>

AuthRequired(c, s) ==
    /\ socket[c][s] = "probing"
    /\ Become(c, s, "authenticating")
    /\ UNCHANGED <<phase, tries, ws, timer, ping, connectedOnce, stopped>>

\* A legacy relay answered the probe, or any relay the authentication: connect
\* goes on, and closes the socket when stop was called meanwhile.
\* Mutant: stopped is not looked at again.
StopNotSeen(c) == FALSE
StoppedMeanwhile(c) == c \in stopped

Established(c, s) ==
    /\ socket[c][s] \in {"probing", "authenticating"}
    /\ Returns(c)
    /\ IF StoppedMeanwhile(c)
       THEN /\ Become(c, s, "closing") /\ ws' = [ws EXCEPT ![c] = None]
            /\ UNCHANGED <<ping, connectedOnce>>
       ELSE /\ Become(c, s, "live")
            /\ ping' = ping \cup {c}
            /\ connectedOnce' = connectedOnce \cup {c}
            /\ UNCHANGED ws
    /\ UNCHANGED <<timer, stopped>>

\* scheduleReconnect.
\* Mutant: nothing is scheduled.
NoReconnect(c) == timer
ScheduleReconnect(c) == IF c \in stopped THEN timer ELSE timer \cup {c}

\* start gives up, and startRelay stops what it started.
GivesUp(c) == c \notin connectedOnce /\ (c \in stopped \/ tries[c] = InitialAttempts)

\* Whatever fails before the socket is established, its close event included,
\* rejects connect: start waits or gives up, a reconnect is scheduled again.
AttemptFails(c, s) ==
    /\ socket[c][s] \in Attempt
    /\ Become(c, s, "free")
    /\ ws' = FieldCleared(c, s)
    /\ IF c \in connectedOnce
       THEN timer' = ScheduleReconnect(c) /\ UNCHANGED <<phase, tries, stopped>>
       ELSE /\ phase' = [phase EXCEPT ![c] = IF GivesUp(c) THEN "threw" ELSE "waiting"]
            /\ tries' = IF GivesUp(c) THEN [tries EXCEPT ![c] = 0] ELSE tries
            /\ stopped' = IF GivesUp(c) THEN stopped \cup {c} ELSE stopped
            /\ UNCHANGED timer
    /\ UNCHANGED <<ping, connectedOnce>>

\* The close event of an established socket: handleTransportClose.
SocketCloses(c, s) ==
    /\ socket[c][s] \in {"live", "closing"}
    /\ Become(c, s, "free")
    /\ ws' = FieldCleared(c, s)
    /\ ping' = ping \ {c}
    /\ timer' = IF InInitialConnect(c) THEN timer ELSE ScheduleReconnect(c)
    /\ UNCHANGED <<phase, tries, connectedOnce, stopped>>

-----------------------------------------------------------------------------
Busy(c) == {s \in Sockets : socket[c][s] # "free"}
Live(c) == \E s \in Sockets : socket[c][s] = "live"
Running(c) == phase[c] # "none" /\ c \notin stopped

\* A relay connection that was started and not stopped is always on its way to
\* the relay, and only once: either one call of connect is in flight or its
\* socket is open or closing, or one timer will call connect.  It is never
\* left alone after a failure, and no second attempt runs beside the first.
OneWay ==
    \A c \in Relays : Running(c) =>
        IF c \in timer \/ phase[c] = "waiting"
        THEN Busy(c) = {} /\ ~ (c \in timer /\ phase[c] = "waiting")
        ELSE \E s \in Sockets : Busy(c) = {s}
=============================================================================
