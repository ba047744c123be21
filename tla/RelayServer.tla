---------------------------- MODULE RelayServer ----------------------------
(***************************************************************************)
(* The relay of the daemon: the requests that start and stop it, the relay *)
(* connections they make, the clients that reach the daemon through them   *)
(* and the gate those clients have to pass.                                *)
(***************************************************************************)
EXTENDS RelayConnection, DaemonConnectionHandler

CONSTANT RelayClients   \* the client ids the relay announces

ASSUME ServerAssumption == None \notin Relays /\ NoOne \notin Connections

VARIABLES
    start,            \* the daemon.relay.start request that makes each relay
    relayConnection,  \* the field of the daemon server
    connection,       \* the connection objects of announced clients
    overlap,          \* history: two start requests were at work at once
    late              \* history: connections closed while being verified

serverVars == <<start, relayConnection, connection, overlap, late>>
vars == <<relayVars, gateVars, serverVars>>

\* "imports" has stopped the former relay and loads the transport.
Connection == [relay : Relays \cup {None}, client : RelayClients \cup {None},
               state : {"unused", "open", "closed"}, early : BOOLEAN]

\* One open connection for each client id of a relay.
TypeOK ==
    /\ RelayTypeOK /\ GateTypeOK
    /\ start \in [Relays -> {"new", "imports", "starts", "done"}]
    /\ relayConnection \in Relays \cup {None}
    /\ connection \in [Connections -> Connection]
    /\ overlap \in BOOLEAN
    /\ late \in SUBSET Connections
    /\ \A c \in Relays : InInitialConnect(c) <=> start[c] = "starts"
    /\ \A j, k \in Connections :
           connection[j].state = "open" /\ connection[k].state = "open"
               /\ connection[j].relay = connection[k].relay
               /\ connection[j].client = connection[k].client => j = k

Init ==
    /\ RelayInit /\ GateInit
    /\ start = [c \in Relays |-> "new"]
    /\ relayConnection = None
    /\ connection = [k \in Connections |->
           [relay |-> None, client |-> None, state |-> "unused", early |-> FALSE]]
    /\ overlap = FALSE /\ late = {}

-----------------------------------------------------------------------------
\* Connections of clients.

OpenOf(c) == {k \in Connections : connection[k].state = "open" /\ connection[k].relay = c}

\* Connections K are closed from either side; handleClose for each.
Drop(K) ==
    /\ connection' = [k \in Connections |->
                         IF k \in K
                         THEN [connection[k] EXCEPT !.state = "closed", !.relay = None,
                                                    !.client = None]
                         ELSE connection[k]]
    /\ late' = late \cup {k \in K : Verifying(k) # {}}
CloseAll(c) ==
    /\ Drop(OpenOf(c))
    /\ HandleClose(OpenOf(c))
    /\ UNCHANGED <<request, checking>>

\* Envelopes come over an open socket.  A legacy relay takes the daemon for
\* connected while the daemon still probes it, and announces clients then.
Reached(c) == \E s \in Sockets : socket[c][s] \in {"probing", "live"}

\* A duplicate announcement is ignored.
ClientConnected(c, i) ==
    /\ Reached(c)
    /\ ~ \E k \in OpenOf(c) : connection[k].client = i
    /\ LET unused == {k \in Connections : connection[k].state = "unused"}
       IN /\ unused # {}
          /\ connection' = [connection EXCEPT ![CHOOSE k \in unused : TRUE] =
                [relay |-> c, client |-> i, state |-> "open", early |-> ~ Live(c)]]
    /\ UNCHANGED <<relayVars, gateVars, start, relayConnection, overlap, late>>

ClientDisconnected(k) ==
    /\ connection[k].state = "open" /\ Reached(connection[k].relay)
    /\ Drop({k}) /\ HandleClose({k})
    /\ UNCHANGED <<relayVars, request, checking, start, relayConnection, overlap>>

\* Frames of a client: requests to authenticate and to log out.
ClientFrame(k) ==
    /\ connection[k].state = "open" /\ Reached(connection[k].relay)
    /\ \/ Logout(k)
       \/ LET unsent == {r \in AuthRequests : request[r].at = "new"}
          IN unsent # {} /\ Authenticate(CHOOSE r \in unsent : TRUE, k)
    /\ UNCHANGED <<relayVars, serverVars>>

Verification ==
    /\ \/ \E r \in AuthRequests : Verified(r) \/ VerificationFails(r)
       \/ \E k \in Connections : Reverify(k) \/ StillGranted(k)
    /\ UNCHANGED <<relayVars, serverVars>>

\* A failed re-verification drops the connection as well.
RevokedAndDropped(k) ==
    /\ Revoked(k)
    /\ Drop({k} \cap {j \in Connections : connection[j].state = "open"})
    /\ UNCHANGED <<relayVars, start, relayConnection, overlap>>

-----------------------------------------------------------------------------
\* The requests of the daemon's own clients.

AtWork(c) == start[c] \in {"imports", "starts"}
Connected(c) == ws[c] # None

\* stopRelay.
\* Mutant: the current one is forgotten without being stopped.
ForgetsCurrent ==
    /\ relayConnection' = None
    /\ UNCHANGED <<relayVars, gateVars, connection, late>>
StopCurrent ==
    IF relayConnection = None
    THEN UNCHANGED <<relayVars, gateVars, relayConnection, connection, late>>
    ELSE /\ StopRelayConnection(relayConnection)
         /\ CloseAll(relayConnection)
         /\ relayConnection' = None

StopRelay ==
    /\ relayConnection # None
    /\ StopCurrent
    /\ UNCHANGED <<start, overlap>>

\* handleStart with the url it looked up, up to the import in startRelay: no
\* change when the relay is connected, else the current one is stopped.
StartRelay(c) ==
    /\ start[c] = "new"
    /\ IF relayConnection # None /\ Connected(relayConnection)
       THEN /\ start' = [start EXCEPT ![c] = "done"]
            /\ UNCHANGED <<relayVars, gateVars, relayConnection, connection, overlap, late>>
       ELSE /\ start' = [start EXCEPT ![c] = "imports"]
            /\ StopCurrent
            /\ overlap' = (overlap \/ \E d \in Relays \ {c} : AtWork(d))

\* The transport is loaded: the field is written and the connection started.
Imported(c) ==
    /\ start[c] = "imports"
    /\ start' = [start EXCEPT ![c] = "starts"]
    /\ relayConnection' = c
    /\ Start(c)
    /\ UNCHANGED <<gateVars, connection, overlap, late>>

-----------------------------------------------------------------------------
\* Events of the relay connections.

\* start of c came to its end, well or not.
StartEnds(c) ==
    start' = IF start[c] = "starts" /\ phase'[c] \in {"returned", "threw"}
             THEN [start EXCEPT ![c] = "done"] ELSE start

ConnectStep(c, s) ==
    /\ \/ CredentialResolved(c, s) \/ WithoutSubprotocol(c, s) \/ Opens(c, s)
       \/ AuthRequired(c, s) \/ Established(c, s)
    /\ StartEnds(c)
    /\ UNCHANGED <<gateVars, relayConnection, connection, overlap, late>>

\* A start that gave up stops its connection and clears the field, whatever
\* the field holds by now.
ConnectFails(c, s) ==
    /\ AttemptFails(c, s)
    /\ StartEnds(c)
    /\ IF phase'[c] = "threw"
       THEN relayConnection' = None /\ CloseAll(c)
       ELSE UNCHANGED <<gateVars, relayConnection, connection, late>>
    /\ UNCHANGED overlap

SocketGone(c, s) ==
    /\ SocketCloses(c, s)
    /\ CloseAll(c)
    /\ UNCHANGED <<start, relayConnection, overlap>>

Timers(c) ==
    /\ RetryStart(c) \/ TimerFires(c) \/ PongTimeout(c)
    /\ UNCHANGED <<gateVars, serverVars>>

Next ==
    \/ StopRelay \/ Verification
    \/ \E c \in Relays :
          \/ StartRelay(c) \/ Imported(c) \/ Timers(c)
          \/ \E i \in RelayClients : ClientConnected(c, i)
          \/ \E s \in Sockets : ConnectStep(c, s) \/ ConnectFails(c, s) \/ SocketGone(c, s)
    \/ \E k \in Connections :
          ClientDisconnected(k) \/ ClientFrame(k) \/ RevokedAndDropped(k)

\* A timer fires, a call of connect comes to an end, and so does the closing
\* handshake of a socket we closed.  A live socket need not close.  And the
\* relay can be reached: what it answers again and again succeeds at last.
Fairness ==
    \A c \in Relays :
        /\ WF_vars(Timers(c) /\ ~ PongTimeout(c))
        /\ WF_vars(\E s \in Sockets : ConnectStep(c, s) \/ ConnectFails(c, s))
        /\ WF_vars(\E s \in Sockets : SocketGone(c, s) /\ socket[c][s] = "closing")
        /\ SF_vars(\E s \in Sockets : ConnectStep(c, s) /\ CredentialResolved(c, s))
        /\ SF_vars(\E s \in Sockets : ConnectStep(c, s) /\ Opens(c, s))
        /\ SF_vars(\E s \in Sockets : ConnectStep(c, s) /\ Established(c, s))

Spec == Init /\ [][Next]_vars /\ Fairness

-----------------------------------------------------------------------------
\* Properties.

\* A relay connection that runs is the one stopRelay would stop, unless two
\* start requests were at work at once: startRelay looks at the field before
\* it awaits the import and writes it after, and a start that fails clears it.
OneRelay == ~ overlap => \A c \in Relays : Running(c) => relayConnection = c

\* Whoever is registered with the daemon, or verified again and again, can be
\* reached: the connection is open and its relay established or closing.
\* Except for a connection closed while its authentication was verified, which
\* is registered for ever, and one announced before the relay was established,
\* which the failure of that attempt does not close.
RegisteredIsReachable ==
    \A k \in authenticated \cup reverify :
        \/ /\ connection[k].state = "open"
           /\ \E s \in Sockets : socket[connection[k].relay][s] \in {"live", "closing"}
        \/ k \in late \/ connection[k].early

\* A relay connection that was started, or that lost its relay, is established
\* again unless it is stopped; and one that was stopped leaves no socket open,
\* however stop and its calls of connect overlapped.
LinkSettles ==
    \A c \in Relays :
        /\ (phase[c] # "none") ~> (Live(c) \/ c \in stopped)
        /\ (c \in stopped) ~> (Busy(c) = {} /\ c \notin timer)
=============================================================================
