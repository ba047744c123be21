---------------------- MODULE DaemonConnectionHandler ----------------------
(***************************************************************************)
(* The gate of the daemon: a connection of any transport is only served    *)
(* after daemon.authenticate, whose verification takes a backend call.     *)
(* Connections that act for an operator are verified again and again.      *)
(* The actions leave the connections themselves to the module that         *)
(* composes the gate with a transport.                                     *)
(***************************************************************************)
CONSTANTS
    Connections,   \* the connection objects of a transport
    AuthRequests,  \* the daemon.authenticate requests
    NoOne

ASSUME GateAssumption == NoOne \notin AuthRequests

VARIABLES
    authenticated,   \* authenticatedConnections and authenticatedConnectionsSet
    authentication,  \* pendingAuthentications
    request,         \* where each request is, of which connection, and the
                     \* request whose end it waits for
    reverify,        \* connections with an actAsReverifyTimer
    checking         \* connections with a re-verification in flight

gateVars == <<authenticated, authentication, request, reverify, checking>>

NoRequest == [at |-> "new", conn |-> NoOne, after |-> NoOne]
Served == [at |-> "done", conn |-> NoOne, after |-> NoOne]

GateTypeOK ==
    /\ authenticated \in SUBSET Connections
    /\ authentication \in [Connections -> AuthRequests \cup {NoOne}]
    /\ request \in [AuthRequests -> [at : {"new", "waits", "verifies", "done"},
                                     conn : Connections \cup {NoOne},
                                     after : AuthRequests \cup {NoOne}]]
    /\ reverify \in SUBSET Connections
    /\ checking \in SUBSET Connections
    /\ \A k \in Connections : authentication[k] # NoOne =>
           request[authentication[k]].at = "verifies" /\ request[authentication[k]].conn = k
    /\ \A r \in AuthRequests : request[r].at = "waits" =>
           request[request[r].after].at = "verifies"

GateInit ==
    /\ authenticated = {}
    /\ authentication = [k \in Connections |-> NoOne]
    /\ request = [r \in AuthRequests |-> NoRequest]
    /\ reverify = {} /\ checking = {}

Verifying(k) ==
    {r \in AuthRequests : request[r].conn = k /\ request[r].at \in {"waits", "verifies"}}

\* handleMessage, daemon.authenticate: an authenticated connection is told so,
\* one that is being verified waits, any other one is verified.
Authenticate(r, k) ==
    /\ request[r].at = "new"
    /\ LET pending == authentication[k] IN
       IF k \in authenticated
       THEN /\ request' = [request EXCEPT ![r] = Served]
            /\ UNCHANGED authentication
       ELSE IF pending # NoOne
       THEN /\ request' = [request EXCEPT ![r] = [at |-> "waits", conn |-> k, after |-> pending]]
            /\ UNCHANGED authentication
       ELSE /\ request' = [request EXCEPT ![r] = [at |-> "verifies", conn |-> k, after |-> NoOne]]
            /\ authentication' = [authentication EXCEPT ![k] = r]
    /\ UNCHANGED <<authenticated, reverify, checking>>

\* The verification succeeds: the connection is registered whether it is still
\* open or not, and an act-as grant is verified again from now on.  Those that
\* waited find it registered.
Verified(r) ==
    /\ request[r].at = "verifies"
    /\ LET k == request[r].conn IN
       /\ authenticated' = authenticated \cup {k}
       /\ \E actAs \in BOOLEAN : reverify' = IF actAs THEN reverify \cup {k} ELSE reverify
       /\ authentication' = [authentication EXCEPT ![k] = IF @ = r THEN NoOne ELSE @]
    /\ request' = [q \in AuthRequests |->
                      IF q = r \/ (request[q].at = "waits" /\ request[q].after = r)
                      THEN Served ELSE request[q]]
    /\ UNCHANGED checking

\* It fails: those that waited are told so when another request registered the
\* connection, and are verified themselves otherwise, the last one pending.
VerificationFails(r) ==
    /\ request[r].at = "verifies"
    /\ LET k == request[r].conn
           waiting == {q \in AuthRequests : request[q].at = "waits" /\ request[q].after = r}
           next == IF k \in authenticated THEN Served
                   ELSE [at |-> "verifies", conn |-> k, after |-> NoOne]
           freed == IF authentication[k] = r THEN NoOne ELSE authentication[k]
       IN /\ request' = [q \in AuthRequests |->
                            IF q = r THEN Served
                            ELSE IF q \in waiting THEN next
                            ELSE request[q]]
          /\ IF waiting = {} \/ next = Served
             THEN authentication' = [authentication EXCEPT ![k] = freed]
             ELSE \E last \in waiting : authentication' = [authentication EXCEPT ![k] = last]
    /\ UNCHANGED <<authenticated, reverify, checking>>

\* handleClose of the connections K.
\* Mutant: the registration is kept.
KeepsRegistered(K) ==
    /\ authentication' = [k \in Connections |-> IF k \in K THEN NoOne ELSE authentication[k]]
    /\ reverify' = reverify \ K
    /\ UNCHANGED authenticated
HandleClose(K) ==
    /\ authentication' = [k \in Connections |-> IF k \in K THEN NoOne ELSE authentication[k]]
    /\ reverify' = reverify \ K
    /\ authenticated' = authenticated \ K

\* daemon.logout: the gate is closed, the connection stays open.
Logout(k) ==
    /\ k \in authenticated
    /\ HandleClose({k})
    /\ UNCHANGED <<request, checking>>

\* The timer of an act-as connection, and the answer that it still may act.
\* (A re-verification that outlives handleClose and one of a new timer of the
\* same connection are one member of checking.)
Reverify(k) ==
    /\ k \in reverify \ checking
    /\ checking' = checking \cup {k}
    /\ UNCHANGED <<authenticated, authentication, request, reverify>>

StillGranted(k) ==
    /\ k \in checking
    /\ checking' = checking \ {k}
    /\ UNCHANGED <<authenticated, authentication, request, reverify>>

\* It may not: the gate is closed, and the module above drops the connection.
Revoked(k) ==
    /\ k \in checking
    /\ checking' = checking \ {k}
    /\ HandleClose({k})
    /\ UNCHANGED request
=============================================================================
