------------------------ MODULE RelayServer_proofs ------------------------
(***************************************************************************)
(* The safety properties of RelayServer, for any number of start requests, *)
(* sockets, attempts, clients, connections and authentications.            *)
(***************************************************************************)
EXTENDS RelayServer, TLAPS

-----------------------------------------------------------------------------
(* The inductive invariant.                                                *)

\* Of one relay connection, running or stopped.
LinkOK(c) ==
    /\ \A s, t \in Busy(c) : s = t
    /\ c \in timer \/ phase[c] \in {"none", "waiting", "threw"} => Busy(c) = {}
    /\ c \in timer => phase[c] = "returned" /\ c \notin stopped
    /\ phase[c] = "waiting" => tries[c] < InitialAttempts
    /\ phase[c] = "trying" => \E s \in Sockets : socket[c][s] \in Attempt
    /\ phase[c] = "threw" => c \in stopped
    /\ c \in connectedOnce => phase[c] = "returned"
    /\ phase[c] = "returned" /\ c \notin stopped =>
           c \in connectedOnce /\ (c \in timer \/ Busy(c) # {})
    /\ \A s \in Sockets : socket[c][s] \in Attempt =>
           phase[c] = "trying" \/ c \in connectedOnce

LinkInv == RelayTypeOK /\ \A c \in Relays : LinkOK(c)

\* Of the field of the server and the requests that write it.
StartInv ==
    /\ start \in [Relays -> {"new", "imports", "starts", "done"}]
    /\ relayConnection \in Relays \cup {None}
    /\ overlap \in BOOLEAN
    /\ \A c \in Relays : InInitialConnect(c) <=> start[c] = "starts"
    /\ ~ overlap =>
          /\ \A c \in Relays : Running(c) => relayConnection = c
          /\ \A c, d \in Relays : AtWork(c) /\ c # d => ~ Running(d) /\ ~ AtWork(d)

IsOpen(k) == connection[k].state = "open"
LinkUp(c) == \E s \in Sockets : socket[c][s] \in {"live", "closing"}

\* Of the connections, and of what the gate holds about them.
ConnectionInv ==
    /\ GateTypeOK
    /\ \A r \in AuthRequests :
          /\ request[r].at \in {"waits", "verifies"} => request[r].conn \in Connections
          /\ request[r].at = "waits" => request[r].after \in AuthRequests
    /\ connection \in [Connections -> Connection]
    /\ late \in SUBSET Connections
    /\ \A k \in Connections :
          /\ IsOpen(k) => connection[k].relay \in Relays
          /\ IsOpen(k) /\ ~ connection[k].early => LinkUp(connection[k].relay)
          /\ k \in authenticated \cup reverify \/ Verifying(k) # {} => IsOpen(k) \/ k \in late
    /\ \A j, k \in Connections :
          IsOpen(j) /\ IsOpen(k) /\ connection[j].relay = connection[k].relay
              /\ connection[j].client = connection[k].client => j = k

IInv == LinkInv /\ StartInv /\ ConnectionInv

-----------------------------------------------------------------------------
(* The steps of a relay connection keep LinkInv.                           *)

\* A step that concerns the relay connection c alone.
OnlyLink(c) ==
    \A d \in Relays \ {c} :
        /\ phase'[d] = phase[d] /\ tries'[d] = tries[d] /\ socket'[d] = socket[d]
        /\ ws'[d] = ws[d]
        /\ d \in timer' <=> d \in timer
        /\ d \in connectedOnce' <=> d \in connectedOnce
        /\ d \in stopped' <=> d \in stopped

LEMMA OthersKept ==
  ASSUME LinkInv, NEW c \in Relays, OnlyLink(c), NEW d \in Relays \ {c}
  PROVE  LinkOK(d)' /\ \A s \in Sockets : socket'[d][s] \in Open <=> ws'[d] = s
  BY DEF LinkInv, LinkOK, RelayTypeOK, OnlyLink, Busy

LEMMA Becomes ==
  ASSUME socket \in [Relays -> [Sockets -> Stage]],
         NEW c \in Relays, NEW s \in Sockets, NEW stage \in Stage, Become(c, s, stage)
  PROVE  /\ socket' \in [Relays -> [Sockets -> Stage]] /\ socket'[c][s] = stage
         /\ \A t \in Sockets \ {s} : socket'[c][t] = socket[c][t]
         /\ \A d \in Relays \ {c} : socket'[d] = socket[d]
  BY DEF Become

LEMMA ConnectLink ==
  ASSUME LinkInv, NEW c \in Relays, Busy(c) = {}, Connect(c),
         UNCHANGED <<ws, connectedOnce, stopped, ping>>,
         phase' \in [Relays -> Phase], tries' \in [Relays -> 0 .. InitialAttempts],
         timer' = timer \ {c},
         \A d \in Relays \ {c} : phase'[d] = phase[d] /\ tries'[d] = tries[d],
         \/ phase'[c] = "trying" /\ c \notin connectedOnce
         \/ phase'[c] = "returned" /\ c \in connectedOnce
  PROVE  LinkInv'
  <1>1. PICK s \in Sockets : socket[c][s] = "free" /\ Become(c, s, "credential")
    BY DEF Connect
  <1>2. /\ socket' \in [Relays -> [Sockets -> Stage]] /\ socket'[c][s] = "credential"
        /\ \A t \in Sockets \ {s} : socket'[c][t] = socket[c][t]
        /\ \A d \in Relays \ {c} : socket'[d] = socket[d]
    BY <1>1, Becomes DEF LinkInv, RelayTypeOK, Stage
  <1>3. RelayTypeOK'
    <2>1. \A t \in Sockets : ws[c] # t /\ socket[c][t] = "free"
      BY DEF LinkInv, RelayTypeOK, Open, Busy
    <2>2. \A t \in Sockets : socket'[c][t] \in {"free", "credential"} /\ ws'[c] # t
      BY <1>2, <2>1
    <2>3. \A d \in Relays \ {c}, t \in Sockets : socket'[d][t] \in Open <=> ws'[d] = t
      BY <1>2 DEF LinkInv, RelayTypeOK
    <2> QED BY <1>2, <2>2, <2>3 DEF LinkInv, RelayTypeOK, Open
  <1>4. LinkOK(c)'
    BY <1>1, <1>2 DEF LinkInv, RelayTypeOK, LinkOK, Busy, Attempt
  <1>5. OnlyLink(c)
    <2> SUFFICES ASSUME NEW d \in Relays \ {c}
                 PROVE  /\ socket'[d] = socket[d] /\ ws'[d] = ws[d]
                        /\ d \in timer' <=> d \in timer
                        /\ d \in connectedOnce' <=> d \in connectedOnce
                        /\ d \in stopped' <=> d \in stopped
      BY DEF OnlyLink
    <2> QED BY <1>2
  <1> QED BY <1>3, <1>4, <1>5, OthersKept DEF LinkInv

LEMMA StartLink ==
  ASSUME LinkInv, NEW c \in Relays, Start(c)
  PROVE  LinkInv'
  <1>1. Busy(c) = {} /\ c \notin timer /\ c \notin connectedOnce
    BY DEF LinkInv, LinkOK, Start
  <1>2. phase' \in [Relays -> Phase] /\ tries' \in [Relays -> 0 .. InitialAttempts]
    BY RelayAssumption DEF LinkInv, RelayTypeOK, Start, Phase
  <1>3. timer' = timer \ {c} /\ phase'[c] = "trying"
        /\ \A d \in Relays \ {c} : phase'[d] = phase[d] /\ tries'[d] = tries[d]
    BY <1>1 DEF LinkInv, RelayTypeOK, Start
  <1> QED BY <1>1, <1>2, <1>3, ConnectLink DEF Start

LEMMA RetryStartLink ==
  ASSUME LinkInv, NEW c \in Relays, RetryStart(c)
  PROVE  LinkInv'
  <1>1. Busy(c) = {} /\ c \notin timer /\ c \notin connectedOnce
        /\ tries[c] < InitialAttempts
    BY DEF LinkInv, LinkOK, RetryStart
  <1>2. phase' \in [Relays -> Phase] /\ tries' \in [Relays -> 0 .. InitialAttempts]
    BY <1>1, RelayAssumption DEF LinkInv, RelayTypeOK, RetryStart, Phase
  <1>3. timer' = timer \ {c} /\ phase'[c] = "trying"
        /\ \A d \in Relays \ {c} : phase'[d] = phase[d] /\ tries'[d] = tries[d]
    BY <1>1 DEF LinkInv, RelayTypeOK, RetryStart
  <1> QED BY <1>1, <1>2, <1>3, ConnectLink DEF RetryStart

LEMMA TimerFiresLink ==
  ASSUME LinkInv, NEW c \in Relays, TimerFires(c)
  PROVE  LinkInv'
  <1>1. Busy(c) = {} /\ phase[c] = "returned" /\ c \in connectedOnce
    BY DEF LinkInv, LinkOK, TimerFires
  <1> QED BY <1>1, ConnectLink DEF TimerFires, LinkInv, RelayTypeOK

\* close() of the transport changes what the socket is at, not that it is there.
LEMMA TransportClosed ==
  ASSUME LinkInv, NEW c \in Relays, TransportClose(c)
  PROVE  /\ socket' \in [Relays -> [Sockets -> Stage]]
         /\ ws' \in [Relays -> Sockets \cup {None}]
         /\ ws'[c] = None
         /\ \A d \in Relays \ {c} : socket'[d] = socket[d] /\ ws'[d] = ws[d]
         /\ \A s \in Sockets :
               /\ socket'[c][s] \notin Open
               /\ socket'[c][s] = "free" <=> socket[c][s] = "free"
               /\ socket'[c][s] \in Attempt <=> socket[c][s] \in Attempt
               /\ socket'[c][s] \in {"live", "closing"} <=>
                      socket[c][s] \in {"live", "closing"}
  <1>1. \A s \in Sockets : socket[c][s] \in Stage /\ (socket[c][s] \in Open <=> ws[c] = s)
    BY DEF LinkInv, RelayTypeOK
  <1>2. \A s \in Sockets :
           socket'[c][s] = IF s # ws[c] THEN socket[c][s]
                           ELSE IF socket[c][s] = "live" THEN "closing" ELSE "aborted"
    BY DEF TransportClose, LinkInv, RelayTypeOK
  <1>3. \A s \in Sockets : socket'[c][s] \in Stage
    BY <1>1, <1>2 DEF Stage
  <1>4. socket' \in [Relays -> [Sockets -> Stage]]
        /\ \A d \in Relays \ {c} : socket'[d] = socket[d]
    BY <1>1, <1>3 DEF TransportClose, LinkInv, RelayTypeOK, Stage
  <1>5. ws' \in [Relays -> Sockets \cup {None}] /\ ws'[c] = None
        /\ \A d \in Relays \ {c} : ws'[d] = ws[d]
    BY DEF TransportClose, LinkInv, RelayTypeOK
  <1> QED BY <1>1, <1>2, <1>4, <1>5 DEF Stage, Open, Attempt

LEMMA PongTimeoutLink ==
  ASSUME LinkInv, NEW c \in Relays, PongTimeout(c)
  PROVE  LinkInv'
  <1>1. TransportClose(c) /\ UNCHANGED <<phase, tries, timer, connectedOnce, stopped>>
        /\ ping' = ping \ {c}
    BY DEF PongTimeout
  <1>2. RelayTypeOK'
    BY <1>1, TransportClosed, RelayAssumption DEF LinkInv, RelayTypeOK
  <1>3. LinkOK(c)'
    BY <1>1, TransportClosed DEF LinkInv, LinkOK, Busy
  <1>4. OnlyLink(c)
    BY <1>1, TransportClosed DEF OnlyLink
  <1> QED BY <1>2, <1>3, <1>4, OthersKept DEF LinkInv

LEMMA StopLink ==
  ASSUME LinkInv, NEW c \in Relays, StopRelayConnection(c)
  PROVE  LinkInv'
  <1>1. TransportClose(c) /\ UNCHANGED <<phase, tries, connectedOnce>>
        /\ stopped' = stopped \cup {c} /\ timer' = timer \ {c} /\ ping' = ping \ {c}
    BY DEF StopRelayConnection
  <1>2. RelayTypeOK'
    BY <1>1, TransportClosed, RelayAssumption DEF LinkInv, RelayTypeOK
  <1>3. LinkOK(c)'
    BY <1>1, TransportClosed DEF LinkInv, LinkOK, Busy
  <1>4. OnlyLink(c)
    BY <1>1, TransportClosed DEF OnlyLink
  <1> QED BY <1>2, <1>3, <1>4, OthersKept DEF LinkInv

\* A step of the call of connect, or of the socket, s of c.
LEMMA SlotLink ==
  ASSUME LinkInv, NEW c \in Relays, NEW s \in Sockets, socket[c][s] # "free",
         NEW stage \in Stage, Become(c, s, stage),
         phase' \in [Relays -> Phase], tries' \in [Relays -> 0 .. InitialAttempts],
         ws' \in [Relays -> Sockets \cup {None}],
         timer' \in SUBSET Relays, ping' \in SUBSET Relays,
         connectedOnce' \in SUBSET Relays, stopped' \in SUBSET Relays,
         stage \in Open => ws'[c] = s,
         stage \notin Open => ws'[c] = None,
         \A d \in Relays \ {c} :
            /\ phase'[d] = phase[d] /\ tries'[d] = tries[d] /\ ws'[d] = ws[d]
            /\ d \in timer' <=> d \in timer
            /\ d \in connectedOnce' <=> d \in connectedOnce
            /\ d \in stopped' <=> d \in stopped,
         c \in timer' \/ phase'[c] \in {"none", "waiting", "threw"} => stage = "free",
         c \in timer' => phase'[c] = "returned" /\ c \notin stopped',
         phase'[c] = "waiting" => tries'[c] < InitialAttempts,
         phase'[c] = "trying" => stage \in Attempt,
         phase'[c] = "threw" => c \in stopped',
         c \in connectedOnce' => phase'[c] = "returned",
         phase'[c] = "returned" /\ c \notin stopped' =>
             c \in connectedOnce' /\ (c \in timer' \/ stage # "free"),
         stage \in Attempt => phase'[c] = "trying" \/ c \in connectedOnce'
  PROVE  LinkInv'
  <1>1. /\ socket' \in [Relays -> [Sockets -> Stage]] /\ socket'[c][s] = stage
        /\ \A t \in Sockets \ {s} : socket'[c][t] = socket[c][t]
        /\ \A d \in Relays \ {c} : socket'[d] = socket[d]
    BY Becomes DEF LinkInv, RelayTypeOK
  <1>2. \A t \in Sockets \ {s} : socket[c][t] = "free" /\ socket'[c][t] = "free"
    BY <1>1 DEF LinkInv, LinkOK, Busy
  <1>3. RelayTypeOK'
    <2>1. \A t \in Sockets : socket'[c][t] \in Open <=> ws'[c] = t
      BY <1>1, <1>2, RelayAssumption DEF Open
    <2>2. \A d \in Relays \ {c}, t \in Sockets : socket'[d][t] \in Open <=> ws'[d] = t
      BY <1>1 DEF LinkInv, RelayTypeOK
    <2> QED BY <1>1, <2>1, <2>2 DEF RelayTypeOK
  <1>4. LinkOK(c)'
    BY <1>1, <1>2 DEF LinkOK, Busy, Attempt
  <1>5. OnlyLink(c)
    BY <1>1 DEF OnlyLink
  <1> QED BY <1>3, <1>4, <1>5, OthersKept DEF LinkInv

\* start returns with its call of connect, which is not the last it could make.
LEMMA ReturnsTyped ==
  ASSUME LinkInv, NEW c \in Relays, Returns(c)
  PROVE  /\ phase' \in [Relays -> Phase] /\ tries' \in [Relays -> 0 .. InitialAttempts]
         /\ phase'[c] = IF phase[c] = "trying" THEN "returned" ELSE phase[c]
         /\ \A d \in Relays \ {c} : phase'[d] = phase[d] /\ tries'[d] = tries[d]
  BY RelayAssumption DEF LinkInv, RelayTypeOK, Returns, Phase

\* What holds of a relay connection with a call of connect or a socket.
LEMMA SlotFacts ==
  ASSUME LinkInv, NEW c \in Relays, NEW s \in Sockets, socket[c][s] # "free"
  PROVE  /\ phase \in [Relays -> Phase] /\ tries \in [Relays -> 0 .. InitialAttempts]
         /\ ws \in [Relays -> Sockets \cup {None}]
         /\ timer \in SUBSET Relays /\ ping \in SUBSET Relays
         /\ connectedOnce \in SUBSET Relays /\ stopped \in SUBSET Relays
         /\ phase[c] \in {"trying", "returned"} /\ c \notin timer
         /\ ws[c] = IF socket[c][s] \in Open THEN s ELSE None
         /\ phase[c] = "trying" => socket[c][s] \in Attempt
         /\ socket[c][s] \in Attempt => phase[c] = "trying" \/ c \in connectedOnce
         /\ c \in connectedOnce => phase[c] = "returned"
         /\ phase[c] = "returned" /\ c \notin stopped => c \in connectedOnce
  <1>1. \A t \in Sockets \ {s} : socket[c][t] = "free"
    BY DEF LinkInv, LinkOK, Busy
  <1>2. ws[c] = IF socket[c][s] \in Open THEN s ELSE None
    BY <1>1 DEF LinkInv, RelayTypeOK, Open
  <1>3. phase[c] \in {"trying", "returned"} /\ c \notin timer
    BY DEF LinkInv, LinkOK, RelayTypeOK, Busy, Phase
  <1>4. phase[c] = "trying" => socket[c][s] \in Attempt
    BY <1>1 DEF LinkInv, LinkOK, Attempt
  <1> QED BY <1>2, <1>3, <1>4 DEF LinkInv, LinkOK, RelayTypeOK

LEMMA CredentialResolvedLink ==
  ASSUME LinkInv, NEW c \in Relays, NEW s \in Sockets, CredentialResolved(c, s)
  PROVE  LinkInv'
  <1>1. /\ socket[c][s] = "credential"
        /\ UNCHANGED <<ws, timer, ping, connectedOnce, stopped>>
    BY DEF CredentialResolved
  <1>2. ws[c] = None
    BY <1>1, SlotFacts DEF Open
  <1>3. CASE c \in stopped
    <2>1. Become(c, s, "free") /\ Returns(c)
      BY <1>3 DEF CredentialResolved
    <2>2. "free" \in Stage \ (Open \cup Attempt)
      BY DEF Stage, Open, Attempt
    <2>3. phase'[c] = "returned"
      BY <1>1, <2>1, SlotFacts, ReturnsTyped
    <2> QED BY <1>1, <1>2, <1>3, <2>1, <2>2, <2>3, SlotFacts, ReturnsTyped, SlotLink
  <1>4. CASE c \notin stopped
    <2>1. Become(c, s, "opening") /\ UNCHANGED <<phase, tries>>
      BY <1>4 DEF CredentialResolved
    <2>2. "opening" \in Stage /\ "opening" \in Attempt /\ "opening" \notin Open
          /\ "credential" \in Attempt
      BY DEF Stage, Attempt, Open
    <2> QED BY <1>1, <1>2, <1>4, <2>1, <2>2, SlotFacts, SlotLink
  <1> QED BY <1>3, <1>4

LEMMA WithoutSubprotocolLink ==
  ASSUME LinkInv, NEW c \in Relays, NEW s \in Sockets, WithoutSubprotocol(c, s)
  PROVE  LinkInv'
  <1>1. /\ socket[c][s] = "opening" /\ Become(c, s, "reopening")
        /\ UNCHANGED <<phase, tries, ws, timer, ping, connectedOnce, stopped>>
    BY DEF WithoutSubprotocol
  <1>2. "reopening" \in Stage /\ "reopening" \in Attempt /\ "reopening" \notin Open
        /\ "opening" \in Attempt /\ "opening" \notin Open
    BY DEF Stage, Attempt, Open
  <1> QED BY <1>1, <1>2, SlotFacts, SlotLink

LEMMA OpensLink ==
  ASSUME LinkInv, NEW c \in Relays, NEW s \in Sockets, Opens(c, s)
  PROVE  LinkInv'
  <1>1. /\ socket[c][s] \in {"opening", "reopening"} /\ Become(c, s, "probing")
        /\ ws' = [ws EXCEPT ![c] = s]
        /\ UNCHANGED <<phase, tries, timer, ping, connectedOnce, stopped>>
    BY DEF Opens
  <1>2. "probing" \in Stage /\ "probing" \in Attempt /\ "probing" \in Open
        /\ socket[c][s] \in Attempt /\ socket[c][s] # "free"
    BY <1>1 DEF Stage, Attempt, Open
  <1> QED BY <1>1, <1>2, SlotFacts, SlotLink

LEMMA AuthRequiredLink ==
  ASSUME LinkInv, NEW c \in Relays, NEW s \in Sockets, AuthRequired(c, s)
  PROVE  LinkInv'
  <1>1. /\ socket[c][s] = "probing" /\ Become(c, s, "authenticating")
        /\ UNCHANGED <<phase, tries, ws, timer, ping, connectedOnce, stopped>>
    BY DEF AuthRequired
  <1>2. "authenticating" \in Stage /\ "authenticating" \in Attempt
        /\ "authenticating" \in Open /\ "probing" \in Open /\ "probing" \in Attempt
    BY DEF Stage, Attempt, Open
  <1> QED BY <1>1, <1>2, SlotFacts, SlotLink

LEMMA EstablishedLink ==
  ASSUME LinkInv, NEW c \in Relays, NEW s \in Sockets, Established(c, s)
  PROVE  LinkInv'
  <1>1. /\ socket[c][s] \in {"probing", "authenticating"} /\ Returns(c)
        /\ UNCHANGED <<timer, stopped>>
    BY DEF Established
  <1>2. socket[c][s] # "free" /\ socket[c][s] \in Open
    BY <1>1 DEF Open
  <1>3. phase'[c] = "returned"
    BY <1>1, <1>2, SlotFacts, ReturnsTyped
  <1>4. CASE c \in stopped
    <2>1. /\ Become(c, s, "closing") /\ ws' = [ws EXCEPT ![c] = None]
          /\ UNCHANGED <<ping, connectedOnce>>
      BY <1>4 DEF Established, StoppedMeanwhile
    <2>2. "closing" \in Stage /\ "closing" \notin Attempt /\ "closing" \notin Open
      BY DEF Stage, Attempt, Open
    <2> QED BY <1>1, <1>2, <1>3, <1>4, <2>1, <2>2, SlotFacts, ReturnsTyped, SlotLink
  <1>5. CASE c \notin stopped
    <2>1. /\ Become(c, s, "live") /\ ping' = ping \cup {c}
          /\ connectedOnce' = connectedOnce \cup {c} /\ UNCHANGED ws
      BY <1>5 DEF Established, StoppedMeanwhile
    <2>2. "live" \in Stage /\ "live" \notin Attempt /\ "live" \in Open
      BY DEF Stage, Attempt, Open
    <2> QED BY <1>1, <1>2, <1>3, <1>5, <2>1, <2>2, SlotFacts, ReturnsTyped, SlotLink
  <1> QED BY <1>4, <1>5

LEMMA AttemptFailsLink ==
  ASSUME LinkInv, NEW c \in Relays, NEW s \in Sockets, AttemptFails(c, s)
  PROVE  LinkInv'
  <1>1. /\ socket[c][s] \in Attempt /\ Become(c, s, "free") /\ ws' = FieldCleared(c, s)
        /\ UNCHANGED <<ping, connectedOnce>>
    BY DEF AttemptFails
  <1>2. socket[c][s] # "free" /\ "free" \in Stage /\ "free" \notin Attempt
        /\ "free" \notin Open
    BY <1>1 DEF Attempt, Stage, Open
  <1>3. /\ ws' \in [Relays -> Sockets \cup {None}] /\ ws'[c] = None
        /\ \A d \in Relays \ {c} : ws'[d] = ws[d]
    BY <1>1, <1>2, SlotFacts DEF FieldCleared
  <1>4. CASE c \in connectedOnce
    <2>1. timer' = ScheduleReconnect(c) /\ UNCHANGED <<phase, tries, stopped>>
      BY <1>4 DEF AttemptFails
    <2> QED BY <1>1, <1>2, <1>3, <1>4, <2>1, SlotFacts, SlotLink DEF ScheduleReconnect
  <1>5. CASE c \notin connectedOnce
    <2>1. /\ phase' = [phase EXCEPT ![c] = IF GivesUp(c) THEN "threw" ELSE "waiting"]
          /\ tries' = IF GivesUp(c) THEN [tries EXCEPT ![c] = 0] ELSE tries
          /\ stopped' = IF GivesUp(c) THEN stopped \cup {c} ELSE stopped
          /\ UNCHANGED timer
      BY <1>5 DEF AttemptFails
    <2>2. CASE GivesUp(c)
      <3>1. phase' \in [Relays -> Phase] /\ tries' \in [Relays -> 0 .. InitialAttempts]
            /\ phase'[c] = "threw"
        BY <1>2, <2>1, <2>2, SlotFacts, RelayAssumption DEF Phase
      <3> QED BY <1>1, <1>2, <1>3, <1>5, <2>1, <2>2, <3>1, SlotFacts, SlotLink
    <2>3. CASE ~ GivesUp(c)
      <3>1. phase' \in [Relays -> Phase] /\ phase'[c] = "waiting"
        BY <1>2, <2>1, <2>3, SlotFacts DEF Phase
      <3>2. tries[c] < InitialAttempts
        BY <1>2, <1>5, <2>3, SlotFacts, RelayAssumption DEF GivesUp
      <3> QED BY <1>1, <1>2, <1>3, <1>5, <2>1, <2>3, <3>1, <3>2, SlotFacts, SlotLink
    <2> QED BY <2>2, <2>3
  <1> QED BY <1>4, <1>5

LEMMA SocketClosesLink ==
  ASSUME LinkInv, NEW c \in Relays, NEW s \in Sockets, SocketCloses(c, s)
  PROVE  LinkInv'
  <1>1. /\ socket[c][s] \in {"live", "closing"} /\ Become(c, s, "free")
        /\ ws' = FieldCleared(c, s) /\ ping' = ping \ {c}
        /\ timer' = IF InInitialConnect(c) THEN timer ELSE ScheduleReconnect(c)
        /\ UNCHANGED <<phase, tries, connectedOnce, stopped>>
    BY DEF SocketCloses
  <1>2. socket[c][s] # "free" /\ socket[c][s] \notin Attempt /\ "free" \in Stage
        /\ "free" \notin Attempt /\ "free" \notin Open
    BY <1>1 DEF Attempt, Stage, Open
  <1>3. phase[c] = "returned"
    BY <1>2, SlotFacts
  <1>4. /\ ws' \in [Relays -> Sockets \cup {None}] /\ ws'[c] = None
        /\ \A d \in Relays \ {c} : ws'[d] = ws[d]
    BY <1>1, <1>2, SlotFacts DEF FieldCleared
  <1>5. timer' = ScheduleReconnect(c)
    BY <1>1, <1>3 DEF InInitialConnect
  <1> QED BY <1>1, <1>2, <1>3, <1>4, <1>5, SlotFacts, SlotLink DEF ScheduleReconnect

LEMMA LinkUnchanged ==
  ASSUME LinkInv, UNCHANGED relayVars
  PROVE  LinkInv'
  BY DEF LinkInv, RelayTypeOK, LinkOK, Busy, relayVars

\* OneWay, of one state.
LEMMA LinkIsOneWay ==
  ASSUME LinkInv
  PROVE  OneWay
  <1> SUFFICES ASSUME NEW c \in Relays, Running(c)
               PROVE  IF c \in timer \/ phase[c] = "waiting"
                      THEN Busy(c) = {} /\ ~ (c \in timer /\ phase[c] = "waiting")
                      ELSE \E s \in Sockets : Busy(c) = {s}
    BY DEF OneWay
  <1>1. phase[c] \in {"trying", "waiting", "returned"} /\ c \notin stopped
    BY DEF LinkInv, LinkOK, RelayTypeOK, Phase, Running
  <1>2. CASE c \in timer \/ phase[c] = "waiting"
    BY <1>2 DEF LinkInv, LinkOK
  <1>3. CASE ~ (c \in timer \/ phase[c] = "waiting")
    <2>1. PICK s \in Sockets : s \in Busy(c)
      BY <1>1, <1>3 DEF LinkInv, LinkOK, Busy, Attempt
    <2>2. Busy(c) = {s}
      BY <2>1 DEF LinkInv, LinkOK
    <2> QED BY <1>3, <2>2
  <1> QED BY <1>2, <1>3

-----------------------------------------------------------------------------
(* What a step of a relay connection does to the requests that start it.   *)

\* No relay connection comes to run, and start of none begins or ends.
Quieter ==
    \A d \in Relays : /\ Running(d)' => Running(d)
                      /\ InInitialConnect(d)' <=> InInitialConnect(d)

LEMMA StartKept ==
  ASSUME StartInv, Quieter, UNCHANGED <<start, relayConnection, overlap>>
  PROVE  StartInv'
  <1>1. \A d \in Relays : /\ Running(d)' => Running(d)
                          /\ AtWork(d)' <=> AtWork(d)
                          /\ InInitialConnect(d)' <=> start'[d] = "starts"
    BY DEF StartInv, Quieter, AtWork
  <1> QED BY <1>1 DEF StartInv

LEMMA UnchangedIsQuieter ==
  ASSUME UNCHANGED relayVars
  PROVE  Quieter
  BY DEF Quieter, Running, InInitialConnect, relayVars

LEMMA TimersQuieter ==
  ASSUME LinkInv, NEW c \in Relays, RetryStart(c) \/ TimerFires(c) \/ PongTimeout(c)
  PROVE  Quieter
  <1>1. CASE RetryStart(c)
    <2>1. phase[c] = "waiting" /\ phase' = [phase EXCEPT ![c] = "trying"] /\ stopped' = stopped
      BY <1>1 DEF RetryStart
    <2> QED BY <2>1 DEF Quieter, Running, InInitialConnect, LinkInv, RelayTypeOK
  <1>2. CASE TimerFires(c) \/ PongTimeout(c)
    <2>1. phase' = phase /\ stopped' = stopped
      BY <1>2 DEF TimerFires, PongTimeout
    <2> QED BY <2>1 DEF Quieter, Running, InInitialConnect
  <1> QED BY <1>1, <1>2

\* The end of a call of connect ends start, or leaves it waiting.
LEMMA EndsKept ==
  ASSUME LinkInv, StartInv, NEW c \in Relays,
         StartEnds(c), overlap' = overlap,
         phase' \in [Relays -> Phase],
         \A d \in Relays \ {c} : phase'[d] = phase[d],
         \/ phase'[c] = phase[c]
         \/ phase[c] = "trying" /\ phase'[c] \in {"returned", "waiting", "threw"},
         phase'[c] = "threw" /\ phase[c] # "threw" => c \in stopped',
         stopped \subseteq stopped',
         \/ relayConnection' = relayConnection
         \/ phase[c] = "trying" /\ c \in stopped' /\ relayConnection' = None
  PROVE  StartInv'
  <1>1. /\ start' \in [Relays -> {"new", "imports", "starts", "done"}]
        /\ \A d \in Relays \ {c} : start'[d] = start[d]
        /\ start'[c] = IF start[c] = "starts" /\ phase'[c] \in {"returned", "threw"}
                       THEN "done" ELSE start[c]
    BY DEF StartEnds, StartInv
  <1>2. \A d \in Relays : InInitialConnect(d)' <=> start'[d] = "starts"
    BY <1>1 DEF StartInv, InInitialConnect, LinkInv, RelayTypeOK, Phase
  <1>3. \A d \in Relays : (Running(d)' => Running(d)) /\ (AtWork(d)' => AtWork(d))
    BY <1>1 DEF Running, AtWork
  <1>4. CASE relayConnection' = relayConnection
    BY <1>1, <1>2, <1>3, <1>4 DEF StartInv
  <1>5. CASE phase[c] = "trying" /\ c \in stopped' /\ relayConnection' = None
    <2>1. AtWork(c)
      BY <1>5 DEF StartInv, InInitialConnect, AtWork
    <2>2. ~ Running(c)'
      BY <1>5 DEF Running
    <2>3. ~ overlap => \A d \in Relays : ~ Running(d)'
      BY <1>3, <2>1, <2>2 DEF StartInv
    <2> QED BY <1>1, <1>2, <1>3, <1>5, <2>3 DEF StartInv
  <1> QED BY <1>4, <1>5

LEMMA ConnectStepStart ==
  ASSUME LinkInv, StartInv, NEW c \in Relays, NEW s \in Sockets, ConnectStep(c, s)
  PROVE  StartInv'
  <1>1. StartEnds(c) /\ UNCHANGED <<relayConnection, overlap>>
    BY DEF ConnectStep
  <1>2. /\ socket[c][s] # "free" /\ stopped' = stopped
        /\ UNCHANGED <<phase, tries>> \/ Returns(c)
    BY DEF ConnectStep, CredentialResolved, WithoutSubprotocol, Opens, AuthRequired,
           Established
  <1>3. /\ phase' \in [Relays -> Phase]
        /\ \A d \in Relays \ {c} : phase'[d] = phase[d]
        /\ \/ phase'[c] = phase[c]
           \/ phase[c] = "trying" /\ phase'[c] = "returned"
    BY <1>2, ReturnsTyped DEF LinkInv, RelayTypeOK
  <1> QED BY <1>1, <1>2, <1>3, EndsKept

LEMMA ConnectFailsStart ==
  ASSUME LinkInv, StartInv, NEW c \in Relays, NEW s \in Sockets, ConnectFails(c, s)
  PROVE  StartInv'
  <1>1. /\ StartEnds(c) /\ overlap' = overlap /\ AttemptFails(c, s)
        /\ relayConnection' = IF phase'[c] = "threw" THEN None ELSE relayConnection
    BY DEF ConnectFails
  <1>2. socket[c][s] \in Attempt /\ socket[c][s] # "free"
    BY <1>1 DEF AttemptFails, Attempt
  <1>3. CASE c \in connectedOnce
    <2>1. phase' = phase /\ stopped' = stopped /\ phase[c] = "returned"
      BY <1>1, <1>2, <1>3, SlotFacts DEF AttemptFails
    <2>2. phase' \in [Relays -> Phase] /\ relayConnection' = relayConnection
      BY <1>1, <1>2, <2>1, SlotFacts
    <2> QED BY <1>1, <2>1, <2>2, EndsKept
  <1>4. CASE c \notin connectedOnce
    <2>1. /\ phase' = [phase EXCEPT ![c] = IF GivesUp(c) THEN "threw" ELSE "waiting"]
          /\ stopped' = IF GivesUp(c) THEN stopped \cup {c} ELSE stopped
      BY <1>1, <1>4 DEF AttemptFails
    <2>2. phase[c] = "trying"
      BY <1>2, <1>4, SlotFacts
    <2>3. /\ phase' \in [Relays -> Phase]
          /\ phase'[c] = IF GivesUp(c) THEN "threw" ELSE "waiting"
          /\ \A d \in Relays \ {c} : phase'[d] = phase[d]
          /\ phase'[c] = "threw" => c \in stopped'
          /\ stopped \subseteq stopped'
      BY <1>2, <2>1, SlotFacts DEF Phase
    <2> QED BY <1>1, <2>2, <2>3, EndsKept
  <1> QED BY <1>3, <1>4

LEMMA StopRelayStart ==
  ASSUME LinkInv, StartInv, StopRelay
  PROVE  StartInv'
  <1>1. /\ relayConnection \in Relays /\ relayConnection' = None
        /\ StopRelayConnection(relayConnection) /\ UNCHANGED <<start, overlap>>
    BY DEF StopRelay, StopCurrent, StartInv
  <1>2. phase' = phase /\ stopped' = stopped \cup {relayConnection}
    BY <1>1 DEF StopRelayConnection
  <1>3. Quieter /\ \A d \in Relays : d = relayConnection => ~ Running(d)'
    BY <1>2 DEF Quieter, Running, InInitialConnect
  <1>4. ~ overlap => \A d \in Relays : ~ Running(d)'
    BY <1>3 DEF StartInv, Quieter
  <1> QED BY <1>1, <1>3, <1>4 DEF StartInv, Quieter, AtWork

LEMMA StartRelayStart ==
  ASSUME LinkInv, StartInv, NEW c \in Relays, StartRelay(c)
  PROVE  StartInv'
  <1>1. start[c] = "new" /\ ~ InInitialConnect(c)
    BY DEF StartRelay, StartInv
  <1>2. CASE relayConnection # None /\ Connected(relayConnection)
    <2>1. /\ start' = [start EXCEPT ![c] = "done"]
          /\ UNCHANGED <<relayVars, relayConnection, overlap>>
      BY <1>2 DEF StartRelay
    <2>2. Quieter
      BY <2>1, UnchangedIsQuieter
    <2>3. /\ start' \in [Relays -> {"new", "imports", "starts", "done"}]
          /\ \A d \in Relays : /\ AtWork(d)' => AtWork(d)
                               /\ InInitialConnect(d)' <=> start'[d] = "starts"
      BY <1>1, <2>1, <2>2 DEF StartInv, AtWork, Quieter
    <2> QED BY <2>1, <2>2, <2>3 DEF StartInv, Quieter
  <1>3. CASE ~ (relayConnection # None /\ Connected(relayConnection))
    <2>1. /\ start' = [start EXCEPT ![c] = "imports"] /\ StopCurrent
          /\ overlap' = (overlap \/ \E d \in Relays \ {c} : AtWork(d))
      BY <1>3 DEF StartRelay
    <2>2. /\ relayConnection' = None /\ Quieter
          /\ \A d \in Relays : d = relayConnection => ~ Running(d)'
      <3>1. CASE relayConnection = None
        BY <2>1, <3>1, UnchangedIsQuieter, ServerAssumption DEF StopCurrent
      <3>2. CASE relayConnection # None
        BY <2>1, <3>2 DEF StopCurrent, StopRelayConnection, Quieter, Running, InInitialConnect
      <3> QED BY <3>1, <3>2
    <2>3. ~ overlap => \A d \in Relays : ~ Running(d)'
      BY <2>2, ServerAssumption DEF StartInv, Quieter
    <2>4. /\ start' \in [Relays -> {"new", "imports", "starts", "done"}]
          /\ \A d \in Relays \ {c} : AtWork(d)' <=> AtWork(d)
          /\ \A d \in Relays : InInitialConnect(d)' <=> start'[d] = "starts"
      BY <1>1, <2>1, <2>2 DEF StartInv, AtWork, Quieter
    <2>5. overlap' \in BOOLEAN
      BY <2>1 DEF StartInv
    <2>6. ~ overlap' => ~ overlap /\ \A d \in Relays \ {c} : ~ AtWork(d)'
      BY <2>1, <2>4
    <2> QED BY <2>2, <2>3, <2>4, <2>5, <2>6 DEF StartInv
  <1> QED BY <1>2, <1>3

LEMMA ImportedStart ==
  ASSUME LinkInv, StartInv, NEW c \in Relays, Imported(c)
  PROVE  StartInv'
  <1>1. /\ start[c] = "imports" /\ start' = [start EXCEPT ![c] = "starts"]
        /\ relayConnection' = c /\ overlap' = overlap
        /\ phase' = [phase EXCEPT ![c] = "trying"] /\ stopped' = stopped
    BY DEF Imported, Start
  <1>2. /\ start' \in [Relays -> {"new", "imports", "starts", "done"}]
        /\ \A d \in Relays : AtWork(d)' <=> AtWork(d)
        /\ \A d \in Relays : InInitialConnect(d)' <=> start'[d] = "starts"
    BY <1>1 DEF StartInv, AtWork, InInitialConnect, LinkInv, RelayTypeOK
  <1>3. \A d \in Relays \ {c} : Running(d)' <=> Running(d)
    BY <1>1 DEF Running, LinkInv, RelayTypeOK
  <1>4. AtWork(c)
    BY <1>1 DEF AtWork
  <1>5. ~ overlap => \A d \in Relays \ {c} : ~ Running(d) /\ ~ AtWork(d)
    BY <1>4 DEF StartInv
  <1> QED BY <1>1, <1>2, <1>3, <1>5 DEF StartInv

-----------------------------------------------------------------------------
(* Which relays are up, and what becomes of the connections behind them.   *)

\* No relay goes down.
NoneGoesDown == \A d \in Relays : LinkUp(d) => LinkUp(d)'

LEMMA ConnectKeepsUp ==
  ASSUME LinkInv, NEW c \in Relays, Connect(c)
  PROVE  NoneGoesDown
  <1>1. PICK s \in Sockets : socket[c][s] = "free" /\ Become(c, s, "credential")
    BY DEF Connect
  <1>2. /\ \A t \in Sockets \ {s} : socket'[c][t] = socket[c][t]
        /\ \A d \in Relays \ {c} : socket'[d] = socket[d]
    BY <1>1, Becomes DEF LinkInv, RelayTypeOK, Stage
  <1> QED BY <1>1, <1>2 DEF NoneGoesDown, LinkUp

LEMMA TransportCloseKeepsUp ==
  ASSUME LinkInv, NEW c \in Relays, TransportClose(c)
  PROVE  NoneGoesDown
  BY TransportClosed DEF NoneGoesDown, LinkUp

LEMMA TimersKeepUp ==
  ASSUME LinkInv, NEW c \in Relays, RetryStart(c) \/ TimerFires(c) \/ PongTimeout(c)
  PROVE  NoneGoesDown
  <1>1. Connect(c) \/ TransportClose(c)
    BY DEF RetryStart, TimerFires, PongTimeout
  <1> QED BY <1>1, ConnectKeepsUp, TransportCloseKeepsUp

\* The only socket of c changes, and was not up.
LEMMA AttemptKeepsUp ==
  ASSUME LinkInv, NEW c \in Relays, NEW s \in Sockets, socket[c][s] \in Attempt,
         NEW stage \in Stage, Become(c, s, stage)
  PROVE  NoneGoesDown
  <1>1. /\ \A t \in Sockets \ {s} : socket'[c][t] = socket[c][t]
        /\ \A d \in Relays \ {c} : socket'[d] = socket[d]
    BY Becomes DEF LinkInv, RelayTypeOK
  <1>2. socket[c][s] \notin {"live", "closing"}
    BY DEF Attempt
  <1> QED BY <1>1, <1>2 DEF NoneGoesDown, LinkUp

LEMMA ConnectStepKeepsUp ==
  ASSUME LinkInv, NEW c \in Relays, NEW s \in Sockets, ConnectStep(c, s)
  PROVE  NoneGoesDown
  <1>1. /\ socket[c][s] \in Attempt
        /\ \E stage \in {"free", "opening", "reopening", "probing", "authenticating",
                         "closing", "live"} : Become(c, s, stage)
    BY DEF ConnectStep, CredentialResolved, WithoutSubprotocol, Opens, AuthRequired,
           Established, Attempt
  <1> QED BY <1>1, AttemptKeepsUp DEF Stage

LEMMA ConnectionKept ==
  ASSUME ConnectionInv, NoneGoesDown, UNCHANGED <<gateVars, connection, late>>
  PROVE  ConnectionInv'
  <1>1. GateTypeOK'
    BY DEF ConnectionInv, GateTypeOK, gateVars
  <1>2. \A k \in Connections : IsOpen(k)' <=> IsOpen(k)
    BY DEF IsOpen
  <1>3. \A k \in Connections : Verifying(k)' = Verifying(k)
    BY DEF Verifying, gateVars
  <1>4. \A k \in Connections :
           IsOpen(k) /\ ~ connection[k].early => LinkUp(connection[k].relay)'
    BY DEF ConnectionInv, NoneGoesDown
  <1> QED BY <1>1, <1>2, <1>3, <1>4 DEF ConnectionInv, gateVars

\* A step of the gate alone.
LEMMA GateKept ==
  ASSUME ConnectionInv, UNCHANGED <<socket, connection, late>>, GateTypeOK',
         \A r \in AuthRequests :
            /\ request'[r].at \in {"waits", "verifies"} => request'[r].conn \in Connections
            /\ request'[r].at = "waits" => request'[r].after \in AuthRequests,
         \A k \in Connections :
            k \in authenticated' \cup reverify' \/ Verifying(k)' # {} => IsOpen(k) \/ k \in late
  PROVE  ConnectionInv'
  <1>1. \A k \in Connections : IsOpen(k)' <=> IsOpen(k)
    BY DEF IsOpen
  <1>2. \A k \in Connections : IsOpen(k)' /\ ~ connection'[k].early =>
                                   LinkUp(connection[k].relay)'
    BY <1>1 DEF ConnectionInv, LinkUp
  <1> QED BY <1>1, <1>2 DEF ConnectionInv

\* Connections are dropped, those of every relay that goes down among them.
LEMMA Dropped ==
  ASSUME ConnectionInv, NEW K \in SUBSET Connections, NEW L \in SUBSET Connections, K \subseteq L,
         Drop(K), HandleClose(L), UNCHANGED request, checking' \in SUBSET Connections,
         \A k \in Connections \ K, d \in Relays :
            IsOpen(k) /\ connection[k].relay = d /\ LinkUp(d) => LinkUp(d)'
  PROVE  ConnectionInv'
  <1>1. /\ connection' \in [Connections -> Connection]
        /\ \A k \in K : ~ IsOpen(k)'
        /\ \A k \in Connections \ K : connection'[k] = connection[k] /\ (IsOpen(k)' <=> IsOpen(k))
    <2> DEFINE closed(k) == [connection[k] EXCEPT !.state = "closed", !.relay = None,
                                                  !.client = None]
    <2>1. \A k \in Connections : connection[k] \in Connection
      BY DEF ConnectionInv
    <2>2. \A k \in Connections : closed(k) \in Connection /\ closed(k).state = "closed"
      BY <2>1 DEF Connection
    <2>3. connection' = [k \in Connections |-> IF k \in K THEN closed(k) ELSE connection[k]]
      BY DEF Drop
    <2> HIDE DEF closed
    <2> QED BY <2>1, <2>2, <2>3 DEF IsOpen
  <1>2. GateTypeOK'
    BY DEF ConnectionInv, GateTypeOK, HandleClose
  <1>3. /\ \A k \in Connections : Verifying(k)' = Verifying(k)
        /\ late' = late \cup {k \in K : Verifying(k) # {}}
    BY DEF Verifying, Drop
  <1>4. authenticated' = authenticated \ L /\ reverify' = reverify \ L
    BY DEF HandleClose
  <1>5. \A k \in Connections :
          /\ IsOpen(k)' => connection'[k].relay \in Relays
          /\ k \in authenticated' \cup reverify' \/ Verifying(k)' # {} => IsOpen(k)' \/ k \in late'
    BY <1>1, <1>3, <1>4 DEF ConnectionInv
  <1>6. \A k \in Connections : IsOpen(k)' /\ ~ connection'[k].early => LinkUp(connection[k].relay)'
    <2> SUFFICES ASSUME NEW k \in Connections, NEW d \in Relays, connection'[k].relay = d,
                        IsOpen(k)', ~ connection'[k].early
                 PROVE  LinkUp(d)'
      BY <1>5
    <2>1. k \notin K /\ connection'[k] = connection[k] /\ IsOpen(k)
      BY <1>1
    <2>2. LinkUp(d)
      BY <2>1 DEF ConnectionInv
    <2> QED BY <2>1, <2>2
  <1>7. \A j, k \in Connections :
          IsOpen(j)' /\ IsOpen(k)' /\ connection'[j].relay = connection'[k].relay
              /\ connection'[j].client = connection'[k].client => j = k
    BY <1>1 DEF ConnectionInv
  <1> QED BY <1>1, <1>2, <1>3, <1>5, <1>6, <1>7 DEF ConnectionInv

-----------------------------------------------------------------------------
(* The steps of the server keep ConnectionInv.                             *)

LEMMA CloseAllKept ==
  ASSUME ConnectionInv, NEW c \in Relays, CloseAll(c),
         \A d \in Relays \ {c} : LinkUp(d) => LinkUp(d)'
  PROVE  ConnectionInv'
  <1>1. /\ OpenOf(c) \in SUBSET Connections
        /\ Drop(OpenOf(c)) /\ HandleClose(OpenOf(c)) /\ UNCHANGED <<request, checking>>
    BY DEF CloseAll, OpenOf
  <1>2. \A k \in Connections \ OpenOf(c) : IsOpen(k) => connection[k].relay # c
    BY DEF OpenOf, IsOpen
  <1>3. checking' \in SUBSET Connections
    BY <1>1 DEF ConnectionInv, GateTypeOK
  <1> QED BY <1>1, <1>2, <1>3, Dropped

LEMMA ClientConnectedKept ==
  ASSUME ConnectionInv, NEW c \in Relays, NEW i \in RelayClients, ClientConnected(c, i)
  PROVE  ConnectionInv'
  <1> DEFINE new == [relay |-> c, client |-> i, state |-> "open", early |-> ~ Live(c)]
  <1>1. PICK k \in Connections : connection[k].state = "unused"
                                /\ connection' = [connection EXCEPT ![k] = new]
    BY DEF ClientConnected
  <1>2. UNCHANGED <<socket, gateVars, late>>
    BY DEF ClientConnected, relayVars
  <1>3. new \in Connection
    BY DEF Connection, Live
  <1>4. /\ connection' \in [Connections -> Connection]
        /\ IsOpen(k)' /\ ~ IsOpen(k)
        /\ connection'[k].relay = c /\ connection'[k].client = i
        /\ connection'[k].early = ~ Live(c)
        /\ \A j \in Connections \ {k} : connection'[j] = connection[j]
                                        /\ (IsOpen(j)' <=> IsOpen(j))
    BY <1>1, <1>3 DEF ConnectionInv, IsOpen
  <1>5. \A j \in Connections \ {k} :
           ~ (IsOpen(j) /\ connection[j].relay = c /\ connection[j].client = i)
    BY DEF ClientConnected, OpenOf, IsOpen
  <1>6. GateTypeOK' /\ \A j \in Connections : Verifying(j)' = Verifying(j)
    BY <1>2 DEF ConnectionInv, GateTypeOK, Verifying, gateVars
  <1>7. \A j \in Connections : IsOpen(j)' /\ ~ connection'[j].early => LinkUp(connection[j].relay)'
    <2> SUFFICES ASSUME NEW j \in Connections, IsOpen(j)', ~ connection'[j].early,
                        NEW d, connection'[j].relay = d
                 PROVE  LinkUp(d)
      BY <1>2 DEF LinkUp
    <2>1. CASE j = k
      BY <1>4, <2>1 DEF Live, LinkUp
    <2>2. CASE j # k
      BY <1>4, <2>2 DEF ConnectionInv
    <2> QED BY <2>1, <2>2
  <1> QED BY <1>2, <1>4, <1>5, <1>6, <1>7 DEF ConnectionInv, gateVars

LEMMA ClientDisconnectedKept ==
  ASSUME ConnectionInv, NEW k \in Connections, ClientDisconnected(k)
  PROVE  ConnectionInv'
  <1>1. /\ Drop({k}) /\ HandleClose({k}) /\ UNCHANGED <<socket, request, checking>>
    BY DEF ClientDisconnected, relayVars
  <1>2. \A d \in Relays : LinkUp(d)' <=> LinkUp(d)
    BY <1>1 DEF LinkUp
  <1>3. checking' \in SUBSET Connections
    BY <1>1 DEF ConnectionInv, GateTypeOK
  <1> QED BY <1>1, <1>2, <1>3, Dropped

LEMMA RevokedKept ==
  ASSUME ConnectionInv, NEW k \in Connections, RevokedAndDropped(k)
  PROVE  ConnectionInv'
  <1> DEFINE K == {k} \cap {j \in Connections : connection[j].state = "open"}
  <1>1. /\ Drop(K) /\ HandleClose({k}) /\ UNCHANGED <<socket, request>>
        /\ checking' = checking \ {k}
    BY DEF RevokedAndDropped, Revoked, relayVars
  <1>2. \A d \in Relays : LinkUp(d)' <=> LinkUp(d)
    BY <1>1 DEF LinkUp
  <1>3. checking' \in SUBSET Connections
    BY <1>1 DEF ConnectionInv, GateTypeOK
  <1>4. K \in SUBSET Connections /\ {k} \in SUBSET Connections /\ K \subseteq {k}
    OBVIOUS
  <1> HIDE DEF K
  <1> QED BY <1>1, <1>2, <1>3, <1>4, Dropped

LEMMA AuthenticateKept ==
  ASSUME ConnectionInv, NEW r \in AuthRequests, NEW k \in Connections, IsOpen(k),
         Authenticate(r, k), UNCHANGED <<socket, connection, late>>
  PROVE  ConnectionInv'
  <1> DEFINE new == request'[r]
  <1>1. request[r].at = "new" /\ UNCHANGED <<authenticated, reverify, checking>>
    BY DEF Authenticate
  <1>2. /\ request' = [request EXCEPT ![r] = new]
        /\ \/ new = Served /\ authentication' = authentication
           \/ /\ new = [at |-> "waits", conn |-> k, after |-> authentication[k]]
              /\ authentication[k] # NoOne /\ authentication' = authentication
           \/ /\ new = [at |-> "verifies", conn |-> k, after |-> NoOne]
              /\ authentication' = [authentication EXCEPT ![k] = r]
    <2>1. \A v : request' = [request EXCEPT ![r] = v] => new = v
      BY DEF ConnectionInv, GateTypeOK
    <2> QED BY <2>1 DEF Authenticate
  <1> HIDE DEF new
  <1>3. /\ new.at \in {"done", "waits", "verifies"}
        /\ new.conn = IF new.at = "done" THEN NoOne ELSE k
        /\ new.after = IF new.at = "waits" THEN authentication[k] ELSE NoOne
        /\ new.at = "waits" => authentication[k] # NoOne
        /\ authentication' = IF new.at = "verifies" THEN [authentication EXCEPT ![k] = r]
                             ELSE authentication
        /\ new = [at |-> new.at, conn |-> new.conn, after |-> new.after]
    BY <1>2 DEF Served
  <1>4. /\ authentication \in [Connections -> AuthRequests \cup {NoOne}]
        /\ \A j \in Connections : authentication[j] # NoOne =>
               /\ authentication[j] \in AuthRequests \ {r}
               /\ request[authentication[j]].at = "verifies"
               /\ request[authentication[j]].conn = j
    BY <1>1 DEF ConnectionInv, GateTypeOK
  <1>5. new \in [at : {"new", "waits", "verifies", "done"}, conn : Connections \cup {NoOne},
                 after : AuthRequests \cup {NoOne}]
    BY <1>3, <1>4
  <1>6. /\ request'[r] = new
        /\ \A q \in AuthRequests \ {r} : request'[q] = request[q]
    BY <1>2 DEF ConnectionInv, GateTypeOK, new
  <1>7. GateTypeOK'
    <2>1. /\ request' \in [AuthRequests -> [at : {"new", "waits", "verifies", "done"},
                                            conn : Connections \cup {NoOne},
                                            after : AuthRequests \cup {NoOne}]]
          /\ authentication' \in [Connections -> AuthRequests \cup {NoOne}]
      BY <1>2, <1>3, <1>4, <1>5 DEF ConnectionInv, GateTypeOK
    <2>2. \A j \in Connections : authentication'[j] # NoOne =>
             request'[authentication'[j]].at = "verifies"
             /\ request'[authentication'[j]].conn = j
      BY <1>2, <1>3, <1>4, <1>6
    <2>3. \A q \in AuthRequests : request'[q].at = "waits" =>
             request'[request'[q].after].at = "verifies"
      <3>1. CASE new.at = "waits"
        BY <1>1, <1>3, <1>4, <1>6, <3>1 DEF ConnectionInv, GateTypeOK
      <3>2. CASE new.at # "waits"
        BY <1>1, <1>6, <3>2 DEF ConnectionInv, GateTypeOK
      <3> QED BY <3>1, <3>2
    <2> QED BY <1>1, <2>1, <2>2, <2>3 DEF ConnectionInv, GateTypeOK
  <1>8. \A q \in AuthRequests :
          /\ request'[q].at \in {"waits", "verifies"} => request'[q].conn \in Connections
          /\ request'[q].at = "waits" => request'[q].after \in AuthRequests
    BY <1>3, <1>4, <1>6 DEF ConnectionInv
  <1>9. \A j \in Connections : Verifying(j)' # {} => Verifying(j) # {} \/ j = k
    BY <1>3, <1>6, ServerAssumption DEF Verifying
  <1> QED BY <1>1, <1>7, <1>8, <1>9, GateKept DEF ConnectionInv

LEMMA ClientFrameKept ==
  ASSUME ConnectionInv, NEW k \in Connections, ClientFrame(k)
  PROVE  ConnectionInv'
  <1>1. IsOpen(k) /\ UNCHANGED <<socket, connection, late>>
    BY DEF ClientFrame, IsOpen, relayVars, serverVars
  <1>2. CASE \E r \in AuthRequests : Authenticate(r, k)
    BY <1>1, <1>2, AuthenticateKept
  <1>3. CASE Logout(k)
    <2>1. /\ authenticated' = authenticated \ {k} /\ reverify' = reverify \ {k}
          /\ authentication' = [j \in Connections |-> IF j = k THEN NoOne ELSE authentication[j]]
          /\ UNCHANGED <<request, checking>>
      BY <1>3 DEF Logout, HandleClose
    <2>2. GateTypeOK'
      BY <2>1 DEF ConnectionInv, GateTypeOK
    <2>3. \A j \in Connections : Verifying(j)' = Verifying(j)
      BY <2>1 DEF Verifying
    <2> QED BY <1>1, <2>1, <2>2, <2>3, GateKept DEF ConnectionInv
  <1>4. Logout(k) \/ \E r \in AuthRequests : Authenticate(r, k)
    BY DEF ClientFrame
  <1> QED BY <1>2, <1>3, <1>4

LEMMA VerifiedKept ==
  ASSUME ConnectionInv, NEW r \in AuthRequests, Verified(r),
         UNCHANGED <<socket, connection, late>>
  PROVE  ConnectionInv'
  <1> DEFINE k == request[r].conn
             ended(q) == q = r \/ (request[q].at = "waits" /\ request[q].after = r)
  <1>1. /\ request[r].at = "verifies" /\ authenticated' = authenticated \cup {k}
        /\ reverify' \in {reverify, reverify \cup {k}}
        /\ authentication' = [authentication EXCEPT ![k] = IF @ = r THEN NoOne ELSE @]
        /\ UNCHANGED checking
    BY DEF Verified
  <1>2. request' = [q \in AuthRequests |-> IF ended(q) THEN Served ELSE request[q]]
    BY DEF Verified
  <1>3. k \in Connections /\ r \in Verifying(k)
    BY <1>1 DEF ConnectionInv, Verifying
  <1>4. /\ Served \in [at : {"new", "waits", "verifies", "done"}, conn : Connections \cup {NoOne},
                       after : AuthRequests \cup {NoOne}]
        /\ Served.at = "done" /\ Served.conn = NoOne
    BY DEF Served
  <1>5. \A j \in Connections : authentication'[j] # NoOne =>
           /\ authentication'[j] = authentication[j]
           /\ authentication[j] \in AuthRequests \ {r}
           /\ ~ ended(authentication[j])
    BY <1>1, <1>3 DEF ConnectionInv, GateTypeOK
  <1>6. GateTypeOK'
    <2>1. /\ authenticated' \in SUBSET Connections /\ reverify' \in SUBSET Connections
          /\ checking' \in SUBSET Connections
          /\ authentication' \in [Connections -> AuthRequests \cup {NoOne}]
      BY <1>1, <1>3 DEF ConnectionInv, GateTypeOK
    <2>2. request' \in [AuthRequests -> [at : {"new", "waits", "verifies", "done"},
                                        conn : Connections \cup {NoOne},
                                        after : AuthRequests \cup {NoOne}]]
      BY <1>2, <1>4 DEF ConnectionInv, GateTypeOK
    <2>3. \A j \in Connections : authentication'[j] # NoOne =>
             request'[authentication'[j]].at = "verifies"
             /\ request'[authentication'[j]].conn = j
      BY <1>2, <1>5 DEF ConnectionInv, GateTypeOK
    <2>4. \A q \in AuthRequests : request'[q].at = "waits" =>
             request'[request'[q].after].at = "verifies"
      <3> SUFFICES ASSUME NEW q \in AuthRequests, request'[q].at = "waits"
                   PROVE  request'[request'[q].after].at = "verifies"
        OBVIOUS
      <3>1. ~ ended(q) /\ request'[q] = request[q]
        BY <1>2, <1>4
      <3>2. /\ request[q].after \in AuthRequests \ {r}
            /\ request[request[q].after].at = "verifies"
        BY <3>1 DEF ConnectionInv, GateTypeOK
      <3> QED BY <1>2, <3>1, <3>2
    <2> QED BY <2>1, <2>2, <2>3, <2>4 DEF GateTypeOK
  <1>7. \A q \in AuthRequests : request'[q].at \in {"waits", "verifies"} => request'[q] = request[q]
    BY <1>2, <1>4
  <1>8. \A j \in Connections : Verifying(j)' # {} => Verifying(j) # {}
    BY <1>7 DEF Verifying
  <1> HIDE DEF k, ended
  <1> QED BY <1>1, <1>3, <1>6, <1>7, <1>8, GateKept DEF ConnectionInv

LEMMA VerificationFailsKept ==
  ASSUME ConnectionInv, NEW r \in AuthRequests, VerificationFails(r),
         UNCHANGED <<socket, connection, late>>
  PROVE  ConnectionInv'
  <1> DEFINE k == request[r].conn
             waiting == {q \in AuthRequests : request[q].at = "waits" /\ request[q].after = r}
             next == IF k \in authenticated THEN Served
                     ELSE [at |-> "verifies", conn |-> k, after |-> NoOne]
             freed == IF authentication[k] = r THEN NoOne ELSE authentication[k]
             Requests == [at : {"new", "waits", "verifies", "done"},
                          conn : Connections \cup {NoOne}, after : AuthRequests \cup {NoOne}]
  <1>1. /\ request[r].at = "verifies" /\ UNCHANGED <<authenticated, reverify, checking>>
        /\ request' = [q \in AuthRequests |-> IF q = r THEN Served
                                              ELSE IF q \in waiting THEN next ELSE request[q]]
    BY DEF VerificationFails
  <1>2. \/ authentication' = [authentication EXCEPT ![k] = freed]
        \/ /\ next # Served
           /\ \E last \in waiting : authentication' = [authentication EXCEPT ![k] = last]
    BY DEF VerificationFails
  <1>3. k \in Connections /\ r \in Verifying(k)
    BY <1>1 DEF ConnectionInv, Verifying
  <1>4. /\ Served \in Requests /\ Served.at = "done" /\ Served.conn = NoOne
        /\ next \in Requests
        /\ next # Served => next.at = "verifies" /\ next.conn = k
    BY <1>3 DEF Served
  <1>5. r \notin waiting /\ waiting \subseteq AuthRequests
    BY <1>1
  <1>6. /\ request \in [AuthRequests -> Requests]
        /\ authentication \in [Connections -> AuthRequests \cup {NoOne}]
        /\ authenticated \in SUBSET Connections /\ reverify \in SUBSET Connections
        /\ checking \in SUBSET Connections
        /\ \A j \in Connections : authentication[j] # NoOne =>
               /\ request[authentication[j]].at = "verifies" /\ authentication[j] \in AuthRequests
               /\ request[authentication[j]].conn = j
               /\ authentication[j] \notin waiting
    BY DEF ConnectionInv, GateTypeOK
  <1>7. \A q \in AuthRequests : request[q].at = "waits" =>
           /\ request[q].after \in AuthRequests \ waiting
           /\ request[request[q].after].at = "verifies"
    BY DEF ConnectionInv, GateTypeOK
  <1>8. \A q \in AuthRequests : request[q].at \in {"waits", "verifies"} =>
           request[q].conn \in Connections
    BY DEF ConnectionInv
  <1>9. \A q \in waiting : request[q].at = "waits" /\ request[q].after = r
    OBVIOUS
  <1>10. \A q \in AuthRequests : request[q].at = "waits" /\ request[q].after = r => q \in waiting
    OBVIOUS
  <1> HIDE DEF waiting, next, Requests, k
  <1>11. request' \in [AuthRequests -> Requests]
    BY <1>1, <1>4, <1>6
  <1>12. authentication' \in [Connections -> AuthRequests \cup {NoOne}]
    BY <1>2, <1>3, <1>5, <1>6
  <1>13. \A j \in Connections : authentication'[j] # NoOne =>
             request'[authentication'[j]].at = "verifies"
             /\ request'[authentication'[j]].conn = j
    <2> SUFFICES ASSUME NEW j \in Connections, authentication'[j] # NoOne
                 PROVE  request'[authentication'[j]].at = "verifies"
                        /\ request'[authentication'[j]].conn = j
      OBVIOUS
    <2>1. CASE authentication'[j] = authentication[j] /\ authentication[j] # r
      BY <1>1, <1>6, <2>1
    <2>2. CASE j = k /\ next # Served /\ authentication'[j] \in waiting
      BY <1>1, <1>4, <1>5, <2>2
    <2>3. authentication[j] = r => j = k
      BY <1>6, GateAssumption DEF k
    <2>4. CASE authentication' = [authentication EXCEPT ![k] = freed]
      <3>1. authentication'[j] = IF j = k THEN freed ELSE authentication[j]
        BY <1>3, <1>6, <2>4
      <3>2. authentication'[j] = authentication[j] /\ authentication[j] # r
        BY <2>3, <3>1
      <3> QED BY <2>1, <3>2
    <2>5. ASSUME next # Served, NEW last \in waiting,
                 authentication' = [authentication EXCEPT ![k] = last]
          PROVE  request'[authentication'[j]].at = "verifies"
                 /\ request'[authentication'[j]].conn = j
      <3>1. authentication'[j] = IF j = k THEN last ELSE authentication[j]
        BY <1>3, <1>6, <2>5
      <3> QED BY <2>1, <2>2, <2>3, <2>5, <3>1
    <2> QED BY <1>2, <2>4, <2>5
  <1>14. \A q \in AuthRequests : request'[q].at = "waits" =>
            /\ request'[q].after \in AuthRequests
            /\ request'[request'[q].after].at = "verifies"
    <2> SUFFICES ASSUME NEW q \in AuthRequests, request'[q].at = "waits"
                 PROVE  /\ request'[q].after \in AuthRequests
                        /\ request'[request'[q].after].at = "verifies"
      OBVIOUS
    <2>1. q # r /\ q \notin waiting /\ request'[q] = request[q]
      BY <1>1, <1>4
    <2>2. request[q].after \in AuthRequests \ (waiting \cup {r})
      BY <1>7, <1>10, <2>1
    <2> QED BY <1>1, <1>7, <2>1, <2>2
  <1>15. \A q \in AuthRequests : request'[q].at \in {"waits", "verifies"} =>
            request'[q].conn = k \/ request'[q] = request[q]
    BY <1>1, <1>4
  <1>16. \A j \in Connections : Verifying(j)' # {} => Verifying(j) # {}
    BY <1>3, <1>15 DEF Verifying
  <1>17. \A q \in AuthRequests : request'[q].at \in {"waits", "verifies"} =>
            request'[q].conn \in Connections
    BY <1>3, <1>8, <1>15
  <1>18. GateTypeOK'
    BY <1>1, <1>6, <1>11, <1>12, <1>13, <1>14 DEF GateTypeOK, Requests
  <1> QED BY <1>1, <1>14, <1>16, <1>17, <1>18, GateKept DEF ConnectionInv

LEMMA VerificationKept ==
  ASSUME ConnectionInv, Verification
  PROVE  ConnectionInv'
  <1>1. UNCHANGED <<socket, connection, late>>
    BY DEF Verification, relayVars, serverVars
  <1>2. CASE \E r \in AuthRequests : Verified(r) \/ VerificationFails(r)
    BY <1>1, <1>2, VerifiedKept, VerificationFailsKept
  <1>3. CASE \E k \in Connections : Reverify(k) \/ StillGranted(k)
    <2>1. /\ UNCHANGED <<authenticated, authentication, request, reverify>>
          /\ checking' \in SUBSET Connections
      BY <1>3 DEF Reverify, StillGranted, ConnectionInv, GateTypeOK
    <2>2. GateTypeOK' /\ \A j \in Connections : Verifying(j)' = Verifying(j)
      BY <2>1 DEF ConnectionInv, GateTypeOK, Verifying
    <2> QED BY <1>1, <2>1, <2>2, GateKept DEF ConnectionInv
  <1> QED BY <1>2, <1>3 DEF Verification

LEMMA StopCurrentKept ==
  ASSUME LinkInv, StartInv, ConnectionInv, StopCurrent
  PROVE  LinkInv' /\ ConnectionInv'
  <1>1. CASE relayConnection = None
    <2>1. UNCHANGED <<relayVars, gateVars, connection, late>>
      BY <1>1 DEF StopCurrent
    <2>2. NoneGoesDown
      BY <2>1 DEF NoneGoesDown, LinkUp, relayVars
    <2> QED BY <2>1, <2>2, LinkUnchanged, ConnectionKept
  <1>2. CASE relayConnection # None
    <2>1. PICK c \in Relays : c = relayConnection /\ StopRelayConnection(c) /\ CloseAll(c)
      BY <1>2 DEF StopCurrent, StartInv
    <2>2. NoneGoesDown
      BY <2>1, TransportCloseKeepsUp DEF StopRelayConnection
    <2> QED BY <2>1, <2>2, StopLink, CloseAllKept DEF NoneGoesDown
  <1> QED BY <1>1, <1>2

LEMMA ConnectFailsKept ==
  ASSUME LinkInv, ConnectionInv, NEW c \in Relays, NEW s \in Sockets, ConnectFails(c, s)
  PROVE  ConnectionInv'
  <1>1. socket[c][s] \in Attempt /\ Become(c, s, "free")
    BY DEF ConnectFails, AttemptFails
  <1>2. NoneGoesDown
    BY <1>1, AttemptKeepsUp DEF Stage
  <1>3. CloseAll(c) \/ UNCHANGED <<gateVars, connection, late>>
    BY DEF ConnectFails
  <1> QED BY <1>2, <1>3, CloseAllKept, ConnectionKept DEF NoneGoesDown

LEMMA SocketGoneKept ==
  ASSUME LinkInv, ConnectionInv, NEW c \in Relays, NEW s \in Sockets, SocketGone(c, s)
  PROVE  ConnectionInv'
  <1>1. Become(c, s, "free") /\ CloseAll(c)
    BY DEF SocketGone, SocketCloses
  <1>2. \A d \in Relays \ {c} : socket'[d] = socket[d]
    BY <1>1, Becomes DEF LinkInv, RelayTypeOK, Stage
  <1>3. \A d \in Relays \ {c} : LinkUp(d) => LinkUp(d)'
    BY <1>2 DEF LinkUp
  <1> QED BY <1>1, <1>3, CloseAllKept

-----------------------------------------------------------------------------
(* The inductive invariant holds.                                          *)

LEMMA InitIInv == Init => IInv
  <1> SUFFICES ASSUME Init
               PROVE  IInv
    OBVIOUS
  <1>1. LinkInv
    <2>1. RelayTypeOK
      BY RelayAssumption DEF Init, RelayInit, RelayTypeOK, Phase, Stage, Open
    <2>2. \A c \in Relays : phase[c] = "none" /\ c \notin timer \cup connectedOnce /\ Busy(c) = {}
      BY DEF Init, RelayInit, Busy
    <2>3. \A c \in Relays, s \in Sockets : socket[c][s] = "free"
      BY DEF Init, RelayInit
    <2> QED BY <2>1, <2>2, <2>3 DEF LinkInv, LinkOK, Attempt
  <1>2. StartInv
    BY DEF Init, RelayInit, StartInv, InInitialConnect, Running, AtWork
  <1>3. ConnectionInv
    <2>1. GateTypeOK /\ \A r \in AuthRequests : request[r].at = "new"
      BY DEF Init, GateInit, GateTypeOK, NoRequest
    <2>2. \A k \in Connections : Verifying(k) = {} /\ k \notin authenticated \cup reverify
      BY <2>1 DEF Verifying, Init, GateInit
    <2>3. connection \in [Connections -> Connection] /\ late = {}
          /\ \A k \in Connections : ~ IsOpen(k)
      BY DEF Init, Connection, IsOpen
    <2> QED BY <2>1, <2>2, <2>3 DEF ConnectionInv
  <1> QED BY <1>1, <1>2, <1>3 DEF IInv

LEMMA NextIInv == IInv /\ [Next]_vars => IInv'
  <1> SUFFICES ASSUME LinkInv, StartInv, ConnectionInv, [Next]_vars
               PROVE  LinkInv' /\ StartInv' /\ ConnectionInv'
    BY DEF IInv
  <1>1. CASE StopRelay
    <2>1. StopCurrent
      BY <1>1 DEF StopRelay
    <2> QED BY <1>1, <2>1, StopCurrentKept, StopRelayStart
  <1>2. CASE Verification
    <2>1. UNCHANGED relayVars /\ UNCHANGED <<start, relayConnection, overlap>>
      BY <1>2 DEF Verification, serverVars
    <2> QED BY <1>2, <2>1, LinkUnchanged, UnchangedIsQuieter, StartKept, VerificationKept
  <1>3. ASSUME NEW c \in Relays, StartRelay(c)
        PROVE  LinkInv' /\ StartInv' /\ ConnectionInv'
    <2>1. CASE StopCurrent
      BY <1>3, <2>1, StopCurrentKept, StartRelayStart
    <2>2. CASE UNCHANGED <<relayVars, gateVars, connection, late>>
      <3>1. NoneGoesDown
        BY <2>2 DEF NoneGoesDown, LinkUp, relayVars
      <3> QED BY <1>3, <2>2, <3>1, LinkUnchanged, ConnectionKept, StartRelayStart
    <2> QED BY <1>3, <2>1, <2>2 DEF StartRelay
  <1>4. ASSUME NEW c \in Relays, Imported(c)
        PROVE  LinkInv' /\ StartInv' /\ ConnectionInv'
    <2>1. Start(c) /\ UNCHANGED <<gateVars, connection, late>>
      BY <1>4 DEF Imported
    <2>2. NoneGoesDown
      BY <2>1, ConnectKeepsUp DEF Start
    <2> QED BY <1>4, <2>1, <2>2, StartLink, ImportedStart, ConnectionKept
  <1>5. ASSUME NEW c \in Relays, Timers(c)
        PROVE  LinkInv' /\ StartInv' /\ ConnectionInv'
    <2>1. /\ RetryStart(c) \/ TimerFires(c) \/ PongTimeout(c)
          /\ UNCHANGED <<gateVars, start, relayConnection, connection, overlap, late>>
      BY <1>5 DEF Timers, serverVars
    <2>2. LinkInv'
      BY <2>1, RetryStartLink, TimerFiresLink, PongTimeoutLink
    <2> QED BY <2>1, <2>2, TimersQuieter, StartKept, TimersKeepUp, ConnectionKept
  <1>6. ASSUME NEW c \in Relays, NEW i \in RelayClients, ClientConnected(c, i)
        PROVE  LinkInv' /\ StartInv' /\ ConnectionInv'
    <2>1. UNCHANGED relayVars /\ UNCHANGED <<start, relayConnection, overlap>>
      BY <1>6 DEF ClientConnected
    <2> QED BY <1>6, <2>1, LinkUnchanged, UnchangedIsQuieter, StartKept, ClientConnectedKept
  <1>7. ASSUME NEW c \in Relays, NEW s \in Sockets, ConnectStep(c, s)
        PROVE  LinkInv' /\ StartInv' /\ ConnectionInv'
    <2>1. LinkInv'
      BY <1>7, CredentialResolvedLink, WithoutSubprotocolLink, OpensLink, AuthRequiredLink,
         EstablishedLink DEF ConnectStep
    <2>2. UNCHANGED <<gateVars, connection, late>>
      BY <1>7 DEF ConnectStep
    <2> QED BY <1>7, <2>1, <2>2, ConnectStepStart, ConnectStepKeepsUp, ConnectionKept
  <1>8. ASSUME NEW c \in Relays, NEW s \in Sockets, ConnectFails(c, s)
        PROVE  LinkInv' /\ StartInv' /\ ConnectionInv'
    <2>1. LinkInv'
      BY <1>8, AttemptFailsLink DEF ConnectFails
    <2> QED BY <1>8, <2>1, ConnectFailsStart, ConnectFailsKept
  <1>9. ASSUME NEW c \in Relays, NEW s \in Sockets, SocketGone(c, s)
        PROVE  LinkInv' /\ StartInv' /\ ConnectionInv'
    <2>1. LinkInv'
      BY <1>9, SocketClosesLink DEF SocketGone
    <2>2. Quieter /\ UNCHANGED <<start, relayConnection, overlap>>
      BY <1>9 DEF SocketGone, SocketCloses, Quieter, Running, InInitialConnect
    <2> QED BY <1>9, <2>1, <2>2, StartKept, SocketGoneKept
  <1>10. ASSUME NEW k \in Connections,
                ClientDisconnected(k) \/ ClientFrame(k) \/ RevokedAndDropped(k)
         PROVE  LinkInv' /\ StartInv' /\ ConnectionInv'
    <2>1. UNCHANGED relayVars /\ UNCHANGED <<start, relayConnection, overlap>>
      BY <1>10 DEF ClientDisconnected, ClientFrame, RevokedAndDropped, serverVars
    <2> QED BY <1>10, <2>1, LinkUnchanged, UnchangedIsQuieter, StartKept,
               ClientDisconnectedKept, ClientFrameKept, RevokedKept
  <1>11. CASE UNCHANGED vars
    <2>1. /\ UNCHANGED relayVars
          /\ UNCHANGED <<gateVars, start, relayConnection, connection, overlap, late>>
      BY <1>11 DEF vars, serverVars
    <2>2. NoneGoesDown
      BY <2>1 DEF NoneGoesDown, LinkUp, relayVars
    <2> QED BY <2>1, <2>2, LinkUnchanged, UnchangedIsQuieter, StartKept, ConnectionKept
  <1> QED BY <1>1, <1>2, <1>3, <1>4, <1>5, <1>6, <1>7, <1>8, <1>9, <1>10, <1>11 DEF Next

LEMMA Inductive == Spec => []IInv
  BY InitIInv, NextIInv, PTL DEF Spec

-----------------------------------------------------------------------------
\* Every reachable state is well-formed: the transport's field is the open
\* socket, the daemon.relay.start request that waits for its relay connection
\* does so as long as start does, and a client id of a relay has one open
\* connection.
THEOREM RelayTypeCorrect == Spec => []TypeOK
  <1>1. IInv => TypeOK
    BY DEF IInv, LinkInv, StartInv, ConnectionInv, TypeOK, IsOpen
  <1> QED BY <1>1, Inductive, PTL

\* A relay connection that was started and not stopped has exactly one call of
\* connect, one socket or one timer, whatever number of attempts, sockets and
\* relay connections there are (RelayConnection.start, connect,
\* handleTransportClose and scheduleReconnect).
THEOREM OneWayAlways == Spec => []OneWay
  <1>1. IInv => OneWay
    BY LinkIsOneWay DEF IInv
  <1> QED BY <1>1, Inductive, PTL

\* For any number of start requests, stopRelay stops every relay connection
\* that runs unless two start requests were at work at once (startRelay).
THEOREM OneRelayUnlessOverlap == Spec => []OneRelay
  <1>1. IInv => OneRelay
    BY DEF IInv, StartInv, OneRelay
  <1> QED BY <1>1, Inductive, PTL

\* For any number of clients and authentications, whoever is registered can be
\* reached, with the two exceptions of the property
\* (registerAuthenticatedConnection, handleClose, handleTransportClose).
THEOREM RegisteredReachable == Spec => []RegisteredIsReachable
  <1>1. IInv => RegisteredIsReachable
    BY DEF IInv, ConnectionInv, GateTypeOK, RegisteredIsReachable, IsOpen, LinkUp
  <1> QED BY <1>1, Inductive, PTL
=============================================================================
