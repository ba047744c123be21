----------------------- MODULE DroolRegistry_proofs -----------------------
(***************************************************************************)
(* The safety properties of DroolRegistry, for any number of requests in   *)
(* flight, clients, connections, expired timers and crashes.               *)
(***************************************************************************)
EXTENDS DroolRegistry, TLAPS

-----------------------------------------------------------------------------
(* The inductive invariant.                                                *)

\* Of one request: a request in flight has a connection and a kind, only a
\* load can be where a load waits for another one.
LoadOnly == WaitsForLoad \cup WaitsForCreation
            \cup {"load", "joined", "retry", "reuse", "reject"}
RequestOK(q) ==
    /\ q \in Request
    /\ WellFormed(q)
    /\ q.pc # "idle" => q.kind \in Kind /\ q.conn \in Conns
    /\ q.pc \in LoadOnly => q.kind = "load"

RequestsOK(rs) == rs \in [Slots -> Request] /\ \A r \in Slots : RequestOK(rs[r])
RequestInv == RequestsOK(req)

\* Of the maps and the processes.
StateInv ==
    /\ proc \in [Clients -> Process]
    /\ registered \in Clients \cup {None}
    /\ listeners \subseteq Conns
    /\ timer \in BOOLEAN
    /\ orphans \in Nat
    /\ expiring \subseteq Clients
    /\ immediate \subseteq Clients
    /\ pendingLoad \in Slots \cup {None}
    /\ pendingCreation \in Slots \cup {None}
    /\ open \subseteq Conns
    /\ counts \in [{"requests", "expiries", "crashes"} -> Nat]

\* A process is born before anything refers to it.
BornInv ==
    /\ registered # None => proc[registered] # "unborn"
    /\ \A r \in Slots : req[r].on \in Clients => proc[req[r].on] # "unborn"

\* Of the clients that are being created: each is live, not yet registered and
\* known to one request, and the creation of a load is the pending one.
CreationInv ==
    /\ \A r \in Slots : Creating(r) => proc[req[r].on] = "up" /\ req[r].on # registered
    /\ \A r, s \in Slots : Creating(r) /\ Creating(s) /\ req[r].on = req[s].on => r = s
    /\ \A r \in Slots : Creating(r) /\ req[r].kind = "load" => pendingCreation = r
    /\ pendingCreation # None =>
           /\ req[pendingCreation].pc \in {"create", "failing", "lost"}
           /\ req[pendingCreation].kind = "load"
    /\ \A r \in Slots : req[r].pc = "awaitCreation" => req[r].on = pendingCreation

\* Of the entry: a load woken by a creation finds the client it was woken for.
EntryInv ==
    /\ DeadEntryIsTransient
    /\ \A r \in Slots : req[r].pc = "reuse" => registered = req[r].on /\ proc[registered] = "up"

\* Of the time before a timeout expires.
QuietInv ==
    counts["expiries"] = 0 =>
        /\ expiring = {}
        /\ \A c \in Clients : proc[c] = "up" /\ c # registered =>
               \E r \in Slots : Creating(r) /\ req[r].on = c
        /\ \A r \in Slots : req[r].pc = "load" =>
               /\ registered = req[r].on
               /\ req[r].conn \in open => req[r].conn \in listeners

IInv == RequestInv /\ StateInv /\ BornInv /\ CreationInv /\ EntryInv /\ QuietInv

-----------------------------------------------------------------------------
\* A request whose client goes away is lost.
LEMMA LostOK ==
  ASSUME NEW q, RequestOK(q), q.pc \in WaitsForAnswer
  PROVE  /\ RequestOK([q EXCEPT !.pc = "lost"])
         /\ [q EXCEPT !.pc = "lost"].pc = "lost"
         /\ [q EXCEPT !.pc = "lost"].on = q.on
         /\ [q EXCEPT !.pc = "lost"].kind = q.kind
  BY RegistryAssumption DEF RequestOK, WellFormed, Request, LoadOnly, WaitsForAnswer,
     WaitsForLoad, WaitsForCreation, WaitsForExit, PC, Ready, NoRequest

LEMMA FailedFacts ==
  ASSUME NEW c, NEW rs, RequestsOK(rs)
  PROVE  /\ RequestsOK(Failed(c, rs))
         /\ \A s \in Slots :
              IF rs[s].on = c /\ rs[s].pc \in WaitsForAnswer
              THEN /\ Failed(c, rs)[s].pc = "lost"
                   /\ Failed(c, rs)[s].on = rs[s].on
                   /\ Failed(c, rs)[s].kind = rs[s].kind
              ELSE Failed(c, rs)[s] = rs[s]
  <1>1. \A s \in Slots : Failed(c, rs)[s] = IF rs[s].on = c /\ rs[s].pc \in WaitsForAnswer
                                         THEN [rs[s] EXCEPT !.pc = "lost"] ELSE rs[s]
    BY DEF Failed
  <1>2. \A s \in Slots : RequestOK(Failed(c, rs)[s])
    BY <1>1, LostOK DEF RequestsOK
  <1>3. Failed(c, rs) \in [Slots -> Request]
    BY <1>2 DEF Failed, RequestOK
  <1>4. \A s \in Slots :
              IF rs[s].on = c /\ rs[s].pc \in WaitsForAnswer
              THEN /\ Failed(c, rs)[s].pc = "lost"
                   /\ Failed(c, rs)[s].on = rs[s].on
                   /\ Failed(c, rs)[s].kind = rs[s].kind
              ELSE Failed(c, rs)[s] = rs[s]
    <2> SUFFICES ASSUME NEW s \in Slots, rs[s].on = c, rs[s].pc \in WaitsForAnswer
                 PROVE  /\ Failed(c, rs)[s].pc = "lost"
                        /\ Failed(c, rs)[s].on = rs[s].on
                        /\ Failed(c, rs)[s].kind = rs[s].kind
      BY <1>1
    <2>1. RequestOK(rs[s]) /\ Failed(c, rs)[s] = [rs[s] EXCEPT !.pc = "lost"]
      BY <1>1 DEF RequestsOK
    <2> QED BY <2>1, LostOK
  <1> QED BY <1>2, <1>3, <1>4 DEF RequestsOK

\* unregisterDroolClient up to its await, for requests that were ready.
LEMMA UnregisterInv ==
  ASSUME IInv, registered # None,
         NEW next, RequestsOK(next), Unregister(next),
         \A s \in Slots :
            \/ next[s] = req[s]
            \/ /\ req[s].pc \in {"idle", "joined", "retry"}
               /\ next[s].pc = "unregister" /\ next[s].on = registered,
         ~ IsConnected(registered) \/ Settled,
         pendingCreation' = pendingCreation, pendingLoad' \in Slots \cup {None},
         orphans' = orphans, expiring' = expiring, immediate' \subseteq immediate,
         open' = open,
         counts' \in [{"requests", "expiries", "crashes"} -> Nat],
         counts'["expiries"] = counts["expiries"]
  PROVE  IInv'
  <1> USE RegistryAssumption
  <1>1. RequestInv'
    BY FailedFacts DEF RequestInv, Unregister
  <1>2. \A s \in Slots :
           \/ req'[s] = req[s] /\ ~ (req[s].on = registered /\ req[s].pc \in WaitsForAnswer)
           \/ /\ req'[s].on = req[s].on /\ req'[s].kind = req[s].kind
              /\ req'[s].pc = "lost" /\ req[s].pc \in WaitsForAnswer /\ req[s].on = registered
           \/ /\ req[s].pc \in {"idle", "joined", "retry"}
              /\ req'[s].pc = "unregister" /\ req'[s].on = registered
    BY FailedFacts DEF Unregister, WaitsForAnswer
  <1>3. /\ proc' \in [Clients -> Process]
        /\ \A c \in Clients : proc'[c] = IF c = registered /\ proc[c] = "up" THEN "closing" ELSE proc[c]
        /\ registered' = None /\ listeners' = {} /\ timer' = FALSE
    BY DEF IInv, StateInv, Unregister, Closed, Process
  <1>4. StateInv'
    BY <1>3 DEF IInv, StateInv
  <1>5. BornInv'
    BY <1>2, <1>3 DEF IInv, BornInv, StateInv
  <1>6. CreationInv'
    BY <1>2, <1>3 DEF IInv, CreationInv, Creating, WaitsForAnswer, StateInv, RequestInv, RequestsOK, RequestOK, WellFormed, WaitsForExit
  <1>7. EntryInv'
    BY <1>2, <1>3 DEF IInv, EntryInv, DeadEntryIsTransient, IsConnected, Settled, Ready
  <1>8. QuietInv'
    BY <1>2, <1>3 DEF IInv, QuietInv, Creating, WaitsForAnswer, StateInv, CreationInv
  <1> QED BY <1>1, <1>4, <1>5, <1>6, <1>7, <1>8 DEF IInv

\* One request goes on, without a step of a process: what it waits for next
\* is there.
LEMMA GoesOnInv ==
  ASSUME IInv, NEW r \in Slots, NEW q, RequestOK(q),
         req' = [req EXCEPT ![r] = q],
         req[r].pc # "create", pendingCreation # r,
         q.pc \notin {"create", "reuse"},
         q.pc = "awaitCreation" => q.on = pendingCreation,
         q.pc = "load" => registered = q.on /\ q.conn \in listeners',
         q.on \in Clients => proc[q.on] # "unborn",
         UNCHANGED <<proc, registered, orphans, expiring, immediate, pendingCreation, open>>,
         listeners \subseteq listeners', listeners' \subseteq Conns, timer' \in BOOLEAN,
         pendingLoad' \in Slots \cup {None},
         counts' \in [{"requests", "expiries", "crashes"} -> Nat],
         counts'["expiries"] = counts["expiries"]
  PROVE  IInv'
  <1> USE RegistryAssumption
  <1>1. /\ req' \in [Slots -> Request] /\ req'[r] = q
        /\ \A s \in Slots \ {r} : req'[s] = req[s]
    BY DEF IInv, RequestInv, RequestsOK, RequestOK
  <1>2. RequestInv'
    BY <1>1 DEF IInv, RequestInv, RequestsOK
  <1>3. StateInv'
    BY DEF IInv, StateInv
  <1>4. BornInv'
    BY <1>1 DEF IInv, BornInv
  <1>5. CreationInv'
    BY <1>1 DEF IInv, CreationInv, Creating
  <1>6. EntryInv'
    BY <1>1 DEF IInv, EntryInv, DeadEntryIsTransient, IsConnected
  <1>7. QuietInv'
    BY <1>1 DEF IInv, QuietInv, Creating
  <1> QED BY <1>2, <1>3, <1>4, <1>5, <1>6, <1>7 DEF IInv

\* createDroolClientForLoadSession: a request that was ready starts a process.
LEMMA SpawnInv ==
  ASSUME IInv, NEW r \in Slots, NEW q,
         q \in Request, q.kind \in {"load", "message"}, q.conn \in Conns,
         Spawn(r, q),
         req[r].pc \in {"idle", "joined", "retry", "unregister"},
         \/ q.kind = "message" /\ pendingCreation' = pendingCreation
         \/ q.kind = "load" /\ pendingCreation = None /\ pendingCreation' = r,
         UNCHANGED <<registry, timers, open>>,
         pendingLoad' \in Slots \cup {None},
         counts' \in [{"requests", "expiries", "crashes"} -> Nat],
         counts'["expiries"] = counts["expiries"]
  PROVE  IInv'
  <1> USE RegistryAssumption
  <1>1. PICK c \in Clients : /\ proc[c] = "unborn"
                             /\ proc' = [proc EXCEPT ![c] = "up"]
                             /\ req' = [req EXCEPT ![r] = [q EXCEPT !.pc = "create", !.on = c]]
    BY DEF Spawn
  <1> DEFINE n == [q EXCEPT !.pc = "create", !.on = c]
  <1>2. RequestOK(n) /\ n.pc = "create" /\ n.on = c /\ n.kind = q.kind
    BY DEF RequestOK, WellFormed, Request, LoadOnly, WaitsForAnswer,
     WaitsForLoad, WaitsForCreation, WaitsForExit, PC, Ready, NoRequest, Kind
  <1> HIDE DEF n
  <1>3. /\ req' \in [Slots -> Request] /\ req'[r] = n
        /\ \A s \in Slots \ {r} : req'[s] = req[s]
    BY <1>1, <1>2 DEF IInv, RequestInv, RequestsOK, RequestOK, n
  <1>4. /\ proc' \in [Clients -> Process] /\ proc'[c] = "up"
        /\ \A d \in Clients \ {c} : proc'[d] = proc[d]
    BY <1>1 DEF IInv, StateInv, Process
  <1>5. RequestInv'
    BY <1>2, <1>3 DEF IInv, RequestInv, RequestsOK
  <1>6. StateInv'
    BY <1>4 DEF IInv, StateInv, registry, timers
  <1>7. BornInv'
    BY <1>2, <1>3, <1>4 DEF IInv, BornInv, StateInv, registry
  <1>8. CreationInv'
    <2>1. \A s \in Slots \ {r} : Creating(s) =>
              proc[req[s].on] = "up" /\ req[s].on \in Clients \ {c, registered}
      BY <1>1 DEF IInv, CreationInv, Creating, RequestInv, RequestsOK, RequestOK, WellFormed, WaitsForAnswer
    <2>2. registered # c
      BY <1>1 DEF IInv, BornInv
    <2>3. \A s \in Slots \ {r} : Creating(s)' <=> Creating(s)
      BY <1>3 DEF Creating
    <2>4. \A s \in Slots : Creating(s)' => proc'[req'[s].on] = "up" /\ req'[s].on # registered'
      BY <1>2, <1>3, <1>4, <2>1, <2>2, <2>3 DEF registry
    <2>5. \A s, t \in Slots : Creating(s)' /\ Creating(t)' /\ req'[s].on = req'[t].on => s = t
      BY <1>2, <1>3, <2>1, <2>3 DEF IInv, CreationInv
    <2>6. \A s \in Slots : Creating(s)' /\ req'[s].kind = "load" => pendingCreation' = s
      BY <1>2, <1>3, <2>3 DEF IInv, CreationInv
    <2>7. pendingCreation' # None => /\ req'[pendingCreation'].pc \in {"create", "failing", "lost"}
                                     /\ req'[pendingCreation'].kind = "load"
      BY <1>2, <1>3 DEF IInv, CreationInv, StateInv
    <2>8. \A s \in Slots : req'[s].pc = "awaitCreation" => req'[s].on = pendingCreation'
      BY <1>2, <1>3 DEF IInv, CreationInv, RequestInv, RequestsOK, RequestOK, WellFormed, WaitsForCreation
    <2> QED BY <2>4, <2>5, <2>6, <2>7, <2>8 DEF CreationInv
  <1>9. EntryInv'
    BY <1>1, <1>2, <1>3, <1>4 DEF IInv, EntryInv, DeadEntryIsTransient, IsConnected, StateInv, registry, timers
  <1>10. QuietInv'
    BY <1>1, <1>2, <1>3, <1>4 DEF IInv, QuietInv, Creating, BornInv, registry, timers
  <1> QED BY <1>5, <1>6, <1>7, <1>8, <1>9, <1>10 DEF IInv

\* A load settles: what it does to the requests.
LEMMA SettlesFacts ==
  ASSUME RequestInv, NEW r \in Slots, NEW ok \in BOOLEAN, ok => req[r].on \in Clients
  PROVE  /\ RequestsOK(LoadSettles(r, ok))
         /\ LoadSettles(r, ok)[r] = NoRequest
         /\ \A s \in Slots \ {r} :
              \/ /\ LoadSettles(r, ok)[s] = req[s]
                 /\ ~ (req[s].pc = "awaitCreation" /\ req[s].on = r)
              \/ /\ req[s].pc = "follow"
                 /\ LoadSettles(r, ok)[s].pc \in {"joined", "retry"}
                 /\ LoadSettles(r, ok)[s].on = None
              \/ /\ req[s].pc = "awaitCreation" /\ req[s].on = r
                 /\ IF ok THEN /\ LoadSettles(r, ok)[s].pc = "reuse"
                               /\ LoadSettles(r, ok)[s].on = req[r].on
                    ELSE /\ LoadSettles(r, ok)[s].pc = "reject"
                         /\ LoadSettles(r, ok)[s].on = None
  <1> USE RegistryAssumption
  <1> DEFINE rs == LoadSettles(r, ok)
             w(s) == WokenBy(r, req[r].on, ok, req[s])
  <1>1. rs[r] = NoRequest /\ DOMAIN rs = Slots /\ rs = [s \in Slots |-> rs[s]]
        /\ \A s \in Slots \ {r} : rs[s] = w(s)
    BY DEF LoadSettles
  <1>2. RequestOK(NoRequest)
    BY DEF RequestOK, WellFormed, Request, LoadOnly, WaitsForAnswer,
     WaitsForLoad, WaitsForCreation, WaitsForExit, PC, Ready, NoRequest, Kind
  <1>3. ASSUME NEW s \in Slots
        PROVE  /\ RequestOK(w(s))
               /\ \/ w(s) = req[s] /\ ~ (req[s].pc = "awaitCreation" /\ req[s].on = r)
                  \/ req[s].pc = "follow" /\ w(s).pc \in {"joined", "retry"} /\ w(s).on = None
                  \/ /\ req[s].pc = "awaitCreation" /\ req[s].on = r
                     /\ IF ok THEN w(s).pc = "reuse" /\ w(s).on = req[r].on
                        ELSE w(s).pc = "reject" /\ w(s).on = None
    <2> DEFINE q == req[s]
    <2>1. RequestOK(q) /\ q \in Request
      BY DEF RequestInv, RequestsOK, RequestOK
    <2> HIDE DEF q
    <2>2. w(s) = WokenBy(r, req[r].on, ok, q)
      BY DEF q
    <2>3. CASE q.pc = "follow" /\ q.on = r
      BY <2>1, <2>2, <2>3 DEF WokenBy, RequestOK, WellFormed, Request, LoadOnly, WaitsForAnswer,
       WaitsForLoad, WaitsForCreation, WaitsForExit, PC, Ready, NoRequest, Kind, q
    <2>4. CASE q.pc = "awaitCreation" /\ q.on = r
      BY <2>1, <2>2, <2>4 DEF WokenBy, RequestOK, WellFormed, Request, LoadOnly, WaitsForAnswer,
       WaitsForLoad, WaitsForCreation, WaitsForExit, PC, Ready, NoRequest, Kind, q
    <2>5. CASE ~ (q.pc = "follow" /\ q.on = r) /\ ~ (q.pc = "awaitCreation" /\ q.on = r)
      BY <2>1, <2>2, <2>5 DEF WokenBy, q
    <2> QED BY <2>3, <2>4, <2>5
  <1> HIDE DEF rs, w
  <1>4. \A s \in Slots : RequestOK(rs[s])
    BY <1>1, <1>2, <1>3
  <1>5. RequestsOK(rs)
    BY <1>1, <1>4 DEF RequestsOK, RequestOK
  <1>6. \A s \in Slots \ {r} :
              \/ rs[s] = req[s] /\ ~ (req[s].pc = "awaitCreation" /\ req[s].on = r)
              \/ req[s].pc = "follow" /\ rs[s].pc \in {"joined", "retry"} /\ rs[s].on = None
              \/ /\ req[s].pc = "awaitCreation" /\ req[s].on = r
                 /\ IF ok THEN rs[s].pc = "reuse" /\ rs[s].on = req[r].on
                    ELSE rs[s].pc = "reject" /\ rs[s].on = None
    BY <1>1, <1>3
  <1> QED BY <1>1, <1>5, <1>6 DEF rs

\* A load that settles well wakes those that await its client with it.
LEMMA WellSettled ==
  ASSUME RequestInv, NEW r \in Slots, req[r].on \in Clients
  PROVE  /\ RequestsOK(LoadSettles(r, TRUE))
         /\ LoadSettles(r, TRUE)[r] = NoRequest
         /\ \A s \in Slots \ {r} :
              \/ /\ LoadSettles(r, TRUE)[s] = req[s]
                 /\ ~ (req[s].pc = "awaitCreation" /\ req[s].on = r)
              \/ /\ req[s].pc = "follow"
                 /\ LoadSettles(r, TRUE)[s].pc \in {"joined", "retry"}
                 /\ LoadSettles(r, TRUE)[s].on = None
              \/ /\ req[s].pc = "awaitCreation" /\ req[s].on = r
                 /\ LoadSettles(r, TRUE)[s].pc = "reuse"
                 /\ LoadSettles(r, TRUE)[s].on = req[r].on
  <1> DEFINE R(rs, ok) ==
         /\ RequestsOK(rs)
         /\ rs[r] = NoRequest
         /\ \A s \in Slots \ {r} :
              \/ rs[s] = req[s] /\ ~ (req[s].pc = "awaitCreation" /\ req[s].on = r)
              \/ req[s].pc = "follow" /\ rs[s].pc \in {"joined", "retry"} /\ rs[s].on = None
              \/ /\ req[s].pc = "awaitCreation" /\ req[s].on = r
                 /\ IF ok THEN rs[s].pc = "reuse" /\ rs[s].on = req[r].on
                    ELSE rs[s].pc = "reject" /\ rs[s].on = None
  <1>1. \A ok \in BOOLEAN : R(LoadSettles(r, ok), ok)
    BY SettlesFacts
  <1>2. R(LoadSettles(r, TRUE), TRUE)
    <2> HIDE DEF R
    <2> QED BY <1>1
  <1> QED BY <1>2

\* A load settles that creates no client any more.
LEMMA SettledInv ==
  ASSUME IInv, NEW r \in Slots, NEW ok \in BOOLEAN,
         req' = LoadSettles(r, ok), SettlePending(r),
         req[r].kind = "load", req[r].pc \in {"failing", "lost", "reject", "load"},
         ok => req[r].pc = "load",
         UNCHANGED <<proc, registry, timers, open, counts>>
  PROVE  IInv'
  <1> USE RegistryAssumption
  <1>1. ok => req[r].on \in Clients /\ pendingCreation # r
    BY DEF IInv, RequestInv, RequestsOK, RequestOK, WellFormed, WaitsForAnswer, CreationInv, StateInv
  <1>2. /\ RequestInv' /\ req'[r] = NoRequest
        /\ \A s \in Slots \ {r} :
              \/ req'[s] = req[s] /\ ~ (req[s].pc = "awaitCreation" /\ req[s].on = r)
              \/ req[s].pc = "follow" /\ req'[s].pc \in {"joined", "retry"} /\ req'[s].on = None
              \/ /\ req[s].pc = "awaitCreation" /\ req[s].on = r
                 /\ ~ ok /\ req'[s].pc = "reject" /\ req'[s].on = None
    BY <1>1, SettlesFacts DEF IInv, RequestInv, CreationInv
  <1>3. NoRequest.pc = "idle" /\ NoRequest.on = None
    BY DEF NoRequest
  <1>4. StateInv'
    BY DEF IInv, StateInv, SettlePending, registry, timers
  <1>5. BornInv'
    BY <1>2, <1>3 DEF IInv, BornInv, registry
  <1>6. CreationInv'
    <2>1. \A s \in Slots : Creating(s)' => Creating(s) /\ req'[s] = req[s]
      BY <1>2, <1>3 DEF Creating
    <2>2. \A s \in Slots : Creating(s)' /\ req'[s].kind = "load" => s # r
      BY <1>2, <1>3 DEF Creating
    <2>3. \A s \in Slots : req'[s].pc = "awaitCreation" => req'[s].on = pendingCreation'
      BY <1>2, <1>3 DEF IInv, CreationInv, SettlePending
    <2>4. pendingCreation' # None => /\ req'[pendingCreation'].pc \in {"create", "failing", "lost"}
                                     /\ req'[pendingCreation'].kind = "load"
      BY <1>2, <1>3 DEF IInv, CreationInv, StateInv, SettlePending
    <2> QED BY <2>1, <2>2, <2>3, <2>4 DEF IInv, CreationInv, registry, SettlePending
  <1>7. EntryInv'
    BY <1>2, <1>3 DEF IInv, EntryInv, DeadEntryIsTransient, IsConnected, registry, timers
  <1>8. QuietInv'
    <2>1. \A s \in Slots : req'[s].pc = "load" => req'[s] = req[s]
      BY <1>2, <1>3
    <2>2. \A s \in Slots : Creating(s) => s # r /\ req'[s] = req[s]
      BY <1>2 DEF Creating
    <2> QED BY <2>1, <2>2 DEF IInv, QuietInv, Creating, registry, timers
  <1> QED BY <1>2, <1>4, <1>5, <1>6, <1>7, <1>8 DEF IInv

\* An error reaches the caller of a request that is past its creation.
LEMMA FailsInv ==
  ASSUME IInv, NEW r \in Slots, Fails(r),
         req[r].pc \in {"failing", "lost", "reject"},
         UNCHANGED <<proc, registry, timers, open, counts>>
  PROVE  IInv'
  <1>1. CASE req[r].kind = "load"
    <2>1. req' = LoadSettles(r, FALSE) /\ SettlePending(r)
      BY <1>1 DEF Fails
    <2> QED BY <1>1, <2>1, SettledInv
  <1>2. CASE req[r].kind # "load"
    <2>1. req' = [req EXCEPT ![r] = NoRequest] /\ UNCHANGED pending
      BY <1>2 DEF Fails
    <2>2. RequestOK(NoRequest) /\ NoRequest.pc = "idle" /\ NoRequest.on = None
      BY DEF RequestOK, WellFormed, Request, LoadOnly, WaitsForAnswer,
       WaitsForLoad, WaitsForCreation, WaitsForExit, PC, Ready, NoRequest, Kind
    <2>3. pendingCreation # r
      BY <1>2, RegistryAssumption DEF IInv, CreationInv
    <2> QED BY <2>1, <2>2, <2>3, GoesOnInv, RegistryAssumption
            DEF IInv, StateInv, pending, registry, timers
  <1> QED BY <1>1, <1>2

\* The request q put where it waits for o.
Placed(q, p, o) == [q EXCEPT !.pc = p, !.on = o]

LEMMA PlacedOK ==
  ASSUME NEW q \in Request, q.kind \in Kind, q.conn \in Conns, NEW p, NEW o,
         \/ p \in {"follow", "awaitCreation"} /\ o \in Slots /\ q.kind = "load"
         \/ p = "load" /\ o \in Clients /\ q.kind = "load"
         \/ p \in {"unregister", "create", "send"} /\ o \in Clients
  PROVE  /\ RequestOK(Placed(q, p, o))
         /\ Placed(q, p, o).pc = p
         /\ Placed(q, p, o).on = o
         /\ Placed(q, p, o).conn = q.conn
         /\ Placed(q, p, o).kind = q.kind
  <1> DEFINE n == Placed(q, p, o)
  <1>1. p \in PC \ {"idle"}
    BY DEF PC, WaitsForLoad, WaitsForCreation, WaitsForExit, WaitsForAnswer
  <1>2. n \in Request /\ n.pc = p /\ n.on = o /\ n.conn = q.conn /\ n.kind = q.kind
    BY <1>1 DEF Request, Placed
  <1>3. n # NoRequest
    BY <1>1, <1>2 DEF NoRequest
  <1> HIDE DEF n
  <1>4. RequestOK(n)
    BY <1>1, <1>2, <1>3, RegistryAssumption DEF RequestOK, WellFormed, LoadOnly,
       WaitsForLoad, WaitsForCreation, WaitsForExit, WaitsForAnswer
  <1> QED BY <1>2, <1>4 DEF n

\* A load that found no client.
LEMMA CreateOrAwaitInv ==
  ASSUME IInv, NEW r \in Slots, NEW q \in Request, q.kind = "load", q.conn \in Conns,
         CreateOrAwait(r, q),
         req[r].pc \in {"idle", "joined", "retry", "unregister"},
         UNCHANGED <<registry, timers, open>>,
         pendingLoad' \in Slots \cup {None},
         counts' \in [{"requests", "expiries", "crashes"} -> Nat],
         counts'["expiries"] = counts["expiries"]
  PROVE  IInv'
  <1>1. CASE pendingCreation = None
    BY <1>1, SpawnInv DEF CreateOrAwait
  <1>2. CASE pendingCreation # None
    <2> DEFINE n == Placed(q, "awaitCreation", pendingCreation)
    <2>1. req' = [req EXCEPT ![r] = n] /\ UNCHANGED <<proc, pendingCreation>>
      BY <1>2 DEF CreateOrAwait, Placed
    <2>2. pendingCreation \in Slots /\ pendingCreation # r
      BY <1>2 DEF IInv, StateInv, CreationInv
    <2>3. RequestOK(n) /\ n.pc = "awaitCreation" /\ n.on = pendingCreation
      BY <2>2, PlacedOK DEF Kind
    <2> HIDE DEF n
    <2> QED BY <2>1, <2>2, <2>3, GoesOnInv, RegistryAssumption DEF IInv, StateInv, registry, timers
  <1> QED BY <1>1, <1>2

\* The load operation of handleLoadSession up to its first await.
LEMMA StartLoadInv ==
  ASSUME IInv, NEW r \in Slots, NEW q \in Request, q.kind = "load", q.conn \in Conns,
         StartLoad(r, q), req[r].pc \in {"idle", "joined", "retry"},
         UNCHANGED <<timers, open>>,
         counts' \in [{"requests", "expiries", "crashes"} -> Nat],
         counts'["expiries"] = counts["expiries"]
  PROVE  IInv'
  <1>1. pendingLoad' = r /\ pendingCreation # r
    BY RegistryAssumption DEF StartLoad, IInv, CreationInv
  <1>2. CASE /\ registered # None /\ IsConnected(registered)
             /\ AddConnection(q.conn)
             /\ req' = [req EXCEPT ![r] = [q EXCEPT !.pc = "load", !.on = registered]]
             /\ UNCHANGED <<proc, pendingCreation>>
    <2> DEFINE n == Placed(q, "load", registered)
    <2>1. RequestOK(n) /\ n.pc = "load" /\ n.on = registered /\ n.conn = q.conn
      BY <1>2, PlacedOK DEF Kind, IInv, StateInv
    <2>2. req' = [req EXCEPT ![r] = n]
      BY <1>2 DEF Placed
    <2> HIDE DEF n
    <2> QED BY <1>1, <1>2, <2>1, <2>2, GoesOnInv DEF IInv, StateInv, timers, AddConnection, BornInv
  <1>3. CASE /\ registered # None /\ ~IsConnected(registered)
             /\ Unregister([req EXCEPT ![r] = [q EXCEPT !.pc = "unregister", !.on = registered]])
             /\ UNCHANGED pendingCreation
    <2> DEFINE n == Placed(q, "unregister", registered)
               next == [req EXCEPT ![r] = n]
    <2>1. RequestOK(n) /\ n.pc = "unregister" /\ n.on = registered
      BY <1>3, PlacedOK DEF Kind, IInv, StateInv
    <2> HIDE DEF n
    <2>2. RequestsOK(next) /\ next[r] = n /\ \A s \in Slots \ {r} : next[s] = req[s]
      BY <2>1 DEF IInv, RequestInv, RequestsOK, RequestOK
    <2>3. Unregister(next)
      BY <1>3 DEF n, Placed
    <2> HIDE DEF next
    <2> QED BY <1>1, <1>3, <2>1, <2>2, <2>3, UnregisterInv DEF timers
  <1>4. CASE registered = None /\ CreateOrAwait(r, q) /\ UNCHANGED registry
    BY <1>1, <1>4, CreateOrAwaitInv
  <1> QED BY <1>2, <1>3, <1>4 DEF StartLoad

-----------------------------------------------------------------------------
(* The actions.                                                            *)

LEMMA NewOK ==
  ASSUME NEW kind \in Kind, NEW k \in Conns
  PROVE  /\ New(kind, k) \in Request
         /\ New(kind, k).kind = kind /\ New(kind, k).conn = k
  BY DEF New, Request, PC

LEMMA ArrivesFacts ==
  ASSUME IInv, NEW r \in Slots, NEW k \in Conns, Arrives(r, k)
  PROVE  /\ req[r].pc = "idle" /\ pendingCreation # r /\ Settled
         /\ UNCHANGED <<timers, open>>
         /\ counts' \in [{"requests", "expiries", "crashes"} -> Nat]
         /\ counts'["expiries"] = counts["expiries"]
  BY RegistryAssumption DEF Arrives, Count, IInv, StateInv, CreationInv

LEMMA LoadSessionInv ==
  ASSUME IInv, NEW r \in Slots, NEW k \in Conns, LoadSession(r, k)
  PROVE  IInv'
  <1> DEFINE q == New("load", k)
  <1>1. q \in Request /\ q.kind = "load" /\ q.conn = k
    BY NewOK DEF Kind
  <1>2. Arrives(r, k)
    BY DEF LoadSession
  <1>3. CASE /\ pendingLoad # None
             /\ req' = [req EXCEPT ![r] = [q EXCEPT !.pc = "follow", !.on = pendingLoad]]
             /\ UNCHANGED <<proc, registry, pending>>
    <2> DEFINE n == Placed(q, "follow", pendingLoad)
    <2>1. RequestOK(n) /\ n.pc = "follow" /\ n.on = pendingLoad /\ n.on \in Slots
      BY <1>1, <1>3, PlacedOK DEF Kind, IInv, StateInv
    <2>2. req' = [req EXCEPT ![r] = n]
      BY <1>3 DEF Placed
    <2> HIDE DEF n
    <2> QED BY <1>2, <1>3, <2>1, <2>2, GoesOnInv, ArrivesFacts, RegistryAssumption
            DEF IInv, StateInv, registry, timers, pending
  <1>4. CASE pendingLoad = None /\ StartLoad(r, q)
    <2> HIDE DEF q
    <2> QED BY <1>1, <1>2, <1>4, ArrivesFacts, StartLoadInv
  <1> QED BY <1>3, <1>4 DEF LoadSession

\* A request that finds a dead client closes it first.
LEMMA RequestUnregisters ==
  ASSUME IInv, NEW r \in Slots, NEW q \in Request, q.kind \in Kind, q.conn \in Conns,
         registered # None, req[r].pc = "idle", Settled,
         Unregister([req EXCEPT ![r] = [q EXCEPT !.pc = "unregister", !.on = registered]]),
         UNCHANGED <<timers, pending, open>>,
         counts' \in [{"requests", "expiries", "crashes"} -> Nat],
         counts'["expiries"] = counts["expiries"]
  PROVE  IInv'
  <1> DEFINE n == Placed(q, "unregister", registered)
             next == [req EXCEPT ![r] = n]
  <1>1. RequestOK(n) /\ n.pc = "unregister" /\ n.on = registered
    BY PlacedOK DEF Kind, IInv, StateInv
  <1>2. Unregister(next)
    BY DEF Placed
  <1> HIDE DEF n
  <1>3. RequestsOK(next) /\ next[r] = n /\ \A s \in Slots \ {r} : next[s] = req[s]
    BY <1>1 DEF IInv, RequestInv, RequestsOK, RequestOK
  <1> HIDE DEF next
  <1> QED BY <1>1, <1>2, <1>3, UnregisterInv DEF timers, pending, IInv, StateInv

LEMMA AddUserMessageInv ==
  ASSUME IInv, NEW r \in Slots, NEW k \in Conns, AddUserMessage(r, k)
  PROVE  IInv'
  <1> DEFINE q == New("message", k)
  <1>1. q \in Request /\ q.kind = "message" /\ q.conn = k
    BY NewOK DEF Kind
  <1>2. Arrives(r, k) /\ UNCHANGED pending
    BY DEF AddUserMessage
  <1>3. CASE /\ registered # None /\ IsConnected(registered)
             /\ req' = [req EXCEPT ![r] = [q EXCEPT !.pc = "send", !.on = registered]]
             /\ UNCHANGED <<proc, registry>>
    <2> DEFINE n == Placed(q, "send", registered)
    <2>1. RequestOK(n) /\ n.pc = "send" /\ n.on = registered
      BY <1>1, <1>3, PlacedOK DEF Kind, IInv, StateInv
    <2>2. req' = [req EXCEPT ![r] = n]
      BY <1>3 DEF Placed
    <2> HIDE DEF n
    <2> QED BY <1>2, <1>3, <2>1, <2>2, GoesOnInv, ArrivesFacts
            DEF IInv, StateInv, registry, timers, pending, BornInv
  <1>4. CASE /\ registered # None /\ ~IsConnected(registered)
             /\ Unregister([req EXCEPT ![r] = [q EXCEPT !.pc = "unregister", !.on = registered]])
    <2> HIDE DEF q
    <2> QED BY <1>1, <1>2, <1>4, ArrivesFacts, RequestUnregisters DEF Kind
  <1>5. CASE registered = None /\ Spawn(r, q) /\ UNCHANGED registry
    <2> HIDE DEF q
    <2> QED BY <1>1, <1>2, <1>5, ArrivesFacts, SpawnInv DEF pending, IInv, StateInv
  <1> QED BY <1>3, <1>4, <1>5 DEF AddUserMessage

LEMMA CloseSessionInv ==
  ASSUME IInv, NEW r \in Slots, NEW k \in Conns, CloseSession(r, k)
  PROVE  IInv'
  <1> DEFINE q == New("close", k)
  <1>1. q \in Request /\ q.kind \in Kind /\ q.conn = k
    BY NewOK DEF Kind
  <1>2. /\ Arrives(r, k) /\ registered # None /\ UNCHANGED pending
        /\ Unregister([req EXCEPT ![r] = [q EXCEPT !.pc = "unregister", !.on = registered]])
    BY DEF CloseSession
  <1> HIDE DEF q
  <1> QED BY <1>1, <1>2, ArrivesFacts, RequestUnregisters

\* A request ends.
LEMMA EndsInv ==
  ASSUME IInv, NEW r \in Slots, req' = [req EXCEPT ![r] = NoRequest],
         req[r].pc # "create", pendingCreation # r,
         UNCHANGED <<proc, registered, timers, pending, open, counts>>,
         listeners \subseteq listeners', listeners' \subseteq Conns, timer' \in BOOLEAN
  PROVE  IInv'
  <1>1. RequestOK(NoRequest) /\ NoRequest.pc = "idle" /\ NoRequest.on = None
    BY DEF RequestOK, WellFormed, Request, LoadOnly, WaitsForAnswer,
       WaitsForLoad, WaitsForCreation, WaitsForExit, PC, Ready, NoRequest
  <1> QED BY <1>1, GoesOnInv, RegistryAssumption DEF IInv, StateInv, pending, timers

\* The request of a slot that is in use.
LEMMA InUse ==
  ASSUME IInv, NEW r \in Slots, req[r].pc # "idle"
  PROVE  /\ req[r] \in Request /\ req[r].kind \in Kind /\ req[r].conn \in Conns
         /\ RequestOK(req[r])
         /\ req[r].pc \in LoadOnly => req[r].kind = "load"
         /\ req[r].pc \notin {"create", "failing", "lost"} => pendingCreation # r
         /\ req[r].kind # "load" => pendingCreation # r
  BY RegistryAssumption DEF IInv, RequestInv, RequestsOK, RequestOK, CreationInv

LEMMA ResumeFollowerInv ==
  ASSUME IInv, NEW r \in Slots, ResumeFollower(r)
  PROVE  IInv'
  <1>1. /\ req[r].pc \in {"joined", "retry"} /\ UNCHANGED <<timers, open, counts>>
        /\ req[r].kind = "load" /\ req[r] \in Request /\ req[r].conn \in Conns
        /\ pendingCreation # r
    BY InUse DEF ResumeFollower, LoadOnly
  <1>2. CASE AddConnection(req[r].conn) /\ req' = [req EXCEPT ![r] = NoRequest]
             /\ UNCHANGED <<proc, pending>>
    BY <1>1, <1>2, EndsInv DEF AddConnection, IInv, StateInv
  <1>3. CASE StartLoad(r, req[r])
    BY <1>1, <1>3, StartLoadInv DEF IInv, StateInv
  <1> QED BY <1>2, <1>3 DEF ResumeFollower

LEMMA ResumeAwaitingInv ==
  ASSUME IInv, NEW r \in Slots, ResumeAwaiting(r)
  PROVE  IInv'
  <1>1. CASE /\ req[r].pc = "reuse" /\ AddConnection(req[r].conn)
             /\ req' = [req EXCEPT ![r].pc = "load"] /\ UNCHANGED pending
    <2>1. /\ req[r] \in Request /\ req[r].kind = "load" /\ req[r].conn \in Conns
          /\ pendingCreation # r /\ registered = req[r].on /\ req[r].on \in Clients
      BY <1>1, InUse DEF LoadOnly, IInv, EntryInv, RequestOK, WellFormed
    <2> DEFINE n == Placed(req[r], "load", req[r].on)
    <2>2. RequestOK(n) /\ n.pc = "load" /\ n.on = registered /\ n.conn = req[r].conn
      BY <2>1, PlacedOK DEF Kind
    <2>3. n = [req[r] EXCEPT !.pc = "load"]
      BY <2>1 DEF Placed, Request
    <2>4. req' = [req EXCEPT ![r] = n]
      BY <1>1, <2>3
    <2> HIDE DEF n
    <2> QED BY <1>1, <2>1, <2>2, <2>4, GoesOnInv
            DEF ResumeAwaiting, AddConnection, IInv, StateInv, BornInv, timers, pending
  <1>2. CASE req[r].pc = "reject" /\ Fails(r) /\ UNCHANGED registry
    BY <1>2, FailsInv DEF ResumeAwaiting
  <1> QED BY <1>1, <1>2 DEF ResumeAwaiting

LEMMA ResumeClosedInv ==
  ASSUME IInv, NEW r \in Slots, ResumeClosed(r)
  PROVE  IInv'
  <1>1. req[r].pc \in {"unregister", "failing"} /\ UNCHANGED <<registry, timers, open, counts>>
    BY DEF ResumeClosed, WaitsForExit
  <1>2. req[r] \in Request /\ req[r].kind \in Kind /\ req[r].conn \in Conns
    BY <1>1, InUse
  <1>3. counts' \in [{"requests", "expiries", "crashes"} -> Nat] /\ counts' = counts
        /\ pendingLoad \in Slots \cup {None}
    BY <1>1 DEF IInv, StateInv
  <1>4. CASE req[r].pc = "failing" /\ Fails(r) /\ UNCHANGED proc
    BY <1>1, <1>4, FailsInv
  <1>5. CASE /\ req[r].pc = "unregister" /\ req[r].kind = "load"
             /\ CreateOrAwait(r, req[r]) /\ UNCHANGED pendingLoad
    BY <1>1, <1>2, <1>3, <1>5, CreateOrAwaitInv
  <1>6. CASE /\ req[r].pc = "unregister" /\ req[r].kind = "message"
             /\ Spawn(r, req[r]) /\ UNCHANGED pending
    BY <1>1, <1>2, <1>3, <1>6, SpawnInv DEF pending
  <1>7. CASE /\ req[r].pc = "unregister" /\ req[r].kind = "close"
             /\ req' = [req EXCEPT ![r] = NoRequest] /\ UNCHANGED <<proc, pending>>
    <2>1. pendingCreation # r
      BY <1>7, InUse
    <2> QED BY <1>1, <1>7, <2>1, EndsInv DEF registry, IInv, StateInv
  <1> QED BY <1>4, <1>5, <1>6, <1>7 DEF ResumeClosed

LEMMA ResumeLostInv ==
  ASSUME IInv, NEW r \in Slots, ResumeLost(r)
  PROVE  IInv'
  BY FailsInv DEF ResumeLost

\* What is closed, of a client c.
LEMMA ClosedFacts ==
  ASSUME proc \in [Clients -> Process], NEW c \in Clients
  PROVE  /\ Closed(c) \in [Clients -> Process]
         /\ Closed(c)[c] = IF proc[c] = "up" THEN "closing" ELSE proc[c]
         /\ \A d \in Clients \ {c} : Closed(c)[d] = proc[d]
  BY DEF Closed, Process

\* The client that r created is registered; what r and those that waited for
\* it become is next.
LEMMA RegisterInv ==
  ASSUME IInv, NEW r \in Slots, Creating(r), Settled,
         NEW next, RequestsOK(next), RegisterClient(r, next),
         next[r].pc \in {"idle", "send"}, next[r].on \in {None, req[r].on},
         \A s \in Slots \ {r} :
            \/ /\ next[s] = req[s]
               /\ ~ (req[s].pc = "awaitCreation" /\ req[s].on = r /\ pendingCreation = r)
            \/ next[s].pc \in {"joined", "retry"} /\ next[s].on = None /\ req[s].pc = "follow"
            \/ /\ next[s].pc = "reuse" /\ next[s].on = req[r].on
               /\ req[s].pc = "awaitCreation",
         pendingCreation' = IF pendingCreation = r THEN None ELSE pendingCreation,
         pendingLoad' \in Slots \cup {None},
         UNCHANGED <<timers, open, counts>>
  PROVE  IInv'
  <1> USE RegistryAssumption
  <1> DEFINE c == req[r].on
             old == registered
  <1>1. c \in Clients /\ proc[c] = "up" /\ c # old /\ req[r].conn \in Conns
    BY DEF IInv, CreationInv, Creating, RequestInv, RequestsOK, RequestOK, WellFormed, WaitsForAnswer
  <1>2. /\ registered' = c /\ listeners' = listeners \cup {req[r].conn} /\ timer' = TRUE
        /\ old = None => proc' = proc /\ req' = next
        /\ old # None => proc' = Closed(old) /\ req' = Failed(old, next)
    BY DEF RegisterClient
  <1> HIDE DEF c, old
  <1>3. /\ proc' \in [Clients -> Process] /\ proc'[c] = "up"
        /\ \A d \in Clients \ {old} : proc'[d] = proc[d]
        /\ \A d \in Clients : proc'[d] = "unborn" <=> proc[d] = "unborn"
        /\ old \in Clients => proc'[old] # "up"
    <2>1. CASE old = None
      BY <1>1, <1>2, <2>1 DEF IInv, StateInv
    <2>2. CASE old # None
      <3>1. old \in Clients /\ proc \in [Clients -> Process]
        BY <2>2 DEF IInv, StateInv, old
      <3> QED BY <1>1, <1>2, <2>2, <3>1, ClosedFacts
    <2> QED BY <2>1, <2>2
  <1>4. RequestInv'
    BY <1>2, FailedFacts DEF RequestInv
  <1>5. \A s \in Slots : 
           \/ req'[s] = next[s] /\ ~ (next[s].on = old /\ next[s].pc \in WaitsForAnswer)
           \/ /\ req'[s].pc = "lost" /\ req'[s].on = next[s].on /\ req'[s].kind = next[s].kind
              /\ next[s].on = old /\ next[s].pc \in WaitsForAnswer
    <2>1. CASE old = None
      <3>1. \A s \in Slots : next[s].pc \in WaitsForAnswer => next[s].on # None
        BY DEF RequestsOK, RequestOK, WellFormed
      <3> QED BY <1>2, <2>1, <3>1
    <2>2. CASE old # None
      BY <1>2, <2>2, FailedFacts
    <2> QED BY <2>1, <2>2
  <1>6. StateInv'
    BY <1>1, <1>2, <1>3 DEF IInv, StateInv, timers
  <1>7. BornInv'
    <2>1. \A s \in Slots : req'[s].on \in Clients => req'[s].on = c \/ req'[s].on = req[s].on
      BY <1>5 DEF c
    <2> QED BY <1>1, <1>2, <1>3, <2>1 DEF IInv, BornInv
  <1>8. \A s \in Slots : Creating(s)' => s # r /\ Creating(s) /\ req'[s] = req[s]
    BY <1>5 DEF Creating
  <1>9. \A s \in Slots : Creating(s) /\ s # r => Creating(s)' /\ req'[s] = req[s]
    BY <1>5 DEF IInv, CreationInv, Creating, old
  <1>10. CreationInv'
    <2>1. \A s \in Slots : Creating(s)' => proc'[req'[s].on] = "up" /\ req'[s].on # registered'
      <3> SUFFICES ASSUME NEW s \in Slots, Creating(s)'
                   PROVE  proc'[req'[s].on] = "up" /\ req'[s].on # registered'
        OBVIOUS
      <3>1. s # r /\ Creating(s) /\ req'[s] = req[s]
        BY <1>8
      <3>2. req[s].on \in Clients \ {old} /\ proc[req[s].on] = "up" /\ req[s].on # c
        BY <3>1 DEF IInv, CreationInv, Creating, RequestInv, RequestsOK, RequestOK, WellFormed,
           WaitsForAnswer, c, old
      <3> QED BY <1>2, <1>3, <3>1, <3>2
    <2>2. \A s, t \in Slots : Creating(s)' /\ Creating(t)' /\ req'[s].on = req'[t].on => s = t
      BY <1>8 DEF IInv, CreationInv
    <2>3. \A s \in Slots : Creating(s)' /\ req'[s].kind = "load" => pendingCreation' = s
      BY <1>8 DEF IInv, CreationInv
    <2>4. pendingCreation' # None => /\ req'[pendingCreation'].pc \in {"create", "failing", "lost"}
                                     /\ req'[pendingCreation'].kind = "load"
      <3> SUFFICES ASSUME pendingCreation # None, pendingCreation # r
                   PROVE  /\ req'[pendingCreation].pc \in {"create", "failing", "lost"}
                          /\ req'[pendingCreation].kind = "load"
        OBVIOUS
      <3> QED BY <1>5 DEF IInv, CreationInv, StateInv
    <2>5. \A s \in Slots : req'[s].pc = "awaitCreation" => req'[s].on = pendingCreation'
      BY <1>5 DEF IInv, CreationInv
    <2> QED BY <2>1, <2>2, <2>3, <2>4, <2>5 DEF CreationInv
  <1>11. EntryInv'
    <2>1. \A s \in Slots : req'[s].pc = "reuse" => req'[s].on = c
      BY <1>5 DEF Settled, Ready, c
    <2> QED BY <1>2, <1>3, <2>1 DEF EntryInv, DeadEntryIsTransient, IsConnected
  <1>12. QuietInv'
    <2> SUFFICES ASSUME counts["expiries"] = 0
                 PROVE  /\ expiring' = {}
                        /\ \A d \in Clients : proc'[d] = "up" /\ d # registered' =>
                               \E s \in Slots : Creating(s)' /\ req'[s].on = d
                        /\ \A s \in Slots : req'[s].pc # "load"
      BY DEF QuietInv
    <2>1. \A d \in Clients : proc'[d] = "up" /\ d # registered' =>
                               \E s \in Slots : Creating(s)' /\ req'[s].on = d
      <3> SUFFICES ASSUME NEW d \in Clients, proc'[d] = "up", d # c
                   PROVE  \E s \in Slots : Creating(s)' /\ req'[s].on = d
        BY <1>2
      <3>1. d # old /\ proc[d] = "up"
        BY <1>3
      <3>2. PICK s \in Slots : Creating(s) /\ req[s].on = d
        BY <3>1 DEF IInv, QuietInv, old
      <3> QED BY <1>9, <3>2 DEF c
    <2>2. \A s \in Slots : req'[s].pc # "load"
      <3> SUFFICES ASSUME NEW s \in Slots, req'[s].pc = "load"
                   PROVE  FALSE
        OBVIOUS
      <3>1. req'[s] = req[s] /\ req[s].on # old
        BY <1>5 DEF WaitsForAnswer
      <3> QED BY <3>1 DEF IInv, QuietInv, old
    <2> QED BY <2>1, <2>2 DEF IInv, QuietInv, timers
  <1> QED BY <1>4, <1>6, <1>7, <1>10, <1>11, <1>12 DEF IInv

LEMMA CreatedInv ==
  ASSUME IInv, NEW r \in Slots, Created(r)
  PROVE  IInv'
  <1>1. /\ Creating(r) /\ Settled /\ UNCHANGED <<timers, open, counts>>
        /\ req[r].on \in Clients /\ RequestOK(req[r])
    BY DEF Created, Answered, Creating, IInv, RequestInv, RequestsOK, RequestOK, WellFormed, WaitsForAnswer
  <1>2. CASE req[r].kind = "load"
    <2>1. RegisterClient(r, LoadSettles(r, TRUE)) /\ SettlePending(r)
      BY <1>2 DEF Created
    <2> DEFINE next == LoadSettles(r, TRUE)
    <2>2. /\ RequestsOK(next) /\ next[r] = NoRequest
          /\ \A s \in Slots \ {r} :
              \/ next[s] = req[s] /\ ~ (req[s].pc = "awaitCreation" /\ req[s].on = r)
              \/ req[s].pc = "follow" /\ next[s].pc \in {"joined", "retry"} /\ next[s].on = None
              \/ /\ req[s].pc = "awaitCreation" /\ req[s].on = r
                 /\ next[s].pc = "reuse" /\ next[s].on = req[r].on
      <3>1. RequestInv /\ TRUE \in BOOLEAN
        BY DEF IInv
      <3> QED BY <1>1, <3>1, WellSettled
    <2> HIDE DEF next
    <2>3. next[r].pc = "idle" /\ next[r].on = None
      BY <2>2 DEF NoRequest
    <2>4. RegisterClient(r, next)
      BY <2>1 DEF next
    <2> QED BY <1>1, <2>1, <2>2, <2>3, <2>4, RegisterInv DEF SettlePending
  <1>3. CASE req[r].kind # "load"
    <2> DEFINE n == [req[r] EXCEPT !.pc = "send"]
               next == [req EXCEPT ![r] = n]
    <2>1. RegisterClient(r, next) /\ UNCHANGED pending
      BY <1>3 DEF Created
    <2>2. req[r] \in Request /\ req[r].kind \in Kind /\ req[r].conn \in Conns
      BY <1>1, InUse DEF Creating
    <2>3. n = Placed(req[r], "send", req[r].on)
      BY <2>2 DEF Placed, Request
    <2> HIDE DEF n
    <2>6. RequestOK(n) /\ n.pc = "send" /\ n.on = req[r].on
      BY <1>1, <2>2, <2>3, PlacedOK
    <2>4. RequestsOK(next) /\ next[r] = n /\ \A s \in Slots \ {r} : next[s] = req[s]
      BY <2>6 DEF IInv, RequestInv, RequestsOK, RequestOK
    <2>5. pendingCreation # r
      BY <1>3, RegistryAssumption DEF IInv, CreationInv
    <2> HIDE DEF next
    <2> QED BY <1>1, <2>1, <2>4, <2>5, <2>6, RegisterInv DEF pending, IInv, StateInv
  <1> QED BY <1>2, <1>3

LEMMA CreationFailsInv ==
  ASSUME IInv, NEW r \in Slots, CreationFails(r)
  PROVE  IInv'
  <1> USE RegistryAssumption
  <1> DEFINE c == req[r].on
             n == Placed(req[r], "failing", c)
  <1>1. /\ Creating(r) /\ Settled /\ UNCHANGED <<registry, pending, timers, open, counts>>
        /\ c \in Clients /\ proc[c] = "up" /\ c # registered
        /\ req[r] \in Request /\ RequestOK(req[r])
        /\ proc' = Closed(c) /\ req' = [req EXCEPT ![r].pc = "failing"]
    BY DEF CreationFails, Answered, Creating, IInv, CreationInv, RequestInv, RequestsOK,
       RequestOK, WellFormed, WaitsForAnswer
  <1>2. req' = [req EXCEPT ![r] = n]
    BY <1>1 DEF Placed, Request
  <1>3. RequestOK(n) /\ n.pc = "failing" /\ n.on = c /\ n.kind = req[r].kind
    BY <1>1 DEF Placed, Creating, RequestOK, WellFormed, Request, LoadOnly, WaitsForAnswer,
       WaitsForLoad, WaitsForCreation, WaitsForExit, PC, Ready, NoRequest
  <1> HIDE DEF c, n
  <1>4. /\ req' \in [Slots -> Request] /\ req'[r] = n
        /\ \A s \in Slots \ {r} : req'[s] = req[s]
    BY <1>2, <1>3 DEF IInv, RequestInv, RequestsOK, RequestOK
  <1>5. /\ proc' \in [Clients -> Process] /\ proc'[c] = "closing"
        /\ \A d \in Clients \ {c} : proc'[d] = proc[d]
    BY <1>1, ClosedFacts DEF IInv, StateInv
  <1>6. RequestInv'
    BY <1>3, <1>4 DEF IInv, RequestInv, RequestsOK
  <1>7. StateInv'
    BY <1>1, <1>5 DEF IInv, StateInv, registry, pending, timers
  <1>8. BornInv'
    BY <1>1, <1>3, <1>4, <1>5 DEF IInv, BornInv, StateInv, registry, c
  <1>9. CreationInv'
    <2>1. \A s \in Slots : Creating(s)' <=> s # r /\ Creating(s)
      BY <1>3, <1>4 DEF Creating
    <2>2. \A s \in Slots : Creating(s)' => proc'[req'[s].on] = "up" /\ req'[s].on # registered'
      BY <1>1, <1>4, <1>5, <2>1 DEF IInv, CreationInv, Creating, RequestInv, RequestsOK, RequestOK,
         WellFormed, WaitsForAnswer, c, registry
    <2>3. pendingCreation' # None => /\ req'[pendingCreation'].pc \in {"create", "failing", "lost"}
                                     /\ req'[pendingCreation'].kind = "load"
      BY <1>1, <1>3, <1>4 DEF IInv, CreationInv, StateInv, pending
    <2> QED BY <1>1, <1>3, <1>4, <2>1, <2>2, <2>3 DEF IInv, CreationInv, pending
  <1>10. EntryInv'
    BY <1>1, <1>3, <1>4, <1>5 DEF IInv, EntryInv, DeadEntryIsTransient, IsConnected, StateInv,
       registry, timers, Settled, Ready
  <1>11. QuietInv'
    BY <1>1, <1>3, <1>4, <1>5 DEF IInv, QuietInv, Creating, registry, timers, c
  <1> QED BY <1>6, <1>7, <1>8, <1>9, <1>10, <1>11 DEF IInv

LEMMA LoadAnsweredInv ==
  ASSUME IInv, NEW r \in Slots, LoadAnswered(r)
  PROVE  IInv'
  <1>1. /\ req[r].pc = "load" /\ req[r].kind = "load" /\ SettlePending(r)
        /\ UNCHANGED <<proc, registry, timers, open, counts>>
    BY InUse DEF LoadAnswered, Answered, LoadOnly
  <1>2. PICK ok \in BOOLEAN : req' = LoadSettles(r, ok)
    BY DEF LoadAnswered
  <1> QED BY <1>1, <1>2, SettledInv

LEMMA MessageAnsweredInv ==
  ASSUME IInv, NEW r \in Slots, MessageAnswered(r)
  PROVE  IInv'
  <1>1. /\ req[r].pc = "send" /\ req' = [req EXCEPT ![r] = NoRequest]
        /\ UNCHANGED <<proc, registry, pending, timers, open, counts>>
    BY DEF MessageAnswered, Answered
  <1>2. pendingCreation # r
    BY <1>1, InUse
  <1> QED BY <1>1, <1>2, EndsInv DEF registry, IInv, StateInv

\* A step of the processes and the entry that leaves the requests alone.
LEMMA RequestsKept ==
  ASSUME RequestInv, req' = req
  PROVE  RequestInv'
  BY DEF RequestInv

LEMMA ExitsInv ==
  ASSUME IInv, NEW c \in Clients, Exits(c)
  PROVE  IInv'
  <1> USE RegistryAssumption
  <1>1. /\ Settled /\ proc[c] = "closing"
        /\ proc' \in [Clients -> Process] /\ proc'[c] = "exited"
        /\ \A d \in Clients \ {c} : proc'[d] = proc[d]
        /\ expiring' = expiring \ {c}
        /\ UNCHANGED <<immediate, pending, req, open, counts>>
    BY DEF Exits, IInv, StateInv, Process
  <1>2. \/ c \in expiring /\ registered' = None /\ listeners' = {} /\ timer' = FALSE
           /\ orphans' = IF timer THEN orphans + 1 ELSE orphans
        \/ c \notin expiring /\ UNCHANGED <<registry, orphans>>
    BY DEF Exits, Drop
  <1>3. RequestInv'
    BY <1>1, RequestsKept DEF IInv
  <1>4. StateInv'
    <2>1. orphans' \in Nat /\ registered' \in Clients \cup {None}
          /\ listeners' \subseteq Conns /\ timer' \in BOOLEAN
      <3>1. CASE c \in expiring
        <4>1. orphans' \in Nat
          <5>1. CASE timer
            BY <1>2, <3>1, <5>1 DEF IInv, StateInv
          <5>2. CASE ~timer
            BY <1>2, <3>1, <5>2 DEF IInv, StateInv
          <5> QED BY <5>1, <5>2
        <4> QED BY <1>2, <3>1, <4>1
      <3>2. CASE c \notin expiring
        BY <1>2, <3>2 DEF IInv, StateInv, registry
      <3> QED BY <3>1, <3>2
    <2> QED BY <1>1, <2>1 DEF IInv, StateInv, pending
  <1>5. BornInv'
    BY <1>1, <1>2 DEF IInv, BornInv, StateInv, registry
  <1>6. CreationInv'
    <2>1. \A s \in Slots : Creating(s) => req[s].on \in Clients \ {c}
      BY <1>1 DEF IInv, CreationInv, Creating, RequestInv, RequestsOK, RequestOK, WellFormed,
         WaitsForAnswer
    <2>2. \A s \in Slots : Creating(s) => req[s].on # registered'
      BY <1>2, <2>1 DEF IInv, CreationInv, registry
    <2> QED BY <1>1, <2>1, <2>2 DEF IInv, CreationInv, Creating, pending
  <1>7. EntryInv'
    BY <1>1, <1>2 DEF IInv, EntryInv, DeadEntryIsTransient, IsConnected, StateInv, registry,
       Settled, Ready
  <1>8. QuietInv'
    BY <1>1, <1>2 DEF IInv, QuietInv, Creating, registry
  <1> QED BY <1>3, <1>4, <1>5, <1>6, <1>7, <1>8 DEF IInv

\* The processes and the requests when a client that no request creates is
\* gone, or one that crashed.
LEMMA LostFacts ==
  ASSUME IInv, NEW c \in Clients, req' = Failed(c, req)
  PROVE  /\ RequestInv'
         /\ \A s \in Slots : 
              \/ req'[s] = req[s] /\ ~ (req[s].on = c /\ req[s].pc \in WaitsForAnswer)
              \/ /\ req'[s].pc = "lost" /\ req'[s].on = req[s].on /\ req'[s].kind = req[s].kind
                 /\ req[s].on = c /\ req[s].pc \in WaitsForAnswer
  BY FailedFacts DEF IInv, RequestInv

LEMMA CrashesInv ==
  ASSUME IInv, NEW c \in Clients, Crashes(c)
  PROVE  IInv'
  <1> USE RegistryAssumption
  <1>1. /\ Settled /\ proc[c] = "up"
        /\ proc' \in [Clients -> Process] /\ proc'[c] = "crashed"
        /\ \A d \in Clients \ {c} : proc'[d] = proc[d]
        /\ UNCHANGED <<registry, orphans, expiring, pending, open>>
        /\ counts' \in [{"requests", "expiries", "crashes"} -> Nat]
        /\ counts'["expiries"] = counts["expiries"]
        /\ immediate \subseteq immediate' /\ immediate' \subseteq Clients
        /\ (\A r \in Slots : ~ (req[r].pc = "create" /\ req[r].on = c)) => c \in immediate'
    BY DEF Crashes, IInv, StateInv, Process, Count, Forwards
  <1>2. /\ RequestInv'
        /\ \A s \in Slots : 
              \/ req'[s] = req[s] /\ ~ (req[s].on = c /\ req[s].pc \in WaitsForAnswer)
              \/ /\ req'[s].pc = "lost" /\ req'[s].on = req[s].on /\ req'[s].kind = req[s].kind
                 /\ req[s].on = c /\ req[s].pc \in WaitsForAnswer
    BY LostFacts DEF Crashes
  <1>3. StateInv'
    BY <1>1 DEF IInv, StateInv, registry, pending
  <1>4. BornInv'
    BY <1>1, <1>2 DEF IInv, BornInv, StateInv, registry
  <1>5. \A s \in Slots : Creating(s)' <=> Creating(s) /\ req[s].on # c
    BY <1>2 DEF Creating, WaitsForAnswer
  <1>6. CreationInv'
    <2>1. \A s \in Slots : Creating(s)' => proc'[req'[s].on] = "up" /\ req'[s].on # registered'
      BY <1>1, <1>2, <1>5 DEF IInv, CreationInv, Creating, RequestInv, RequestsOK, RequestOK,
         WellFormed, WaitsForAnswer, registry
    <2>2. pendingCreation' # None => /\ req'[pendingCreation'].pc \in {"create", "failing", "lost"}
                                     /\ req'[pendingCreation'].kind = "load"
      BY <1>1, <1>2 DEF IInv, CreationInv, StateInv, pending
    <2>3. \A s \in Slots : req'[s].pc = "awaitCreation" => req'[s].on = pendingCreation'
      BY <1>1, <1>2 DEF IInv, CreationInv, pending
    <2> QED BY <1>1, <1>2, <1>5, <2>1, <2>2, <2>3 DEF IInv, CreationInv, pending
  <1>7. EntryInv'
    <2>1. registered = c => c \in immediate'
      BY <1>1 DEF IInv, CreationInv, Creating
    <2> QED BY <1>1, <1>2, <2>1 DEF IInv, EntryInv, DeadEntryIsTransient, IsConnected, StateInv,
            registry, Settled, Ready
  <1>8. QuietInv'
    BY <1>1, <1>2, <1>5 DEF IInv, QuietInv, registry
  <1> QED BY <1>2, <1>3, <1>4, <1>6, <1>7, <1>8 DEF IInv

LEMMA RunImmediateInv ==
  ASSUME IInv, RunImmediate
  PROVE  IInv'
  <1>1. /\ Settled /\ immediate' = {}
        /\ UNCHANGED <<orphans, expiring, pending, open, counts>>
    BY DEF RunImmediate
  <1>2. CASE registered # None
    <2>1. Unregister(req)
      BY <1>2 DEF RunImmediate
    <2> QED BY <1>1, <1>2, <2>1, UnregisterInv DEF IInv, RequestInv, StateInv, pending
  <1>3. CASE registered = None
    <2>1. UNCHANGED <<proc, registry, req>>
      BY <1>3 DEF RunImmediate
    <2>2. RequestInv'
      BY <2>1, RequestsKept DEF IInv
    <2>3. StateInv' /\ BornInv'
      BY <1>1, <2>1 DEF IInv, StateInv, BornInv, registry, pending
    <2>4. CreationInv'
      BY <1>1, <2>1 DEF IInv, CreationInv, Creating, registry, pending
    <2>5. EntryInv'
      BY <1>1, <1>3, <2>1 DEF IInv, EntryInv, DeadEntryIsTransient, IsConnected, registry
    <2>6. QuietInv'
      BY <1>1, <2>1 DEF IInv, QuietInv, Creating, registry
    <2> QED BY <2>2, <2>3, <2>4, <2>5, <2>6 DEF IInv
  <1> QED BY <1>2, <1>3

LEMMA ExpiresInv ==
  ASSUME IInv, Expires
  PROVE  IInv'
  <1> USE RegistryAssumption
  <1>1. /\ Settled /\ UNCHANGED <<registered, listeners, immediate, pending, open>>
        /\ timer' \in BOOLEAN /\ orphans' \in Nat
        /\ counts' \in [{"requests", "expiries", "crashes"} -> Nat]
        /\ counts'["expiries"] # 0
    <2>1. timer' \in BOOLEAN /\ orphans' \in Nat
      <3>1. CASE timer' = FALSE /\ orphans' = orphans
        BY <3>1 DEF IInv, StateInv
      <3>2. CASE orphans > 0 /\ orphans' = orphans - 1 /\ timer' = timer
        BY <3>2 DEF IInv, StateInv
      <3> QED BY <3>1, <3>2 DEF Expires
    <2>2. counts' = [counts EXCEPT !["expiries"] = counts["expiries"] + 1]
      BY DEF Expires, Count
    <2>3. counts \in [{"requests", "expiries", "crashes"} -> Nat]
      BY DEF IInv, StateInv
    <2>4. /\ counts' \in [{"requests", "expiries", "crashes"} -> Nat]
          /\ counts'["expiries"] # 0
      BY <2>2, <2>3
    <2> QED BY <2>1, <2>4 DEF Expires
  <1>2. QuietInv'
    BY <1>1 DEF QuietInv
  <1>3. CASE registered = None
    <2>1. UNCHANGED <<proc, req, expiring>>
      BY <1>3 DEF Expires
    <2>2. RequestInv'
      BY <2>1, RequestsKept DEF IInv
    <2>3. StateInv' /\ BornInv'
      BY <1>1, <2>1 DEF IInv, StateInv, BornInv, pending
    <2>4. CreationInv'
      BY <1>1, <2>1 DEF IInv, CreationInv, Creating, pending
    <2>5. EntryInv'
      BY <1>1, <1>3, <2>1 DEF IInv, EntryInv, DeadEntryIsTransient, IsConnected
    <2> QED BY <1>2, <2>2, <2>3, <2>4, <2>5 DEF IInv
  <1>4. CASE registered # None
    <2>1. /\ registered \in Clients /\ proc' = Closed(registered)
          /\ req' = Failed(registered, req)
          /\ expiring' = expiring \cup {registered}
      BY <1>4 DEF Expires, IInv, StateInv
    <2>2. /\ proc' \in [Clients -> Process]
          /\ \A d \in Clients \ {registered} : proc'[d] = proc[d]
          /\ proc'[registered] = "unborn" <=> proc[registered] = "unborn"
      BY <2>1, ClosedFacts DEF IInv, StateInv
    <2>3. /\ RequestInv'
          /\ \A s \in Slots : 
              \/ req'[s] = req[s] /\ ~ (req[s].on = registered /\ req[s].pc \in WaitsForAnswer)
              \/ /\ req'[s].pc = "lost" /\ req'[s].on = req[s].on /\ req'[s].kind = req[s].kind
                 /\ req[s].on = registered /\ req[s].pc \in WaitsForAnswer
      BY <2>1, LostFacts
    <2>4. StateInv'
      BY <1>1, <2>1, <2>2 DEF IInv, StateInv, pending
    <2>5. BornInv'
      BY <1>1, <2>1, <2>2, <2>3 DEF IInv, BornInv
    <2>6. \A s \in Slots : /\ Creating(s)' <=> Creating(s)
                           /\ Creating(s) => req'[s] = req[s] /\ req[s].on \in Clients
      BY <2>3 DEF IInv, CreationInv, Creating, RequestInv, RequestsOK, RequestOK, WellFormed,
         WaitsForAnswer
    <2>7. CreationInv'
      <3>1. \A s \in Slots : Creating(s)' => proc'[req'[s].on] = "up" /\ req'[s].on # registered'
        BY <1>1, <2>2, <2>6 DEF IInv, CreationInv
      <3>2. pendingCreation' # None => /\ req'[pendingCreation'].pc \in {"create", "failing", "lost"}
                                       /\ req'[pendingCreation'].kind = "load"
        BY <1>1, <2>3 DEF IInv, CreationInv, StateInv, pending
      <3>3. \A s \in Slots : req'[s].pc = "awaitCreation" => req'[s].on = pendingCreation'
        BY <1>1, <2>3 DEF IInv, CreationInv, pending
      <3> QED BY <1>1, <2>6, <3>1, <3>2, <3>3 DEF IInv, CreationInv, pending
    <2>8. EntryInv'
      BY <1>1, <2>1, <2>3 DEF EntryInv, DeadEntryIsTransient, Settled, Ready
    <2> QED BY <1>2, <2>3, <2>4, <2>5, <2>7, <2>8 DEF IInv
  <1> QED BY <1>3, <1>4

LEMMA DisconnectsInv ==
  ASSUME IInv, NEW k \in Conns, Disconnects(k)
  PROVE  IInv'
  <1>1. /\ open' = open \ {k} /\ listeners' = listeners \ {k}
        /\ UNCHANGED <<proc, registered, timer, timers, pending, req, counts>>
    BY DEF Disconnects
  <1>2. RequestInv'
    BY <1>1, RequestsKept DEF IInv
  <1>3. StateInv' /\ BornInv'
    BY <1>1 DEF IInv, StateInv, BornInv, pending, timers
  <1>4. CreationInv'
    BY <1>1 DEF IInv, CreationInv, Creating, pending
  <1>5. EntryInv'
    BY <1>1 DEF IInv, EntryInv, DeadEntryIsTransient, IsConnected, timers
  <1>6. QuietInv'
    BY <1>1 DEF IInv, QuietInv, Creating, timers
  <1> QED BY <1>2, <1>3, <1>4, <1>5, <1>6 DEF IInv

-----------------------------------------------------------------------------
LEMMA InitInv == Init => IInv
  <1> SUFFICES ASSUME Init
               PROVE  IInv
    OBVIOUS
  <1>1. \A r \in Slots : req[r] = NoRequest
    BY DEF Init
  <1>2. RequestOK(NoRequest) /\ NoRequest.pc = "idle" /\ NoRequest.on = None
    BY DEF RequestOK, WellFormed, Request, LoadOnly, WaitsForAnswer,
       WaitsForLoad, WaitsForCreation, WaitsForExit, PC, Ready, NoRequest
  <1>3. RequestInv
    BY <1>1, <1>2 DEF RequestInv, RequestsOK, RequestOK, Init
  <1>4. StateInv
    BY DEF Init, StateInv, Process
  <1>5. BornInv /\ EntryInv /\ CreationInv
    BY <1>1, <1>2, RegistryAssumption
       DEF Init, BornInv, EntryInv, DeadEntryIsTransient, CreationInv, Creating
  <1>6. QuietInv
    BY <1>1, <1>2 DEF Init, QuietInv
  <1> QED BY <1>3, <1>4, <1>5, <1>6 DEF IInv

LEMMA NextInv == IInv /\ [Next]_vars => IInv'
  <1> SUFFICES ASSUME IInv, [Next]_vars
               PROVE  IInv'
    OBVIOUS
  <1>1. CASE UNCHANGED vars
    <2>1. UNCHANGED <<proc, registered, listeners, timer, orphans, expiring, immediate,
                      pendingLoad, pendingCreation, req, open, counts>>
      BY <1>1 DEF vars, registry, timers, pending
    <2>2. RequestInv' /\ StateInv' /\ BornInv'
      BY <2>1, RequestsKept DEF IInv, StateInv, BornInv
    <2>3. CreationInv' /\ EntryInv' /\ QuietInv'
      BY <2>1 DEF IInv, CreationInv, EntryInv, DeadEntryIsTransient, IsConnected, QuietInv, Creating
    <2> QED BY <2>2, <2>3 DEF IInv
  <1>2. ASSUME NEW r \in Slots, NEW k \in Conns,
               LoadSession(r, k) \/ AddUserMessage(r, k) \/ CloseSession(r, k)
        PROVE  IInv'
    BY <1>2, LoadSessionInv, AddUserMessageInv, CloseSessionInv
  <1>3. ASSUME NEW r \in Slots, Resume(r)
        PROVE  IInv'
    BY <1>3, ResumeFollowerInv, ResumeAwaitingInv, ResumeClosedInv, ResumeLostInv DEF Resume
  <1>4. ASSUME NEW r \in Slots, Answer(r)
        PROVE  IInv'
    BY <1>4, CreatedInv, CreationFailsInv, LoadAnsweredInv, MessageAnsweredInv DEF Answer
  <1>5. ASSUME NEW c \in Clients, Exits(c) \/ Crashes(c)
        PROVE  IInv'
    BY <1>5, ExitsInv, CrashesInv
  <1>6. CASE RunImmediate \/ Expires
    BY <1>6, RunImmediateInv, ExpiresInv
  <1>7. ASSUME NEW k \in Conns, Disconnects(k)
        PROVE  IInv'
    BY <1>7, DisconnectsInv
  <1> QED BY <1>1, <1>2, <1>3, <1>4, <1>5, <1>6, <1>7 DEF Next

LEMMA Inductive == Spec => []IInv
  BY InitInv, NextInv, PTL DEF Spec

-----------------------------------------------------------------------------
\* Every reachable state is well-formed; in particular a suspended handler
\* awaits a client or another handler of the right kind.
THEOREM RegistryTypeCorrect == Spec => []TypeOK
  <1>1. IInv => TypeOK
    BY DEF IInv, RequestInv, RequestsOK, RequestOK, StateInv, TypeOK
  <1> QED BY <1>1, Inductive, PTL

\* However many requests overlap and processes crash: while no timeout has
\* expired, no process the daemon started for the session runs unaccounted
\* for (registerClient, unregisterDroolClient and the catch block of
\* createDroolClientForLoadSession).
THEOREM NoLostProcess == Spec => []ProcessAccounted
  <1>1. IInv => ProcessAccounted
    BY DEF IInv, QuietInv, ProcessAccounted
  <1> QED BY <1>1, Inductive, PTL

\* At most one of any number of loads creates a client (the lookup of
\* pendingClientCreations and its removal when a load settles).
THEOREM OneCreation == Spec => []OneLoadCreates
  <1>1. IInv => OneLoadCreates
    BY DEF IInv, CreationInv, OneLoadCreates
  <1> QED BY <1>1, Inductive, PTL

\* The registry never keeps a dead client for good (the clean-up of a crash,
\* the close of a timeout).
THEOREM DeadEntriesGo == Spec => []DeadEntryIsTransient
  <1>1. IInv => DeadEntryIsTransient
    BY DEF IInv, EntryInv
  <1> QED BY <1>1, Inductive, PTL

\* While no timeout has expired, a load that waits for an answer waits for the
\* registered client, and its connection listens (addConnectionToSession,
\* registerClient and what unregisterDroolClient does to pending requests).
THEOREM LoadsListen == Spec => []LoadListens
  <1>1. IInv => LoadListens
    BY DEF IInv, QuietInv, LoadListens
  <1> QED BY <1>1, Inductive, PTL
=============================================================================
