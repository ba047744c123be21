------------------------- MODULE TurnRunner_proofs -------------------------
(***************************************************************************)
(* The invariants of TurnRunner hold for any numbers of messages,          *)
(* interrupts, rounds and hand-offs.                                       *)
(*                                                                         *)
(* None of them is inductive alone; IInv at the end is, and has the parts: *)
(*                                                                         *)
(*   StateInv    the types, and which phases of a loop go with a spec to   *)
(*               hand off and with an aborted controller;                  *)
(*   AgentInv    a stop handler is one of a loop that existed, so that     *)
(*               the call of an old one never reaches a loop in setup;     *)
(*   ServiceInv  what the runner knows of a turn in progress is true, the  *)
(*               queue is served, and without a discard one item is        *)
(*               handled at a time and the runner's fields are its own;    *)
(*   StickInv    a turn told to stop is told by the latch before its loop  *)
(*               exists, and by its controller or its flag afterwards;     *)
(*   CauseInv    a latch and a signal come from an interrupt of the turn   *)
(*               they reach: each way a turn has of losing its handler     *)
(*               leaves an interrupt that awaits its end.                  *)
(***************************************************************************)
EXTENDS TurnRunner, Queue_proofs

LoopsInv ==
    /\ \A i \in payload : generation[i] < MaxHandoffs /\ i # Resume
    /\ \A i \in Turns : loop[i] = "handoff" => i \in payload
    /\ \A i \in aborted : loop[i] \in {"request", "rerun", "tools"}

StateInv == TypeOK /\ LoopsInv

LEMMA Constants ==
  /\ Resume \in Turns /\ Messages \subseteq Turns /\ Resume \notin Messages
  /\ None \notin Turns /\ None \notin Loops
  /\ \A i \in Turns : i # Resume => i \in Messages
  /\ EndOfLoop \subseteq Messages
  BY TurnRunnerAssumption

\* What ServeQueue does, by the item n that is taken; None when there is none.
Served(r, q, ends, its, lps, n) ==
    /\ messageQueue' \in Seq(Turns) /\ Distinct(messageQueue')
    /\ Members(messageQueue') = Members(q) \ {n}
    /\ atEnd' = ends \ {n}
    /\ \/ /\ n = None
          /\ mode # "up" \/ r.isAgentLoopInProgress \/ q = <<>>
          /\ item' = its /\ loop' = lps /\ runner' = LeaveQueue(r)
       \/ /\ n \in Members(q) /\ mode = "up" /\ ~ r.isAgentLoopInProgress
          /\ \/ /\ n # Resume
                /\ item' = [its EXCEPT ![n] = "prepare"]
                /\ loop' = lps /\ runner' = r
             \/ /\ n = Resume /\ r.blockOnMcpLoad
                /\ item' = [its EXCEPT ![n] = "gate"]
                /\ loop' = lps /\ runner' = EnterGate(Reset(r))
             \/ /\ n = Resume /\ ~ r.blockOnMcpLoad
                /\ item' = [its EXCEPT ![n] = "turn"]
                /\ loop' = [lps EXCEPT ![n] = "setup"]
                /\ runner' = Begin(Reset(r), n)

LEMMA NextOne ==
  ASSUME NEW q \in Seq(Turns), Distinct(q), NEW ends
  PROVE  IF q = <<>> THEN NextItem(q, ends) = None ELSE NextItem(q, ends) \in Members(q)
  <1> DEFINE s == Keep(q, Members(q) \ ends)
  <1>1. s \in Seq(Turns) /\ Distinct(s) /\ Members(s) \subseteq Members(q)
    BY KeepFilters
  <1>2. NextItem(q, ends) = IF s # <<>> THEN Head(s)
                            ELSE IF q # <<>> THEN Head(q) ELSE None
    BY DEF NextItem
  <1> HIDE DEF s
  <1>3. s # <<>> => Head(s) \in Members(q)
    BY <1>1, Shifted
  <1>4. q # <<>> => Head(q) \in Members(q)
    BY Shifted
  <1>5. Members(q) = {} <=> q = <<>>
    BY SeqFacts
  <1> QED BY <1>2, <1>3, <1>4, <1>5

LEMMA ServeTakes ==
  ASSUME NEW r, NEW q \in Seq(Turns), Distinct(q), NEW ends, NEW its, NEW lps,
         ServeQueue(r, q, ends, its, lps)
  PROVE  \E n \in Turns \cup {None} : Served(r, q, ends, its, lps, n)
  <1> DEFINE n == IF mode # "up" \/ r.isAgentLoopInProgress THEN None
                  ELSE NextItem(q, ends)
             stage == IF n # Resume THEN "prepare"
                      ELSE IF r.blockOnMcpLoad THEN "gate" ELSE "turn"
  <1>1. /\ messageQueue' = Without(q, n)
        /\ atEnd' = ends \ {n}
        /\ item' = IF n = None THEN its ELSE [its EXCEPT ![n] = stage]
        /\ runner' = IF n = None THEN LeaveQueue(r)
                     ELSE IF n # Resume THEN r
                     ELSE IF stage = "gate" THEN EnterGate(Reset(r))
                     ELSE Begin(Reset(r), n)
        /\ loop' = IF n = Resume /\ stage = "turn"
                   THEN [lps EXCEPT ![n] = "setup"] ELSE lps
    BY DEF ServeQueue
  <1>2. \/ n = None /\ (mode # "up" \/ r.isAgentLoopInProgress \/ q = <<>>)
        \/ n \in Members(q) /\ mode = "up" /\ ~ r.isAgentLoopInProgress
    BY NextOne
  <1>3. Members(q) \subseteq Turns
    BY SeqFacts
  <1> HIDE DEF n
  <1>4. /\ messageQueue' \in Seq(Turns) /\ Distinct(messageQueue')
        /\ Members(messageQueue') = Members(q) \ {n}
    BY <1>1, WithoutOne
  <1>5. Served(r, q, ends, its, lps, n)
    BY <1>1, <1>2, <1>3, <1>4, Constants DEF Served
  <1> QED BY <1>2, <1>3, <1>5

-----------------------------------------------------------------------------
\* Types.

QueueOK(q, ends, its) ==
    /\ q \in Seq(Turns) /\ Distinct(q)
    /\ ends \subseteq Messages /\ ends \subseteq Members(q)
    /\ its \in [Turns -> Item]
    /\ \A i \in Turns : its[i] = "queued" <=> i \in Members(q)

LoopsOK(its, lps) ==
    /\ lps \in [Turns -> Phase]
    /\ \A i \in Turns : its[i] = "turn" <=> lps[i] # "off"

LEMMA TypeParts ==
  TypeOK <=> /\ LoopTypeOK /\ QueueOK(messageQueue, atEnd, item) /\ LoopsOK(item, loop)
             /\ runner \in Runner
             /\ interrupt \in [Interrupts -> {"new", "stop", "settle", "joined", "answered"}]
             /\ awaits \in [Interrupts -> Loops \cup Turns \cup {None}]
             /\ mode \in Mode
  BY DEF TypeOK, WellFormed, QueueOK, LoopsOK, LoopTypeOK

LEMMA TypePartsNext ==
  TypeOK' <=> /\ LoopTypeOK' /\ QueueOK(messageQueue', atEnd', item') /\ LoopsOK(item', loop')
              /\ runner' \in Runner
              /\ interrupt' \in [Interrupts -> {"new", "stop", "settle", "joined", "answered"}]
              /\ awaits' \in [Interrupts -> Loops \cup Turns \cup {None}]
              /\ mode' \in Mode
  BY DEF TypeOK, WellFormed, QueueOK, LoopsOK, LoopTypeOK

LEMMA RunnerOps ==
  ASSUME NEW r \in Runner, NEW i \in Turns
  PROVE  /\ Reset(r) \in Runner /\ Begin(r, i) \in Runner /\ EnterGate(r) \in Runner
         /\ Finish(r) \in Runner /\ LeaveQueue(r) \in Runner
         /\ Begin(Reset(r), i) \in Runner /\ EnterGate(Reset(r)) \in Runner
  BY DEF Reset, Begin, EnterGate, Finish, LeaveQueue, Runner

LEMMA ServedTypes ==
  ASSUME NEW r \in Runner, NEW q, NEW ends, NEW its, NEW lps,
         QueueOK(q, ends, its), LoopsOK(its, lps),
         NEW n \in Turns \cup {None}, Served(r, q, ends, its, lps, n)
  PROVE  /\ QueueOK(messageQueue', atEnd', item') /\ LoopsOK(item', loop')
         /\ runner' \in Runner
  <1>1. runner' \in Runner
    BY RunnerOps, Constants DEF Served
  <1>2. /\ messageQueue' \in Seq(Turns) /\ Distinct(messageQueue')
        /\ atEnd' \subseteq Messages /\ atEnd' \subseteq Members(messageQueue')
    BY DEF Served, QueueOK
  <1>3. item' \in [Turns -> Item]
    BY Constants DEF Served, QueueOK, Item, Handled
  <1>4. loop' \in [Turns -> Phase]
    BY DEF Served, LoopsOK, Phase
  <1>5. \A i \in Turns : item'[i] = "queued" <=> i \in Members(messageQueue')
    BY Constants DEF Served, QueueOK
  <1>6. \A i \in Turns : item'[i] = "turn" <=> loop'[i] # "off"
    <2>1. \A i \in Turns : i \in Members(q) => lps[i] = "off"
      BY DEF QueueOK, LoopsOK
    <2> QED BY <2>1, Constants DEF Served, QueueOK, LoopsOK
  <1> QED BY <1>1, <1>2, <1>3, <1>4, <1>5, <1>6 DEF QueueOK, LoopsOK

LEMMA ServeTypes ==
  ASSUME NEW r \in Runner, NEW q, NEW ends, NEW its, NEW lps,
         QueueOK(q, ends, its), LoopsOK(its, lps), ServeQueue(r, q, ends, its, lps)
  PROVE  /\ QueueOK(messageQueue', atEnd', item') /\ LoopsOK(item', loop')
         /\ runner' \in Runner
  <1>1. PICK n \in Turns \cup {None} : Served(r, q, ends, its, lps, n)
    BY ServeTakes DEF QueueOK
  <1> QED BY <1>1, ServedTypes

LEMMA QueuedTypes ==
  ASSUME TypeOK, NEW q, NEW ends, NEW its,
         QueueOK(q, ends, its), LoopsOK(its, loop), Queued(q, ends, its)
  PROVE  /\ QueueOK(messageQueue', atEnd', item') /\ LoopsOK(item', loop')
         /\ runner' \in Runner
  <1>1. [runner EXCEPT !.isProcessing = TRUE] \in Runner /\ runner \in Runner
    BY DEF TypeOK, Runner
  <1> QED BY <1>1, ServeTypes DEF Queued

LEMMA DrainTypes ==
  ASSUME QueueOK(messageQueue, atEnd, item), LoopsOK(item, loop),
         interrupt \in [Interrupts -> {"new", "stop", "settle", "joined", "answered"}],
         awaits \in [Interrupts -> Loops \cup Turns \cup {None}],
         NEW r \in Interrupts, NEW f \in Runner, DrainAndSettle(r, f)
  PROVE  /\ QueueOK(messageQueue', atEnd', item') /\ LoopsOK(item', loop)
         /\ runner' \in Runner
         /\ interrupt' \in [Interrupts -> {"new", "stop", "settle", "joined", "answered"}]
         /\ awaits' \in [Interrupts -> Loops \cup Turns \cup {None}]
  <1>1. QueueOK(messageQueue', atEnd', item')
    BY EmptyQueue DEF DrainAndSettle, QueueOK, Item, Gone
  <1>2. LoopsOK(item', loop)
    BY DEF DrainAndSettle, LoopsOK
  <1>3. runner' \in Runner
    BY DEF DrainAndSettle, Runner
  <1>4. interrupt' \in [Interrupts -> {"new", "stop", "settle", "joined", "answered"}]
    BY DEF DrainAndSettle, Settle, Answered
  <1>5. awaits' \in [Interrupts -> Loops \cup Turns \cup {None}]
    BY DEF DrainAndSettle, Settle, Runner
  <1> QED BY <1>1, <1>2, <1>3, <1>4, <1>5

\* A request that puts an item into the queue: push or unshift, then the start
\* of a coroutine when none is thought to run.
Pushes(q, ends, its) ==
    /\ mode = "up" /\ q # <<>>
    /\ QueueOK(q, ends, its) /\ LoopsOK(its, loop)
    /\ \A i \in Turns : its[i] = item[i] \/ (item[i] = "new" /\ its[i] = "queued")
    /\ Queued(q, ends, its)
    /\ UNCHANGED <<LoopDetail, told, interrupt, awaits, mode>>

LEMMA PushOK ==
  ASSUME TypeOK, NEW m \in Turns, item[m] = "new", NEW ends \in SUBSET Messages,
         ends \subseteq atEnd \cup {m}
  PROVE  /\ QueueOK(Append(messageQueue, m), ends, [item EXCEPT ![m] = "queued"])
         /\ LoopsOK([item EXCEPT ![m] = "queued"], loop)
         /\ Append(messageQueue, m) # <<>>
  <1>0. QueueOK(messageQueue, atEnd, item) /\ LoopsOK(item, loop)
    BY TypeParts
  <1>1. m \notin Members(messageQueue)
    BY <1>0 DEF QueueOK
  <1>2. /\ Append(messageQueue, m) \in Seq(Turns) /\ Distinct(Append(messageQueue, m))
        /\ Members(Append(messageQueue, m)) = Members(messageQueue) \cup {m}
    BY <1>0, <1>1, Pushed DEF QueueOK
  <1>3. ends \subseteq Members(messageQueue) \cup {m}
    BY <1>0 DEF QueueOK
  <1>4. [item EXCEPT ![m] = "queued"] \in [Turns -> Item]
    BY <1>0 DEF QueueOK, Item
  <1>5. \A i \in Turns : [item EXCEPT ![m] = "queued"][i] = "queued"
                         <=> i \in Members(messageQueue) \cup {m}
    BY <1>0 DEF QueueOK
  <1>6. \A i \in Turns : [item EXCEPT ![m] = "queued"][i] = "turn" <=> loop[i] # "off"
    BY <1>0 DEF QueueOK, LoopsOK
  <1>7. Append(messageQueue, m) # <<>>
    BY <1>2, SeqFacts
  <1> QED BY <1>0, <1>2, <1>3, <1>4, <1>5, <1>6, <1>7 DEF QueueOK, LoopsOK

LEMMA Pushing ==
  ASSUME TypeOK, LoadSession \/ \E m \in Messages : Enqueue(m) \/ UpdateQueue(m)
  PROVE  \E q, ends, its : Pushes(q, ends, its)
  <1>0. QueueOK(messageQueue, atEnd, item) /\ LoopsOK(item, loop)
    BY TypeParts
  <1>a. ASSUME NEW m \in Turns, item[m] = "new"
        PROVE  \A i \in Turns : LET its == [item EXCEPT ![m] = "queued"]
                                IN its[i] = item[i] \/ (item[i] = "new" /\ its[i] = "queued")
    BY <1>0, <1>a DEF QueueOK
  <1>1. CASE LoadSession
    <2>1. atEnd \in SUBSET Messages /\ atEnd \subseteq atEnd \cup {Resume} /\ Resume \in Turns
      BY <1>0, Constants DEF QueueOK
    <2>2. /\ item[Resume] = "new" /\ mode = "up"
          /\ Queued(Append(messageQueue, Resume), atEnd, [item EXCEPT ![Resume] = "queued"])
          /\ UNCHANGED <<LoopDetail, told, interrupt, awaits, mode>>
      BY <1>1 DEF LoadSession
    <2>3. Pushes(Append(messageQueue, Resume), atEnd, [item EXCEPT ![Resume] = "queued"])
      BY <1>a, <2>1, <2>2, PushOK DEF Pushes
    <2> QED BY <2>3
  <1>2. ASSUME NEW m \in Messages, Enqueue(m) PROVE \E q, ends, its : Pushes(q, ends, its)
    <2> DEFINE waits == m \in EndOfLoop
                        /\ (runner.isProcessing \/ runner.isAgentLoopInProgress)
               ends == IF waits THEN atEnd \cup {m} ELSE atEnd
    <2>1. ends \in SUBSET Messages /\ ends \subseteq atEnd \cup {m} /\ m \in Turns
      BY <1>0, Constants DEF QueueOK
    <2>2. /\ item[m] = "new" /\ mode = "up"
          /\ Queued(Append(messageQueue, m), ends, [item EXCEPT ![m] = "queued"])
          /\ UNCHANGED <<LoopDetail, told, interrupt, awaits, mode>>
      BY <1>2 DEF Enqueue
    <2> HIDE DEF ends
    <2>3. Pushes(Append(messageQueue, m), ends, [item EXCEPT ![m] = "queued"])
      BY <1>a, <2>1, <2>2, PushOK DEF Pushes
    <2> QED BY <2>3
  <1>3. ASSUME NEW m \in Messages, UpdateQueue(m) PROVE \E q, ends, its : Pushes(q, ends, its)
    <2>1. PICK ends \in {atEnd \cup {m}, atEnd \ {m}} :
              Queued(<<m>> \o Without(messageQueue, m), ends, item)
      BY <1>3 DEF UpdateQueue
    <2>0. mode = "up" /\ item[m] = "queued" /\ UNCHANGED <<LoopDetail, told, interrupt, awaits, mode>>
      BY <1>3 DEF UpdateQueue
    <2> DEFINE w == Without(messageQueue, m)
    <2>2. w \in Seq(Turns) /\ Distinct(w) /\ Members(w) = Members(messageQueue) \ {m}
      BY <1>0, WithoutOne DEF QueueOK
    <2> HIDE DEF w
    <2>3. /\ <<m>> \o w \in Seq(Turns) /\ Distinct(<<m>> \o w)
          /\ Members(<<m>> \o w) = Members(w) \cup {m}
      BY <2>2, Unshifted, Constants
    <2>4. Members(<<m>> \o w) = Members(messageQueue)
      BY <1>0, <2>0, <2>2, <2>3, Constants DEF QueueOK
    <2>5. QueueOK(<<m>> \o w, ends, item)
      BY <1>0, <2>0, <2>1, <2>3, <2>4, Constants DEF QueueOK
    <2>6. <<m>> \o w # <<>>
      BY <2>3, SeqFacts
    <2>7. Pushes(<<m>> \o w, ends, item)
      BY <1>0, <2>0, <2>1, <2>5, <2>6 DEF Pushes, w
    <2> QED BY <2>7
  <1> QED BY <1>1, <1>2, <1>3

LEMMA RequestTypes ==
  ASSUME TypeOK, Request
  PROVE  TypeOK'
  <1> USE DEF LoopDetail, loopVars, vars
  <1>0. /\ LoopTypeOK /\ QueueOK(messageQueue, atEnd, item) /\ LoopsOK(item, loop)
        /\ runner \in Runner
        /\ interrupt \in [Interrupts -> {"new", "stop", "settle", "joined", "answered"}]
        /\ awaits \in [Interrupts -> Loops \cup Turns \cup {None}]
        /\ mode \in Mode
    BY TypeParts
  <1>2. CASE LoadSession \/ \E m \in Messages : Enqueue(m) \/ UpdateQueue(m)
    <2>1. PICK q, ends, its : Pushes(q, ends, its)
      BY <1>2, Pushing
    <2>2. /\ QueueOK(messageQueue', atEnd', item') /\ LoopsOK(item', loop')
          /\ runner' \in Runner
      BY <2>1, QueuedTypes DEF Pushes
    <2>3. LoopTypeOK'
      BY <1>0, <2>1, <2>2 DEF Pushes, LoopTypeOK, LoopsOK
    <2> QED BY <1>0, <2>1, <2>2, <2>3, TypePartsNext DEF Pushes
  <1>3. CASE Close \/ Signalled
    BY <1>0, <1>3, TypePartsNext DEF Close, Signalled, ModeBecomes, Mode, LoopTypeOK
  <1>5. ASSUME NEW m \in Messages, Withdraw(m) PROVE TypeOK'
    <2>1. /\ Without(messageQueue, m) \in Seq(Turns) /\ Distinct(Without(messageQueue, m))
          /\ Members(Without(messageQueue, m)) = Members(messageQueue) \ {m}
      BY <1>0, WithoutOne DEF QueueOK
    <2>2. QueueOK(messageQueue', atEnd', item')
      BY <1>0, <1>5, <2>1, Constants DEF Withdraw, QueueOK, Item, Gone
    <2>3. LoopsOK(item', loop')
      BY <1>0, <1>5, Constants DEF Withdraw, QueueOK, LoopsOK
    <2> QED BY <1>0, <1>5, <2>2, <2>3, TypePartsNext DEF Withdraw, LoopTypeOK
  <1>7. ASSUME NEW r \in Interrupts, InterruptIdle(r) PROVE TypeOK'
    BY <1>0, <1>7, TypePartsNext DEF InterruptIdle, LoopTypeOK, Runner
  <1>8. ASSUME NEW r \in Interrupts, InterruptJoins(r) PROVE TypeOK'
    BY <1>0, <1>8, TypePartsNext DEF InterruptJoins, LoopTypeOK
  <1>9. ASSUME NEW r \in Interrupts, InterruptLatches(r) PROVE TypeOK'
    <2>1. PICK latch \in BOOLEAN :
              DrainAndSettle(r, [runner EXCEPT !.wasInterrupted = TRUE,
                                               !.pendingInterrupt = latch])
      BY <1>0, <1>9 DEF InterruptLatches, Runner
    <2>2. [runner EXCEPT !.wasInterrupted = TRUE, !.pendingInterrupt = latch] \in Runner
      BY <1>0 DEF Runner
    <2>3. loop' = loop /\ mode' = mode
      BY <1>9 DEF InterruptLatches
    <2>4. /\ QueueOK(messageQueue', atEnd', item') /\ LoopsOK(item', loop')
          /\ runner' \in Runner
          /\ interrupt' \in [Interrupts -> {"new", "stop", "settle", "joined", "answered"}]
          /\ awaits' \in [Interrupts -> Loops \cup Turns \cup {None}]
      BY <1>0, <2>1, <2>2, <2>3, DrainTypes
    <2>5. LoopTypeOK'
      BY <1>0, <1>9 DEF InterruptLatches, LoopTypeOK
    <2> QED BY <1>0, <2>3, <2>4, <2>5, TypePartsNext
  <1>10. ASSUME NEW r \in Interrupts, InterruptStops(r) PROVE TypeOK'
    <2>1. runner.interruptAgent \in Loops
      BY <1>0, <1>10 DEF InterruptStops, Runner
    <2>2. PICK l \in Loops : l = runner.interruptAgent
      BY <2>1
    <2>3. l[1] \in Turns
      BY DEF Loops
    <2>4. LoopTypeOK'
      BY <1>0, <1>10, <2>2, <2>3 DEF InterruptStops, StopAgent, Stops, LoopTypeOK
    <2>5. runner' \in Runner
      BY <1>0, <1>10 DEF InterruptStops, Runner
    <2>6. awaits' \in [Interrupts -> Loops \cup Turns \cup {None}]
      BY <1>0, <1>10, <2>2 DEF InterruptStops
    <2>7. interrupt' \in [Interrupts -> {"new", "stop", "settle", "joined", "answered"}]
      BY <1>0, <1>10 DEF InterruptStops
    <2>8. /\ messageQueue' = messageQueue /\ atEnd' = atEnd /\ item' = item /\ loop' = loop
          /\ mode' = mode
      BY <1>10 DEF InterruptStops, StopAgent
    <2> QED BY <1>0, <2>4, <2>5, <2>6, <2>7, <2>8, TypePartsNext
  <1> QED BY <1>2, <1>3, <1>5, <1>7, <1>8, <1>9, <1>10 DEF Request

LEMMA EndedTypes ==
  ASSUME QueueOK(messageQueue, atEnd, item), LoopsOK(item, loop),
         NEW i \in Turns, item[i] \in Handled, NEW its \in [Turns -> Item], NEW lps \in [Turns -> Phase],
         NEW gone \in Gone, its = [item EXCEPT ![i] = gone], lps = [loop EXCEPT ![i] = "off"]
  PROVE  QueueOK(messageQueue, atEnd, its) /\ LoopsOK(its, lps)
  <1>1. \A j \in Turns : its[j] = "queued" <=> j \in Members(messageQueue)
    BY DEF QueueOK, Handled, Gone
  <1>2. \A j \in Turns : its[j] = "turn" <=> lps[j] # "off"
    BY DEF LoopsOK, Gone, QueueOK
  <1> QED BY <1>1, <1>2 DEF QueueOK, LoopsOK

LEMMA LoopStepTypes ==
  ASSUME LoopTypeOK, LoopsOK(item, loop), LoopsInv, NEW i \in Turns, item' = item,
         \/ PrimeFails(i) \/ CallFails(i) \/ SendRequest(i)
         \/ RequestAborted(i) \/ RequestAnswered(i) \/ ToolsCalled(i)
         \/ Rerun(i) \/ RerunDone(i) \/ ToolsStop(i) \/ RunAgain(i) \/ RunEnds(i)
         \/ HandOff(i) \/ HandOffFails(i) \/ ToolsDone(i)
  PROVE  LoopTypeOK' /\ LoopsOK(item', loop') /\ LoopsInv'
  <1>0. MaxRounds \in Nat /\ MaxHandoffs \in Nat
    BY AgentLoopAssumption
  <1> USE DEF LoopTypeOK, LoopsOK, LoopsInv, Goto, Phase
  <1>1. CASE PrimeFails(i)
    BY <1>1 DEF PrimeFails
  <1>2. CASE CallFails(i)
    BY <1>2 DEF CallFails
  <1>3. CASE SendRequest(i)
    BY <1>3 DEF SendRequest, Signal
  <1>4. CASE RequestAborted(i)
    BY <1>4 DEF RequestAborted, AfterRun
  <1>5. CASE RequestAnswered(i)
    BY <1>0, <1>5 DEF RequestAnswered, GoesOn
  <1>6. CASE ToolsCalled(i)
    BY <1>0, <1>6 DEF ToolsCalled, GoesOn
  <1>7. CASE Rerun(i) \/ RerunDone(i) \/ ToolsDone(i)
    BY <1>7 DEF Rerun, RerunDone, ToolsDone
  <1>8. CASE ToolsStop(i)
    BY <1>8 DEF ToolsStop
  <1>9. CASE RunAgain(i)
    BY <1>0, <1>9 DEF RunAgain, GoesOn
  <1>10. CASE RunEnds(i)
    BY <1>10 DEF RunEnds, AfterRun
  <1>11. CASE HandOff(i)
    BY <1>0, <1>11 DEF HandOff
  <1>12. CASE HandOffFails(i)
    BY <1>12 DEF HandOffFails
  <1> QED BY <1>1, <1>2, <1>3, <1>4, <1>5, <1>6, <1>7, <1>8, <1>9, <1>10, <1>11, <1>12

\* A loop that was off is set up.
LEMMA BegunLoops ==
  ASSUME StateInv, UNCHANGED LoopDetail, loop' \in [Turns -> Phase],
         \A i \in Turns : loop'[i] = loop[i]
                          \/ (loop[i] = "off" /\ loop'[i] = "setup")
  PROVE  LoopsInv'
  BY DEF StateInv, LoopsInv, LoopDetail, TypeOK, LoopTypeOK

LEMMA QueuedLoops ==
  ASSUME NEW r, NEW q, NEW ends, NEW its, NEW lps, QueueOK(q, ends, its), LoopsOK(its, lps),
         ServeQueue(r, q, ends, its, lps)
  PROVE  \A i \in Turns : loop'[i] = lps[i] \/ (lps[i] = "off" /\ loop'[i] = "setup")
  <1>1. PICK n \in Turns \cup {None} : Served(r, q, ends, its, lps, n)
    BY ServeTakes DEF QueueOK
  <1>2. n \in Members(q) /\ n \in Turns => lps[n] = "off"
    BY DEF QueueOK, LoopsOK
  <1> QED BY <1>1, <1>2 DEF Served, LoopsOK

LEMMA RequestLoops ==
  ASSUME StateInv, Request
  PROVE  LoopsInv'
  <1> USE DEF LoopDetail, loopVars, vars
  <1>0. TypeOK' /\ TypeOK /\ LoopsInv
    BY RequestTypes DEF StateInv
  <1>1. CASE LoadSession \/ \E m \in Messages : Enqueue(m) \/ UpdateQueue(m)
    <2>1. PICK q, ends, its : Pushes(q, ends, its)
      BY <1>0, <1>1, Pushing
    <2>2. \A i \in Turns : loop'[i] = loop[i] \/ (loop[i] = "off" /\ loop'[i] = "setup")
      BY <2>1, QueuedLoops DEF Pushes, Queued
    <2> QED BY <1>0, <2>1, <2>2, BegunLoops DEF Pushes, TypeOK, LoopTypeOK
  <1>2. CASE \E r \in Interrupts : InterruptStops(r)
    <2>1. PICK r \in Interrupts : InterruptStops(r)
      BY <1>2
    <2>2. PICK l \in Loops : l = runner.interruptAgent
      BY <1>0, <2>1 DEF InterruptStops, TypeOK, Runner
    <2>3. l[1] \in Turns
      BY DEF Loops
    <2> QED BY <1>0, <2>1, <2>2, <2>3 DEF InterruptStops, StopAgent, Stops, LoopsInv
  <1>3. CASE UNCHANGED <<loop, LoopDetail>>
    BY <1>0, <1>3 DEF LoopsInv
  <1> QED BY <1>1, <1>2, <1>3 DEF Request, Close, Signalled, ModeBecomes, Withdraw, InterruptIdle, InterruptJoins, InterruptLatches

LEMMA ServeState ==
  ASSUME StateInv, NEW i \in Turns, NEW gone \in Gone, item[i] \in Handled, NEW r \in Runner,
         ServeQueue(r, messageQueue, atEnd, [item EXCEPT ![i] = gone], [loop EXCEPT ![i] = "off"])
  PROVE  /\ QueueOK(messageQueue', atEnd', item') /\ LoopsOK(item', loop')
         /\ runner' \in Runner
         /\ \A j \in Turns \ {i} : loop'[j] = loop[j] \/ (loop[j] = "off" /\ loop'[j] = "setup")
         /\ loop'[i] = "off"
  <1>0. QueueOK(messageQueue, atEnd, item) /\ LoopsOK(item, loop)
    BY TypeParts DEF StateInv
  <1> DEFINE its == [item EXCEPT ![i] = gone]
             lps == [loop EXCEPT ![i] = "off"]
  <1>1. its \in [Turns -> Item] /\ lps \in [Turns -> Phase]
    BY <1>0 DEF QueueOK, LoopsOK, Item, Phase
  <1>2. QueueOK(messageQueue, atEnd, its) /\ LoopsOK(its, lps)
    BY <1>0, <1>1, EndedTypes
  <1>a. /\ lps[i] = "off" /\ \A j \in Turns \ {i} : lps[j] = loop[j]
        /\ its[i] = gone
    BY <1>0 DEF LoopsOK, QueueOK
  <1> HIDE DEF its, lps
  <1>b. ServeQueue(r, messageQueue, atEnd, its, lps)
    BY DEF its, lps
  <1>3. /\ QueueOK(messageQueue', atEnd', item') /\ LoopsOK(item', loop')
        /\ runner' \in Runner
    BY <1>2, <1>b, ServeTypes
  <1>4. \A j \in Turns : loop'[j] = lps[j] \/ (lps[j] = "off" /\ loop'[j] = "setup")
    BY <1>2, <1>b, QueuedLoops
  <1>5. loop'[i] = "off"
    <2>1. PICK n \in Turns \cup {None} : Served(r, messageQueue, atEnd, its, lps, n)
      BY <1>2, <1>b, ServeTakes DEF QueueOK
    <2>2. n # i
      BY <1>2, <1>a, <2>1, Constants DEF Served, QueueOK, Gone
    <2> QED BY <1>1, <1>a, <2>1, <2>2 DEF Served
  <1> QED BY <1>3, <1>4, <1>5, <1>a

LEMMA ItemStepState ==
  ASSUME StateInv, NEW i \in Turns, ItemStep(i)
  PROVE  StateInv'
  <1> USE DEF LoopDetail, loopVars, vars
  <1>0. /\ LoopTypeOK /\ QueueOK(messageQueue, atEnd, item) /\ LoopsOK(item, loop)
        /\ runner \in Runner
        /\ interrupt \in [Interrupts -> {"new", "stop", "settle", "joined", "answered"}]
        /\ awaits \in [Interrupts -> Loops \cup Turns \cup {None}]
        /\ mode \in Mode
        /\ LoopsInv
    BY TypeParts DEF StateInv
  <1>1. CASE PreparationEnds(i)
    <2>1. loop = [loop EXCEPT ![i] = "off"]
      BY <1>0, <1>1 DEF PreparationEnds, LoopsOK
    <2>2. "dropped" \in Gone /\ item[i] \in Handled
      BY <1>1 DEF Gone, Handled, PreparationEnds
    <2>3. ServeQueue(runner, messageQueue, atEnd, [item EXCEPT ![i] = "dropped"],
                     [loop EXCEPT ![i] = "off"])
      BY <1>1, <2>1 DEF PreparationEnds
    <2>4. /\ QueueOK(messageQueue', atEnd', item') /\ LoopsOK(item', loop')
          /\ runner' \in Runner
          /\ \A j \in Turns \ {i} : loop'[j] = loop[j] \/ (loop[j] = "off" /\ loop'[j] = "setup")
          /\ loop'[i] = "off"
      BY <1>0, <2>2, <2>3, ServeState
    <2>5. \A j \in Turns : loop'[j] = loop[j] \/ (loop[j] = "off" /\ loop'[j] = "setup")
      BY <1>0, <2>1, <2>4 DEF LoopsOK
    <2>6. LoopTypeOK'
      BY <1>0, <1>1, <2>4 DEF PreparationEnds, LoopTypeOK, LoopsOK
    <2>7. LoopsInv'
      BY <1>1, <2>5, <2>6, BegunLoops DEF PreparationEnds, LoopTypeOK
    <2> QED BY <1>0, <1>1, <2>4, <2>6, <2>7, TypePartsNext DEF PreparationEnds, StateInv
  <1>2. CASE Prepared(i)
    <2>1. QueueOK(messageQueue', atEnd', item')
      BY <1>0, <1>2 DEF Prepared, QueueOK, Item, Handled
    <2>2. LoopsOK(item', loop')
      BY <1>0, <1>2 DEF Prepared, QueueOK, LoopsOK, Goto, Phase
    <2>3. runner' \in Runner
      BY <1>0, <1>2, RunnerOps DEF Prepared
    <2>4. LoopTypeOK'
      BY <1>0, <1>2, <2>2 DEF Prepared, LoopTypeOK, LoopsOK
    <2>5. \A j \in Turns : loop'[j] = loop[j] \/ (loop[j] = "off" /\ loop'[j] = "setup")
      BY <1>0, <1>2 DEF Prepared, Goto, LoopsOK
    <2>6. LoopsInv'
      BY <1>2, <2>4, <2>5, BegunLoops DEF Prepared, LoopTypeOK
    <2> QED BY <1>0, <1>2, <2>1, <2>2, <2>3, <2>4, <2>6, TypePartsNext DEF Prepared, StateInv
  <1>3. CASE GatePasses(i)
    <2>1. QueueOK(messageQueue', atEnd', item')
      BY <1>0, <1>3 DEF GatePasses, QueueOK, Item, Handled
    <2>2. LoopsOK(item', loop')
      BY <1>0, <1>3 DEF GatePasses, QueueOK, LoopsOK, Goto, Phase
    <2>3. runner' \in Runner
      BY <1>0, <1>3, RunnerOps DEF GatePasses
    <2>4. LoopTypeOK'
      BY <1>0, <1>3, <2>2 DEF GatePasses, LoopTypeOK, LoopsOK
    <2>5. \A j \in Turns : loop'[j] = loop[j] \/ (loop[j] = "off" /\ loop'[j] = "setup")
      BY <1>0, <1>3 DEF GatePasses, Goto, LoopsOK
    <2>6. LoopsInv'
      BY <1>3, <2>4, <2>5, BegunLoops DEF GatePasses, LoopTypeOK
    <2> QED BY <1>0, <1>3, <2>1, <2>2, <2>3, <2>4, <2>6, TypePartsNext DEF GatePasses, StateInv
  <1>4. CASE HandlerReady(i)
    <2>1. QueueOK(messageQueue', atEnd', item') /\ LoopsOK(item', loop')
      BY <1>0, <1>4 DEF HandlerReady, QueueOK, LoopsOK, Goto, Phase
    <2>2. LoopOf(i) \in Loops /\ LoopOf(i)[1] = i
      BY <1>0 DEF LoopOf, Loops, LoopTypeOK
    <2>3. runner' \in Runner
      BY <1>0, <1>4, <2>2 DEF HandlerReady, Runner
    <2>4. LoopTypeOK' /\ LoopsInv'
      BY <1>0, <1>4, <2>1, <2>2 DEF HandlerReady, Stops, LoopTypeOK, LoopsOK, LoopsInv, Goto
    <2> QED BY <1>0, <1>4, <2>1, <2>3, <2>4, TypePartsNext DEF HandlerReady, StateInv
  <1>5. CASE i = Resume /\ NothingToResume
    <2>1. QueueOK(messageQueue', atEnd', item') /\ LoopsOK(item', loop')
      BY <1>0, <1>5 DEF NothingToResume, QueueOK, LoopsOK, Goto, Phase
    <2>2. LoopTypeOK' /\ LoopsInv'
      BY <1>0, <1>5, <2>1 DEF NothingToResume, LoopTypeOK, LoopsOK, LoopsInv, Goto
    <2> QED BY <1>0, <1>5, <2>1, <2>2, TypePartsNext DEF NothingToResume, StateInv
  <1>6. CASE LoopStep(i)
    <2>1. LoopTypeOK' /\ LoopsOK(item', loop') /\ LoopsInv'
      BY <1>0, <1>6, LoopStepTypes DEF LoopStep
    <2> QED BY <1>0, <1>6, <2>1, TypePartsNext DEF LoopStep, StateInv
  <1>7. CASE ToolsFinish(i)
    <2> DEFINE drained == {m \in Messages : item[m] = "queued" /\ m \notin atEnd}
    <2>1. PICK gone \in SUBSET drained :
            item' = [m \in Turns |-> IF m \in gone THEN "dropped"
                                     ELSE IF m \in drained THEN "injected"
                                     ELSE item[m]]
      BY <1>7 DEF ToolsFinish
    <2>2. /\ messageQueue' \in Seq(Turns) /\ Distinct(messageQueue')
          /\ Members(messageQueue') = Members(messageQueue) \cap (atEnd \cup {Resume})
      BY <1>0, <1>7, KeepFilters DEF ToolsFinish, QueueOK
    <2>3. item' \in [Turns -> Item]
      BY <1>0, <2>1 DEF QueueOK, Item, Gone
    <2>4. \A j \in Turns : item'[j] = "queued" <=> j \in Members(messageQueue')
      BY <1>0, <2>1, <2>2, Constants DEF QueueOK
    <2>5. atEnd' \subseteq Members(messageQueue')
      BY <1>0, <1>7, <2>2 DEF ToolsFinish, QueueOK
    <2>6. QueueOK(messageQueue', atEnd', item')
      BY <1>0, <1>7, <2>2, <2>3, <2>4, <2>5 DEF ToolsFinish, QueueOK
    <2>7. LoopsOK(item', loop)
      BY <1>0, <2>1 DEF LoopsOK, QueueOK
    <2>8. LoopTypeOK' /\ LoopsInv' /\ LoopsOK(item', loop')
      BY <1>0, <1>7, <2>7 DEF ToolsFinish, ToolsDone, Goto, LoopTypeOK, LoopsInv, LoopsOK, Phase
    <2> QED BY <1>0, <1>7, <2>6, <2>8, TypePartsNext DEF ToolsFinish, StateInv
  <1>8. CASE EndOfLoopTaken(i)
    <2> DEFINE m == Head(messageQueue)
    <2>1. /\ m \in Members(messageQueue)
          /\ messageQueue' \in Seq(Turns) /\ Distinct(messageQueue')
          /\ Members(messageQueue') = Members(messageQueue) \ {m}
      BY <1>0, <1>8, Shifted DEF EndOfLoopTaken, QueueOK
    <2> HIDE DEF m
    <2>2. PICK gone \in Gone : /\ item' = [item EXCEPT ![m] = gone]
                               /\ RunAgain(i) \/ RunEnds(i)
      BY <1>8 DEF EndOfLoopTaken, Gone, m
    <2>3. atEnd' = atEnd \ {m}
      BY <1>8 DEF EndOfLoopTaken, m
    <2>4. m \in Turns /\ item[m] = "queued"
      BY <1>0, <2>1, SeqFacts DEF QueueOK
    <2>5. QueueOK(messageQueue', atEnd', item')
      BY <1>0, <2>1, <2>2, <2>3, <2>4 DEF QueueOK, Item, Gone
    <2>6. LoopsOK(item', loop)
      BY <1>0, <2>2, <2>4 DEF LoopsOK, QueueOK, Gone
    <2>7. LoopTypeOK' /\ LoopsInv' /\ LoopsOK(item', loop')
      <3>0. MaxRounds \in Nat
        BY AgentLoopAssumption
      <3>1. CASE RunAgain(i)
        BY <1>0, <2>6, <3>0, <3>1 DEF RunAgain, GoesOn, Goto, LoopTypeOK, LoopsInv, LoopsOK, Phase
      <3>2. CASE RunEnds(i)
        BY <1>0, <2>6, <3>2 DEF RunEnds, AfterRun, Goto, LoopTypeOK, LoopsInv, LoopsOK, Phase
      <3> QED BY <2>2, <3>1, <3>2
    <2> QED BY <1>0, <1>8, <2>5, <2>7, TypePartsNext DEF EndOfLoopTaken, StateInv
  <1>9. CASE TurnEnds(i)
    <2> DEFINE its == [item EXCEPT ![i] = "ended"]
               lps == [loop EXCEPT ![i] = "off"]
    <2>1. item[i] \in Handled /\ "ended" \in Gone /\ Finish(runner) \in Runner
      BY <1>0, <1>9, RunnerOps DEF TurnEnds, LoopsOK, Handled, Gone
    <2>2. /\ QueueOK(messageQueue', atEnd', item') /\ LoopsOK(item', loop')
          /\ runner' \in Runner /\ loop'[i] = "off"
          /\ \A j \in Turns \ {i} : loop'[j] = loop[j] \/ (loop[j] = "off" /\ loop'[j] = "setup")
          /\ mode' \in Mode
      <3>1. CASE ServeQueue(Finish(runner), messageQueue, atEnd, its, lps) /\ mode' = mode
        BY <1>0, <2>1, <3>1, ServeState
      <3>2. CASE /\ mode' = "exited" /\ runner' = Finish(runner) /\ item' = its /\ loop' = lps
                 /\ UNCHANGED <<messageQueue, atEnd>>
        <4>1. its \in [Turns -> Item] /\ lps \in [Turns -> Phase]
          BY <1>0 DEF QueueOK, LoopsOK, Item, Gone, Phase
        <4>2. QueueOK(messageQueue, atEnd, its) /\ LoopsOK(its, lps)
          BY <1>0, <2>1, <4>1, EndedTypes
        <4>3. lps[i] = "off" /\ \A j \in Turns \ {i} : lps[j] = loop[j]
          BY <1>0 DEF LoopsOK
        <4> QED BY <2>1, <3>2, <4>2, <4>3 DEF Mode
      <3> QED BY <1>9, <3>1, <3>2 DEF TurnEnds
    <2>3. LoopTypeOK'
      <3>1. 0 \in 0 .. MaxRounds
        BY AgentLoopAssumption
      <3>2. rounds' \in [Turns -> 0 .. MaxRounds]
        BY <1>0, <1>9, <3>1 DEF TurnEnds, LoopTypeOK
      <3> QED BY <1>0, <1>9, <2>2, <3>2 DEF TurnEnds, LoopTypeOK, LoopsOK
    <2>4. LoopsInv'
      BY <1>0, <1>9, <2>2 DEF TurnEnds, LoopsInv, LoopTypeOK
    <2>5. interrupt' \in [Interrupts -> {"new", "stop", "settle", "joined", "answered"}]
          /\ awaits' \in [Interrupts -> Loops \cup Turns \cup {None}]
      BY <1>0, <1>9 DEF TurnEnds, Answered
    <2> QED BY <2>2, <2>3, <2>4, <2>5, TypePartsNext DEF StateInv
  <1> QED BY <1>1, <1>2, <1>3, <1>4, <1>5, <1>6, <1>7, <1>8, <1>9 DEF ItemStep

LEMMA StopReturnsState ==
  ASSUME StateInv, NEW l \in Loops, StopReturns(l)
  PROVE  StateInv'
  <1>0. /\ LoopTypeOK /\ QueueOK(messageQueue, atEnd, item) /\ LoopsOK(item, loop)
        /\ runner \in Runner
        /\ interrupt \in [Interrupts -> {"new", "stop", "settle", "joined", "answered"}]
        /\ awaits \in [Interrupts -> Loops \cup Turns \cup {None}]
        /\ mode \in Mode
        /\ LoopsInv
    BY TypeParts DEF StateInv
  <1>1. LoopTypeOK' /\ LoopsInv' /\ loop' = loop /\ mode' = mode
    BY <1>0 DEF StopReturns, StopEnds, LoopTypeOK, LoopsInv
  <1>2. /\ QueueOK(messageQueue', atEnd', item') /\ LoopsOK(item', loop)
        /\ runner' \in Runner
        /\ interrupt' \in [Interrupts -> {"new", "stop", "settle", "joined", "answered"}]
        /\ awaits' \in [Interrupts -> Loops \cup Turns \cup {None}]
    <2>1. CASE \E r \in Interrupts : interrupt[r] = "stop" /\ awaits[r] = l
      <3>1. PICK r \in Interrupts : DrainAndSettle(r, [runner EXCEPT !.interruptAgent = None,
                                                                     !.pendingInterrupt = FALSE])
        BY <2>1 DEF StopReturns
      <3>2. [runner EXCEPT !.interruptAgent = None, !.pendingInterrupt = FALSE] \in Runner
        BY <1>0 DEF Runner
      <3> QED BY <1>0, <3>1, <3>2, DrainTypes
    <2>2. CASE ~ \E r \in Interrupts : interrupt[r] = "stop" /\ awaits[r] = l
      BY <1>0, <2>2 DEF StopReturns
    <2> QED BY <2>1, <2>2
  <1> QED BY <1>0, <1>1, <1>2, TypePartsNext DEF StateInv

LEMMA InitState == Init => StateInv
  <1> SUFFICES ASSUME Init PROVE StateInv
    OBVIOUS
  <1>1. QueueOK(messageQueue, atEnd, item)
    BY EmptyQueue DEF Init, QueueOK, Item
  <1>2. LoopsOK(item, loop) /\ LoopTypeOK /\ LoopsInv
    BY AgentLoopAssumption DEF Init, LoopInit, LoopsOK, LoopTypeOK, LoopsInv, Phase
  <1>3. runner \in Runner
    BY DEF Init, Runner
  <1> QED BY <1>1, <1>2, <1>3, TypeParts DEF Init, Mode, StateInv

LEMMA NextState == StateInv /\ [Next]_vars => StateInv'
  <1> SUFFICES ASSUME StateInv, [Next]_vars PROVE StateInv'
    OBVIOUS
  <1>1. CASE Request
    BY <1>1, RequestTypes, RequestLoops DEF StateInv
  <1>2. CASE Shutdown \/ ShutdownTimesOut \/ Leave \/ UNCHANGED vars
    BY <1>2 DEF StateInv, Shutdown, ShutdownTimesOut, Leave, ModeBecomes, Mode, vars,
                    loopVars, TypeOK, LoopTypeOK, WellFormed, LoopsInv
  <1> QED BY <1>1, <1>2, ItemStepState, StopReturnsState DEF Next

-----------------------------------------------------------------------------
\* What every step leaves true of an item and its loop.

Advance(j) ==
    /\ item[j] \in Gone => item'[j] = item[j]
    /\ item[j] = "turn" => item'[j] \in {"turn", "ended"}
    /\ \/ generation'[j] = generation[j] /\ (loop'[j] = "setup" => loop[j] \in {"setup", "off"})
       \/ generation'[j] = generation[j] + 1

LEMMA ServedItems ==
  ASSUME NEW r, NEW q, NEW ends, NEW its, NEW lps, QueueOK(q, ends, its), LoopsOK(its, lps),
         NEW n \in Turns \cup {None}, Served(r, q, ends, its, lps, n)
  PROVE  /\ \A j \in Turns : j # n => item'[j] = its[j] /\ loop'[j] = lps[j]
         /\ n # None => /\ n \in Turns /\ its[n] = "queued" /\ lps[n] = "off"
                        /\ item'[n] \in Handled /\ loop'[n] \in {"off", "setup"}
         /\ n # None => (loop'[n] = "setup" <=> item'[n] = "turn")
  <1>1. n # None => n \in Turns /\ its[n] = "queued" /\ lps[n] = "off"
    BY DEF Served, QueueOK, LoopsOK
  <1>2. \A j \in Turns : j # n => item'[j] = its[j] /\ loop'[j] = lps[j]
    BY DEF Served, QueueOK, LoopsOK
  <1>3. n # None => item'[n] \in Handled /\ loop'[n] \in {"off", "setup"}
    BY <1>1 DEF Served, QueueOK, LoopsOK, Handled
  <1>4. n # None => (loop'[n] = "setup" <=> item'[n] = "turn")
    BY <1>1 DEF Served, QueueOK, LoopsOK
  <1> QED BY <1>1, <1>2, <1>3, <1>4

LEMMA ServedRunner ==
  ASSUME NEW r \in Runner, NEW q, NEW ends, NEW its, NEW lps, QueueOK(q, ends, its),
         NEW n \in Turns \cup {None}, Served(r, q, ends, its, lps, n)
  PROVE  /\ n = None => /\ ~ runner'.isProcessing
                        /\ runner'.isAgentLoopInProgress = r.isAgentLoopInProgress
                        /\ runner'.activeTurn = r.activeTurn
                        /\ runner'.interruptAgent = r.interruptAgent
                        /\ runner'.pendingInterrupt =>
                               /\ r.pendingInterrupt
                               /\ r.isAgentLoopInProgress \/ r.interruptAgent # None
         /\ n # None => /\ ~ r.isAgentLoopInProgress /\ mode = "up"
                        /\ runner'.isProcessing = r.isProcessing
                        /\ runner'.pendingInterrupt = r.pendingInterrupt
                        /\ runner'.interruptAgent \in {r.interruptAgent, None}
                        /\ IF item'[n] = "turn"
                           THEN runner'.activeTurn = n /\ runner'.isAgentLoopInProgress
                           ELSE /\ runner'.activeTurn = r.activeTurn
                                /\ ~ runner'.isAgentLoopInProgress
  <1>0. Members(q) \subseteq Turns /\ None \notin Turns
    BY SeqFacts, Constants DEF QueueOK
  <1>1. CASE n = None
    <2>1. runner' = LeaveQueue(r)
      BY <1>0, <1>1 DEF Served
    <2> QED BY <1>1, <2>1 DEF LeaveQueue, Runner
  <1>2. CASE n # None
    <2>0. mode = "up" /\ ~ r.isAgentLoopInProgress /\ n \in Turns /\ its \in [Turns -> Item]
      BY <1>2 DEF Served, QueueOK
    <2>1. CASE item'[n] = "turn" /\ runner' = Begin(Reset(r), n)
      BY <1>2, <2>0, <2>1 DEF Begin, Reset, Runner
    <2>2. CASE item'[n] # "turn" /\ (runner' = r \/ runner' = EnterGate(Reset(r)))
      BY <1>2, <2>0, <2>2 DEF EnterGate, Reset, Runner
    <2>3. \/ item'[n] = "turn" /\ runner' = Begin(Reset(r), n)
          \/ item'[n] # "turn" /\ (runner' = r \/ runner' = EnterGate(Reset(r)))
      BY <1>2, <2>0 DEF Served
    <2> QED BY <2>1, <2>2, <2>3
  <1> QED BY <1>1, <1>2

\* The steps that end the handling of an item and serve the queue.
LEMMA PushEffect ==
  ASSUME StateInv, NEW q, NEW ends, NEW its, Pushes(q, ends, its)
  PROVE  \/ /\ runner.isProcessing /\ runner' = runner /\ item' = its /\ loop' = loop
            /\ messageQueue' = q
         \/ /\ ~ runner.isProcessing
            /\ \E n \in Turns \cup {None} :
                   Served([runner EXCEPT !.isProcessing = TRUE], q, ends, its, loop, n)
  BY ServeTakes DEF Pushes, Queued, QueueOK

LEMMA AfterItem ==
  ASSUME StateInv, NEW i \in Turns, NEW gone \in Gone, item[i] \in Handled, NEW r \in Runner,
         ServeQueue(r, messageQueue, atEnd, [item EXCEPT ![i] = gone], [loop EXCEPT ![i] = "off"])
  PROVE  \E its \in [Turns -> Item], lps \in [Turns -> Phase] :
            /\ its[i] = gone /\ lps[i] = "off"
            /\ \A j \in Turns : j # i => its[j] = item[j] /\ lps[j] = loop[j]
            /\ QueueOK(messageQueue, atEnd, its) /\ LoopsOK(its, lps)
            /\ \E n \in Turns \cup {None} : Served(r, messageQueue, atEnd, its, lps, n)
  <1>0. QueueOK(messageQueue, atEnd, item) /\ LoopsOK(item, loop)
    BY TypeParts DEF StateInv
  <1> DEFINE its == [item EXCEPT ![i] = gone]
             lps == [loop EXCEPT ![i] = "off"]
  <1>1. its \in [Turns -> Item] /\ lps \in [Turns -> Phase]
    BY <1>0 DEF QueueOK, LoopsOK, Item, Phase
  <1>2. QueueOK(messageQueue, atEnd, its) /\ LoopsOK(its, lps)
    BY <1>0, <1>1, EndedTypes
  <1>3. /\ its[i] = gone /\ lps[i] = "off"
        /\ \A j \in Turns : j # i => its[j] = item[j] /\ lps[j] = loop[j]
    BY <1>0 DEF LoopsOK, QueueOK
  <1> HIDE DEF its, lps
  <1>4. \E n \in Turns \cup {None} : Served(r, messageQueue, atEnd, its, lps, n)
    BY <1>2, ServeTakes DEF its, lps, QueueOK
  <1> QED BY <1>1, <1>2, <1>3, <1>4
LEMMA StateParts ==
  ASSUME StateInv
  PROVE  /\ LoopTypeOK /\ QueueOK(messageQueue, atEnd, item) /\ LoopsOK(item, loop)
         /\ runner \in Runner
         /\ interrupt \in [Interrupts -> {"new", "stop", "settle", "joined", "answered"}]
         /\ awaits \in [Interrupts -> Loops \cup Turns \cup {None}]
         /\ mode \in Mode
         /\ LoopsInv
  BY TypeParts DEF StateInv

LEMMA SettledServe ==
  ASSUME StateInv, NEW i \in Turns, NEW gone \in Gone,
         item[i] = "prepare" \/ (item[i] = "turn" /\ gone = "ended"), NEW r \in Runner,
         ServeQueue(r, messageQueue, atEnd, [item EXCEPT ![i] = gone], [loop EXCEPT ![i] = "off"]),
         generation' = generation
  PROVE  \A j \in Turns : Advance(j)
  <1>0. item[i] \in Handled
    BY DEF Handled
  <1>1. PICK its \in [Turns -> Item], lps \in [Turns -> Phase] :
            /\ its[i] = gone /\ lps[i] = "off"
            /\ \A j \in Turns : j # i => its[j] = item[j] /\ lps[j] = loop[j]
            /\ QueueOK(messageQueue, atEnd, its) /\ LoopsOK(its, lps)
            /\ \E n \in Turns \cup {None} : Served(r, messageQueue, atEnd, its, lps, n)
    BY <1>0, AfterItem
  <1>2. PICK n \in Turns \cup {None} : Served(r, messageQueue, atEnd, its, lps, n)
    BY <1>1
  <1>3. /\ \A j \in Turns : j # n => item'[j] = its[j] /\ loop'[j] = lps[j]
        /\ n # None => /\ n \in Turns /\ its[n] = "queued" /\ lps[n] = "off"
                       /\ item'[n] \in Handled /\ loop'[n] \in {"off", "setup"}
    BY <1>1, <1>2, ServedItems
  <1>4. \A j \in Turns : item[j] \in Gone \/ item[j] = "turn" => item[j] # "queued"
    BY DEF Gone
  <1>5. n # i
    BY <1>1, <1>3, Constants DEF Gone
  <1>6. n \in Turns => n # None
    BY Constants
  <1> SUFFICES ASSUME NEW j \in Turns PROVE Advance(j)
    OBVIOUS
  <1>7. CASE j = i
    BY <1>1, <1>3, <1>5, <1>7 DEF Advance, Gone
  <1>8. CASE j = n
    BY <1>1, <1>3, <1>4, <1>5, <1>6, <1>8 DEF Advance
  <1>9. CASE j # i /\ j # n
    BY <1>1, <1>3, <1>9 DEF Advance
  <1> QED BY <1>7, <1>8, <1>9

LEMMA Advances ==
  ASSUME StateInv, [Next]_vars
  PROVE  \A j \in Turns : Advance(j)
  <1> USE DEF LoopDetail, loopVars, vars
  <1>0. /\ LoopTypeOK /\ QueueOK(messageQueue, atEnd, item) /\ LoopsOK(item, loop)
        /\ LoopsInv
    BY StateParts
  <1>a. CASE UNCHANGED <<item, loop, generation>>
    BY <1>a DEF Advance
  <1>b. ASSUME NEW q, NEW ends, NEW its, Pushes(q, ends, its)
        PROVE  \A j \in Turns : Advance(j)
    <2>0. /\ QueueOK(q, ends, its) /\ LoopsOK(its, loop) /\ generation' = generation
          /\ \A j \in Turns : its[j] = item[j] \/ (item[j] = "new" /\ its[j] = "queued")
      BY <1>b DEF Pushes
    <2>1. CASE item' = its /\ loop' = loop
      BY <2>0, <2>1 DEF Advance, Gone
    <2>2. CASE \E n \in Turns \cup {None} :
                 Served([runner EXCEPT !.isProcessing = TRUE], q, ends, its, loop, n)
      <3>1. PICK n \in Turns \cup {None} :
                 Served([runner EXCEPT !.isProcessing = TRUE], q, ends, its, loop, n)
        BY <2>2
      <3>2. /\ \A j \in Turns : j # n => item'[j] = its[j] /\ loop'[j] = loop[j]
            /\ n # None => /\ its[n] = "queued" /\ loop[n] = "off"
        BY <2>0, <3>1, ServedItems
      <3>3. \A j \in Turns : j = n => item[j] \in {"new", "queued"} /\ loop[j] = "off"
        BY <2>0, <3>2, Constants
      <3> QED BY <2>0, <3>2, <3>3 DEF Advance, Gone
    <2> QED BY <1>b, <2>1, <2>2, PushEffect
  <1>1. ASSUME NEW m \in Messages, Withdraw(m) PROVE \A j \in Turns : Advance(j)
    BY <1>0, <1>1, Constants DEF Withdraw, Advance, Gone, QueueOK
  <1>c. ASSUME UNCHANGED <<loop, generation>>, NEW r, NEW f, DrainAndSettle(r, f)
        PROVE  \A j \in Turns : Advance(j)
    BY <1>c DEF DrainAndSettle, Advance, Gone
  <1>2. ASSUME NEW r \in Interrupts, InterruptLatches(r) PROVE \A j \in Turns : Advance(j)
    BY <1>c, <1>2 DEF InterruptLatches
  <1>3. CASE Request
    <2>1. CASE LoadSession \/ \E m \in Messages : Enqueue(m) \/ UpdateQueue(m)
      BY <2>1, <1>b, Pushing DEF StateInv
    <2>2. CASE Close \/ Signalled \/ \E r \in Interrupts : InterruptIdle(r) \/ InterruptJoins(r) \/ InterruptStops(r)
      BY <1>a, <2>2 DEF Close, Signalled, ModeBecomes, InterruptIdle, InterruptJoins, InterruptStops, StopAgent
    <2> QED BY <1>1, <1>2, <1>3, <2>1, <2>2 DEF Request
  <1>4. ASSUME NEW l \in Loops, StopReturns(l) PROVE \A j \in Turns : Advance(j)
    BY <1>a, <1>c, <1>4 DEF StopReturns, StopEnds
  <1>5. ASSUME NEW i \in Turns, ItemStep(i) PROVE \A j \in Turns : Advance(j)
    <2>1. CASE PreparationEnds(i)
      <3>1. loop = [loop EXCEPT ![i] = "off"]
        BY <1>0, <2>1 DEF PreparationEnds, LoopsOK
      <3>2. runner \in Runner /\ "dropped" \in Gone
        BY StateParts DEF Gone
      <3> QED BY <2>1, <3>1, <3>2, SettledServe DEF PreparationEnds
    <2>2. CASE Prepared(i) \/ GatePasses(i)
      BY <1>0, <2>2 DEF Prepared, GatePasses, Goto, Advance, QueueOK, LoopsOK, Gone
    <2>3. CASE HandlerReady(i) \/ (i = Resume /\ NothingToResume)
      BY <1>0, <2>3 DEF HandlerReady, NothingToResume, Goto, Advance, LoopsOK
    <2>4. CASE LoopStep(i)
      BY <1>0, <2>4 DEF LoopStep, Goto, Advance, LoopsOK, AfterRun, LoopTypeOK, PrimeFails,
                        CallFails, SendRequest, RequestAborted, RequestAnswered, ToolsCalled,
                        Rerun, RerunDone, ToolsStop, RunAgain, RunEnds, HandOff, HandOffFails
    <2>5. CASE ToolsFinish(i)
      BY <1>0, <2>5 DEF ToolsFinish, ToolsDone, Goto, Advance, LoopsOK, Gone
    <2>6. CASE EndOfLoopTaken(i)
      <3>1. item[Head(messageQueue)] = "queued" /\ Head(messageQueue) \in Turns
        BY <1>0, <2>6, Shifted, SeqFacts DEF EndOfLoopTaken, QueueOK
      <3> QED BY <1>0, <2>6, <3>1 DEF EndOfLoopTaken, RunAgain, RunEnds, AfterRun, Goto, Advance,
                                      LoopsOK, QueueOK, Gone
    <2>7. CASE TurnEnds(i)
      <3>1. runner \in Runner /\ Finish(runner) \in Runner /\ "ended" \in Gone
            /\ item[i] = "turn" /\ generation' = generation
        BY <1>0, <2>7, StateParts, RunnerOps DEF TurnEnds, LoopsOK, Gone
      <3>2. CASE ServeQueue(Finish(runner), messageQueue, atEnd, [item EXCEPT ![i] = "ended"],
                            [loop EXCEPT ![i] = "off"])
        BY <3>1, <3>2, SettledServe
      <3>3. CASE item' = [item EXCEPT ![i] = "ended"] /\ loop' = [loop EXCEPT ![i] = "off"]
        BY <1>0, <3>1, <3>3 DEF Advance, QueueOK, LoopsOK, Gone
      <3> QED BY <2>7, <3>2, <3>3 DEF TurnEnds
    <2> QED BY <1>5, <2>1, <2>2, <2>3, <2>4, <2>5, <2>6, <2>7 DEF ItemStep
  <1>6. CASE Shutdown \/ ShutdownTimesOut \/ Leave \/ UNCHANGED vars
    BY <1>a, <1>6 DEF Shutdown, ShutdownTimesOut, Leave, ModeBecomes
  <1> QED BY <1>3, <1>4, <1>5, <1>6 DEF Next

-----------------------------------------------------------------------------
\* The stop handlers.

Known(l) ==
    /\ item[l[1]] \in {"turn", "ended"}
    /\ l[2] <= generation[l[1]]
    /\ loop[l[1]] = "setup" => l[2] # generation[l[1]]

AgentInv ==
    /\ \A l \in stopping : Known(l)
    /\ runner.interruptAgent # None => Known(runner.interruptAgent)

LEMMA KnownStays ==
  ASSUME StateInv, StateInv', [Next]_vars, NEW l \in Loops, Known(l)
  PROVE  Known(l)'
  <1>1. Advance(l[1]) /\ l[1] \in Turns /\ l[2] \in Nat
    BY Advances, AgentLoopAssumption DEF Loops
  <1>2. generation[l[1]] \in Nat /\ LoopsOK(item, loop) /\ LoopsOK(item', loop')
    BY <1>1, StateParts, TypePartsNext, AgentLoopAssumption DEF LoopTypeOK, StateInv
  <1>3. item'[l[1]] \in {"turn", "ended"}
    BY <1>1 DEF Known, Advance, Gone
  <1>4. CASE generation'[l[1]] = generation[l[1]] + 1
    BY <1>1, <1>2, <1>3, <1>4 DEF Known
  <1>5. CASE /\ generation'[l[1]] = generation[l[1]]
             /\ loop'[l[1]] = "setup" => loop[l[1]] \in {"setup", "off"}
    <2>1. loop'[l[1]] = "setup" => loop[l[1]] = "setup"
      BY <1>1, <1>2, <1>5 DEF Known, LoopsOK, Advance, Gone
    <2> QED BY <1>1, <1>2, <1>3, <1>5, <2>1 DEF Known
  <1> QED BY <1>1, <1>4, <1>5 DEF Advance

\* The runner's handler and the calls in progress are of loops known before, or
\* the step is the start of a loop.
LEMMA AgentsOf ==
  ASSUME StateInv, [Next]_vars
  PROVE  \/ /\ runner'.interruptAgent \in {runner.interruptAgent, None}
            /\ stopping' \subseteq stopping \cup {runner.interruptAgent}
            /\ runner.interruptAgent = None => stopping' \subseteq stopping
         \/ \E i \in Turns : HandlerReady(i)
  <1> USE DEF LoopDetail, loopVars, vars
  <1>0. runner \in Runner /\ QueueOK(messageQueue, atEnd, item) /\ LoopsOK(item, loop)
    BY StateParts
  <1>a. ASSUME runner'.interruptAgent \in {runner.interruptAgent, None}, stopping' \subseteq stopping
        PROVE  /\ runner'.interruptAgent \in {runner.interruptAgent, None}
               /\ stopping' \subseteq stopping \cup {runner.interruptAgent}
               /\ runner.interruptAgent = None => stopping' \subseteq stopping
    BY <1>a
  <1>b. CASE UNCHANGED <<runner, stopping>>
    BY <1>b
  <1>c. ASSUME NEW r \in Runner, r.interruptAgent \in {runner.interruptAgent, None},
               NEW its, NEW lps, NEW q, NEW ends, QueueOK(q, ends, its),
               ServeQueue(r, q, ends, its, lps)
        PROVE  runner'.interruptAgent \in {runner.interruptAgent, None}
    <2>1. PICK n \in Turns \cup {None} : Served(r, q, ends, its, lps, n)
      BY <1>c, ServeTakes DEF QueueOK
    <2> QED BY <1>c, <2>1, ServedRunner
  <1>1. CASE LoadSession \/ \E m \in Messages : Enqueue(m) \/ UpdateQueue(m)
    <2>1. PICK q, ends, its : Pushes(q, ends, its)
      BY <1>1, Pushing DEF StateInv
    <2>2. /\ [runner EXCEPT !.isProcessing = TRUE] \in Runner
          /\ [runner EXCEPT !.isProcessing = TRUE].interruptAgent = runner.interruptAgent
      BY <1>0 DEF Runner
    <2>3. runner'.interruptAgent \in {runner.interruptAgent, None}
      BY <2>1, <2>2, <1>c DEF Pushes, Queued
    <2> QED BY <2>1, <2>3 DEF Pushes
  <1>2. ASSUME NEW r \in Interrupts, InterruptIdle(r) \/ InterruptLatches(r) \/ InterruptStops(r)
        PROVE  /\ runner'.interruptAgent \in {runner.interruptAgent, None}
               /\ stopping' \subseteq stopping \cup {runner.interruptAgent}
               /\ runner.interruptAgent = None => stopping' \subseteq stopping
    BY <1>0, <1>2 DEF InterruptIdle, InterruptLatches, InterruptStops, DrainAndSettle, StopAgent, Runner
  <1>3. CASE Request
    BY <1>b, <1>1, <1>2, <1>3 DEF Request, Close, Signalled, ModeBecomes, Withdraw, InterruptJoins
  <1>4. ASSUME NEW l \in Loops, StopReturns(l)
        PROVE  runner'.interruptAgent \in {runner.interruptAgent, None} /\ stopping' \subseteq stopping
    BY <1>0, <1>4 DEF StopReturns, StopEnds, DrainAndSettle, Runner
  <1>5. ASSUME NEW i \in Turns, ItemStep(i), ~ HandlerReady(i)
        PROVE  runner'.interruptAgent \in {runner.interruptAgent, None} /\ stopping' \subseteq stopping
    <2>1. CASE PreparationEnds(i) \/ TurnEnds(i)
      <3>1. stopping' = stopping
        BY <2>1 DEF PreparationEnds, TurnEnds
      <3>2. /\ Finish(runner) \in Runner /\ Finish(runner).interruptAgent = None
        <4>1. Finish(runner) \in Runner
          BY <1>0, RunnerOps
        <4>2. Finish(runner).interruptAgent = None
          BY <1>0 DEF Finish, Runner
        <4> QED BY <4>1, <4>2
      <3>3. /\ item[i] \in Handled /\ "dropped" \in Gone /\ "ended" \in Gone
            /\ PreparationEnds(i) => loop = [loop EXCEPT ![i] = "off"]
        BY <1>0, <2>1 DEF PreparationEnds, TurnEnds, LoopsOK, Handled, Gone
      <3>4. ASSUME NEW gone \in {"dropped", "ended"}
            PROVE  QueueOK(messageQueue, atEnd, [item EXCEPT ![i] = gone])
        BY <1>0, <3>3 DEF QueueOK, Handled, Item, Gone
      <3>5. CASE PreparationEnds(i)
        BY <1>0, <1>c, <3>1, <3>4, <3>5 DEF PreparationEnds
      <3>6. CASE TurnEnds(i)
        BY <1>0, <1>c, <3>1, <3>2, <3>4, <3>6 DEF TurnEnds
      <3> QED BY <2>1, <3>5, <3>6
    <2>2. CASE Prepared(i) \/ GatePasses(i)
      BY <1>0, <2>2 DEF Prepared, GatePasses, Begin, EnterGate, Reset, Runner
    <2>3. CASE UNCHANGED <<runner, stopping>>
      BY <2>3
    <2>4. CASE ToolsFinish(i) \/ EndOfLoopTaken(i)
      BY <2>4 DEF ToolsFinish, ToolsDone, EndOfLoopTaken, RunAgain, RunEnds
    <2>5. CASE (i = Resume /\ NothingToResume) \/ LoopStep(i)
      BY <2>5 DEF NothingToResume, LoopStep, PrimeFails, CallFails, SendRequest, RequestAborted,
                  RequestAnswered, ToolsCalled, Rerun, RerunDone, ToolsStop, RunAgain, RunEnds,
                  HandOff, HandOffFails
    <2> QED BY <1>5, <2>1, <2>2, <2>3, <2>4, <2>5 DEF ItemStep
  <1>6. CASE Shutdown \/ ShutdownTimesOut \/ Leave \/ UNCHANGED vars
    BY <1>b, <1>6 DEF Shutdown, ShutdownTimesOut, Leave, ModeBecomes
  <1> QED BY <1>a, <1>3, <1>4, <1>5, <1>6 DEF Next

LEMMA NextAgent ==
  ASSUME StateInv, StateInv', [Next]_vars, AgentInv
  PROVE  AgentInv'
  <1>0. runner \in Runner /\ LoopTypeOK /\ LoopsOK(item, loop)
    BY StateParts
  <1>1. \A l \in Loops : Known(l) => Known(l)'
    BY KnownStays
  <1>a. \A l \in stopping : l \in Loops
    BY <1>0 DEF LoopTypeOK
  <1>b. runner.interruptAgent # None => runner.interruptAgent \in Loops
    BY <1>0 DEF Runner
  <1>2. CASE /\ runner'.interruptAgent \in {runner.interruptAgent, None}
             /\ stopping' \subseteq stopping \cup {runner.interruptAgent}
             /\ runner.interruptAgent = None => stopping' \subseteq stopping
    <2>1. \A l \in stopping' : l \in Loops /\ Known(l)
      BY <1>a, <1>b, <1>2 DEF AgentInv
    <2>2. ASSUME runner'.interruptAgent # None PROVE Known(runner.interruptAgent)'
      <3>1. PICK l \in Loops : l = runner.interruptAgent /\ Known(l) /\ l = runner'.interruptAgent
        BY <1>b, <1>2, <2>2 DEF AgentInv
      <3>2. Known(l)'
        BY <1>1, <3>1
      <3> QED BY <3>1, <3>2 DEF Known
    <2> QED BY <1>1, <2>1, <2>2 DEF AgentInv
  <1>3. ASSUME NEW i \in Turns, HandlerReady(i) PROVE AgentInv'
    <2>1. /\ stopping' \subseteq stopping \cup {LoopOf(i)}
          /\ runner'.interruptAgent = LoopOf(i) /\ loop[i] = "setup" /\ item' = item
          /\ generation' = generation /\ loop'[i] # "setup"
      BY <1>0, <1>3 DEF HandlerReady, Goto, LoopsOK, Runner
    <2>2. LoopOf(i) \in Loops /\ LoopOf(i)[1] = i /\ LoopOf(i)[2] = generation[i]
          /\ generation[i] \in Nat
      BY <1>0, AgentLoopAssumption DEF LoopOf, Loops, LoopTypeOK
    <2>3. PICK l \in Loops : l = LoopOf(i)
      BY <2>2
    <2>4. item[i] = "turn"
      BY <1>0, <2>1 DEF LoopsOK
    <2>5. Known(l)'
      BY <2>1, <2>2, <2>3, <2>4 DEF Known
    <2>6. \A k \in stopping' : Known(k)'
      BY <1>1, <1>a, <2>1, <2>3, <2>5 DEF AgentInv
    <2>7. Known(runner.interruptAgent)'
      BY <2>1, <2>3, <2>5 DEF Known
    <2> QED BY <2>6, <2>7 DEF AgentInv
  <1> QED BY <1>2, <1>3, AgentsOf

-----------------------------------------------------------------------------
\* The coroutines.

Progress(r, its) ==
    IF r.isAgentLoopInProgress
    THEN r.activeTurn \in Turns /\ its[r.activeTurn] = "turn"
    ELSE r.activeTurn = None

\* Without a discard there is one coroutine at most, isProcessing stands for
\* it, and what the runner knows of a turn is about its turn.
Solo ==
    /\ \A i, j \in HandledItems : i = j
    /\ HandledItems # {} => runner.isProcessing
    /\ mode = "exited" => HandledItems = {}
    /\ \A i \in Turns : item[i] = "turn" => runner.activeTurn = i
    /\ runner.interruptAgent # None => item[runner.interruptAgent[1]] = "turn"

ServiceInv ==
    /\ Progress(runner, item)
    /\ QueueServed
    /\ ~ Discarded => Solo

LEMMA DiscardStays ==
  ASSUME StateInv, [Next]_vars
  PROVE  /\ ~ Discarded' => ~ Discarded
         /\ ~ Discarded' => \A i \in Turns : item'[i] # "discarded"
  BY Advances DEF Advance, Discarded, Gone

LEMMA CalmService ==
  ASSUME StateInv, [Next]_vars, ServiceInv,
         \A j \in Turns : item'[j] \in Handled \/ item[j] \in Handled => item'[j] = item[j],
         runner'.isAgentLoopInProgress = runner.isAgentLoopInProgress,
         runner'.activeTurn = runner.activeTurn,
         runner'.isProcessing = runner.isProcessing \/ (~ runner'.isProcessing /\ Discarded'),
         \/ runner'.interruptAgent \in {runner.interruptAgent, None}
         \/ runner'.interruptAgent[1] \in Turns /\ item[runner'.interruptAgent[1]] = "turn",
         mode' \in {mode, "closing", "leaving", "left"},
         messageQueue' # <<>> => messageQueue # <<>> \/ runner.isProcessing \/ HandledItems # {}
  PROVE  ServiceInv'
  <1>0. runner \in Runner
    BY StateParts
  <1>1. HandledItems' = HandledItems
    BY DEF HandledItems
  <1>2. Progress(runner', item')
    BY DEF ServiceInv, Progress, Handled
  <1>3. QueueServed'
    BY <1>1 DEF ServiceInv, QueueServed
  <1>4. ASSUME ~ Discarded' PROVE Solo'
    <2>1. Solo
      BY <1>4, DiscardStays DEF ServiceInv
    <2>2. \A i \in Turns : item'[i] = "turn" <=> item[i] = "turn"
      BY DEF Handled
    <2>3. runner'.interruptAgent # None => item'[runner'.interruptAgent[1]] = "turn"
      <3>1. runner.interruptAgent # None => runner.interruptAgent[1] \in Turns
        BY <1>0 DEF Runner, Loops
      <3> QED BY <2>1, <2>2, <3>1 DEF Solo
    <2>4. mode' = "exited" => mode = "exited"
      OBVIOUS
    <2> QED BY <1>1, <1>4, <2>1, <2>2, <2>3, <2>4 DEF Solo
  <1> QED BY <1>2, <1>3, <1>4 DEF ServiceInv

\* The queue is served while no item is handled, as far as is known.
LEMMA ServedService ==
  ASSUME StateInv', NEW r \in Runner, NEW q, NEW ends, NEW its, NEW lps,
         QueueOK(q, ends, its), LoopsOK(its, lps), Progress(r, its),
         NEW n \in Turns \cup {None}, Served(r, q, ends, its, lps, n),
         mode' = mode, mode # "exited",
         ~ Discarded' => /\ \A i \in Turns : its[i] \notin Handled
                         /\ r.isProcessing /\ r.interruptAgent = None
  PROVE  ServiceInv'
  <1>0. /\ \A j \in Turns : j # n => item'[j] = its[j] /\ loop'[j] = lps[j]
        /\ n # None => /\ n \in Turns /\ its[n] = "queued" /\ item'[n] \in Handled
    BY ServedItems
  <1>1. /\ n = None => /\ ~ runner'.isProcessing
                       /\ runner'.isAgentLoopInProgress = r.isAgentLoopInProgress
                       /\ runner'.activeTurn = r.activeTurn
                       /\ runner'.interruptAgent = r.interruptAgent
        /\ n # None => /\ ~ r.isAgentLoopInProgress
                       /\ runner'.isProcessing = r.isProcessing
                       /\ runner'.interruptAgent \in {r.interruptAgent, None}
                       /\ IF item'[n] = "turn"
                          THEN runner'.activeTurn = n /\ runner'.isAgentLoopInProgress
                          ELSE /\ runner'.activeTurn = r.activeTurn
                               /\ ~ runner'.isAgentLoopInProgress
    BY ServedRunner
  <1>2. r.activeTurn \in Turns => r.activeTurn # None
    BY Constants
  <1>3. Progress(runner', item')
    BY <1>0, <1>1, <1>2 DEF Progress
  <1>4. QueueServed'
    <2>1. CASE n # None
      BY <1>0, <2>1 DEF QueueServed, HandledItems
    <2>2. CASE n = None
      <3>1. r.isAgentLoopInProgress => item'[r.activeTurn] = "turn" /\ r.activeTurn \in Turns
        BY <1>0, <1>2, <2>2 DEF Progress
      <3>2. mode = "up" => r.isAgentLoopInProgress \/ q = <<>>
        <4>1. None \notin Members(q)
          BY SeqFacts, Constants DEF QueueOK
        <4> QED BY <2>2, <4>1 DEF Served
      <3>3. q = <<>> => messageQueue' = <<>>
        <4>1. q = <<>> => Members(q) = {}
          BY EmptyQueue
        <4>2. messageQueue' \in Seq(Turns) /\ Members(messageQueue') = Members(q) \ {n}
          BY DEF Served
        <4> QED BY <4>1, <4>2, SeqFacts
      <3> QED BY <1>1, <2>2, <3>1, <3>2, <3>3 DEF QueueServed, HandledItems, Handled
    <2> QED BY <2>1, <2>2
  <1>5. ASSUME ~ Discarded' PROVE Solo'
    <2>1. \A j \in Turns : item'[j] \in Handled => j = n
      BY <1>0, <1>5
    <2>2. n = None => HandledItems' = {}
      BY <2>1, Constants DEF HandledItems
    <2>3. n # None => runner'.isProcessing
      BY <1>1, <1>5
    <2>4. runner'.interruptAgent = None
      BY <1>1, <1>5
    <2>5. \A j \in Turns : item'[j] = "turn" => runner'.activeTurn = j
      <3>1. "turn" \in Handled
        BY DEF Handled
      <3> QED BY <1>1, <2>1, <3>1, Constants
    <2> QED BY <2>1, <2>2, <2>3, <2>4, <2>5 DEF Solo, HandledItems
  <1> QED BY <1>3, <1>4, <1>5 DEF ServiceInv

LEMMA EndService ==
  ASSUME StateInv, StateInv', [Next]_vars, ServiceInv,
         NEW i \in Turns, NEW gone \in Gone, item[i] \in Handled,
         NEW r \in Runner, r.isProcessing = runner.isProcessing,
         ServeQueue(r, messageQueue, atEnd, [item EXCEPT ![i] = gone], [loop EXCEPT ![i] = "off"]),
         Progress(r, [item EXCEPT ![i] = gone]),
         r.interruptAgent = None \/ (r.interruptAgent = runner.interruptAgent /\ item[i] # "turn"),
         mode' = mode, mode # "exited"
  PROVE  ServiceInv'
  <1>0. item \in [Turns -> Item]
    BY StateParts DEF QueueOK
  <1>1. PICK its \in [Turns -> Item], lps \in [Turns -> Phase] :
            /\ its[i] = gone /\ lps[i] = "off"
            /\ \A j \in Turns : j # i => its[j] = item[j] /\ lps[j] = loop[j]
            /\ QueueOK(messageQueue, atEnd, its) /\ LoopsOK(its, lps)
            /\ \E n \in Turns \cup {None} : Served(r, messageQueue, atEnd, its, lps, n)
    BY AfterItem
  <1>2. its = [item EXCEPT ![i] = gone]
    BY <1>0, <1>1
  <1>3. PICK n \in Turns \cup {None} : Served(r, messageQueue, atEnd, its, lps, n)
    BY <1>1
  <1>4. ASSUME ~ Discarded'
        PROVE  /\ \A j \in Turns : its[j] \notin Handled
               /\ r.isProcessing /\ r.interruptAgent = None
    <2>1. Solo
      BY <1>4, DiscardStays DEF ServiceInv
    <2>2. i \in HandledItems
      BY DEF HandledItems
    <2>3. \A j \in Turns : j # i => item[j] \notin Handled
      BY <2>1, <2>2 DEF Solo, HandledItems
    <2>4. gone \notin Handled
      BY DEF Gone, Handled
    <2>5. runner.interruptAgent # None => item[i] = "turn"
      <3>1. runner.interruptAgent # None => runner.interruptAgent[1] \in Turns
        BY StateParts DEF Runner, Loops
      <3> QED BY <2>1, <2>3, <3>1 DEF Solo, Handled
    <2> QED BY <1>1, <2>1, <2>2, <2>3, <2>4, <2>5 DEF Solo
  <1> QED BY <1>1, <1>2, <1>3, <1>4, ServedService

LEMMA DrainService ==
  ASSUME StateInv, [Next]_vars, ServiceInv, NEW r \in Interrupts, NEW f \in Runner,
         DrainAndSettle(r, f), mode' = mode,
         f.isProcessing = runner.isProcessing,
         f.isAgentLoopInProgress = runner.isAgentLoopInProgress,
         f.activeTurn = runner.activeTurn,
         f.interruptAgent \in {runner.interruptAgent, None}
  PROVE  /\ ServiceInv'
         /\ ~ Discarded' => messageQueue = <<>> /\ item' = item
                            /\ runner'.isProcessing = runner.isProcessing
  <1>0. QueueOK(messageQueue, atEnd, item)
    BY StateParts
  <1>1. \A j \in Turns : item'[j] = IF item[j] = "queued" THEN "discarded" ELSE item[j]
    BY DEF DrainAndSettle
  <1>2. /\ runner'.isAgentLoopInProgress = runner.isAgentLoopInProgress
        /\ runner'.activeTurn = runner.activeTurn
        /\ runner'.interruptAgent \in {runner.interruptAgent, None}
        /\ runner'.isProcessing = (runner.isProcessing /\ messageQueue = <<>>)
    BY DEF DrainAndSettle, Runner
  <1>3. messageQueue # <<>> => Discarded'
    <2>1. messageQueue # <<>> => Members(messageQueue) # {} /\ Members(messageQueue) \subseteq Turns
      BY <1>0, SeqFacts DEF QueueOK
    <2> QED BY <1>0, <1>1, <2>1 DEF Discarded, QueueOK
  <1>4. ~ Discarded' => item' = item
    <2>1. ~ Discarded' => \A j \in Turns : item'[j] = item[j]
      BY <1>1 DEF Discarded
    <2>2. item \in [Turns -> Item] /\ item' = [j \in Turns |-> item'[j]]
      BY <1>0 DEF QueueOK, DrainAndSettle
    <2> QED BY <2>1, <2>2
  <1>5. runner.isProcessing \in BOOLEAN
    BY StateParts DEF Runner
  <1>6. messageQueue' = <<>>
    BY DEF DrainAndSettle
  <1>7. \A j \in Turns : item'[j] \in Handled \/ item[j] \in Handled => item'[j] = item[j]
    BY <1>1 DEF Handled
  <1> QED BY <1>2, <1>3, <1>4, <1>5, <1>6, <1>7, CalmService

LEMMA NextService ==
  ASSUME StateInv, StateInv', [Next]_vars, ServiceInv
  PROVE  ServiceInv'
  <1> USE DEF LoopDetail, loopVars, vars
  <1>0. /\ LoopTypeOK /\ QueueOK(messageQueue, atEnd, item) /\ LoopsOK(item, loop)
        /\ runner \in Runner
    BY StateParts
  <1>a. CASE UNCHANGED <<runner, item, messageQueue>> /\ mode' \in {mode, "closing", "leaving", "left"}
    BY <1>a, CalmService
  <1>1. CASE LoadSession \/ \E m \in Messages : Enqueue(m) \/ UpdateQueue(m)
    <2>1. PICK q, ends, its : Pushes(q, ends, its)
      BY <1>1, Pushing DEF StateInv
    <2>0. /\ QueueOK(q, ends, its) /\ LoopsOK(its, loop) /\ mode' = mode /\ mode = "up" /\ q # <<>>
          /\ \A j \in Turns : its[j] = item[j] \/ (item[j] = "new" /\ its[j] = "queued")
      BY <2>1 DEF Pushes
    <2>2. CASE runner.isProcessing /\ runner' = runner /\ item' = its
      BY <2>0, <2>2, CalmService DEF Handled
    <2> DEFINE r == [runner EXCEPT !.isProcessing = TRUE]
    <2>3. ASSUME ~ runner.isProcessing, NEW n \in Turns \cup {None},
                 Served(r, q, ends, its, loop, n)
          PROVE  ServiceInv'
      <3>1. /\ r \in Runner /\ r.isProcessing /\ r.interruptAgent = runner.interruptAgent
            /\ r.isAgentLoopInProgress = runner.isAgentLoopInProgress
            /\ r.activeTurn = runner.activeTurn
        BY <1>0 DEF Runner
      <3> HIDE DEF r
      <3>2. Progress(r, its)
        BY <2>0, <3>1 DEF ServiceInv, Progress
      <3>3. ASSUME ~ Discarded'
            PROVE  (\A i \in Turns : its[i] \notin Handled) /\ r.isProcessing /\ r.interruptAgent = None
        <4>1. Solo
          BY <3>3, DiscardStays DEF ServiceInv
        <4>2. \A i \in Turns : item[i] \notin Handled
          BY <2>3, <4>1 DEF Solo, HandledItems
        <4>3. runner.interruptAgent # None => runner.interruptAgent[1] \in Turns
          BY <1>0 DEF Runner, Loops
        <4>4. runner.interruptAgent = None
          BY <4>1, <4>2, <4>3 DEF Solo, Handled
        <4>5. \A i \in Turns : its[i] \notin Handled
          BY <2>0, <4>2 DEF Handled
        <4> QED BY <3>1, <4>4, <4>5
      <3> QED BY <2>0, <2>3, <3>1, <3>2, <3>3, ServedService
    <2> QED BY <2>1, <2>2, <2>3, PushEffect
  <1>2. ASSUME NEW m \in Messages, Withdraw(m) PROVE ServiceInv'
    <2>1. messageQueue # <<>>
      <3>1. m \in Members(messageQueue) /\ messageQueue \in Seq(Turns)
        BY <1>0, <1>2, Constants DEF Withdraw, QueueOK
      <3> QED BY <3>1, EmptyQueue
    <2>2. \A j \in Turns : item'[j] \in Handled \/ item[j] \in Handled => item'[j] = item[j]
      BY <1>0, <1>2 DEF Withdraw, QueueOK, Handled
    <2> QED BY <1>2, <2>1, <2>2, CalmService DEF Withdraw
  <1>3. ASSUME NEW r \in Interrupts, InterruptIdle(r) PROVE ServiceInv'
    <2>1. /\ runner'.isAgentLoopInProgress = runner.isAgentLoopInProgress
          /\ runner'.activeTurn = runner.activeTurn /\ runner'.isProcessing = runner.isProcessing
          /\ runner'.interruptAgent = runner.interruptAgent
      BY <1>0, <1>3 DEF InterruptIdle, Runner
    <2> QED BY <1>3, <2>1, CalmService DEF InterruptIdle
  <1>4. ASSUME NEW r \in Interrupts, InterruptLatches(r) PROVE ServiceInv'
    <2>1. PICK latch \in BOOLEAN :
              DrainAndSettle(r, [runner EXCEPT !.wasInterrupted = TRUE,
                                               !.pendingInterrupt = latch])
      BY <1>0, <1>4 DEF InterruptLatches, Runner
    <2> DEFINE f == [runner EXCEPT !.wasInterrupted = TRUE, !.pendingInterrupt = latch]
    <2>2. /\ f \in Runner /\ f.isProcessing = runner.isProcessing
          /\ f.isAgentLoopInProgress = runner.isAgentLoopInProgress
          /\ f.activeTurn = runner.activeTurn /\ f.interruptAgent = runner.interruptAgent
      BY <1>0 DEF Runner
    <2> HIDE DEF f
    <2>3. DrainAndSettle(r, f) /\ mode' = mode
      BY <1>4, <2>1 DEF InterruptLatches, f
    <2> QED BY <2>2, <2>3, DrainService
  <1>5. ASSUME NEW r \in Interrupts, InterruptStops(r) PROVE ServiceInv'
    <2>1. /\ runner'.isAgentLoopInProgress = runner.isAgentLoopInProgress
          /\ runner'.activeTurn = runner.activeTurn /\ runner'.isProcessing = runner.isProcessing
          /\ runner'.interruptAgent = runner.interruptAgent
      BY <1>0, <1>5 DEF InterruptStops, Runner
    <2> QED BY <1>5, <2>1, CalmService DEF InterruptStops
  <1>6. CASE Request
    <2>1. CASE Close \/ Signalled \/ \E r \in Interrupts : InterruptJoins(r)
      BY <1>a, <2>1 DEF Close, Signalled, ModeBecomes, InterruptJoins
    <2> QED BY <1>1, <1>2, <1>3, <1>4, <1>5, <1>6, <2>1 DEF Request
  <1>7. ASSUME NEW l \in Loops, StopReturns(l) PROVE ServiceInv'
    <2> DEFINE f == [runner EXCEPT !.interruptAgent = None, !.pendingInterrupt = FALSE]
    <2>1. /\ f \in Runner /\ f.isProcessing = runner.isProcessing
          /\ f.isAgentLoopInProgress = runner.isAgentLoopInProgress
          /\ f.activeTurn = runner.activeTurn /\ f.interruptAgent = None
      BY <1>0 DEF Runner
    <2> HIDE DEF f
    <2>2. CASE \E r \in Interrupts : DrainAndSettle(r, f)
      BY <1>7, <2>1, <2>2, DrainService DEF StopReturns
    <2>3. CASE UNCHANGED <<messageQueue, item, runner>>
      BY <1>7, <1>a, <2>3 DEF StopReturns
    <2> QED BY <1>7, <2>2, <2>3 DEF StopReturns, f
  <1>8. ASSUME NEW i \in Turns, ItemStep(i) PROVE ServiceInv'
    <2>1. CASE PreparationEnds(i)
      <3>1. loop = [loop EXCEPT ![i] = "off"] /\ item[i] = "prepare" /\ item[i] \in Handled
        BY <1>0, <2>1 DEF PreparationEnds, LoopsOK, Handled
      <3>2. Progress(runner, [item EXCEPT ![i] = "dropped"])
        BY <1>0, <3>1 DEF ServiceInv, Progress, QueueOK
      <3> QED BY <1>0, <2>1, <3>1, <3>2, EndService DEF PreparationEnds, Running, Gone
    <2>2. CASE Prepared(i) \/ GatePasses(i)
      <3>1. item[i] \in {"prepare", "gate"} /\ item'[i] \in {"gate", "turn"}
            /\ (\A j \in Turns : j # i => item'[j] = item[j])
            /\ mode' = mode /\ mode # "exited" /\ messageQueue' = messageQueue
        BY <1>0, <2>2 DEF Prepared, GatePasses, QueueOK, Running
      <3>2. /\ runner'.isProcessing = runner.isProcessing
            /\ runner'.interruptAgent \in {runner.interruptAgent, None}
            /\ IF item'[i] = "turn"
               THEN runner'.activeTurn = i /\ runner'.isAgentLoopInProgress
               ELSE /\ runner'.activeTurn = runner.activeTurn
                    /\ runner'.isAgentLoopInProgress = runner.isAgentLoopInProgress
        BY <1>0, <2>2 DEF Prepared, GatePasses, QueueOK, Begin, EnterGate, Reset, Runner
      <3>3. HandledItems' = HandledItems
        BY <3>1 DEF HandledItems, Handled
      <3>4. Progress(runner', item')
        BY <3>1, <3>2 DEF ServiceInv, Progress
      <3>5. QueueServed'
        BY <3>1, <3>2, <3>3 DEF ServiceInv, QueueServed
      <3>6. ASSUME ~ Discarded' PROVE Solo'
        <4>1. Solo
          BY <3>6, DiscardStays DEF ServiceInv
        <4>2. i \in HandledItems /\ \A j \in Turns : j # i => item[j] \notin Handled
          BY <3>1, <4>1 DEF Solo, HandledItems, Handled
        <4>3. runner.interruptAgent = None
          <5>1. runner.interruptAgent # None => runner.interruptAgent[1] \in Turns
            BY <1>0 DEF Runner, Loops
          <5> QED BY <3>1, <4>1, <4>2, <5>1 DEF Solo, Handled
        <4>4. \A j \in Turns : item'[j] = "turn" => runner'.activeTurn = j
          BY <3>1, <3>2, <4>2 DEF Handled
        <4> QED BY <3>1, <3>2, <3>3, <4>1, <4>3, <4>4 DEF Solo
      <3> QED BY <3>4, <3>5, <3>6 DEF ServiceInv
    <2>3. CASE HandlerReady(i)
      <3>1. /\ runner'.isAgentLoopInProgress = runner.isAgentLoopInProgress
            /\ runner'.activeTurn = runner.activeTurn /\ runner'.isProcessing = runner.isProcessing
            /\ runner'.interruptAgent = LoopOf(i)
        BY <1>0, <2>3 DEF HandlerReady, Runner
      <3>2. runner'.interruptAgent[1] = i /\ item[i] = "turn"
        BY <1>0, <2>3, <3>1 DEF HandlerReady, LoopOf, LoopsOK
      <3> QED BY <2>3, <3>1, <3>2, CalmService DEF HandlerReady
    <2>4. CASE (i = Resume /\ NothingToResume) \/ LoopStep(i)
      BY <1>a, <2>4 DEF NothingToResume, LoopStep
    <2>5. CASE ToolsFinish(i)
      <3>1. item[i] = "turn"
        BY <1>0, <2>5 DEF ToolsFinish, ToolsDone, LoopsOK
      <3>2. \A j \in Turns : item'[j] \in Handled \/ item[j] \in Handled => item'[j] = item[j]
        BY <2>5 DEF ToolsFinish, Handled
      <3>3. HandledItems # {}
        BY <3>1 DEF HandledItems, Handled
      <3> QED BY <2>5, <3>2, <3>3, CalmService DEF ToolsFinish
    <2>6. CASE EndOfLoopTaken(i)
      <3>1. item[Head(messageQueue)] = "queued" /\ Head(messageQueue) \in Turns
        BY <1>0, <2>6, Shifted, SeqFacts DEF EndOfLoopTaken, QueueOK
      <3>2. \A j \in Turns : item'[j] \in Handled \/ item[j] \in Handled => item'[j] = item[j]
        BY <1>0, <2>6, <3>1 DEF EndOfLoopTaken, Handled, QueueOK
      <3> QED BY <2>6, <3>2, CalmService DEF EndOfLoopTaken
    <2>7. CASE TurnEnds(i)
      <3>1. item[i] = "turn" /\ item[i] \in Handled /\ "ended" \in Gone /\ mode # "exited"
        BY <1>0, <2>7 DEF TurnEnds, LoopsOK, Handled, Gone, Running
      <3>2. /\ Finish(runner) \in Runner /\ Finish(runner).isProcessing = runner.isProcessing
            /\ Finish(runner).interruptAgent = None /\ Finish(runner).activeTurn = None
            /\ ~ Finish(runner).isAgentLoopInProgress
        <4>1. Finish(runner) \in Runner
          BY <1>0, RunnerOps
        <4> QED BY <1>0, <4>1 DEF Finish, Runner
      <3>3. CASE ServeQueue(Finish(runner), messageQueue, atEnd, [item EXCEPT ![i] = "ended"],
                            [loop EXCEPT ![i] = "off"]) /\ mode' = mode
        <4>1. Progress(Finish(runner), [item EXCEPT ![i] = "ended"])
          BY <3>2 DEF Progress
        <4> QED BY <3>1, <3>2, <3>3, <4>1, EndService
      <3>4. CASE /\ mode' = "exited" /\ runner' = Finish(runner)
                 /\ item' = [item EXCEPT ![i] = "ended"]
        <4>1. Progress(runner', item')
          BY <3>2, <3>4 DEF Progress
        <4>2. QueueServed'
          BY <3>4 DEF QueueServed
        <4>3. ASSUME ~ Discarded' PROVE Solo'
          <5>1. Solo
            BY <4>3, DiscardStays DEF ServiceInv
          <5>2. i \in HandledItems
            BY <3>1 DEF HandledItems
          <5>3. \A j \in Turns : j # i => item[j] \notin Handled
            BY <5>1, <5>2 DEF Solo, HandledItems
          <5>4. \A j \in Turns : item'[j] \notin Handled
            BY <1>0, <3>4, <5>3 DEF QueueOK, Handled
          <5>5. HandledItems' = {} /\ \A j \in Turns : item'[j] # "turn"
            BY <5>4 DEF HandledItems, Handled
          <5> QED BY <3>2, <3>4, <5>5 DEF Solo
        <4> QED BY <4>1, <4>2, <4>3 DEF ServiceInv
      <3> QED BY <2>7, <3>3, <3>4 DEF TurnEnds
    <2> QED BY <1>8, <2>1, <2>2, <2>3, <2>4, <2>5, <2>6, <2>7 DEF ItemStep
  <1>9. CASE Shutdown
    <2>1. /\ UNCHANGED <<item, runner, messageQueue>> /\ mode' = "exited" /\ ~ runner.isProcessing
      BY <1>9 DEF Shutdown, ModeBecomes, Quiet
    <2>2. Progress(runner', item') /\ QueueServed' /\ HandledItems' = HandledItems
      BY <2>1 DEF ServiceInv, QueueServed, HandledItems
    <2>3. ASSUME ~ Discarded' PROVE Solo'
      <3>1. Solo
        BY <2>3, DiscardStays DEF ServiceInv
      <3> QED BY <2>1, <2>2, <3>1 DEF Solo
    <2> QED BY <2>2, <2>3 DEF ServiceInv
  <1>10. CASE ShutdownTimesOut \/ Leave \/ UNCHANGED vars
    BY <1>10, <1>a DEF ShutdownTimesOut, Leave, ModeBecomes
  <1> QED BY <1>6, <1>7, <1>8, <1>9, <1>10 DEF Next

-----------------------------------------------------------------------------
\* A turn that was told to stop.

\* The turn of i has no loop that could be stopped.
Before(i) == item[i] \in {"prepare", "gate"} \/ loop[i] = "setup"

Stick ==
    /\ told \subseteq HandledItems
    /\ \A i \in told : Before(i) => /\ runner.pendingInterrupt
                                    /\ runner.interruptAgent = None
                                    /\ \A r \in Interrupts : interrupt[r] # "stop"
    /\ \A i \in Turns : StopSticks(i)

StickInv == ~ Discarded => Stick

LEMMA ToldNone ==
  ASSUME told' = {}
  PROVE  StickInv'
  BY DEF StickInv, Stick, StopSticks

LEMMA OneTold ==
  ASSUME Solo, Stick, NEW i \in Turns, item[i] \in Handled
  PROVE  told \subseteq {i} /\ \A j \in Turns : j # i => item[j] \notin Handled
  BY DEF Solo, Stick, HandledItems

\* A step of the loop of i that leaves the runner and the handled items alone.
LEMMA LoopStick ==
  ASSUME StateInv, Solo, Stick, NEW i \in Turns, item[i] = "turn", item'[i] = "turn",
         told' \subseteq told, runner' = runner, interrupt' = interrupt,
         i \in told' => /\ loop'[i] = "setup" => loop[i] = "setup"
                        /\ loop'[i] = "request" => i \in aborted'
                        /\ loop'[i] \in {"reprime", "rerun", "prime", "tools", "hooks"}
                               => i \in pendingAbort'
  PROVE  Stick'
  <1>1. told' \subseteq {i}
    BY OneTold DEF Handled
  <1>2. i \in HandledItems'
    BY DEF HandledItems, Handled
  <1>3. i \in told' => ~ Before(i)' \/ Before(i)
    BY DEF Before
  <1>4. \A j \in Turns : StopSticks(j)'
    BY <1>1 DEF StopSticks
  <1> QED BY <1>1, <1>2, <1>3, <1>4 DEF Stick

LEMMA CalmStick ==
  ASSUME StateInv, Stick, UNCHANGED <<told, loop, aborted, pendingAbort>>,
         \A j \in Turns : item[j] \in Handled => item'[j] = item[j],
         runner'.pendingInterrupt = runner.pendingInterrupt,
         runner'.interruptAgent = runner.interruptAgent,
         \A r \in Interrupts : interrupt'[r] = "stop" => interrupt[r] = "stop"
  PROVE  Stick'
  <1>1. told \subseteq Turns
    BY StateParts DEF LoopTypeOK
  <1>2. told' \subseteq HandledItems'
    BY DEF Stick, HandledItems
  <1>3. \A i \in told : Before(i)' => Before(i)
    BY <1>1 DEF Before, Stick, HandledItems
  <1>4. \A i \in Turns : StopSticks(i)'
    BY DEF Stick, StopSticks
  <1> QED BY <1>2, <1>3, <1>4 DEF Stick

LEMMA LoopStepStick ==
  ASSUME StateInv, Solo, Stick, NEW i \in Turns, LoopStep(i)
  PROVE  Stick'
  <1>0. LoopTypeOK /\ LoopsOK(item, loop)
    BY StateParts
  <1>1. item' = item /\ runner' = runner /\ interrupt' = interrupt
    BY DEF LoopStep
  <1>2. item[i] = "turn"
    BY <1>0 DEF LoopStep, LoopsOK, PrimeFails, CallFails, SendRequest, RequestAborted,
                RequestAnswered, ToolsCalled, Rerun, RerunDone, ToolsStop, RunAgain, RunEnds,
                HandOff, HandOffFails
  <1>3. StopSticks(i)
    BY DEF Stick
  <1>4. /\ told' \subseteq told
        /\ i \in told' => /\ loop'[i] = "setup" => loop[i] = "setup"
                          /\ loop'[i] = "request" => i \in aborted'
                          /\ loop'[i] \in {"reprime", "rerun", "prime", "tools", "hooks"}
                                 => i \in pendingAbort'
    <2> USE <1>0, <1>3 DEF StopSticks, Goto, LoopsOK
    <2>1. CASE PrimeFails(i) \/ CallFails(i)
      BY <2>1 DEF PrimeFails, CallFails
    <2>2. CASE SendRequest(i) \/ RequestAborted(i)
      BY <2>2 DEF SendRequest, Signal, RequestAborted, AfterRun
    <2>3. CASE RequestAnswered(i) \/ ToolsCalled(i)
      BY <2>3 DEF RequestAnswered, ToolsCalled
    <2>4. CASE Rerun(i) \/ RerunDone(i) \/ ToolsStop(i)
      BY <2>4 DEF Rerun, RerunDone, ToolsStop
    <2>5. CASE RunAgain(i) \/ RunEnds(i)
      BY <2>5 DEF RunAgain, RunEnds, AfterRun
    <2>6. CASE HandOff(i) \/ HandOffFails(i)
      BY <2>6 DEF HandOff, HandOffFails
    <2> QED BY <2>1, <2>2, <2>3, <2>4, <2>5, <2>6 DEF LoopStep
  <1> QED BY <1>1, <1>2, <1>4, LoopStick

LEMMA ItemStepStick ==
  ASSUME StateInv, StateInv', AgentInv, ServiceInv, StickInv, NEW i \in Turns, ItemStep(i)
  PROVE  StickInv'
  <1> USE DEF LoopDetail, loopVars, vars
  <1>z. [Next]_vars
    BY DEF Next
  <1> SUFFICES ASSUME ~ Discarded' PROVE Stick'
    BY DEF StickInv
  <1>0. /\ LoopTypeOK /\ QueueOK(messageQueue, atEnd, item) /\ LoopsOK(item, loop)
        /\ runner \in Runner
    BY StateParts
  <1>1. ~ Discarded /\ Solo /\ Stick /\ told \subseteq Turns
    BY <1>0, <1>z, DiscardStays DEF ServiceInv, StickInv, LoopTypeOK
  <1>2. CASE PreparationEnds(i) \/ TurnEnds(i)
    <2>1. item[i] \in Handled
      BY <1>0, <1>2 DEF PreparationEnds, TurnEnds, LoopsOK, Handled
    <2>2. told' = {}
      BY <1>1, <1>2, <2>1, OneTold DEF PreparationEnds, TurnEnds
    <2> QED BY <2>2, ToldNone DEF StickInv
  <1>3. CASE Prepared(i) \/ GatePasses(i)
    <2>1. item[i] \in {"prepare", "gate"} /\ item'[i] \in Handled
          /\ loop'[i] \in {"off", "setup"} /\ told' = told /\ interrupt' = interrupt
      BY <1>0, <1>3 DEF Prepared, GatePasses, QueueOK, LoopsOK, Handled, Goto
    <2>2. /\ runner'.pendingInterrupt = runner.pendingInterrupt
          /\ runner'.interruptAgent \in {runner.interruptAgent, None}
      BY <1>0, <1>3 DEF Prepared, GatePasses, Begin, EnterGate, Reset, Runner
    <2>3. told \subseteq {i}
      BY <1>1, <2>1, OneTold DEF Handled
    <2>4. i \in told => Before(i)
      BY <2>1 DEF Before
    <2>5. told' \subseteq HandledItems' /\ \A j \in Turns : StopSticks(j)'
      BY <2>1, <2>3 DEF HandledItems, StopSticks
    <2> QED BY <1>1, <2>1, <2>2, <2>3, <2>4, <2>5 DEF Stick
  <1>4. CASE HandlerReady(i)
    <2>1. loop[i] = "setup" /\ item[i] = "turn" /\ item' = item /\ told' = told
          /\ loop'[i] \in {"prime", "reprime"}
      BY <1>0, <1>4 DEF HandlerReady, LoopsOK, Goto
    <2>2. told \subseteq {i}
      BY <1>1, <2>1, OneTold DEF Handled
    <2>3. i \in told => runner.pendingInterrupt
      BY <1>1, <2>1 DEF Stick, Before
    <2>4. LoopOf(i) \notin stopping /\ LoopOf(i)[1] = i /\ LoopOf(i)[2] = generation[i]
      BY <2>1 DEF AgentInv, Known, LoopOf
    <2>5. i \in told => i \in pendingAbort'
      <3> SUFFICES ASSUME i \in told PROVE i \in pendingAbort'
        OBVIOUS
      <3>1. pendingAbort' = Stops(LoopOf(i), IF i = Resume THEN "reprime" ELSE "prime").flag
        BY <1>4, <2>3 DEF HandlerReady
      <3> QED BY <2>4, <3>1 DEF Stops
    <2>6. told' \subseteq HandledItems' /\ \A j \in Turns : StopSticks(j)'
      BY <2>1, <2>2, <2>5 DEF HandledItems, Handled, StopSticks
    <2>7. ~ Before(i)'
      BY <2>1 DEF Before
    <2> QED BY <2>1, <2>2, <2>6, <2>7 DEF Stick
  <1>5. CASE i = Resume /\ NothingToResume
    <2>1. item[i] = "turn" /\ item' = item /\ runner' = runner /\ interrupt' = interrupt
          /\ told' = told /\ loop'[i] = "report"
      BY <1>0, <1>5 DEF NothingToResume, LoopsOK, Goto
    <2> QED BY <1>1, <2>1, LoopStick
  <1>6. CASE LoopStep(i)
    BY <1>1, <1>6, LoopStepStick
  <1>7. CASE ToolsFinish(i)
    <2>1. item[i] = "turn" /\ item'[i] = "turn" /\ runner' = runner /\ interrupt' = interrupt
          /\ told' = told /\ loop'[i] = "prime" /\ loop[i] = "tools" /\ pendingAbort' = pendingAbort
      BY <1>0, <1>7 DEF ToolsFinish, ToolsDone, LoopsOK, Goto
    <2>2. i \in told => i \in pendingAbort
      BY <1>1, <2>1 DEF Stick, StopSticks
    <2> QED BY <1>1, <2>1, <2>2, LoopStick
  <1>8. CASE EndOfLoopTaken(i)
    <2>1. item[Head(messageQueue)] = "queued" /\ Head(messageQueue) \in Turns
      BY <1>0, <1>8, Shifted, SeqFacts DEF EndOfLoopTaken, QueueOK
    <2>2. item[i] = "turn" /\ item'[i] = "turn" /\ runner' = runner /\ interrupt' = interrupt
          /\ told' = told /\ loop[i] = "hooks" /\ loop'[i] \in {"prime", "handoff", "report"}
          /\ (loop'[i] = "prime" => pendingAbort' = pendingAbort)
      BY <1>0, <1>8, <2>1 DEF EndOfLoopTaken, RunAgain, RunEnds, AfterRun, LoopsOK, Goto, QueueOK
    <2>3. i \in told => i \in pendingAbort
      BY <1>1, <2>2 DEF Stick, StopSticks
    <2> QED BY <1>1, <2>2, <2>3, LoopStick
  <1> QED BY <1>2, <1>3, <1>4, <1>5, <1>6, <1>7, <1>8 DEF ItemStep

LEMMA NextStick ==
  ASSUME StateInv, StateInv', [Next]_vars, AgentInv, ServiceInv, StickInv
  PROVE  StickInv'
  <1> USE DEF LoopDetail, loopVars, vars
  <1>0. /\ LoopTypeOK /\ QueueOK(messageQueue, atEnd, item) /\ LoopsOK(item, loop)
        /\ runner \in Runner
    BY StateParts
  <1>1. ASSUME NEW i \in Turns, ItemStep(i) PROVE StickInv'
    BY <1>1, ItemStepStick
  <1> SUFFICES ASSUME ~ Discarded', \A i \in Turns : ~ ItemStep(i) PROVE Stick'
    BY <1>1 DEF StickInv
  <1>2. ~ Discarded /\ Solo /\ Stick /\ told \subseteq Turns
    BY <1>0, DiscardStays DEF ServiceInv, StickInv, LoopTypeOK
  <1>3. CASE LoadSession \/ \E m \in Messages : Enqueue(m) \/ UpdateQueue(m)
    <2>1. PICK q, ends, its : Pushes(q, ends, its)
      BY <1>3, Pushing DEF StateInv
    <2>2. CASE runner.isProcessing /\ runner' = runner /\ item' = its /\ loop' = loop
      <3>1. \A j \in Turns : item[j] \in Handled => item'[j] = item[j]
        BY <2>1, <2>2 DEF Pushes, Handled
      <3> QED BY <1>2, <2>1, <2>2, <3>1, CalmStick DEF Pushes
    <2>3. CASE ~ runner.isProcessing
      <3>1. told' = {}
        BY <1>2, <2>1, <2>3 DEF Solo, Stick, Pushes
      <3> QED BY <3>1, ToldNone DEF StickInv
    <2> QED BY <2>1, <2>2, <2>3, PushEffect
  <1>4. ASSUME NEW m \in Messages, Withdraw(m) PROVE Stick'
    <2>1. \A j \in Turns : item[j] \in Handled => item'[j] = item[j]
      BY <1>0, <1>4 DEF Withdraw, QueueOK, Handled
    <2> QED BY <1>2, <1>4, <2>1, CalmStick DEF Withdraw
  <1>5. ASSUME NEW r \in Interrupts, InterruptIdle(r) \/ InterruptJoins(r) PROVE Stick'
    <2>1. /\ runner'.pendingInterrupt = runner.pendingInterrupt
          /\ runner'.interruptAgent = runner.interruptAgent
      BY <1>0, <1>5 DEF InterruptIdle, InterruptJoins, Runner
    <2>2. \A k \in Interrupts : interrupt'[k] = "stop" => interrupt[k] = "stop"
      BY <1>5, StateParts DEF InterruptIdle, InterruptJoins
    <2> QED BY <1>2, <1>5, <2>1, <2>2, CalmStick DEF InterruptIdle, InterruptJoins
  <1>6. ASSUME NEW r \in Interrupts, InterruptLatches(r) PROVE Stick'
    <2> DEFINE latch == runner.isProcessing \/ runner.isAgentLoopInProgress
               f == [runner EXCEPT !.wasInterrupted = TRUE, !.pendingInterrupt = latch]
    <2>1. /\ f \in Runner /\ f.isProcessing = runner.isProcessing
          /\ f.isAgentLoopInProgress = runner.isAgentLoopInProgress
          /\ f.activeTurn = runner.activeTurn /\ f.interruptAgent = runner.interruptAgent
          /\ f.pendingInterrupt = latch
      BY <1>0 DEF Runner
    <2> HIDE DEF f
    <2>2. DrainAndSettle(r, f) /\ mode' = mode
      BY <1>6 DEF InterruptLatches, f
    <2>3. item' = item
      BY <2>1, <2>2, DrainService
    <2>4. runner'.pendingInterrupt = latch /\ runner'.interruptAgent = None
      BY <1>6, <2>1, <2>2 DEF DrainAndSettle, InterruptLatches, Runner
    <2>5. \A k \in Interrupts : interrupt'[k] # "stop"
      BY <1>6, <2>2, StateParts DEF InterruptLatches, DrainAndSettle, Settle, Answered, Active
    <2>6. UNCHANGED <<loop, aborted, pendingAbort>>
          /\ told' \subseteq told \cup {i \in Turns : Before(i)}
      BY <1>6 DEF InterruptLatches, Before
    <2>7. \A i \in Turns : Before(i) => i \in HandledItems /\ runner.isProcessing
      BY <1>0, <1>2 DEF Before, LoopsOK, HandledItems, Handled, Solo
    <2>8. told' \subseteq HandledItems'
      BY <1>2, <2>3, <2>6, <2>7 DEF HandledItems, Stick
    <2>9. \A i \in Turns : StopSticks(i)'
      <3>1. \A i \in Turns : Before(i) => loop[i] \in {"off", "setup"}
        BY <1>0 DEF Before, LoopsOK
      <3> QED BY <1>2, <2>6, <3>1 DEF Stick, StopSticks
    <2>10. \A i \in told' : Before(i)' => runner'.pendingInterrupt
      BY <1>2, <2>3, <2>4, <2>6, <2>7 DEF Before
    <2> QED BY <2>4, <2>5, <2>8, <2>9, <2>10 DEF Stick
  <1>7. ASSUME NEW r \in Interrupts, InterruptStops(r) PROVE Stick'
    <2>0. runner.interruptAgent # None /\ runner.interruptAgent \in Loops
      BY <1>0, <1>7 DEF InterruptStops, Runner
    <2>1. PICK l \in Loops : l = runner.interruptAgent
      BY <2>0
    <2>2. l[1] \in Turns
      BY DEF Loops
    <2>3. /\ StopAgent(l) /\ item' = item
          /\ told' = IF l = LoopOf(l[1]) /\ l \notin stopping THEN told \cup {l[1]} ELSE told
      BY <1>7, <2>1 DEF InterruptStops
    <2>4. item[l[1]] = "turn" /\ Known(l)
      BY <1>2, <2>0, <2>1 DEF Solo, AgentInv
    <2>5. \A i \in told : ~ Before(i)
      BY <1>2, <2>0 DEF Stick
    <2>6. loop' = loop
      BY <2>3 DEF StopAgent
    <2>7. l = LoopOf(l[1]) => loop[l[1]] # "setup"
      <3>1. LoopOf(l[1])[2] = generation[l[1]]
        BY DEF LoopOf
      <3> QED BY <2>4, <3>1 DEF Known
    <2>8. told' \subseteq HandledItems' /\ \A i \in told' : ~ Before(i)'
      BY <1>2, <2>2, <2>3, <2>4, <2>5, <2>6, <2>7 DEF Before, HandledItems, Handled, Stick
    <2>9. \A i \in Turns : StopSticks(i)'
      <3>1. aborted \subseteq aborted' /\ pendingAbort \subseteq pendingAbort'
        BY <2>3 DEF StopAgent, Stops
      <3>2. ASSUME l = LoopOf(l[1]), l \notin stopping PROVE StopSticks(l[1])'
        <4>1. l[2] = generation[l[1]]
          BY <3>2 DEF LoopOf
        <4> QED BY <2>3, <2>6, <3>2, <4>1 DEF StopAgent, Stops, StopSticks
      <3>3. ASSUME NEW i \in told PROVE StopSticks(i)'
        BY <1>2, <2>6, <3>1, <3>3 DEF Stick, StopSticks
      <3>4. ASSUME NEW i \in Turns PROVE StopSticks(i)'
        BY <2>3, <3>2, <3>3 DEF StopSticks
      <3> QED BY <3>4
    <2> QED BY <2>8, <2>9 DEF Stick
  <1>8. CASE Close \/ Signalled \/ Shutdown \/ ShutdownTimesOut \/ Leave \/ UNCHANGED vars
    BY <1>2, <1>8, CalmStick DEF Close, Signalled, Shutdown, ShutdownTimesOut,
                                Leave, ModeBecomes
  <1>9. ASSUME NEW l \in Loops, StopReturns(l) PROVE Stick'
    <2>1. UNCHANGED <<told, loop, aborted, pendingAbort>> /\ mode' = mode
      BY <1>9 DEF StopReturns, StopEnds
    <2>2. CASE UNCHANGED <<item, runner, interrupt>>
      BY <1>2, <2>1, <2>2, CalmStick
    <2> DEFINE f == [runner EXCEPT !.interruptAgent = None, !.pendingInterrupt = FALSE]
    <2>3. ASSUME NEW r \in Interrupts, interrupt[r] = "stop", DrainAndSettle(r, f) PROVE Stick'
      <3>1. /\ f \in Runner /\ f.isProcessing = runner.isProcessing
            /\ f.isAgentLoopInProgress = runner.isAgentLoopInProgress
            /\ f.activeTurn = runner.activeTurn /\ f.interruptAgent = None
        BY <1>0 DEF Runner
      <3> HIDE DEF f
      <3>2. item' = item
        BY <2>1, <2>3, <3>1, DrainService
      <3>3. \A i \in told : ~ Before(i)
        BY <1>2, <2>3 DEF Stick
      <3> QED BY <1>2, <2>1, <3>2, <3>3 DEF Stick, Before, HandledItems, StopSticks
    <2> QED BY <1>9, <2>2, <2>3 DEF StopReturns
  <1> QED BY <1>3, <1>4, <1>5, <1>6, <1>7, <1>8, <1>9 DEF Next, Request

-----------------------------------------------------------------------------
\* What an interrupt was for.

Dropped == \E i \in Turns : item[i] = "dropped"

\* A set latch is known to the turn it will reach, unless that turn is over.
LatchOwned ==
    runner.pendingInterrupt =>
        \E i \in Turns : (i \in told /\ Before(i)) \/ loop[i] = "report"

\* A turn whose loop could be stopped has its handler installed, or an
\* interrupt awaits its end.
TurnReachable ==
    runner.interruptAgent = None =>
        \A i \in Turns : item[i] = "turn" =>
            loop[i] \in {"setup", "report"} \/ \E r \in Interrupts : interrupt[r] = "settle"

Cause ==
    /\ aborted \cup pendingAbort \subseteq told
    /\ LatchOwned
    /\ TurnReachable

CauseInv == Discarded \/ Dropped \/ Cause

LEMMA DropStays ==
  ASSUME StateInv, [Next]_vars
  PROVE  ~ Dropped' => ~ Dropped /\ \A i \in Turns : item'[i] # "dropped"
  BY Advances DEF Advance, Dropped, Gone

LEMMA CalmCause ==
  ASSUME Cause, UNCHANGED <<told, loop, aborted, pendingAbort>>,
         \A j \in Turns : item[j] \in Handled \/ item'[j] \in Handled => item'[j] = item[j],
         runner'.pendingInterrupt => runner.pendingInterrupt,
         runner'.interruptAgent = runner.interruptAgent,
         \A r \in Interrupts : interrupt[r] = "settle" => interrupt'[r] = "settle"
  PROVE  Cause'
  <1>1. \A i \in Turns : Before(i) => Before(i)'
    BY DEF Before, Handled
  <1>2. \A i \in Turns : item'[i] = "turn" => item[i] = "turn"
    BY DEF Handled
  <1>3. LatchOwned'
    BY <1>1 DEF Cause, LatchOwned
  <1>4. TurnReachable'
    BY <1>2 DEF Cause, TurnReachable
  <1> QED BY <1>3, <1>4 DEF Cause

\* The holder of a set latch is the item that is handled.
LEMMA LatchHolder ==
  ASSUME StateInv, Solo, Stick, Cause, runner.pendingInterrupt
  PROVE  \E k \in HandledItems : (k \in told /\ Before(k)) \/ loop[k] = "report"
  <1>1. PICK k \in Turns : (k \in told /\ Before(k)) \/ loop[k] = "report"
    BY DEF Cause, LatchOwned
  <1>2. loop[k] = "report" => item[k] = "turn"
    BY StateParts DEF LoopsOK
  <1> QED BY <1>1, <1>2 DEF Stick, HandledItems, Handled

\* A step of a loop that a handler reaches.
LEMMA LoopCause ==
  ASSUME StateInv, Solo, Stick, Cause, NEW i \in Turns, item[i] = "turn",
         loop[i] \notin {"setup", "report"}, runner' = runner, interrupt' = interrupt,
         aborted' \cup pendingAbort' \subseteq told'
  PROVE  Cause'
  <1>1. ~ runner.pendingInterrupt
    <2> SUFFICES ASSUME runner.pendingInterrupt PROVE FALSE
      OBVIOUS
    <2>1. PICK k \in HandledItems : (k \in told /\ Before(k)) \/ loop[k] = "report"
      BY LatchHolder
    <2>2. k = i
      BY DEF Solo, HandledItems, Handled
    <2> QED BY <2>1, <2>2 DEF Before
  <1>2. TurnReachable'
    BY DEF Cause, TurnReachable
  <1> QED BY <1>1, <1>2 DEF Cause, LatchOwned

LEMMA LoopStepCause ==
  ASSUME StateInv, Solo, Stick, Cause, NEW i \in Turns, LoopStep(i)
  PROVE  Cause'
  <1>0. LoopTypeOK /\ LoopsOK(item, loop) /\ LoopsInv
    BY StateParts
  <1>1. item[i] = "turn" /\ runner' = runner /\ interrupt' = interrupt
        /\ loop[i] \notin {"setup", "report"}
    BY <1>0 DEF LoopStep, LoopsOK, PrimeFails, CallFails, SendRequest, RequestAborted,
                RequestAnswered, ToolsCalled, Rerun, RerunDone, ToolsStop, RunAgain, RunEnds,
                HandOff, HandOffFails
  <1>2. i \in aborted => loop[i] \in {"request", "rerun", "tools"}
    BY <1>0 DEF LoopsInv
  <1>3. aborted' \cup pendingAbort' \subseteq told'
    <2> USE DEF Cause
    <2>1. CASE PrimeFails(i) \/ CallFails(i)
      BY <1>2, <2>1 DEF PrimeFails, CallFails
    <2>2. CASE SendRequest(i) \/ RequestAborted(i)
      BY <2>2 DEF SendRequest, Signal, RequestAborted
    <2>3. CASE RequestAnswered(i) \/ ToolsCalled(i)
      BY <2>3 DEF RequestAnswered, ToolsCalled
    <2>4. CASE Rerun(i) \/ RerunDone(i) \/ ToolsStop(i)
      BY <2>4 DEF Rerun, RerunDone, ToolsStop
    <2>5. CASE RunAgain(i) \/ RunEnds(i)
      BY <2>5 DEF RunAgain, RunEnds
    <2>6. CASE HandOff(i) \/ HandOffFails(i)
      BY <1>2, <2>6 DEF HandOff, HandOffFails
    <2> QED BY <2>1, <2>2, <2>3, <2>4, <2>5, <2>6 DEF LoopStep
  <1> QED BY <1>1, <1>3, LoopCause

\* The queue is served while no item is handled and no latch set.
LEMMA ServedCause ==
  ASSUME NEW r \in Runner, NEW q, NEW ends, NEW its, NEW lps,
         QueueOK(q, ends, its), LoopsOK(its, lps),
         NEW n \in Turns \cup {None}, Served(r, q, ends, its, lps, n),
         \A j \in Turns : its[j] \notin Handled, ~ r.pendingInterrupt,
         aborted' \cup pendingAbort' \subseteq told'
  PROVE  Cause'
  <1>1. ~ runner'.pendingInterrupt
    BY ServedRunner
  <1>2. ASSUME NEW j \in Turns, item'[j] = "turn" PROVE loop'[j] = "setup"
    <2>1. j = n
      BY <1>2, ServedItems DEF Handled
    <2> QED BY <1>2, <2>1, ServedItems, Constants
  <1> QED BY <1>1, <1>2 DEF Cause, LatchOwned, TurnReachable

LEMMA ItemStepCause ==
  ASSUME StateInv, StateInv', AgentInv, ServiceInv, StickInv, CauseInv, NEW i \in Turns, ItemStep(i)
  PROVE  CauseInv'
  <1> USE DEF LoopDetail, loopVars, vars
  <1>z. [Next]_vars
    BY DEF Next
  <1> SUFFICES ASSUME ~ Discarded', ~ Dropped' PROVE Cause'
    BY DEF CauseInv
  <1>0. /\ LoopTypeOK /\ QueueOK(messageQueue, atEnd, item) /\ LoopsOK(item, loop)
        /\ runner \in Runner /\ LoopsInv
    BY StateParts
  <1>1. ~ Discarded /\ Solo /\ Stick /\ Cause /\ told \subseteq Turns
    BY <1>0, <1>z, DiscardStays, DropStays DEF ServiceInv, StickInv, CauseInv, LoopTypeOK
  <1>a. ASSUME item[i] \in Handled
        PROVE  \A j \in Turns : j # i => item[j] \notin Handled
    BY <1>1, <1>a, OneTold
  <1>2. CASE PreparationEnds(i)
    <2>1. loop = [loop EXCEPT ![i] = "off"] /\ item[i] \in Handled /\ "dropped" \in Gone
      BY <1>0, <1>2 DEF PreparationEnds, LoopsOK, Handled, Gone
    <2>2. PICK its \in [Turns -> Item], lps \in [Turns -> Phase] :
            /\ its[i] = "dropped"
            /\ QueueOK(messageQueue, atEnd, its) /\ LoopsOK(its, lps)
            /\ \E n \in Turns \cup {None} : Served(runner, messageQueue, atEnd, its, lps, n)
      BY <1>0, <1>2, <2>1, AfterItem DEF PreparationEnds
    <2>3. PICK n \in Turns \cup {None} : Served(runner, messageQueue, atEnd, its, lps, n)
      BY <2>2
    <2>4. i # n
      BY <2>2, <2>3, ServedItems, Constants
    <2>5. item'[i] = "dropped"
      BY <2>2, <2>3, <2>4, ServedItems
    <2> QED BY <2>5 DEF Dropped
  <1>3. CASE Prepared(i) \/ GatePasses(i)
    <2>1. /\ item[i] \in {"prepare", "gate"} /\ Before(i)'
          /\ (item'[i] = "turn" => loop'[i] = "setup")
          /\ (\A j \in Turns : j # i => item'[j] = item[j])
          /\ told' = told /\ aborted' = aborted /\ pendingAbort' = pendingAbort
      BY <1>0, <1>3 DEF Prepared, GatePasses, QueueOK, LoopsOK, Goto, Before
    <2>2. runner'.pendingInterrupt = runner.pendingInterrupt
      BY <1>0, <1>3 DEF Prepared, GatePasses, Begin, EnterGate, Reset, Runner
    <2>3. LatchOwned'
      <3> SUFFICES ASSUME runner.pendingInterrupt
                   PROVE  \E k \in Turns : (k \in told' /\ Before(k)') \/ loop'[k] = "report"
        BY <2>2 DEF LatchOwned
      <3>1. PICK k \in HandledItems : (k \in told /\ Before(k)) \/ loop[k] = "report"
        BY <1>1, LatchHolder
      <3>2. k = i
        BY <1>1, <2>1 DEF Solo, HandledItems, Handled
      <3>3. loop[i] # "report"
        BY <1>0, <2>1 DEF LoopsOK
      <3> QED BY <2>1, <3>1, <3>2, <3>3
    <2>4. \A j \in Turns : item'[j] = "turn" => loop'[j] = "setup"
      BY <1>a, <2>1 DEF Handled
    <2>5. TurnReachable'
      BY <2>4 DEF TurnReachable
    <2> QED BY <1>1, <2>1, <2>3, <2>5 DEF Cause
  <1>4. CASE HandlerReady(i)
    <2>1. /\ loop[i] = "setup" /\ item[i] = "turn" /\ told' = told
          /\ ~ runner'.pendingInterrupt /\ runner'.interruptAgent = LoopOf(i)
      BY <1>0, <1>4 DEF HandlerReady, LoopsOK, Runner
    <2>2. LoopOf(i) # None
      BY <1>0, Constants DEF LoopOf, Loops, LoopTypeOK
    <2>3. ASSUME runner.pendingInterrupt PROVE i \in told
      <3>1. PICK k \in HandledItems : (k \in told /\ Before(k)) \/ loop[k] = "report"
        BY <1>1, <2>3, LatchHolder
      <3>2. k = i
        BY <1>1, <2>1 DEF Solo, HandledItems, Handled
      <3> QED BY <2>1, <3>1, <3>2
    <2>4. aborted' \cup pendingAbort' \subseteq told
      <3>1. CASE ~ runner.pendingInterrupt
        BY <1>1, <1>4, <3>1 DEF HandlerReady, Cause
      <3>2. CASE runner.pendingInterrupt
        <4>1. aborted' \subseteq aborted \cup {i} /\ pendingAbort' \subseteq pendingAbort \cup {i}
          BY <1>4, <3>2 DEF HandlerReady, Stops, LoopOf
        <4> QED BY <1>1, <2>3, <3>2, <4>1 DEF Cause
      <3> QED BY <1>0, <3>1, <3>2
    <2> QED BY <2>1, <2>2, <2>4 DEF Cause, LatchOwned, TurnReachable
  <1>5. CASE i = Resume /\ NothingToResume
    <2>1. /\ runner' = runner /\ interrupt' = interrupt /\ item' = item
          /\ loop'[i] = "report" /\ \A j \in Turns : j # i => loop'[j] = loop[j]
          /\ UNCHANGED <<told, aborted, pendingAbort>>
      BY <1>0, <1>5 DEF NothingToResume, LoopsOK, Goto
    <2>2. LatchOwned'
      BY <2>1 DEF LatchOwned
    <2>3. TurnReachable'
      BY <1>1, <2>1 DEF Cause, TurnReachable
    <2> QED BY <1>1, <2>1, <2>2, <2>3 DEF Cause
  <1>6. CASE LoopStep(i)
    BY <1>1, <1>6, LoopStepCause
  <1>7. CASE ToolsFinish(i) \/ EndOfLoopTaken(i)
    <2>1. item[i] = "turn" /\ loop[i] \notin {"setup", "report"}
      BY <1>0, <1>7 DEF ToolsFinish, ToolsDone, EndOfLoopTaken, LoopsOK
    <2>2. runner' = runner /\ interrupt' = interrupt
      BY <1>7 DEF ToolsFinish, EndOfLoopTaken
    <2>3. aborted' \cup pendingAbort' \subseteq told'
      BY <1>1, <1>7 DEF ToolsFinish, ToolsDone, EndOfLoopTaken, RunAgain, RunEnds, Cause
    <2> QED BY <1>1, <2>1, <2>2, <2>3, LoopCause
  <1>8. CASE TurnEnds(i)
    <2>1. item[i] \in Handled /\ "ended" \in Gone
      BY <1>0, <1>8 DEF TurnEnds, LoopsOK, Handled, Gone
    <2>2. Finish(runner) \in Runner /\ ~ Finish(runner).pendingInterrupt
      <3>1. Finish(runner) \in Runner
        BY <1>0, RunnerOps
      <3> QED BY <1>0, <3>1 DEF Finish, Runner
    <2>3. aborted' \cup pendingAbort' \subseteq told'
      BY <1>1, <1>8 DEF TurnEnds, Cause
    <2>4. CASE ServeQueue(Finish(runner), messageQueue, atEnd, [item EXCEPT ![i] = "ended"],
                          [loop EXCEPT ![i] = "off"])
      <3>1. PICK its \in [Turns -> Item], lps \in [Turns -> Phase] :
              /\ its[i] = "ended"
              /\ \A j \in Turns : j # i => its[j] = item[j] /\ lps[j] = loop[j]
              /\ QueueOK(messageQueue, atEnd, its) /\ LoopsOK(its, lps)
              /\ \E n \in Turns \cup {None} : Served(Finish(runner), messageQueue, atEnd, its, lps, n)
        BY <2>1, <2>2, <2>4, AfterItem
      <3>2. PICK n \in Turns \cup {None} : Served(Finish(runner), messageQueue, atEnd, its, lps, n)
        BY <3>1
      <3>3. \A j \in Turns : its[j] \notin Handled
        BY <1>a, <2>1, <3>1 DEF Handled
      <3> QED BY <2>2, <2>3, <3>1, <3>2, <3>3, ServedCause
    <2>5. CASE /\ runner' = Finish(runner)
               /\ item' = [item EXCEPT ![i] = "ended"]
      <3>1. \A j \in Turns : item'[j] # "turn"
        BY <1>0, <1>a, <2>1, <2>5 DEF QueueOK, Handled
      <3> QED BY <2>2, <2>3, <2>5, <3>1 DEF Cause, LatchOwned, TurnReachable
    <2> QED BY <1>8, <2>4, <2>5 DEF TurnEnds
  <1> QED BY <1>2, <1>3, <1>4, <1>5, <1>6, <1>7, <1>8 DEF ItemStep

LEMMA NextCause ==
  ASSUME StateInv, StateInv', [Next]_vars, AgentInv, ServiceInv, StickInv, CauseInv
  PROVE  CauseInv'
  <1> USE DEF LoopDetail, loopVars, vars
  <1>0. /\ LoopTypeOK /\ QueueOK(messageQueue, atEnd, item) /\ LoopsOK(item, loop)
        /\ runner \in Runner /\ interrupt \in [Interrupts -> {"new", "stop", "settle", "joined", "answered"}]
    BY StateParts
  <1>1. ASSUME NEW i \in Turns, ItemStep(i) PROVE CauseInv'
    BY <1>1, ItemStepCause
  <1> SUFFICES ASSUME ~ Discarded', ~ Dropped', \A i \in Turns : ~ ItemStep(i) PROVE Cause'
    BY <1>1 DEF CauseInv
  <1>2. ~ Discarded /\ Solo /\ Stick /\ Cause
    BY DiscardStays, DropStays DEF ServiceInv, StickInv, CauseInv
  <1>3. CASE LoadSession \/ \E m \in Messages : Enqueue(m) \/ UpdateQueue(m)
    <2>1. PICK q, ends, its : Pushes(q, ends, its)
      BY <1>3, Pushing DEF StateInv
    <2>0. /\ QueueOK(q, ends, its) /\ LoopsOK(its, loop)
          /\ \A j \in Turns : its[j] = item[j] \/ (item[j] = "new" /\ its[j] = "queued")
          /\ UNCHANGED <<told, aborted, pendingAbort, interrupt>>
      BY <2>1 DEF Pushes
    <2>2. CASE runner' = runner /\ item' = its /\ loop' = loop
      BY <1>2, <2>0, <2>2, CalmCause DEF Handled
    <2> DEFINE r == [runner EXCEPT !.isProcessing = TRUE]
    <2>3. ASSUME ~ runner.isProcessing, NEW n \in Turns \cup {None},
                 Served(r, q, ends, its, loop, n)
          PROVE  Cause'
      <3>1. r \in Runner /\ r.pendingInterrupt = runner.pendingInterrupt
        BY <1>0 DEF Runner
      <3> HIDE DEF r
      <3>2. HandledItems = {}
        BY <1>2, <2>3 DEF Solo
      <3>3. ~ runner.pendingInterrupt
        BY <1>2, <3>2, LatchHolder
      <3>4. \A j \in Turns : its[j] \notin Handled
        BY <2>0, <3>2 DEF HandledItems, Handled
      <3>5. aborted' \cup pendingAbort' \subseteq told'
        BY <1>2, <2>0 DEF Cause
      <3> QED BY <2>0, <2>3, <3>1, <3>3, <3>4, <3>5, ServedCause
    <2> QED BY <2>1, <2>2, <2>3, PushEffect
  <1>4. ASSUME NEW m \in Messages, Withdraw(m) PROVE Cause'
    <2>1. \A j \in Turns : item[j] \in Handled \/ item'[j] \in Handled => item'[j] = item[j]
      BY <1>0, <1>4 DEF Withdraw, QueueOK, Handled
    <2> QED BY <1>2, <1>4, <2>1, CalmCause DEF Withdraw
  <1>5. ASSUME NEW r \in Interrupts, InterruptIdle(r) \/ InterruptJoins(r) PROVE Cause'
    <2>1. /\ runner'.pendingInterrupt = runner.pendingInterrupt
          /\ runner'.interruptAgent = runner.interruptAgent
      BY <1>0, <1>5 DEF InterruptIdle, InterruptJoins, Runner
    <2>2. \A k \in Interrupts : interrupt[k] = "settle" => interrupt'[k] = "settle"
      BY <1>0, <1>5 DEF InterruptIdle, InterruptJoins
    <2> QED BY <1>2, <1>5, <2>1, <2>2, CalmCause DEF InterruptIdle, InterruptJoins
  <1>6. ASSUME NEW r \in Interrupts, InterruptLatches(r) PROVE Cause'
    <2> DEFINE latch == runner.isProcessing \/ runner.isAgentLoopInProgress
               f == [runner EXCEPT !.wasInterrupted = TRUE, !.pendingInterrupt = latch]
    <2>1. /\ f \in Runner /\ f.isProcessing = runner.isProcessing
          /\ f.isAgentLoopInProgress = runner.isAgentLoopInProgress
          /\ f.activeTurn = runner.activeTurn /\ f.interruptAgent = runner.interruptAgent
          /\ f.pendingInterrupt = latch
      BY <1>0 DEF Runner
    <2> HIDE DEF f
    <2>2. DrainAndSettle(r, f) /\ mode' = mode
      BY <1>6 DEF InterruptLatches, f
    <2>3. item' = item
      BY <2>1, <2>2, DrainService
    <2>4. runner'.pendingInterrupt = latch
      BY <2>1, <2>2 DEF DrainAndSettle, Runner
    <2>5. /\ UNCHANGED <<loop, aborted, pendingAbort>> /\ told \subseteq told'
          /\ latch => \A i \in Turns : Before(i) => i \in told'
      BY <1>6 DEF InterruptLatches, Before
    <2>6. \A i \in Turns : item[i] = "turn" => loop[i] \in {"setup", "report"}
      BY <1>2, <1>6 DEF InterruptLatches, Active, Cause, TurnReachable
    <2>7. LatchOwned'
      <3> SUFFICES ASSUME latch
                   PROVE  \E k \in Turns : (k \in told' /\ Before(k)') \/ loop'[k] = "report"
        BY <2>4 DEF LatchOwned
      <3>1. PICK h \in Turns : item[h] \in Handled
        <4>1. CASE runner.isProcessing
          BY <1>6, <4>1 DEF InterruptLatches, ServiceInv, QueueServed, HandledItems
        <4>2. CASE runner.isAgentLoopInProgress
          BY <4>2 DEF ServiceInv, Progress, Handled
        <4> QED BY <4>1, <4>2
      <3>2. Before(h) \/ loop[h] = "report"
        BY <2>6, <3>1 DEF Before, Handled
      <3>3. Before(h)' <=> Before(h)
        BY <2>3, <2>5 DEF Before
      <3> QED BY <2>5, <3>2, <3>3
    <2>8. TurnReachable'
      BY <2>3, <2>5, <2>6 DEF TurnReachable
    <2> QED BY <1>2, <2>5, <2>7, <2>8 DEF Cause
  <1>7. ASSUME NEW r \in Interrupts, InterruptStops(r) PROVE Cause'
    <2>0. runner.interruptAgent # None /\ runner.interruptAgent \in Loops
      BY <1>0, <1>7 DEF InterruptStops, Runner
    <2>1. PICK l \in Loops : l = runner.interruptAgent
      BY <2>0
    <2>2. /\ StopAgent(l) /\ item' = item
          /\ told' = IF l = LoopOf(l[1]) /\ l \notin stopping THEN told \cup {l[1]} ELSE told
      BY <1>7, <2>1 DEF InterruptStops
    <2>3. /\ runner'.pendingInterrupt = runner.pendingInterrupt
          /\ runner'.interruptAgent # None
      BY <1>0, <1>7, <2>0 DEF InterruptStops, Runner
    <2>4. l[2] = generation[l[1]] => l = LoopOf(l[1])
      BY DEF LoopOf, Loops
    <2>5. aborted' \cup pendingAbort' \subseteq told'
      BY <1>2, <2>2, <2>4 DEF StopAgent, Stops, Cause
    <2>6. loop' = loop /\ told \subseteq told'
      BY <2>2 DEF StopAgent
    <2>7. \A i \in Turns : Before(i) => Before(i)'
      BY <2>2, <2>6 DEF Before
    <2>8. LatchOwned'
      BY <1>2, <2>3, <2>6, <2>7 DEF Cause, LatchOwned
    <2> QED BY <2>3, <2>5, <2>8 DEF Cause, TurnReachable
  <1>8. CASE Close \/ Signalled \/ Shutdown \/ ShutdownTimesOut \/ Leave \/ UNCHANGED vars
    BY <1>2, <1>8, CalmCause DEF Close, Signalled, Shutdown, ShutdownTimesOut,
                                Leave, ModeBecomes
  <1>9. ASSUME NEW l \in Loops, StopReturns(l) PROVE Cause'
    <2>1. UNCHANGED <<told, loop, aborted, pendingAbort>> /\ mode' = mode
      BY <1>9 DEF StopReturns, StopEnds
    <2>2. CASE UNCHANGED <<item, runner, interrupt>>
      BY <1>2, <2>1, <2>2, CalmCause
    <2> DEFINE f == [runner EXCEPT !.interruptAgent = None, !.pendingInterrupt = FALSE]
    <2>3. ASSUME NEW r \in Interrupts, DrainAndSettle(r, f) PROVE Cause'
      <3>1. /\ f \in Runner /\ f.isProcessing = runner.isProcessing
            /\ f.isAgentLoopInProgress = runner.isAgentLoopInProgress
            /\ f.activeTurn = runner.activeTurn /\ f.interruptAgent = None
            /\ ~ f.pendingInterrupt
        BY <1>0 DEF Runner
      <3> HIDE DEF f
      <3>2. item' = item
        BY <2>1, <2>3, <3>1, DrainService
      <3>3. ~ runner'.pendingInterrupt
        BY <2>3, <3>1 DEF DrainAndSettle, Runner
      <3>4. ASSUME NEW i \in Turns, item[i] = "turn" PROVE interrupt'[r] = "settle"
        <4>1. f.activeTurn # None
          BY <1>2, <3>1, <3>4, Constants DEF Solo
        <4> QED BY <1>0, <2>3, <4>1 DEF DrainAndSettle, Settle
      <3>5. TurnReachable'
        BY <3>2, <3>4 DEF TurnReachable
      <3> QED BY <1>2, <2>1, <3>3, <3>5 DEF Cause, LatchOwned
    <2> QED BY <1>9, <2>2, <2>3 DEF StopReturns
  <1> QED BY <1>3, <1>4, <1>5, <1>6, <1>7, <1>8, <1>9 DEF Next, Request

-----------------------------------------------------------------------------
\* The theorems.

IInv == StateInv /\ AgentInv /\ ServiceInv /\ StickInv /\ CauseInv

LEMMA InitInv == Init => IInv
  <1> SUFFICES ASSUME Init PROVE IInv
    OBVIOUS
  <1>1. StateInv
    BY InitState
  <1>2. /\ \A i \in Turns : item[i] = "new" /\ loop[i] = "off"
        /\ ~ runner.isAgentLoopInProgress /\ ~ runner.isProcessing
        /\ runner.activeTurn = None /\ runner.interruptAgent = None
        /\ ~ runner.pendingInterrupt
        /\ messageQueue = <<>> /\ stopping = {} /\ told = {}
        /\ aborted = {} /\ pendingAbort = {} /\ mode = "up"
    BY DEF Init, LoopInit
  <1>3. HandledItems = {}
    BY <1>2 DEF HandledItems, Handled
  <1>4. ServiceInv
    BY <1>2, <1>3 DEF ServiceInv, Progress, QueueServed, Solo
  <1>5. AgentInv /\ StickInv
    BY <1>2 DEF AgentInv, StickInv, Stick, StopSticks
  <1>6. CauseInv
    BY <1>2 DEF CauseInv, Cause, LatchOwned, TurnReachable
  <1> QED BY <1>1, <1>4, <1>5, <1>6 DEF IInv

LEMMA NextInv == IInv /\ [Next]_vars => IInv'
  BY NextState, NextAgent, NextService, NextStick, NextCause DEF IInv

LEMMA Inductive == Spec => []IInv
  BY InitInv, NextInv, PTL DEF Spec

\* The fields of the runner, the queue and the loops keep their types; the
\* queue holds exactly the queued items, each once, and only an item whose
\* turn is in progress has a loop (enqueueRequest, takeNextQueuedItemForProcessing,
\* beginAgentLoop).
THEOREM TurnTypeCorrect == Spec => []TypeOK
  <1>1. IInv => TypeOK
    BY DEF IInv, StateInv
  <1> QED BY <1>1, Inductive, PTL

\* A queued item is never left without a coroutine that comes back to the
\* queue, and isProcessing is never set without one, however interrupts,
\* hand-offs and ends of turns fall between the awaits of
\* processRequestQueue.
THEOREM QueueIsServed == Spec => []QueueServed
  <1>1. IInv => QueueServed
    BY DEF IInv, ServiceInv
  <1> QED BY <1>1, Inductive, PTL

\* Only drainQueueAndNotify, which clears isProcessing under a coroutine when
\* it discards an item, lets two items be handled at once.
THEOREM HandledAlone == Spec => []OverlapNeedsDiscard
  <1>1. IInv => OverlapNeedsDiscard
    <2> SUFFICES ASSUME IInv, ~ Discarded PROVE ~ (Cardinality(HandledItems) > 1)
      BY DEF OverlapNeedsDiscard
    <2>1. \A i, j \in HandledItems : i = j
      BY DEF IInv, ServiceInv, Solo
    <2>2. CASE HandledItems = {}
      BY <2>2, FS_EmptySet
    <2>3. CASE HandledItems # {}
      <3>1. PICK i \in HandledItems : TRUE
        BY <2>3
      <3>2. HandledItems = {i}
        BY <2>1, <3>1
      <3>3. Cardinality({i}) = 1
        BY FS_Singleton, Zenon
      <3> QED BY <3>2, <3>3
    <2> QED BY <2>2, <2>3
  <1> QED BY <1>1, Inductive, PTL

\* Until an item is discarded, no order of interrupt_session, of the steps of
\* AgentLoop and of hand-offs lets a turn that was told to stop send a request
\* that the model answers, or lose the latch before its loop exists.
THEOREM InterruptsStick == Spec => []InterruptSticks
  <1>1. IInv => InterruptSticks
    BY DEF IInv, StickInv, Stick, Before, InterruptSticks
  <1> QED BY <1>1, Inductive, PTL

\* No request or batch of tools is aborted, and none is going to be, but for
\* an interrupt that came while its item was prepared or handled; a latch of
\* an item that was dropped in its preparation may reach the next one.
THEOREM StopsHaveCause == Spec => []StopNeedsCause
  <1>1. IInv => StopNeedsCause
    BY DEF IInv, CauseInv, Cause, Dropped, StopNeedsCause
  <1> QED BY <1>1, Inductive, PTL

\* No coroutine handles an item when the process exits because shutdown found
\* nothing to wait for, or because a delegated session has ended its turn,
\* unless a discard cleared isProcessing.  The exits that wait for nothing
\* (a signal, a broken pipe, the limit of 30 s) are not claimed to be clean.
THEOREM WaitedExitsAreClean == Spec => []WaitedExitIsClean
  <1>1. IInv => WaitedExitIsClean
    BY DEF IInv, ServiceInv, Solo, WaitedExitIsClean
  <1> QED BY <1>1, Inductive, PTL

-----------------------------------------------------------------------------
(* TurnRunner implements Mailbox: every step of the process is one of      *)
(* Mailbox on the queue, the placements and the standing of the items, or  *)
(* changes none of them.  Of the invariant it needs the types alone, so    *)
(* the promise holds while turns overlap too.                              *)

standing == [i \in Turns |-> Standing(item[i])]

LEMMA Standings ==
  /\ Standing("new") = "new" /\ Standing("queued") = "waiting"
  /\ Standing("prepare") = "working" /\ Standing("gate") = "working"
  /\ Standing("turn") = "working"
  /\ Standing("withdrawn") = "returned" /\ Standing("discarded") = "returned"
  /\ Standing("ended") = "done" /\ Standing("injected") = "done"
  /\ Standing("dropped") = "done"
  BY DEF Standing, Handled

\* An item stands as one that waits or works exactly when it is one.
LEMMA StandingOf ==
  ASSUME NEW x \in Item
  PROVE  /\ Standing(x) = "new" <=> x = "new"
         /\ Standing(x) = "waiting" <=> x = "queued"
         /\ Standing(x) = "working" <=> x \in Handled
  BY Standings DEF Item, Handled, Gone

\* The operators of Queue are the same in Mailbox.
LEMMA SameQueue ==
  /\ \A q, S : M!Keep(q, S) = Keep(q, S)
  /\ \A q : M!Members(q) = Members(q)
  /\ \A q, i : M!Without(q, i) = Without(q, i)
  /\ \A q, ends : M!First(q, ends) = NextItem(q, ends)
  <1>1. \A q, S : M!Keep(q, S) = Keep(q, S)
    BY DEF M!Keep, M!Kept, M!UpTo, M!Cardinality, Keep, Kept, UpTo, Cardinality
  <1>2. \A q : M!Members(q) = Members(q)
    BY DEF M!Members, Members
  <1>3. \A q, i : M!Without(q, i) = Without(q, i)
    BY <1>1, <1>2 DEF M!Without, Without
  <1>4. \A q, ends : M!First(q, ends) = NextItem(q, ends)
    BY <1>1, <1>2 DEF M!First, NextItem
  <1> QED BY <1>1, <1>2, <1>3, <1>4

\* A change of one item's stage is one of its standing.
LEMMA StandingChanges ==
  ASSUME NEW its \in [Turns -> Item], NEW n \in Turns, NEW stage
  PROVE  [i \in Turns |-> Standing([its EXCEPT ![n] = stage][i])]
             = [[i \in Turns |-> Standing(its[i])] EXCEPT ![n] = Standing(stage)]
  OBVIOUS

\* A coroutine at the head of the loop of processRequestQueue.
LEMMA ServeMaps ==
  ASSUME NEW r, NEW q, NEW ends, NEW its, NEW lps, QueueOK(q, ends, its),
         ServeQueue(r, q, ends, its, lps)
  PROVE  M!Serve(q, ends, [i \in Turns |-> Standing(its[i])])
  <1> DEFINE n == IF mode # "up" \/ r.isAgentLoopInProgress THEN None ELSE NextItem(q, ends)
             s == [i \in Turns |-> Standing(its[i])]
  <1>0. /\ None \notin Members(q) /\ None \notin ends /\ its \in [Turns -> Item]
        /\ Members(q) \subseteq Turns
    BY SeqFacts, Constants DEF QueueOK
  <1>1. /\ messageQueue' = Without(q, n) /\ atEnd' = ends \ {n}
        /\ n = None => item' = its
        /\ n # None => \E stage \in {"prepare", "gate", "turn"} : item' = [its EXCEPT ![n] = stage]
    BY DEF ServeQueue
  <1>2. CASE n = None
    <2>1. messageQueue' = q
      BY <1>0, <1>1, <1>2, WithoutNone DEF QueueOK
    <2>2. atEnd' = ends
      BY <1>0, <1>1, <1>2
    <2>3. standing' = s
      BY <1>1, <1>2 DEF standing
    <2> QED BY <2>1, <2>2, <2>3 DEF M!Serve, standing
  <1>3. CASE n # None
    <2>1. n = M!First(q, ends) /\ messageQueue' = M!Without(q, n)
      BY <1>1, <1>3, SameQueue
    <2>2. n \in Turns
      BY <1>0, <1>3, NextOne DEF QueueOK
    <2> HIDE DEF n
    <2>3. PICK stage \in {"prepare", "gate", "turn"} : item' = [its EXCEPT ![n] = stage]
      BY <1>1, <1>3
    <2>4. standing' = [s EXCEPT ![n] = "working"]
      BY <1>0, <2>2, <2>3, StandingChanges, Standings DEF standing
    <2>5. [i \in Turns |-> Standing(item[i])]' = [s EXCEPT ![n] = "working"]
      BY <2>4 DEF standing
    <2> QED BY <1>1, <1>3, <2>1, <2>5 DEF M!Serve
  <1> QED BY <1>2, <1>3

LEMMA CalmMaps ==
  ASSUME UNCHANGED <<messageQueue, atEnd>>,
         \A i \in Turns : \/ item'[i] = item[i]
                          \/ item[i] \in Handled /\ item'[i] \in Handled
  PROVE  UNCHANGED M!vars
  <1>1. \A i \in Turns : Standing(item'[i]) = Standing(item[i])
    BY Standings DEF Handled
  <1> QED BY <1>1 DEF M!vars

\* drainQueueAndNotify is ReturnAll.
LEMMA DrainMaps ==
  ASSUME item \in [Turns -> Item], messageQueue' = <<>>, atEnd' = {},
         item' = [i \in Turns |-> IF item[i] = "queued" THEN "discarded" ELSE item[i]]
  PROVE  M!ReturnAll
  <1>1. \A i \in Turns : Standing(item'[i]) = IF Standing(item[i]) = "waiting" THEN "returned"
                                              ELSE Standing(item[i])
    BY StandingOf, Standings
  <1>2. standing' = [i \in Turns |-> IF standing[i] = "waiting" THEN "returned" ELSE standing[i]]
    BY <1>1 DEF standing
  <1> QED BY <1>2 DEF M!ReturnAll, standing

\* enqueueRequest and the end of handleLoadSession are Send.
LEMMA SendMaps ==
  ASSUME StateInv, NEW m \in Turns, item[m] = "new",
         NEW ends, ends \in {atEnd, atEnd \cup ({m} \cap Messages)},
         Queued(Append(messageQueue, m), ends, [item EXCEPT ![m] = "queued"]),
         QueueOK(Append(messageQueue, m), ends, [item EXCEPT ![m] = "queued"])
  PROVE  M!Send(m)
  <1> DEFINE its == [item EXCEPT ![m] = "queued"]
             q == Append(messageQueue, m)
  <1>0. item \in [Turns -> Item]
    BY StateParts DEF QueueOK
  <1>1. [i \in Turns |-> Standing(its[i])] = [standing EXCEPT ![m] = "waiting"]
    BY <1>0, StandingChanges, Standings DEF standing
  <1>2. standing[m] = "new"
    BY Standings DEF standing
  <1>3. QueueOK(q, ends, its)
    OBVIOUS
  <1>4. M!Serve(q, ends, [i \in Turns |-> Standing(its[i])])
    <2>1. CASE runner.isProcessing
      BY <2>1 DEF Queued, M!Serve
    <2>2. CASE ~ runner.isProcessing
      <3>1. ServeQueue([runner EXCEPT !.isProcessing = TRUE], q, ends, its, loop)
        BY <2>2 DEF Queued
      <3> HIDE DEF its, q
      <3> QED BY <1>3, <3>1, ServeMaps
    <2> QED BY <2>1, <2>2
  <1>5. M!Serve(q, ends, [standing EXCEPT ![m] = "waiting"])
    BY <1>1, <1>4
  <1> QED BY <1>2, <1>5 DEF M!Send, standing

LEMMA RequestMaps ==
  ASSUME StateInv, StateInv', Request
  PROVE  [M!Next]_(M!vars)
  <1> USE DEF LoopDetail, loopVars, vars
  <1>0. QueueOK(messageQueue, atEnd, item)
    BY StateParts
  <1>a. ASSUME NEW m \in Turns, item[m] = "new", NEW ends \in SUBSET Messages, ends \subseteq atEnd \cup {m}
        PROVE  QueueOK(Append(messageQueue, m), ends, [item EXCEPT ![m] = "queued"])
    BY <1>a, PushOK DEF StateInv
  <1>1. CASE LoadSession
    <2>1. /\ item[Resume] = "new" /\ Resume \in Turns
          /\ Queued(Append(messageQueue, Resume), atEnd, [item EXCEPT ![Resume] = "queued"])
      BY <1>1, Constants DEF LoadSession
    <2>2. QueueOK(Append(messageQueue, Resume), atEnd, [item EXCEPT ![Resume] = "queued"])
      BY <1>0, <1>a, <2>1 DEF QueueOK
    <2>3. M!Send(Resume)
      BY <2>1, <2>2, SendMaps
    <2> QED BY <2>1, <2>3 DEF M!Next
  <1>2. ASSUME NEW m \in Messages, Enqueue(m) PROVE [M!Next]_(M!vars)
    <2>1. PICK ends \in {atEnd, atEnd \cup {m}} :
              Queued(Append(messageQueue, m), ends, [item EXCEPT ![m] = "queued"])
      BY <1>2 DEF Enqueue
    <2>2. ends \in SUBSET Messages /\ ends \subseteq atEnd \cup {m} /\ {m} \cap Messages = {m}
          /\ item[m] = "new"
      BY <1>0, <1>2 DEF QueueOK, Enqueue
    <2>3. M!Send(m)
      BY <1>a, <2>1, <2>2, SendMaps, Constants
    <2> QED BY <2>3, Constants DEF M!Next
  <1>3. ASSUME NEW m \in Messages, UpdateQueue(m) PROVE [M!Next]_(M!vars)
    <2>0. item[m] = "queued" /\ m \in Turns
      BY <1>3, Constants DEF UpdateQueue
    <2>1. PICK ends \in {atEnd \cup {m}, atEnd \ {m}} :
              Queued(<<m>> \o Without(messageQueue, m), ends, item)
      BY <1>3 DEF UpdateQueue
    <2> DEFINE w == Without(messageQueue, m)
    <2>2. w \in Seq(Turns) /\ Distinct(w) /\ Members(w) = Members(messageQueue) \ {m}
      BY <1>0, WithoutOne DEF QueueOK
    <2>3. w = M!Without(messageQueue, m)
      BY SameQueue
    <2> HIDE DEF w
    <2>4. /\ <<m>> \o w \in Seq(Turns) /\ Distinct(<<m>> \o w)
          /\ Members(<<m>> \o w) = Members(w) \cup {m}
      BY <2>0, <2>2, Unshifted
    <2>5. QueueOK(<<m>> \o w, ends, item)
      BY <1>0, <2>0, <2>1, <2>2, <2>4 DEF QueueOK
    <2>6. M!Serve(<<m>> \o w, ends, [i \in Turns |-> Standing(item[i])])
      <3>1. CASE runner.isProcessing
        BY <2>1, <3>1 DEF Queued, M!Serve, w
      <3>2. CASE ~ runner.isProcessing
        BY <2>1, <2>5, <3>2, ServeMaps DEF Queued, w
      <3> QED BY <3>1, <3>2
    <2>7. Standing(item[m]) = "waiting"
      BY <2>0, Standings
    <2>8. M!Move(m)
      BY <2>0, <2>1, <2>3, <2>6, <2>7 DEF M!Move
    <2> QED BY <2>0, <2>8 DEF M!Next
  <1>4. ASSUME NEW m \in Messages, Withdraw(m) PROVE [M!Next]_(M!vars)
    <2>1. m \in Turns /\ item[m] = "queued" /\ item' = [item EXCEPT ![m] = "withdrawn"]
          /\ messageQueue' = M!Without(messageQueue, m) /\ atEnd' = atEnd \ {m}
      BY <1>4, Constants, SameQueue DEF Withdraw
    <2>2. standing' = [standing EXCEPT ![m] = "returned"]
      BY <1>0, <2>1, StandingChanges, Standings DEF standing, QueueOK
    <2>3. M!TakeBack(m)
      BY <2>1, <2>2, Standings DEF M!TakeBack, standing
    <2> QED BY <2>1, <2>3 DEF M!Next
  <1>5. ASSUME NEW r \in Interrupts, InterruptLatches(r) PROVE [M!Next]_(M!vars)
    <2>1. /\ messageQueue' = <<>> /\ atEnd' = {}
          /\ item' = [i \in Turns |-> IF item[i] = "queued" THEN "discarded" ELSE item[i]]
      BY <1>5 DEF InterruptLatches, DrainAndSettle
    <2>2. M!ReturnAll
      BY <1>0, <2>1, DrainMaps DEF QueueOK
    <2> QED BY <2>2 DEF M!Next
  <1>6. CASE Close \/ Signalled \/ \E r \in Interrupts : InterruptIdle(r) \/ InterruptJoins(r) \/ InterruptStops(r)
    BY <1>6, CalmMaps DEF Close, Signalled, ModeBecomes, InterruptIdle, InterruptJoins, InterruptStops
  <1> QED BY <1>1, <1>2, <1>3, <1>4, <1>5, <1>6 DEF Request

\* The end of an item's handling is Finish: the coroutine goes on with the
\* queue, or the process exits.
LEMMA FinishMaps ==
  ASSUME StateInv, NEW i \in Turns, item[i] \in Handled, NEW gone \in {"dropped", "ended"},
         NEW r, NEW lps,
         \/ ServeQueue(r, messageQueue, atEnd, [item EXCEPT ![i] = gone], lps)
         \/ UNCHANGED <<messageQueue, atEnd>> /\ item' = [item EXCEPT ![i] = gone]
  PROVE  M!Finish(i)
  <1> DEFINE its == [item EXCEPT ![i] = gone]
  <1>0. QueueOK(messageQueue, atEnd, item)
    BY StateParts
  <1>1. QueueOK(messageQueue, atEnd, its)
    BY <1>0 DEF QueueOK, Handled, Item, Gone
  <1>2. [j \in Turns |-> Standing(its[j])] = [standing EXCEPT ![i] = "done"]
    BY <1>0, StandingChanges, Standings DEF standing, QueueOK
  <1>3. standing[i] = "working"
    BY Standings DEF standing, Handled
  <1>4. M!Serve(messageQueue, atEnd, [j \in Turns |-> Standing(its[j])])
    <2>1. CASE UNCHANGED <<messageQueue, atEnd>> /\ item' = its
      BY <2>1 DEF M!Serve
    <2>2. CASE ServeQueue(r, messageQueue, atEnd, its, lps)
      <3> HIDE DEF its
      <3> QED BY <1>1, <2>2, ServeMaps
    <2> QED BY <2>1, <2>2
  <1>5. M!Serve(messageQueue, atEnd, [standing EXCEPT ![i] = "done"])
    BY <1>2, <1>4
  <1> QED BY <1>3, <1>5 DEF M!Finish, standing

LEMMA ItemStepMaps ==
  ASSUME StateInv, NEW i \in Turns, ItemStep(i)
  PROVE  [M!Next]_(M!vars)
  <1> USE DEF LoopDetail, loopVars, vars
  <1>0. QueueOK(messageQueue, atEnd, item) /\ LoopsOK(item, loop)
    BY StateParts
  <1>1. CASE PreparationEnds(i)
    <2>1. M!Finish(i)
      BY <1>1, FinishMaps DEF PreparationEnds, Handled
    <2> QED BY <2>1 DEF M!Next
  <1>2. CASE Prepared(i) \/ GatePasses(i)
    BY <1>0, <1>2, CalmMaps DEF Prepared, GatePasses, QueueOK, Handled
  <1>3. CASE HandlerReady(i) \/ (i = Resume /\ NothingToResume) \/ LoopStep(i)
    BY <1>3, CalmMaps DEF HandlerReady, NothingToResume, LoopStep
  <1>4. CASE ToolsFinish(i)
    <2> DEFINE drained == {m \in Messages : item[m] = "queued" /\ m \notin atEnd}
    <2>1. PICK gone \in SUBSET drained :
            item' = [m \in Turns |-> IF m \in gone THEN "dropped"
                                     ELSE IF m \in drained THEN "injected"
                                     ELSE item[m]]
      BY <1>4 DEF ToolsFinish
    <2>2. messageQueue' = M!Keep(messageQueue, atEnd \cup (Turns \ Messages)) /\ atEnd' = atEnd
      <3>1. Turns \ Messages = {Resume}
        BY Constants
      <3> QED BY <1>4, <3>1, SameQueue DEF ToolsFinish
    <2>3. \A m \in Turns : Standing(item'[m]) =
              IF m \in Messages \ atEnd /\ Standing(item[m]) = "waiting" THEN "done"
              ELSE Standing(item[m])
      BY <1>0, <2>1, StandingOf, Standings DEF QueueOK
    <2>4. standing' = [m \in Turns |->
                          IF m \in Messages \ atEnd /\ standing[m] = "waiting" THEN "done"
                          ELSE standing[m]]
      BY <2>3 DEF standing
    <2>5. item[i] = "turn" /\ standing[i] = "working"
      BY <1>0, <1>4, Standings DEF ToolsFinish, ToolsDone, LoopsOK, standing
    <2>6. M!Merge(i)
      BY <2>2, <2>4, <2>5 DEF M!Merge, standing
    <2> QED BY <2>6 DEF M!Next
  <1>5. CASE EndOfLoopTaken(i)
    <2> DEFINE m == Head(messageQueue)
    <2>1. m \in Turns /\ messageQueue # <<>>
      BY <1>0, <1>5, Shifted, SeqFacts DEF EndOfLoopTaken, QueueOK
    <2>2. /\ \E stage \in {"injected", "dropped"} : item' = [item EXCEPT ![m] = stage]
          /\ messageQueue' = Tail(messageQueue) /\ atEnd' = atEnd \ {m}
          /\ \A k \in DOMAIN messageQueue : messageQueue[k] \in atEnd
      BY <1>5 DEF EndOfLoopTaken
    <2>3. standing' = [standing EXCEPT ![m] = "done"]
      <3> HIDE DEF m
      <3>1. PICK stage \in {"injected", "dropped"} : item' = [item EXCEPT ![m] = stage]
        BY <2>2
      <3>2. standing' = [standing EXCEPT ![m] = Standing(stage)]
        BY <1>0, <2>1, <3>1, StandingChanges DEF standing, QueueOK
      <3> QED BY <3>2, Standings
    <2>4. standing[i] = "working"
      BY <1>0, <1>5, Standings DEF EndOfLoopTaken, LoopsOK, standing
    <2>5. M!MergeFirst(i)
      BY <2>1, <2>2, <2>3, <2>4 DEF M!MergeFirst, standing
    <2> QED BY <2>5 DEF M!Next
  <1>6. CASE TurnEnds(i)
    <2>1. item[i] \in Handled
      BY <1>0, <1>6 DEF TurnEnds, LoopsOK, Handled
    <2>2. \/ ServeQueue(Finish(runner), messageQueue, atEnd, [item EXCEPT ![i] = "ended"],
                        [loop EXCEPT ![i] = "off"])
          \/ UNCHANGED <<messageQueue, atEnd>> /\ item' = [item EXCEPT ![i] = "ended"]
      BY <1>6 DEF TurnEnds
    <2>3. M!Finish(i)
      BY <2>1, <2>2, FinishMaps
    <2> QED BY <2>3 DEF M!Next
  <1> QED BY <1>1, <1>2, <1>3, <1>4, <1>5, <1>6 DEF ItemStep

LEMMA NextMaps ==
  ASSUME StateInv, StateInv', [Next]_vars
  PROVE  [M!Next]_(M!vars)
  <1> USE DEF LoopDetail, loopVars, vars
  <1>0. QueueOK(messageQueue, atEnd, item)
    BY StateParts
  <1>1. ASSUME NEW l \in Loops, StopReturns(l) PROVE [M!Next]_(M!vars)
    <2>1. CASE UNCHANGED <<messageQueue, atEnd, item>>
      BY <2>1, CalmMaps
    <2>2. CASE /\ messageQueue' = <<>> /\ atEnd' = {}
               /\ item' = [i \in Turns |-> IF item[i] = "queued" THEN "discarded" ELSE item[i]]
      <3>1. M!ReturnAll
        BY <1>0, <2>2, DrainMaps DEF QueueOK
      <3> QED BY <3>1 DEF M!Next
    <2> QED BY <1>1, <2>1, <2>2 DEF StopReturns, DrainAndSettle
  <1>2. CASE Shutdown \/ ShutdownTimesOut \/ Leave \/ UNCHANGED vars
    BY <1>2, CalmMaps DEF Shutdown, ShutdownTimesOut, Leave, ModeBecomes
  <1> QED BY <1>1, <1>2, RequestMaps, ItemStepMaps DEF Next

\* A session keeps the promise of Mailbox, whatever the numbers of items,
\* interrupts and turns: no interleaving of enqueueRequest,
\* processRequestQueue, the drains of a loop and drainQueueAndNotify takes an
\* item twice, loses one silently, or serves one that waits for the end of the
\* loop before the others.
THEOREM KeepsMailbox == Spec => Mailbox
  <1>1. Init => M!Init
    BY Standings DEF Init, M!Init
  <1>2. StateInv /\ StateInv' /\ [Next]_vars => [M!Next]_(M!vars)
    BY NextMaps
  <1>3. IInv => StateInv
    BY DEF IInv
  <1> QED BY <1>1, <1>2, <1>3, Inductive, PTL DEF Spec, Mailbox, M!Spec
=============================================================================
