------------------------- MODULE MasterRegistryProofs --------------------------
(***************************************************************************)
(* Proofs about the master's registry, for any actors, types, addresses    *)
(* and timeout, and for any bound on the clock.                            *)
(***************************************************************************)
EXTENDS MasterRegistry, TLAPS

--------------------------------------------------------------------------------
(* The refresh before every request.                                       *)

\* The refresh changes nothing but the status of a late actor.
LEMMA RefreshedMap ==
  ASSUME TypeOK
  PROVE  /\ DOMAIN Refreshed = DOMAIN actors
         /\ \A a \in DOMAIN actors :
              /\ Refreshed[a] \in ActorRecord
              /\ Refreshed[a].type = actors[a].type
              /\ Refreshed[a].queues = actors[a].queues
              /\ Refreshed[a].lastHeartbeat = actors[a].lastHeartbeat
              /\ Refreshed[a].status = IF Late(a) THEN "Unhealthy" ELSE actors[a].status
  <1>1. DOMAIN Refreshed = DOMAIN actors
    BY DEF Refreshed
  <1>2. ASSUME NEW a \in DOMAIN actors
        PROVE  /\ Refreshed[a] \in ActorRecord
               /\ Refreshed[a].type = actors[a].type
               /\ Refreshed[a].queues = actors[a].queues
               /\ Refreshed[a].lastHeartbeat = actors[a].lastHeartbeat
               /\ Refreshed[a].status = IF Late(a) THEN "Unhealthy" ELSE actors[a].status
    <2>1. actors[a] \in ActorRecord
      BY DEF TypeOK
    <2>2. CASE Late(a)
      <3>1. Refreshed[a] = [actors[a] EXCEPT !.status = "Unhealthy"]
        BY <2>2 DEF Refreshed
      <3>2. QED
        BY <2>1, <2>2, <3>1 DEF ActorRecord
    <2>3. CASE ~Late(a)
      BY <2>1, <2>3 DEF Refreshed
    <2>4. QED
      BY <2>2, <2>3
  <1>3. QED
    BY <1>1, <1>2

--------------------------------------------------------------------------------
(* What each kind of request does to the records.                          *)

\* The requests that only refresh the records and look at them.
Looks ==
  \/ \E addr \in Addrs : LookupQueue(addr)
  \/ \E type \in QueueTypes : FindQueues(type)
  \/ \E t \in ActorTypes, type \in QueueTypes : FindQueuesByActor(t, type)
  \/ \E t \in ActorTypes : ConnectTrade(t)
  \/ ListActors
  \/ \E a \in ActorIds : SendCommand(a)

\* A look refreshes the records and changes no queue.
LEMMA LooksRefresh ==
  ASSUME Looks
  PROVE  /\ actors' = Refreshed
         /\ UNCHANGED <<queues, now>>
         /\ asOf' = now
  BY DEF Looks, LookupQueue, FindQueues, FindQueuesByActor, ConnectTrade, ListActors,
    SendCommand, Answer

\* What is forwarded goes to an address, and is an address or a command.
LEMMA ForwardedType ==
  ASSUME TypeOK, NEW target, NEW content \in Addrs \cup {"command"}, NEW result,
         Forward(target, content, result)
  PROVE  sent' \subseteq (Addrs \X (Addrs \cup {"command"}))
  <1>1. CASE sent' = {}
    BY <1>1
  <1>2. ASSUME target \in DOMAIN actors,
               NEW addr \in ControlAddrs(target), sent' = {<<addr, content>>}
        PROVE  sent' \subseteq (Addrs \X (Addrs \cup {"command"}))
    <2>1. actors[target].queues \subseteq QueueInfo
      BY <1>2 DEF TypeOK, ActorRecord
    <2>2. addr \in Addrs
      BY <1>2, <2>1 DEF ControlAddrs, QueueInfo
    <2>3. QED
      BY <1>2, <2>2
  <1>3. QED
    BY <1>1, <1>2 DEF Forward

\* The queue map that register starts from is a part of the old one.
LEMMA ReleasedMap ==
  ASSUME NEW a
  PROVE  /\ DOMAIN Released(a) \subseteq DOMAIN queues
         /\ \A x \in DOMAIN Released(a) : Released(a)[x] = queues[x]
         /\ a \in DOMAIN actors => DOMAIN Released(a) = DOMAIN queues \ AddrsOf(actors[a].queues)
  <1>1. CASE a \in DOMAIN actors
    BY <1>1 DEF Released, Without
  <1>2. CASE a \notin DOMAIN actors
    BY <1>2 DEF Released
  <1>3. QED
    BY <1>1, <1>2

\* A new record is a record.
LEMMA NewRecordType ==
  ASSUME TypeOK, NEW t \in ActorTypes, NEW infos \in SUBSET QueueInfo
  PROVE  NewRecord(t, infos) \in ActorRecord
  BY DEF NewRecord, ActorRecord, TypeOK

--------------------------------------------------------------------------------
(* Type correctness.                                                       *)

\* Every step keeps the types.
LEMMA TypeStep ==
  ASSUME TypeOK, [Next]_vars
  PROVE  TypeOK'
  <1> DEFINE Sent == sent' \subseteq (Addrs \X (Addrs \cup {"command"}))
             Kept == /\ DOMAIN actors' \subseteq ActorIds
                     /\ actors' \in [DOMAIN actors' -> ActorRecord]
             Queued == /\ DOMAIN queues' \subseteq Addrs
                       /\ queues' \in [DOMAIN queues' -> QueueOwner]
  <1>1. Refreshed \in [DOMAIN actors -> ActorRecord]
    <2>1. Refreshed = [a \in DOMAIN actors |-> Refreshed[a]]
      BY DEF Refreshed
    <2>2. QED
      BY <2>1, RefreshedMap
  <1>2. ASSUME NEW a \in ActorIds, NEW t \in ActorTypes, NEW infos \in Announcements,
               Register(a, t, infos)
        PROVE  TypeOK'
    <2>1. infos \in SUBSET QueueInfo
      BY DEF Announcements
    <2>2. Kept
      <3>1. CASE actors' = Refreshed
        BY <1>1, <3>1 DEF TypeOK
      <3>2. CASE actors' = Insert(Refreshed, a, NewRecord(t, infos))
        BY <1>1, <2>1, <3>2, NewRecordType DEF Insert, TypeOK
      <3>3. QED
        BY <1>2, <3>1, <3>2 DEF Register
    <2>3. Queued
      <3>1. Released(a) \in [DOMAIN Released(a) -> QueueOwner] /\ DOMAIN Released(a) \subseteq Addrs
        BY DEF Released, Without, TypeOK
      <3>2. ASSUME NEW x \in AddrsOf(infos)
            PROVE  (CHOOSE q \in infos : q.addr = x).type \in QueueTypes
        BY <2>1 DEF AddrsOf, QueueInfo
      <3>3. AddrsOf(infos) \subseteq Addrs
        BY <2>1 DEF AddrsOf, QueueInfo
      <3>4. CASE queues' = Released(a)
        BY <3>1, <3>4
      <3>5. CASE queues' = [x \in DOMAIN Released(a) \cup AddrsOf(infos) |->
                IF x \in DOMAIN Released(a) THEN Released(a)[x]
                ELSE [owner |-> a, type |-> (CHOOSE q \in infos : q.addr = x).type]]
        BY <3>1, <3>2, <3>3, <3>5 DEF QueueOwner
      <3>6. QED
        BY <1>2, <3>4, <3>5 DEF Register
    <2>4. QED
      BY <1>2, <2>2, <2>3 DEF Register, TypeOK
  <1>3. ASSUME NEW a \in ActorIds, NEW q \in QueueInfo, NEW targets,
               RegisterQueue(a, q, targets)
        PROVE  TypeOK'
    <2>1. q.addr \in Addrs /\ q.type \in QueueTypes
      BY DEF QueueInfo
    <2>2. CASE actors' = Refreshed /\ queues' = queues /\ sent' = {}
      BY <1>1, <1>3, <2>2 DEF RegisterQueue, TypeOK
    <2>3. CASE /\ a \in DOMAIN actors
               /\ actors' = [Refreshed EXCEPT ![a].queues = @ \cup {q}]
               /\ queues' = Insert(queues, q.addr, [owner |-> a, type |-> q.type])
               /\ IF targets = {} THEN sent' = {}
                  ELSE \E target \in targets, result \in {Ok, Error} :
                         Forward(target, q.addr, result)
      <3>1. Kept
        BY <1>1, <2>3 DEF TypeOK, ActorRecord
      <3>2. Queued
        BY <2>1, <2>3 DEF Insert, QueueOwner, TypeOK
      <3>3. Sent
        BY <2>1, <2>3, ForwardedType
      <3>4. QED
        BY <1>3, <3>1, <3>2, <3>3 DEF RegisterQueue, TypeOK
    <2>4. QED
      BY <1>3, <2>2, <2>3 DEF RegisterQueue
  <1>4. ASSUME NEW a \in ActorIds, Unregister(a)
        PROVE  TypeOK'
    <2>1. Kept
      BY <1>1, <1>4 DEF Unregister, Without, TypeOK
    <2>2. Queued
      BY <1>4 DEF Unregister, Without, TypeOK
    <2>3. QED
      BY <1>4, <2>1, <2>2 DEF Unregister, TypeOK
  <1>5. ASSUME NEW a \in ActorIds, Heartbeat(a)
        PROVE  TypeOK'
    <2>1. Kept
      <3>1. CASE actors' = Refreshed
        BY <1>1, <3>1 DEF TypeOK
      <3>2. CASE /\ a \in DOMAIN actors
                 /\ actors' =
                      [Refreshed EXCEPT ![a].lastHeartbeat = now, ![a].status = "Healthy"]
        <4>1. Refreshed[a] \in ActorRecord /\ now \in Nat
          BY <1>1, <3>2 DEF TypeOK
        <4>2. [Refreshed[a] EXCEPT !.lastHeartbeat = now, !.status = "Healthy"] \in ActorRecord
          BY <4>1 DEF ActorRecord
        <4>3. actors' = [Refreshed EXCEPT ![a] =
                [Refreshed[a] EXCEPT !.lastHeartbeat = now, !.status = "Healthy"]]
          BY <1>1, <3>2
        <4>4. QED
          BY <1>1, <3>2, <4>2, <4>3 DEF TypeOK
      <3>3. QED
        BY <1>5, <3>1, <3>2 DEF Heartbeat
    <2>2. QED
      BY <1>5, <2>1 DEF Heartbeat, Answer, TypeOK
  <1>6. CASE Looks
    <2>1. Sent
      <3>1. ASSUME NEW a \in ActorIds, SendCommand(a) PROVE Sent
        BY <3>1, ForwardedType DEF SendCommand
      <3>2. QED
        BY <1>6, <3>1
          DEF Looks, LookupQueue, FindQueues, FindQueuesByActor, ConnectTrade, ListActors
    <2>2. QED
      BY <1>1, <1>6, <2>1, LooksRefresh DEF TypeOK
  <1>7. CASE InvalidRequest
    BY <1>7 DEF InvalidRequest, TypeOK
  <1>8. CASE Tick
    BY <1>8 DEF Tick, TypeOK
  <1>9. CASE Restart
    BY <1>9 DEF Restart, EmptyMap, TypeOK
  <1>10. CASE UNCHANGED vars
    BY <1>10 DEF vars, TypeOK
  <1>11. QED
    BY <1>2, <1>3, <1>4, <1>5, <1>6, <1>7, <1>8, <1>9, <1>10 DEF Next, Looks

\* Every variable of the registry keeps its type.
THEOREM MasterTypeCorrect == Spec => []TypeOK
  <1>1. Init => TypeOK
    BY DEF Init, EmptyMap, TypeOK
  <1>2. TypeOK /\ [Next]_vars => TypeOK'
    BY TypeStep
  <1>3. QED
    BY <1>1, <1>2, PTL DEF Spec

--------------------------------------------------------------------------------
(* Queues and their owners.                                                *)

\* Every step keeps every queue with an actor that lists it.
LEMMA OwnersStep ==
  ASSUME TypeOK, OwnersKnown, [Next]_vars
  PROVE  OwnersKnown'
  <1> DEFINE Listed(x) == /\ queues'[x].owner \in DOMAIN actors'
                          /\ [addr |-> x, type |-> queues'[x].type]
                               \in actors'[queues'[x].owner].queues
  <1>1. CASE /\ UNCHANGED queues
             /\ actors' = Refreshed
    <2>1. ASSUME NEW x \in DOMAIN queues PROVE Listed(x)
      BY <1>1, <2>1, RefreshedMap DEF OwnersKnown
    <2>2. QED
      BY <1>1, <2>1 DEF OwnersKnown
  <1>2. ASSUME NEW a \in ActorIds, NEW t \in ActorTypes, NEW infos \in Announcements,
               Register(a, t, infos)
        PROVE  OwnersKnown'
    <2>1. ASSUME NEW x \in DOMAIN Released(a)
          PROVE  /\ x \in DOMAIN queues
                 /\ Released(a)[x] = queues[x]
                 /\ queues[x].owner \in DOMAIN actors
                 /\ queues[x].owner # a
                 /\ [addr |-> x, type |-> queues[x].type] \in actors[queues[x].owner].queues
      <3>1. x \in DOMAIN queues /\ Released(a)[x] = queues[x]
        BY ReleasedMap
      <3>2. /\ queues[x].owner \in DOMAIN actors
            /\ [addr |-> x, type |-> queues[x].type] \in actors[queues[x].owner].queues
        BY <3>1 DEF OwnersKnown
      <3>3. ASSUME queues[x].owner = a PROVE FALSE
        <4>1. x \in AddrsOf(actors[a].queues)
          BY <3>2, <3>3 DEF AddrsOf
        <4>2. QED
          BY <3>2, <3>3, <4>1, ReleasedMap
      <3>4. QED
        BY <3>1, <3>2, <3>3
    <2>2. CASE queues' = Released(a) /\ actors' = Refreshed
      <3>1. ASSUME NEW x \in DOMAIN Released(a) PROVE Listed(x)
        <4>1. queues'[x] = queues[x]
          BY <2>1, <2>2
        <4>2. /\ queues[x].owner \in DOMAIN actors'
              /\ actors'[queues[x].owner].queues = actors[queues[x].owner].queues
          BY <2>1, <2>2, RefreshedMap
        <4>3. QED
          BY <2>1, <4>1, <4>2
      <3>2. QED
        BY <2>2, <3>1 DEF OwnersKnown
    <2>3. CASE /\ actors' = Insert(Refreshed, a, NewRecord(t, infos))
               /\ queues' = [x \in DOMAIN Released(a) \cup AddrsOf(infos) |->
                    IF x \in DOMAIN Released(a) THEN Released(a)[x]
                    ELSE [owner |-> a, type |-> (CHOOSE q \in infos : q.addr = x).type]]
      <3>1. ASSUME NEW x \in DOMAIN Released(a) PROVE Listed(x)
        <4>1. queues'[x] = queues[x]
          BY <2>1, <2>3
        <4>2. /\ queues[x].owner \in DOMAIN actors'
              /\ actors'[queues[x].owner].queues = actors[queues[x].owner].queues
          BY <2>1, <2>3, RefreshedMap DEF Insert
        <4>3. QED
          BY <2>1, <4>1, <4>2
      <3>2. ASSUME NEW x \in AddrsOf(infos), x \notin DOMAIN Released(a) PROVE Listed(x)
        <4> DEFINE chosen == CHOOSE q \in infos : q.addr = x
        <4>1. chosen \in infos /\ chosen.addr = x
          BY <3>2 DEF AddrsOf
        <4>2. chosen \in QueueInfo
          BY <4>1 DEF Announcements
        <4>3. [addr |-> x, type |-> chosen.type] = chosen
          BY <4>1, <4>2 DEF QueueInfo
        <4>4. queues'[x] = [owner |-> a, type |-> chosen.type]
          BY <2>3, <3>2
        <4>5. a \in DOMAIN actors' /\ actors'[a].queues = infos
          BY <2>3 DEF Insert, NewRecord
        <4> HIDE DEF chosen
        <4>6. QED
          BY <4>1, <4>3, <4>4, <4>5
      <3>3. DOMAIN queues' = DOMAIN Released(a) \cup AddrsOf(infos)
        BY <2>3
      <3>4. QED
        BY <3>1, <3>2, <3>3 DEF OwnersKnown
    <2>4. QED
      BY <1>2, <2>2, <2>3 DEF Register
  <1>3. ASSUME NEW a \in ActorIds, NEW q \in QueueInfo, NEW targets,
               RegisterQueue(a, q, targets)
        PROVE  OwnersKnown'
    <2>1. CASE /\ a \in DOMAIN actors
               /\ actors' = [Refreshed EXCEPT ![a].queues = @ \cup {q}]
               /\ queues' = Insert(queues, q.addr, [owner |-> a, type |-> q.type])
      <3>1. /\ DOMAIN actors' = DOMAIN actors
            /\ actors'[a].queues = actors[a].queues \cup {q}
            /\ \A b \in DOMAIN actors : actors[b].queues \subseteq actors'[b].queues
        <4>1. DOMAIN actors' = DOMAIN actors
          BY <2>1, RefreshedMap
        <4>2. actors'[a] = [Refreshed[a] EXCEPT !.queues = Refreshed[a].queues \cup {q}]
          BY <2>1, RefreshedMap
        <4>3. actors'[a].queues = actors[a].queues \cup {q}
          BY <2>1, <4>2, RefreshedMap DEF ActorRecord
        <4>4. \A b \in DOMAIN actors : b # a => actors'[b].queues = actors[b].queues
          BY <2>1, RefreshedMap
        <4>5. QED
          BY <4>1, <4>3, <4>4
      <3>2. ASSUME NEW x \in DOMAIN queues, x # q.addr PROVE Listed(x)
        <4>1. queues'[x] = queues[x]
          BY <2>1, <3>2 DEF Insert
        <4>2. QED
          BY <3>1, <3>2, <4>1 DEF OwnersKnown
      <3>3. Listed(q.addr)
        <4>1. queues'[q.addr] = [owner |-> a, type |-> q.type]
          BY <2>1 DEF Insert
        <4>2. [addr |-> q.addr, type |-> q.type] = q
          BY DEF QueueInfo
        <4>3. QED
          BY <2>1, <3>1, <4>1, <4>2
      <3>4. DOMAIN queues' = DOMAIN queues \cup {q.addr}
        BY <2>1 DEF Insert
      <3>5. QED
        BY <3>2, <3>3, <3>4 DEF OwnersKnown
    <2>2. QED
      BY <1>1, <1>3, <2>1 DEF RegisterQueue
  <1>4. ASSUME NEW a \in ActorIds, Unregister(a)
        PROVE  OwnersKnown'
    <2>1. CASE /\ a \in DOMAIN actors
               /\ actors' = Without(Refreshed, {a})
               /\ queues' = Without(queues, AddrsOf(actors[a].queues))
      <3>1. ASSUME NEW x \in DOMAIN queues \ AddrsOf(actors[a].queues) PROVE Listed(x)
        <4>1. queues'[x] = queues[x]
          BY <2>1, <3>1 DEF Without
        <4>2. /\ queues[x].owner \in DOMAIN actors
              /\ [addr |-> x, type |-> queues[x].type] \in actors[queues[x].owner].queues
          BY <3>1 DEF OwnersKnown
        <4>3. queues[x].owner # a
          BY <3>1, <4>2 DEF AddrsOf
        <4>4. /\ queues[x].owner \in DOMAIN actors'
              /\ actors'[queues[x].owner].queues = actors[queues[x].owner].queues
          BY <2>1, <4>2, <4>3, RefreshedMap DEF Without
        <4>5. QED
          BY <4>1, <4>2, <4>4
      <3>2. DOMAIN queues' = DOMAIN queues \ AddrsOf(actors[a].queues)
        BY <2>1 DEF Without
      <3>3. QED
        BY <3>1, <3>2 DEF OwnersKnown
    <2>2. QED
      BY <1>1, <1>4, <2>1 DEF Unregister
  <1>5. ASSUME NEW a \in ActorIds, Heartbeat(a)
        PROVE  OwnersKnown'
    <2>1. CASE /\ a \in DOMAIN actors
               /\ actors' = [Refreshed EXCEPT ![a].lastHeartbeat = now, ![a].status = "Healthy"]
               /\ UNCHANGED queues
      <3>1. DOMAIN actors' = DOMAIN actors
        BY <2>1, RefreshedMap
      <3>2. ASSUME NEW b \in DOMAIN actors PROVE actors'[b].queues = actors[b].queues
        BY <2>1, RefreshedMap DEF ActorRecord
      <3>3. QED
        BY <2>1, <3>1, <3>2 DEF OwnersKnown
    <2>2. QED
      BY <1>1, <1>5, <2>1 DEF Heartbeat, Answer
  <1>6. CASE Looks
    BY <1>1, <1>6, LooksRefresh
  <1>7. CASE Restart
    BY <1>7 DEF Restart, EmptyMap, OwnersKnown
  <1>8. CASE InvalidRequest \/ Tick \/ UNCHANGED vars
    BY <1>8 DEF InvalidRequest, Tick, vars, OwnersKnown
  <1>9. QED
    BY <1>2, <1>3, <1>4, <1>5, <1>6, <1>7, <1>8 DEF Next, Looks

\* No orphans: every queue the master can hand out belongs to a registered actor
\* that lists it, after any sequence of requests by any number of actors.
THEOREM QueuesHaveOwners == Spec => []OwnersKnown
  <1>1. Init => OwnersKnown
    BY DEF Init, EmptyMap, OwnersKnown
  <1>2. TypeOK /\ OwnersKnown /\ [Next]_vars => OwnersKnown'
    BY OwnersStep
  <1>3. QED
    BY <1>1, <1>2, MasterTypeCorrect, PTL DEF Spec

--------------------------------------------------------------------------------
(* Health.                                                                 *)

\* A record that is refreshed, or was heard of this moment, has a current status.
LEMMA RefreshedHealth ==
  ASSUME TypeOK, HealthIsCurrent
  PROVE  \A a \in DOMAIN actors :
           /\ Refreshed[a].lastHeartbeat <= now
           /\ Refreshed[a].status = "Healthy" <=>
                now - Refreshed[a].lastHeartbeat <= HeartbeatTimeout
  <1> SUFFICES ASSUME NEW a \in DOMAIN actors
               PROVE  /\ Refreshed[a].lastHeartbeat <= now
                      /\ Refreshed[a].status = "Healthy" <=>
                           now - Refreshed[a].lastHeartbeat <= HeartbeatTimeout
    OBVIOUS
  <1> DEFINE heard == actors[a].lastHeartbeat
  <1>1. heard \in Nat /\ now \in Nat /\ asOf \in Nat /\ HeartbeatTimeout \in Nat
    BY MasterAssumption DEF TypeOK, ActorRecord
  <1>2. /\ asOf <= now
        /\ heard <= asOf
        /\ actors[a].status = "Healthy" <=> asOf - heard <= HeartbeatTimeout
    BY DEF HealthIsCurrent
  <1>3. Late(a) <=> now - heard > HeartbeatTimeout
    BY DEF Late
  <1>4. /\ Refreshed[a].lastHeartbeat = heard
        /\ Refreshed[a].status = IF Late(a) THEN "Unhealthy" ELSE actors[a].status
    BY RefreshedMap
  <1> HIDE DEF heard
  <1>5. CASE Late(a)
    BY <1>1, <1>2, <1>3, <1>4, <1>5
  <1>6. CASE ~Late(a)
    BY <1>1, <1>2, <1>3, <1>4, <1>6
  <1>7. QED
    BY <1>5, <1>6

\* Every step keeps the status current as of the last request.
LEMMA HealthStep ==
  ASSUME TypeOK, HealthIsCurrent, [Next]_vars
  PROVE  HealthIsCurrent'
  <1> DEFINE Current(r) == /\ r.lastHeartbeat <= now
                           /\ r.status = "Healthy" <=>
                                now - r.lastHeartbeat <= HeartbeatTimeout
  <1>1. ASSUME now' = now, asOf' = now, \A b \in DOMAIN actors' : Current(actors'[b])
        PROVE  HealthIsCurrent'
    BY <1>1 DEF HealthIsCurrent, TypeOK
  <1>2. \A b \in DOMAIN actors : Current(Refreshed[b])
    BY RefreshedHealth
  <1>3. ASSUME NEW r, r.lastHeartbeat = now, r.status = "Healthy" PROVE Current(r)
    BY <1>3, MasterAssumption DEF TypeOK
  <1> HIDE DEF Current
  <1>4. DOMAIN Refreshed = DOMAIN actors
    BY RefreshedMap
  <1>5. ASSUME actors' = Refreshed, now' = now, asOf' = now
        PROVE  HealthIsCurrent'
    BY <1>1, <1>2, <1>4, <1>5
  <1>6. ASSUME NEW a \in ActorIds, NEW t \in ActorTypes, NEW infos \in Announcements,
               Register(a, t, infos)
        PROVE  HealthIsCurrent'
    <2>1. CASE actors' = Insert(Refreshed, a, NewRecord(t, infos))
      <3>1. Current(NewRecord(t, infos))
        BY <1>3 DEF NewRecord
      <3>2. \A b \in DOMAIN actors' : Current(actors'[b])
        BY <2>1, <3>1, <1>2, <1>4 DEF Insert
      <3>3. QED
        BY <1>1, <1>6, <3>2 DEF Register
    <2>2. QED
      BY <1>5, <1>6, <2>1 DEF Register
  <1>7. ASSUME NEW a \in ActorIds, NEW q \in QueueInfo, NEW targets,
               RegisterQueue(a, q, targets)
        PROVE  HealthIsCurrent'
    <2>1. CASE /\ a \in DOMAIN actors
               /\ actors' = [Refreshed EXCEPT ![a].queues = @ \cup {q}]
      <3>1. /\ actors'[a].lastHeartbeat = Refreshed[a].lastHeartbeat
            /\ actors'[a].status = Refreshed[a].status
        <4>1. actors'[a] = [Refreshed[a] EXCEPT !.queues = Refreshed[a].queues \cup {q}]
          BY <2>1, <1>4
        <4>2. Refreshed[a] \in ActorRecord
          BY <2>1, RefreshedMap
        <4>3. QED
          BY <4>1, <4>2 DEF ActorRecord
      <3>2. Current(actors'[a])
        BY <3>1, <2>1, <1>2 DEF Current
      <3>3. \A b \in DOMAIN actors' : Current(actors'[b])
        BY <2>1, <3>2, <1>2, <1>4
      <3>4. QED
        BY <1>1, <1>7, <3>3 DEF RegisterQueue
    <2>2. QED
      BY <1>5, <1>7, <2>1 DEF RegisterQueue
  <1>8. ASSUME NEW a \in ActorIds, Unregister(a)
        PROVE  HealthIsCurrent'
    <2>1. CASE actors' = Without(Refreshed, {a})
      <3>1. \A b \in DOMAIN actors' : Current(actors'[b])
        BY <2>1, <1>2, <1>4 DEF Without
      <3>2. QED
        BY <1>1, <1>8, <3>1 DEF Unregister
    <2>2. QED
      BY <1>5, <1>8, <2>1 DEF Unregister
  <1>9. ASSUME NEW a \in ActorIds, Heartbeat(a)
        PROVE  HealthIsCurrent'
    <2>1. CASE /\ a \in DOMAIN actors
               /\ actors' = [Refreshed EXCEPT ![a].lastHeartbeat = now, ![a].status = "Healthy"]
      <3>1. actors'[a].lastHeartbeat = now /\ actors'[a].status = "Healthy"
        <4>1. Refreshed[a] \in ActorRecord
          BY <2>1, RefreshedMap
        <4>2. QED
          BY <2>1, <1>4, <4>1 DEF ActorRecord
      <3>2. Current(actors'[a])
        BY <3>1, <1>3
      <3>3. \A b \in DOMAIN actors' : Current(actors'[b])
        BY <2>1, <3>2, <1>2, <1>4
      <3>4. QED
        BY <1>1, <1>9, <3>3 DEF Heartbeat, Answer
    <2>2. QED
      BY <1>5, <1>9, <2>1 DEF Heartbeat, Answer
  <1>10. CASE Looks
    BY <1>5, <1>10, LooksRefresh
  <1>11. CASE Tick
    <2>1. asOf \in Nat /\ now \in Nat
      BY DEF TypeOK
    <2>2. UNCHANGED <<actors, asOf>> /\ now' = now + 1
      BY <1>11 DEF Tick
    <2>3. QED
      BY <2>1, <2>2 DEF HealthIsCurrent
  <1>12. CASE Restart
    BY <1>12, <1>1 DEF Restart, EmptyMap
  <1>13. CASE InvalidRequest \/ UNCHANGED vars
    BY <1>13 DEF InvalidRequest, vars, HealthIsCurrent
  <1>14. QED
    BY <1>6, <1>7, <1>8, <1>9, <1>10, <1>11, <1>12, <1>13 DEF Next, Looks

\* As of the last request an actor is reported healthy exactly if it was heard of
\* within the timeout, whatever the timeout is and however requests are spaced.
THEOREM HealthAlwaysCurrent == Spec => []HealthIsCurrent
  <1>1. Init => HealthIsCurrent
    BY DEF Init, EmptyMap, HealthIsCurrent
  <1>2. TypeOK /\ HealthIsCurrent /\ [Next]_vars => HealthIsCurrent'
    BY HealthStep
  <1>3. QED
    BY <1>1, <1>2, MasterTypeCorrect, PTL DEF Spec

--------------------------------------------------------------------------------
(* The answer to a strategy that looks for a gateway.                      *)

\* Every step keeps the last answer coherent: those that change the registry answer
\* something else.
LEMMA AnswerStep ==
  ASSUME TypeOK, OwnersKnown, TradeAnswerCoherent, [Next]_vars
  PROVE  TradeAnswerCoherent'
  <1>1. ASSUME reply'.kind # "trade" PROVE TradeAnswerCoherent'
    BY <1>1 DEF TradeAnswerCoherent
  <1>2. ASSUME NEW t \in ActorTypes, ConnectTrade(t)
        PROVE  TradeAnswerCoherent'
    <2>1. CASE reply' = Error
      BY <1>1, <2>1 DEF Error
    <2>2. ASSUME NEW g \in {a \in DOMAIN actors : actors[a].type = t},
                 NEW x \in QueuesOf(g, "order-event"), NEW y \in QueuesOf(g, "trade-event"),
                 reply' = [kind |-> "trade", wanted |-> t, gateway |-> g,
                           orders |-> x, trades |-> y]
          PROVE  TradeAnswerCoherent'
      <3>1. actors' = Refreshed /\ queues' = queues
        BY <1>2 DEF ConnectTrade, Answer
      <3>2. /\ g \in DOMAIN actors'
            /\ actors'[g].type = t
            /\ actors'[g].queues = actors[g].queues
        BY <3>1, RefreshedMap
      <3>3. /\ queues[x].owner = g
            /\ queues[y].owner = g
            /\ [addr |-> x, type |-> "order-event"] \in actors[g].queues
            /\ [addr |-> y, type |-> "trade-event"] \in actors[g].queues
        BY DEF QueuesOf, OwnersKnown
      <3>4. QED
        BY <2>2, <3>1, <3>2, <3>3 DEF TradeAnswerCoherent
    <2>3. QED
      BY <1>2, <2>1, <2>2 DEF ConnectTrade, Answer
  <1>3. ASSUME NEW a \in ActorIds, NEW t \in ActorTypes, NEW infos \in Announcements,
               Register(a, t, infos)
        PROVE  TradeAnswerCoherent'
    BY <1>1, <1>3 DEF Register, Ok, Error
  <1>4. ASSUME NEW a \in ActorIds, NEW q \in QueueInfo, NEW targets,
               RegisterQueue(a, q, targets)
        PROVE  TradeAnswerCoherent'
    BY <1>1, <1>4 DEF RegisterQueue, Ok, Error
  <1>5. ASSUME NEW a \in ActorIds, Unregister(a) \/ Heartbeat(a) \/ SendCommand(a)
        PROVE  TradeAnswerCoherent'
    BY <1>1, <1>5 DEF Unregister, Heartbeat, SendCommand, Answer, Ok, Error
  <1>6. ASSUME NEW addr \in Addrs, LookupQueue(addr)
        PROVE  TradeAnswerCoherent'
    BY <1>1, <1>6 DEF LookupQueue, Answer, Error
  <1>7. ASSUME NEW type \in QueueTypes,
               FindQueues(type) \/ \E t \in ActorTypes : FindQueuesByActor(t, type)
        PROVE  TradeAnswerCoherent'
    BY <1>1, <1>7 DEF FindQueues, FindQueuesByActor, Answer
  <1>8. CASE ListActors \/ InvalidRequest \/ Restart
    BY <1>1, <1>8 DEF ListActors, InvalidRequest, Restart, Answer, Ok, Error
  <1>9. CASE Tick \/ UNCHANGED vars
    BY <1>9 DEF Tick, vars, TradeAnswerCoherent
  <1>10. QED
    BY <1>2, <1>3, <1>4, <1>5, <1>6, <1>7, <1>8, <1>9 DEF Next

\* The gateway and the two queues a strategy is given belong together, for any
\* number of gateways, types and queues.
THEOREM TradeAnswersCoherent == Spec => []TradeAnswerCoherent
  <1>1. Init => TradeAnswerCoherent
    BY DEF Init, Ok, TradeAnswerCoherent
  <1>2. TypeOK /\ OwnersKnown /\ TradeAnswerCoherent /\ [Next]_vars => TradeAnswerCoherent'
    BY AnswerStep
  <1>3. QED
    BY <1>1, <1>2, MasterTypeCorrect, QueuesHaveOwners, PTL DEF Spec

================================================================================
