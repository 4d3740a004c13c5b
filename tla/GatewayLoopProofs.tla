--------------------------- MODULE GatewayLoopProofs ---------------------------
(***************************************************************************)
(* Proofs about the gateway's loop: with the intervals of LoopAssumption a *)
(* gateway that is up is never reported unhealthy, whatever the interval,  *)
(* the retries, the timeout and the number of commands; and what the loop  *)
(* and the strategy ask of the master is something the master's own        *)
(* specification allows, so that what is proved of that holds here.        *)
(***************************************************************************)
EXTENDS GatewayLoop, TLAPS

\* The master again, with the lemmas that are proved about it.
MasterProofs == INSTANCE MasterRegistryProofs WITH
  ActorIds <- {Gateway, Strategy}, ActorTypes <- {Gateway, Strategy},
  Addrs <- {"order", "trade", Control, Action},
  QueueTypes <- {"order-event", "trade-event", "control", "action"}

--------------------------------------------------------------------------------
(* The invariant.                                                          *)

\* How long ago the last heartbeat can have been: an interval while the loop polls,
\* and a unit more for every retry made since.
BeatIsRecent ==
  /\ now \in Nat
  /\ beat \in 0..now
  /\ phase = "polling" => now - beat <= Interval
  /\ phase = "adding" => attempts \in 1..Retries /\ now - beat <= Interval + attempts - 1
  /\ phase = "sleeping" => attempts \in 2..Retries /\ now - beat <= Interval + attempts - 2

\* The master's record of a gateway that is up agrees with the gateway.
RecordAgrees ==
  Gateway \in DOMAIN actors =>
    /\ actors[Gateway] \in Master!ActorRecord
    /\ Up => actors[Gateway].lastHeartbeat = beat /\ actors[Gateway].status = "Healthy"

HealthInv == BeatIsRecent /\ RecordAgrees

--------------------------------------------------------------------------------
(* Requests and the record.                                                *)

\* A gateway that is up is not late.
LEMMA NotLate ==
  ASSUME HealthInv, Up, Gateway \in DOMAIN actors
  PROVE  ~Master!Late(Gateway)
  <1>1. now - beat <= Interval + Retries - 1
    BY LoopAssumption DEF HealthInv, BeatIsRecent, Up
  <1>2. actors[Gateway].lastHeartbeat = beat
    BY DEF HealthInv, RecordAgrees
  <1>3. QED
    BY <1>1, <1>2, LoopAssumption DEF Master!Late, HealthInv, BeatIsRecent

\* The refresh before a request leaves the record of a gateway that is up alone.
LEMMA RefreshHarmless ==
  ASSUME HealthInv
  PROVE  /\ DOMAIN Master!Refreshed = DOMAIN actors
         /\ Gateway \in DOMAIN actors =>
              /\ Master!Refreshed[Gateway] \in Master!ActorRecord
              /\ Up => Master!Refreshed[Gateway] = actors[Gateway]
  <1>1. DOMAIN Master!Refreshed = DOMAIN actors
    BY DEF Master!Refreshed
  <1>2. ASSUME Gateway \in DOMAIN actors
        PROVE  /\ Master!Refreshed[Gateway] \in Master!ActorRecord
               /\ Up => Master!Refreshed[Gateway] = actors[Gateway]
    <2>1. actors[Gateway] \in Master!ActorRecord
      BY <1>2 DEF HealthInv, RecordAgrees
    <2>2. CASE Master!Late(Gateway)
      <3>1. Master!Refreshed[Gateway] = [actors[Gateway] EXCEPT !.status = "Unhealthy"]
        BY <1>2, <2>2 DEF Master!Refreshed
      <3>2. ~Up
        BY <1>2, <2>2, NotLate
      <3>3. QED
        BY <2>1, <3>1, <3>2 DEF Master!ActorRecord
    <2>3. CASE ~Master!Late(Gateway)
      BY <1>2, <2>1, <2>3 DEF Master!Refreshed
    <2>4. QED
      BY <2>2, <2>3
  <1>3. QED
    BY <1>1, <1>2

\* A step that leaves the gateway alone, and its record but for the refresh, keeps
\* the invariant.
LEMMA OthersHarmless ==
  ASSUME HealthInv, UNCHANGED <<phase, attempts, beat, now>>,
         Gateway \in DOMAIN actors' =>
           /\ Gateway \in DOMAIN actors
           /\ actors'[Gateway] = actors[Gateway] \/ actors'[Gateway] = Master!Refreshed[Gateway]
  PROVE  HealthInv'
  <1>1. BeatIsRecent'
    BY DEF HealthInv, BeatIsRecent
  <1>2. RecordAgrees'
    <2>1. SUFFICES ASSUME Gateway \in DOMAIN actors' PROVE RecordAgrees'
      BY DEF RecordAgrees
    <2>2. actors'[Gateway] \in Master!ActorRecord /\ (Up => actors'[Gateway] = actors[Gateway])
      BY <2>1, RefreshHarmless DEF HealthInv, RecordAgrees
    <2>3. Up' = Up
      BY DEF Up
    <2>4. QED
      BY <2>1, <2>2, <2>3 DEF HealthInv, RecordAgrees
  <1>3. QED
    BY <1>1, <1>2 DEF HealthInv

\* A heartbeat brings record and gateway up to date, if the master knows it at all.
LEMMA HeartbeatBeats ==
  ASSUME HealthInv, Master!Heartbeat(Gateway)
  PROVE  /\ now' = now
         /\ Gateway \in DOMAIN actors' =>
              /\ actors'[Gateway] \in Master!ActorRecord
              /\ actors'[Gateway].lastHeartbeat = now
              /\ actors'[Gateway].status = "Healthy"
  <1>1. CASE /\ Gateway \in DOMAIN actors
             /\ actors' = [Master!Refreshed EXCEPT ![Gateway].lastHeartbeat = now,
                                                   ![Gateway].status = "Healthy"]
             /\ Master!Answer(Master!Ok)
    <2>1. Master!Refreshed[Gateway] \in Master!ActorRecord
      BY <1>1, RefreshHarmless
    <2>2. now \in Nat
      BY DEF HealthInv, BeatIsRecent
    <2>3. QED
      BY <1>1, <2>1, <2>2, RefreshHarmless DEF Master!ActorRecord, Master!Answer
  <1>2. CASE /\ Gateway \notin DOMAIN actors
             /\ actors' = Master!Refreshed
             /\ Master!Answer(Master!Error)
    BY <1>2, RefreshHarmless DEF Master!Answer
  <1>3. QED
    BY <1>1, <1>2 DEF Master!Heartbeat

\* At the end of an event the loop polls again with a heartbeat that is recent.
LEMMA BeatKept ==
  ASSUME HealthInv, Up, phase' = "polling", MaybeHeartbeat
  PROVE  HealthInv'
  <1>1. CASE now - beat < Interval /\ UNCHANGED <<masterVars, beat>>
    <2>1. BeatIsRecent'
      BY <1>1, LoopAssumption DEF HealthInv, BeatIsRecent, masterVars
    <2>2. RecordAgrees'
      BY <1>1 DEF HealthInv, RecordAgrees, masterVars, Up
    <2>3. QED
      BY <2>1, <2>2 DEF HealthInv
  <1>2. CASE Master!Heartbeat(Gateway) /\ beat' = now
    <2>1. BeatIsRecent'
      BY <1>2, HeartbeatBeats, LoopAssumption DEF HealthInv, BeatIsRecent
    <2>2. RecordAgrees'
      BY <1>2, HeartbeatBeats DEF RecordAgrees
    <2>3. QED
      BY <2>1, <2>2 DEF HealthInv
  <1>3. QED
    BY <1>1, <1>2 DEF MaybeHeartbeat

--------------------------------------------------------------------------------
(* The steps.                                                              *)

\* Every step keeps the invariant.
LEMMA HealthInvStep ==
  ASSUME HealthInv, [Next]_vars
  PROVE  HealthInv'
  <1>1. CASE Listen
    <2>1. phase' = "listening" /\ UNCHANGED <<beat, now>>
      BY <1>1 DEF Listen, masterVars
    <2>2. BeatIsRecent'
      BY <2>1 DEF HealthInv, BeatIsRecent
    <2>3. RecordAgrees'
      BY <1>1, <2>1 DEF Listen, masterVars, HealthInv, RecordAgrees, Up
    <2>4. QED
      BY <2>2, <2>3 DEF HealthInv
  <1>2. CASE RegisterGateway
    <2>1. phase = "listening" /\ now' = now
      BY <1>2 DEF RegisterGateway, Master!Register
    <2>2. CASE reply' = Master!Ok /\ phase' = "polling" /\ beat' = now
      <3>1. actors' = Master!Insert(Master!Refreshed, Gateway,
                                    Master!NewRecord(Gateway, GatewayQueues))
        BY <1>2, <2>2 DEF RegisterGateway, Master!Register, Master!Ok, Master!Error
      <3>2. actors'[Gateway] = Master!NewRecord(Gateway, GatewayQueues)
        BY <3>1 DEF Master!Insert
      <3>3. BeatIsRecent'
        BY <2>1, <2>2, LoopAssumption DEF HealthInv, BeatIsRecent
      <3>4. GatewayQueues \in SUBSET Master!QueueInfo
        BY DEF GatewayQueues, Master!QueueInfo, Control, Action
      <3>5. RecordAgrees'
        BY <2>1, <2>2, <3>2, <3>4
          DEF RecordAgrees, Master!NewRecord, Master!ActorRecord, HealthInv, BeatIsRecent
      <3>6. QED
        BY <3>3, <3>5 DEF HealthInv
    <2>3. CASE reply' # Master!Ok /\ phase' = "down" /\ beat' = beat
      <3>1. actors' = Master!Refreshed
        BY <1>2, <2>3 DEF RegisterGateway, Master!Register
      <3>2. BeatIsRecent'
        BY <2>1, <2>3 DEF HealthInv, BeatIsRecent
      <3>3. RecordAgrees'
        BY <2>3, <3>1, RefreshHarmless DEF RecordAgrees, Up
      <3>4. QED
        BY <3>2, <3>3 DEF HealthInv
    <2>4. QED
      BY <1>2, <2>2, <2>3 DEF RegisterGateway
  <1>3. CASE Listener
    BY <1>3, OthersHarmless DEF Listener, masterVars
  <1>4. CASE TakeAction \/ PollEmpty
    <2>1. Up /\ phase' = "polling" /\ MaybeHeartbeat
      BY <1>4 DEF TakeAction, PollEmpty, Up
    <2>2. QED
      BY <2>1, BeatKept
  <1>5. CASE HandleCommand
    <2>1. BeatIsRecent'
      BY <1>5, LoopAssumption DEF HandleCommand, masterVars, HealthInv, BeatIsRecent
    <2>2. RecordAgrees'
      BY <1>5 DEF HandleCommand, masterVars, HealthInv, RecordAgrees, Up
    <2>3. QED
      BY <2>1, <2>2 DEF HealthInv
  <1>6. CASE TryQueue
    <2>1. CASE phase' = "polling" /\ MaybeHeartbeat
      BY <1>6, <2>1, BeatKept DEF TryQueue, Up
    <2>2. CASE /\ attempts < Retries
               /\ attempts' = attempts + 1
               /\ phase' = "sleeping"
               /\ UNCHANGED <<masterVars, beat, sources>>
      <3>1. BeatIsRecent'
        BY <1>6, <2>2, LoopAssumption DEF TryQueue, masterVars, HealthInv, BeatIsRecent
      <3>2. RecordAgrees'
        BY <1>6, <2>2 DEF TryQueue, masterVars, HealthInv, RecordAgrees, Up
      <3>3. QED
        BY <3>1, <3>2 DEF HealthInv
    <2>3. QED
      BY <1>6, <2>1, <2>2 DEF TryQueue
  <1>7. CASE GatewayDown
    <2>1. BeatIsRecent'
      BY <1>7 DEF GatewayDown, masterVars, HealthInv, BeatIsRecent
    <2>2. RecordAgrees'
      BY <1>7 DEF GatewayDown, masterVars, HealthInv, RecordAgrees, Up
    <2>3. QED
      BY <2>1, <2>2 DEF HealthInv
  <1>8. CASE RegisterStrategy
    <2>1. /\ UNCHANGED <<phase, attempts, beat, now>>
          /\ \/ actors' = Master!Refreshed
             \/ actors' = Master!Insert(Master!Refreshed, Strategy,
                                        Master!NewRecord(Strategy, {}))
      BY <1>8 DEF RegisterStrategy, gatewayVars, Master!Register
    <2>2. Gateway \in DOMAIN actors' =>
            Gateway \in DOMAIN actors /\ actors'[Gateway] = Master!Refreshed[Gateway]
      BY <2>1, RefreshHarmless DEF Master!Insert, Gateway, Strategy
    <2>3. QED
      BY <2>1, <2>2, OthersHarmless
  <1>9. CASE ConnectTrade \/ ListActors
    <2>1. UNCHANGED <<phase, attempts, beat, now>> /\ actors' = Master!Refreshed
      BY <1>9 DEF ConnectTrade, ListActors, gatewayVars, Master!ConnectTrade,
        Master!ListActors, Master!Answer
    <2>2. QED
      BY <2>1, OthersHarmless, RefreshHarmless
  <1>10. CASE RegisterQueue
    <2>1. /\ UNCHANGED <<phase, attempts, beat, now>>
          /\ \/ actors' = Master!Refreshed
             \/ actors' = [Master!Refreshed EXCEPT
                  ![Strategy].queues = @ \cup {[addr |-> Action, type |-> "action"]}]
      BY <1>10 DEF RegisterQueue, Master!RegisterQueue
    <2>2. Gateway \in DOMAIN actors' =>
            Gateway \in DOMAIN actors /\ actors'[Gateway] = Master!Refreshed[Gateway]
      BY <2>1, RefreshHarmless DEF Gateway, Strategy
    <2>3. QED
      BY <2>1, <2>2, OthersHarmless
  <1>11. CASE CleanUp \/ CreateQueue \/ FinishQueue \/ StrategyStop \/ StrategyCrash
    BY <1>11, OthersHarmless
      DEF CleanUp, CreateQueue, FinishQueue, StrategyStop, StrategyCrash, masterVars, gatewayVars
  <1>12. CASE Tick
    <2>1. /\ phase = "down" \/ (phase = "polling" /\ now - beat < Interval)
          /\ now' = now + 1
          /\ UNCHANGED <<actors, phase, attempts, beat>>
      BY <1>12 DEF Tick, Master!Tick, gatewayVars
    <2>2. BeatIsRecent'
      BY <2>1, LoopAssumption DEF HealthInv, BeatIsRecent
    <2>3. RecordAgrees'
      BY <2>1 DEF HealthInv, RecordAgrees, Up
    <2>4. QED
      BY <2>2, <2>3 DEF HealthInv
  <1>13. CASE Wake
    <2>1. BeatIsRecent'
      BY <1>13, LoopAssumption DEF Wake, Master!Tick, HealthInv, BeatIsRecent
    <2>2. RecordAgrees'
      BY <1>13 DEF Wake, Master!Tick, HealthInv, RecordAgrees, Up
    <2>3. QED
      BY <2>1, <2>2 DEF HealthInv
  <1>14. CASE MasterRestart
    BY <1>14, OthersHarmless
      DEF MasterRestart, Master!Restart, Master!EmptyMap, gatewayVars
  <1>15. CASE UNCHANGED vars
    BY <1>15, OthersHarmless DEF vars, masterVars, gatewayVars
  <1>16. QED
    BY <1>1, <1>2, <1>3, <1>4, <1>5, <1>6, <1>7, <1>8, <1>9, <1>10, <1>11, <1>12, <1>13,
       <1>14, <1>15 DEF Next

\* A gateway that is up is never reported unhealthy, although it sends no heartbeat
\* while it waits for a queue: for every interval, number of retries and timeout
\* that satisfy LoopAssumption, and any number of commands and restarts.
THEOREM GatewayStaysHealthy == Spec => []RunningIsHealthy
  <1>1. Init => HealthInv
    BY DEF Init, Master!Init, Master!EmptyMap, HealthInv, BeatIsRecent, RecordAgrees
  <1>2. HealthInv /\ [Next]_vars => HealthInv'
    BY HealthInvStep
  <1>3. HealthInv => RunningIsHealthy
    BY DEF HealthInv, RecordAgrees, RunningIsHealthy
  <1>4. QED
    BY <1>1, <1>2, <1>3, PTL DEF Spec

--------------------------------------------------------------------------------
(* The master, as it is used here.                                         *)

\* The gateway's announcement, and the strategy's, are ones the master can be sent.
LEMMA AnnouncementsAllowed ==
  /\ GatewayQueues \in Master!Announcements
  /\ {} \in Master!Announcements
  /\ [addr |-> Action, type |-> "action"] \in Master!QueueInfo
  <1>1. GatewayQueues \in SUBSET Master!QueueInfo
    BY DEF GatewayQueues, Master!QueueInfo, Control, Action
  <1>2. \A p, q \in GatewayQueues : p.addr = q.addr => p = q
    BY DEF GatewayQueues, Control
  <1>3. [addr |-> Action, type |-> "action"] \in Master!QueueInfo
    BY DEF Master!QueueInfo
  <1>4. QED
    BY <1>1, <1>2, <1>3 DEF Master!Announcements

\* Every step is a request to the master, a tick of its clock or its restart, or
\* leaves it alone.
LEMMA MasterStep ==
  ASSUME [Next]_vars
  PROVE  [Master!Next]_masterVars
  <1>1. ASSUME MaybeHeartbeat PROVE [Master!Next]_masterVars
    BY <1>1 DEF MaybeHeartbeat, Master!Next
  <1>2. CASE RegisterGateway
    BY <1>2, AnnouncementsAllowed DEF RegisterGateway, Master!Next
  <1>3. CASE TakeAction \/ PollEmpty
    BY <1>1, <1>3 DEF TakeAction, PollEmpty
  <1>4. CASE TryQueue
    BY <1>1, <1>4 DEF TryQueue
  <1>5. CASE RegisterStrategy
    BY <1>5, AnnouncementsAllowed DEF RegisterStrategy, Master!Next
  <1>6. CASE ConnectTrade
    BY <1>6 DEF ConnectTrade, Master!Next
  <1>7. CASE RegisterQueue
    BY <1>7, AnnouncementsAllowed DEF RegisterQueue, Master!Next
  <1>8. CASE Tick \/ Wake \/ ListActors \/ MasterRestart
    BY <1>8 DEF Tick, Wake, ListActors, MasterRestart, Master!Next
  <1>9. CASE \/ Listen \/ Listener \/ HandleCommand \/ GatewayDown
             \/ CleanUp \/ CreateQueue \/ FinishQueue
             \/ StrategyStop \/ StrategyCrash \/ UNCHANGED vars
    BY <1>9 DEF Listen, Listener, HandleCommand, GatewayDown, CleanUp, CreateQueue, FinishQueue,
      StrategyStop, StrategyCrash, vars
  <1>10. QED
    BY <1>2, <1>3, <1>4, <1>5, <1>6, <1>7, <1>8, <1>9 DEF Next

\* A gateway and a strategy use the master as its own specification says: whatever
\* the loop, its retries, crashes and restarts do, the master sees one of the
\* behaviours that MasterRegistry describes.
THEOREM LoopUsesMaster == Spec => Master!Spec
  <1>1. Init => Master!Init
    BY DEF Init
  <1>2. [Next]_vars => [Master!Next]_(Master!vars)
    BY MasterStep DEF masterVars, Master!vars
  <1>3. QED
    BY <1>1, <1>2, PTL DEF Spec, Master!Spec

--------------------------------------------------------------------------------
(* Types.                                                                  *)

\* Both instances of the master are the same.
LEMMA SameMaster ==
  /\ Master!TypeOK <=> MasterProofs!TypeOK
  /\ [Master!Next]_masterVars => [MasterProofs!Next]_(MasterProofs!vars)
  <1>1. Master!TypeOK <=> MasterProofs!TypeOK
    BY DEF Master!TypeOK, Master!ActorRecord, Master!QueueOwner, Master!QueueInfo,
      MasterProofs!TypeOK, MasterProofs!ActorRecord, MasterProofs!QueueOwner,
      MasterProofs!QueueInfo
  <1>2. [Master!Next]_masterVars => [MasterProofs!Next]_(MasterProofs!vars)
    BY DEF masterVars, Master!QueueInfo, Master!Ok, Master!Error, Master!EmptyMap,
      Master!Without, Master!Insert, Master!AddrsOf, Master!Late, Master!Refreshed,
      Master!Answer, Master!NewRecord, Master!Released, Master!Taken, Master!Register,
      Master!ControlAddrs, Master!Forward, Master!RegisterQueue, Master!Unregister,
      Master!Heartbeat, Master!LookupQueue, Master!FindQueues, Master!FindQueuesByActor,
      Master!QueuesOf, Master!ConnectTrade, Master!ListActors, Master!SendCommand,
      Master!InvalidRequest, Master!Tick, Master!Restart, Master!Announcements,
      Master!Next, MasterProofs!vars, MasterProofs!QueueInfo, MasterProofs!Ok,
      MasterProofs!Error, MasterProofs!EmptyMap, MasterProofs!Without,
      MasterProofs!Insert, MasterProofs!AddrsOf, MasterProofs!Late,
      MasterProofs!Refreshed, MasterProofs!Answer, MasterProofs!NewRecord,
      MasterProofs!Released, MasterProofs!Taken, MasterProofs!Register,
      MasterProofs!ControlAddrs, MasterProofs!Forward, MasterProofs!RegisterQueue,
      MasterProofs!Unregister, MasterProofs!Heartbeat, MasterProofs!LookupQueue,
      MasterProofs!FindQueues, MasterProofs!FindQueuesByActor, MasterProofs!QueuesOf,
      MasterProofs!ConnectTrade, MasterProofs!ListActors, MasterProofs!SendCommand,
      MasterProofs!InvalidRequest, MasterProofs!Tick, MasterProofs!Restart,
      MasterProofs!Announcements, MasterProofs!Next
  <1>3. QED
    BY <1>1, <1>2

\* The master's records keep their type, by what is proved of the master.
LEMMA MasterTypeStep ==
  ASSUME Master!TypeOK, [Next]_vars
  PROVE  Master!TypeOK'
  <1>1. MasterProofs!MasterAssumption
    BY LoopAssumption DEF MasterProofs!MasterAssumption
  <1>2. MasterProofs!TypeOK /\ [MasterProofs!Next]_(MasterProofs!vars)
    BY MasterStep, SameMaster
  <1>3. MasterProofs!TypeOK'
    BY <1>1, <1>2, MasterProofs!TypeStep
  <1>4. QED
    BY <1>3 DEF Master!TypeOK, Master!ActorRecord, Master!QueueOwner, Master!QueueInfo,
      MasterProofs!TypeOK, MasterProofs!ActorRecord, MasterProofs!QueueOwner,
      MasterProofs!QueueInfo

\* A strategy that is on has been started, and the ring it has created is the one of
\* this start, whatever older rings have left at the address.
RingIsCurrent ==
  /\ stage # "off" => starts > 0
  /\ stage \in {"creating", "created", "running"} => ring = starts

LoopInv == TypeOK /\ RingIsCurrent

\* Every step keeps the types.
LEMMA LoopInvStep ==
  ASSUME LoopInv, [Next]_vars
  PROVE  LoopInv'
  <1>1. Master!TypeOK'
    BY MasterTypeStep DEF LoopInv, TypeOK
  <1>2. now \in Nat /\ now' \in Nat
    BY <1>1 DEF LoopInv, TypeOK, Master!TypeOK
  <1> USE LoopAssumption, <1>1, <1>2
  <1>3. CASE Listen
    BY <1>3 DEF Listen, masterVars, strategyVars, LoopInv, TypeOK, RingIsCurrent
  <1>4. CASE RegisterGateway
    <2>1. now' = now
      BY <1>4 DEF RegisterGateway, Master!Register
    <2>2. phase' \in {"polling", "down"} /\ beat' \in {now, beat}
      BY <1>4 DEF RegisterGateway
    <2>3. QED
      BY <1>4, <2>1, <2>2 DEF RegisterGateway, strategyVars, LoopInv, TypeOK, RingIsCurrent
  <1>5. CASE Listener
    <2>1. socket' \in Seq({Action}) /\ rx' \in Seq({Action})
      BY <1>5 DEF Listener, LoopInv, TypeOK
    <2>2. QED
      BY <1>5, <2>1 DEF Listener, masterVars, strategyVars, LoopInv, TypeOK, RingIsCurrent
  <1>6. ASSUME MaybeHeartbeat PROVE now' = now /\ beat' \in 0..now
    BY <1>6 DEF MaybeHeartbeat, Master!Heartbeat, Master!Answer, masterVars, LoopInv, TypeOK
  <1>7. CASE TakeAction \/ PollEmpty
    <2>1. MaybeHeartbeat /\ UNCHANGED <<phase, attempts, socket, rx, sources, told, strategyVars>>
      BY <1>7 DEF TakeAction, PollEmpty
    <2>2. QED
      BY <1>6, <2>1 DEF strategyVars, LoopInv, TypeOK, RingIsCurrent
  <1>8. CASE HandleCommand
    <2>1. rx' \in Seq({Action})
      BY <1>8 DEF HandleCommand, LoopInv, TypeOK
    <2>2. QED
      BY <1>8, <2>1 DEF HandleCommand, masterVars, strategyVars, LoopInv, TypeOK, RingIsCurrent
  <1>9. CASE TryQueue
    <2>1. UNCHANGED <<socket, rx, told, strategyVars>>
      BY <1>9 DEF TryQueue
    <2>2. now' = now /\ beat' \in 0..now
      BY <1>6, <1>9 DEF TryQueue, masterVars, LoopInv, TypeOK
    <2>3. phase' \in {"polling", "sleeping"}
      BY <1>9 DEF TryQueue
    <2>4. attempts' \in 0..Retries
      BY <1>9 DEF TryQueue, LoopInv, TypeOK
    <2>5. sources' \in Seq(1..starts)
      <3>1. ring # None => ring \in 1..starts
        BY DEF None, LoopInv, TypeOK
      <3>2. sources' = sources \/ (ring # None /\ sources' = Append(sources, ring))
        BY <1>9 DEF TryQueue
      <3>3. ring # None => Append(sources, ring) \in Seq(1..starts)
        BY <3>1 DEF LoopInv, TypeOK
      <3>4. QED
        BY <3>2, <3>3 DEF LoopInv, TypeOK
    <2>6. QED
      BY <2>1, <2>2, <2>3, <2>4, <2>5 DEF strategyVars, LoopInv, TypeOK, RingIsCurrent
  <1>10. CASE GatewayDown
    BY <1>10 DEF GatewayDown, masterVars, strategyVars, LoopInv, TypeOK, RingIsCurrent
  <1>11. CASE RegisterStrategy
    <2>1. now' = now /\ starts' = starts + 1 /\ starts' \in 1..MaxStarts
      BY <1>11 DEF RegisterStrategy, Master!Register, LoopInv, TypeOK
    <2>2. sources' \in Seq(1..starts')
      BY <1>11, <2>1 DEF RegisterStrategy, gatewayVars, LoopInv, TypeOK
    <2>3. told' \subseteq 1..starts'
      BY <1>11, <2>1 DEF RegisterStrategy, gatewayVars, LoopInv, TypeOK
    <2>4. QED
      BY <1>11, <2>1, <2>2, <2>3 DEF RegisterStrategy, gatewayVars, LoopInv, TypeOK, RingIsCurrent
  <1>12. CASE ConnectTrade
    <2>1. now' = now /\ stage' \in {"found", "off"} /\ stage = "registered"
      BY <1>12 DEF ConnectTrade, Master!ConnectTrade, Master!Answer
    <2>2. QED
      BY <1>12, <2>1 DEF ConnectTrade, gatewayVars, LoopInv, TypeOK, RingIsCurrent
  <1>13. CASE CleanUp \/ CreateQueue \/ FinishQueue
    <2>1. /\ UNCHANGED <<masterVars, gatewayVars, starts>>
          /\ starts > 0
      BY <1>13 DEF CleanUp, CreateQueue, FinishQueue, LoopInv, RingIsCurrent
    <2>2. \/ stage' = "cleaned" /\ ring' = None
          \/ stage' \in {"creating", "created"} /\ ring' = starts
      BY <1>13 DEF CleanUp, CreateQueue, FinishQueue, LoopInv, RingIsCurrent
    <2>3. ready' \in BOOLEAN
      BY <1>13 DEF CleanUp, CreateQueue, FinishQueue, LoopInv, TypeOK
    <2>4. QED
      BY <2>1, <2>2, <2>3 DEF None, masterVars, gatewayVars, LoopInv, TypeOK, RingIsCurrent
  <1>14. CASE RegisterQueue
    <2>1. now' = now /\ UNCHANGED <<phase, attempts, beat, rx, sources, starts>>
      BY <1>14 DEF RegisterQueue, Master!RegisterQueue
    <2>2. ring \in 1..starts
      BY <1>14 DEF RegisterQueue, LoopInv, TypeOK, RingIsCurrent
    <2>3. socket' \in Seq({Action}) /\ told' \subseteq 1..starts
      <3>1. socket' \in {socket, Append(socket, Action)} /\ told' \in {told, told \cup {ring}}
        BY <1>14 DEF RegisterQueue
      <3>2. Append(socket, Action) \in Seq({Action})
        BY DEF LoopInv, TypeOK
      <3>3. QED
        BY <2>2, <3>1, <3>2 DEF LoopInv, TypeOK
    <2>4. \/ stage' = "running" /\ ring' = ring
          \/ stage' = "off" /\ ring' = None
      BY <1>14 DEF RegisterQueue
    <2>5. ready' \in BOOLEAN
      BY <1>14 DEF RegisterQueue, LoopInv, TypeOK
    <2>6. stage = "created"
      BY <1>14 DEF RegisterQueue
    <2>7. QED
      BY <2>1, <2>2, <2>3, <2>4, <2>5, <2>6 DEF None, LoopInv, TypeOK, RingIsCurrent
  <1>15. CASE StrategyStop \/ StrategyCrash
    <2>1. stage' = "off" /\ ring' \in {None, ring} /\ ready' \in BOOLEAN
      BY <1>15 DEF StrategyStop, StrategyCrash, LoopInv, TypeOK
    <2>2. UNCHANGED <<masterVars, gatewayVars, starts>>
      BY <1>15 DEF StrategyStop, StrategyCrash
    <2>3. QED
      BY <2>1, <2>2 DEF masterVars, gatewayVars, None, LoopInv, TypeOK, RingIsCurrent
  <1>16. CASE Tick \/ Wake
    <2>1. now' = now + 1 /\ phase' \in {phase, "adding"}
      BY <1>16 DEF Tick, Wake, Master!Tick, gatewayVars
    <2>2. UNCHANGED <<attempts, beat, socket, rx, sources, told, strategyVars>>
      BY <1>16 DEF Tick, Wake, gatewayVars
    <2>3. QED
      BY <2>1, <2>2 DEF strategyVars, LoopInv, TypeOK, RingIsCurrent
  <1>17. CASE ListActors \/ MasterRestart
    <2>1. now' = now /\ UNCHANGED <<gatewayVars, strategyVars>>
      BY <1>17 DEF ListActors, MasterRestart, Master!ListActors, Master!Restart, Master!Answer
    <2>2. QED
      BY <2>1 DEF gatewayVars, strategyVars, LoopInv, TypeOK, RingIsCurrent
  <1>18. CASE UNCHANGED vars
    BY <1>18 DEF vars, masterVars, gatewayVars, strategyVars, LoopInv, TypeOK, RingIsCurrent
  <1>19. QED
    BY <1>3, <1>4, <1>5, <1>7, <1>8, <1>9, <1>10, <1>11, <1>12, <1>13, <1>14, <1>15, <1>16,
       <1>17, <1>18 DEF Next

\* The loop's variables stay in their types, so that it reads only rings that a start
\* of the strategy has created, and is told only of such: for any number of starts,
\* retries and commands.
THEOREM LoopTypeCorrect == Spec => []TypeOK
  <1>1. Init => LoopInv
    <2>1. Init => ready \in BOOLEAN
      BY DEF Init
    <2>2. QED
      BY <2>1, LoopAssumption DEF Init, Master!Init, Master!EmptyMap, Master!TypeOK, Master!Ok,
        None, LoopInv, TypeOK, RingIsCurrent
  <1>2. LoopInv /\ [Next]_vars => LoopInv'
    BY LoopInvStep
  <1>3. LoopInv => TypeOK
    BY DEF LoopInv
  <1>4. QED
    BY <1>1, <1>2, <1>3, PTL DEF Spec

================================================================================
