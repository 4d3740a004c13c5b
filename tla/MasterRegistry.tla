---------------------------- MODULE MasterRegistry ----------------------------
(***************************************************************************)
(* The master: ActorRegistry of crates/nnxt-master/src/registry.rs behind  *)
(* the request handler of server.rs.  The server is single-threaded, so a  *)
(* request is one step: refresh every actor's health, then run the handler *)
(* and reply.  Reading a HashMap "in order" is an arbitrary choice.        *)
(*                                                                         *)
(* An actor's queue list is a set here: only control_queue depends on its  *)
(* order, when an actor has several control queues.                        *)
(***************************************************************************)
EXTENDS Integers, FiniteSets

CONSTANTS
  ActorIds,          \* actor_id
  ActorTypes,        \* actor_type
  Addrs,             \* queue addresses
  QueueTypes,        \* queue_type
  HeartbeatTimeout,  \* heartbeat_timeout_ns
  MaxTime            \* bound on the clock

ASSUME MasterAssumption ==
  /\ HeartbeatTimeout \in Nat
  /\ MaxTime \in Nat
  /\ {"control", "order-event", "trade-event"} \subseteq QueueTypes

QueueInfo == [addr : Addrs, type : QueueTypes]

VARIABLES
  actors,   \* HashMap actor_id -> record
  queues,   \* HashMap addr -> owner and type
  now,      \* the clock
  asOf,     \* when the last valid request was handled
  reply,    \* the response to the last request
  sent      \* the commands the last request forwarded: (address, content)

vars == <<actors, queues, now, asOf, reply, sent>>

Ok    == [kind |-> "ok"]
Error == [kind |-> "error"]

EmptyMap == [x \in {} |-> x]

Init ==
  /\ actors = EmptyMap
  /\ queues = EmptyMap
  /\ now = 0
  /\ asOf = 0
  /\ reply = Ok
  /\ sent = {}

--------------------------------------------------------------------------------
(* Hash maps.                                                              *)

Without(f, S) == [x \in DOMAIN f \ S |-> f[x]]

Insert(f, x, v) == [y \in DOMAIN f \cup {x} |-> IF y = x THEN v ELSE f[y]]

AddrsOf(infos) == {q.addr : q \in infos}

--------------------------------------------------------------------------------
(* What every valid request starts with.                                   *)

\* Fault: a heartbeat exactly HeartbeatTimeout old is already late.
LateOneEarly(a) == now - actors[a].lastHeartbeat >= HeartbeatTimeout

Late(a) == now - actors[a].lastHeartbeat > HeartbeatTimeout

\* update_health: a late actor becomes unhealthy; nobody becomes healthy here.
Refreshed ==
  [a \in DOMAIN actors |->
     IF Late(a) THEN [actors[a] EXCEPT !.status = "Unhealthy"] ELSE actors[a]]

\* A handler that leaves the queue map alone.
Answer(r) ==
  /\ asOf' = now
  /\ reply' = r
  /\ UNCHANGED <<queues, now>>

--------------------------------------------------------------------------------
(* Requests that change the registry.                                      *)

\* Fault: a new actor starts as if it were late already.
NewRecordBackdated(type, infos) ==
  [type |-> type, queues |-> infos, lastHeartbeat |-> now - HeartbeatTimeout - 1,
   status |-> "Healthy"]

NewRecord(type, infos) ==
  [type |-> type, queues |-> infos, lastHeartbeat |-> now, status |-> "Healthy"]

\* Fault: register keeps what the actor had announced before.
ReleasedNothing(a) == queues

\* The queue map once register has dropped what the actor had announced before.
Released(a) ==
  IF a \in DOMAIN actors THEN Without(queues, AddrsOf(actors[a].queues)) ELSE queues

Taken(infos, map) == \E q \in infos : q.addr \in DOMAIN map

\* register: drops the actor's previous queues, and only then looks for conflicts.
Register(a, type, infos) ==
  /\ asOf' = now
  /\ sent' = {}
  /\ UNCHANGED now
  /\ \/ /\ Taken(infos, Released(a))
        /\ actors' = Refreshed
        /\ queues' = Released(a)
        /\ reply' = Error
     \/ /\ ~Taken(infos, Released(a))
        /\ actors' = Insert(Refreshed, a, NewRecord(type, infos))
        /\ queues' =
             [x \in DOMAIN Released(a) \cup AddrsOf(infos) |->
                IF x \in DOMAIN Released(a) THEN Released(a)[x]
                ELSE [owner |-> a, type |-> (CHOOSE q \in infos : q.addr = x).type]]
        /\ reply' = Ok

\* control_queue: an address the record lists as a control queue.
ControlAddrs(a) == {q.addr : q \in {i \in actors[a].queues : i.type = "control"}}

\* forward_command: dial the target's control address and send, without awaiting
\* an answer.  It fails when the target or its control queue is unknown, or when
\* the connection does.
Forward(target, content, result) ==
  \/ /\ target \in DOMAIN actors
     /\ \E addr \in ControlAddrs(target) : sent' = {<<addr, content>>}
     /\ result = Ok
  \/ /\ sent' = {}
     /\ result = Error

\* RegisterQueue: announces one more queue, tells the target actor of it (the
\* outcome is ignored) and answers Ok.
RegisterQueue(a, q, targets) ==
  /\ asOf' = now
  /\ UNCHANGED now
  /\ \/ /\ a \notin DOMAIN actors \/ q.addr \in DOMAIN queues
        /\ actors' = Refreshed
        /\ sent' = {}
        /\ reply' = Error
        /\ UNCHANGED queues
     \/ /\ a \in DOMAIN actors
        /\ q.addr \notin DOMAIN queues
        /\ actors' = [Refreshed EXCEPT ![a].queues = @ \cup {q}]
        /\ queues' = Insert(queues, q.addr, [owner |-> a, type |-> q.type])
        /\ reply' = Ok
        /\ IF targets = {} THEN sent' = {}
           ELSE \E target \in targets, result \in {Ok, Error} : Forward(target, q.addr, result)

\* unregister: forgets the actor and the addresses in its list, whoever they are
\* mapped to.
Unregister(a) ==
  /\ asOf' = now
  /\ sent' = {}
  /\ UNCHANGED now
  /\ \/ /\ a \in DOMAIN actors
        /\ actors' = Without(Refreshed, {a})
        /\ queues' = Without(queues, AddrsOf(actors[a].queues))
        /\ reply' = Ok
     \/ /\ a \notin DOMAIN actors
        /\ actors' = Refreshed
        /\ reply' = Error
        /\ UNCHANGED queues

\* record_heartbeat.
Heartbeat(a) ==
  /\ sent' = {}
  /\ \/ /\ a \in DOMAIN actors
        /\ actors' =
             [Refreshed EXCEPT ![a].lastHeartbeat = now, ![a].status = "Healthy"]
        /\ Answer(Ok)
     \/ /\ a \notin DOMAIN actors
        /\ actors' = Refreshed
        /\ Answer(Error)

--------------------------------------------------------------------------------
(* Requests that only look.                                                *)

\* lookup_queue.
LookupQueue(addr) ==
  /\ actors' = Refreshed
  /\ sent' = {}
  /\ Answer(IF addr \in DOMAIN queues
            THEN [kind |-> "queue", addr |-> addr, owner |-> queues[addr].owner]
            ELSE Error)

\* find_queues_by_type.
FindQueues(type) ==
  /\ actors' = Refreshed
  /\ sent' = {}
  /\ Answer([kind |-> "queues",
             addrs |-> {x \in DOMAIN queues : queues[x].type = type}])

\* find_queues_by_actor_type: an owner that is not registered matches nothing.
FindQueuesByActor(actorType, type) ==
  /\ actors' = Refreshed
  /\ sent' = {}
  /\ Answer([kind |-> "queues",
             addrs |-> {x \in DOMAIN queues :
                          /\ queues[x].type = type
                          /\ queues[x].owner \in DOMAIN actors
                          /\ actors[queues[x].owner].type = actorType}])

\* Fault: the owner is not compared.
QueuesOfAnyone(owner, type) == {x \in DOMAIN queues : queues[x].type = type}

\* find_queue_by_owner_type: any queue of that owner and type.
QueuesOf(owner, type) ==
  {x \in DOMAIN queues : queues[x].owner = owner /\ queues[x].type = type}

\* ConnectTrade: picks an actor of the type, healthy or not, then its two event
\* queues; it does not try another actor when one of them is missing.
ConnectTrade(actorType) ==
  LET gateways == {a \in DOMAIN actors : actors[a].type = actorType}
  IN  /\ actors' = Refreshed
      /\ sent' = {}
      /\ \/ gateways = {} /\ Answer(Error)
         \/ \E g \in gateways :
              \/ /\ QueuesOf(g, "order-event") = {} \/ QueuesOf(g, "trade-event") = {}
                 /\ Answer(Error)
              \/ \E x \in QueuesOf(g, "order-event"), y \in QueuesOf(g, "trade-event") :
                   Answer([kind |-> "trade", wanted |-> actorType, gateway |-> g,
                           orders |-> x, trades |-> y])

\* ListActors answers with everything, which is what the invariants are about.
ListActors ==
  /\ actors' = Refreshed
  /\ sent' = {}
  /\ Answer([kind |-> "actors"])

\* SendCommand.
SendCommand(target) ==
  /\ actors' = Refreshed
  /\ \E result \in {Ok, Error} : Forward(target, "command", result) /\ Answer(result)

\* A request that does not parse is answered before the clock is looked at.
InvalidRequest ==
  /\ reply' = Error
  /\ sent' = {}
  /\ UNCHANGED <<actors, queues, now, asOf>>

--------------------------------------------------------------------------------
(* The world.                                                              *)

Tick ==
  /\ now < MaxTime
  /\ now' = now + 1
  /\ UNCHANGED <<actors, queues, asOf, reply, sent>>

\* The master stops and another one starts: nothing of the registry is kept.
Restart ==
  /\ actors' = EmptyMap
  /\ queues' = EmptyMap
  /\ asOf' = now
  /\ reply' = Ok
  /\ sent' = {}
  /\ UNCHANGED now

\* Queue lists an actor announces: no address twice.
Announcements ==
  {infos \in SUBSET QueueInfo : \A p, q \in infos : p.addr = q.addr => p = q}

Next ==
  \/ \E a \in ActorIds, t \in ActorTypes, infos \in Announcements : Register(a, t, infos)
  \/ \E a \in ActorIds, q \in QueueInfo :
       RegisterQueue(a, q, {}) \/ \E target \in ActorIds : RegisterQueue(a, q, {target})
  \/ \E a \in ActorIds : Unregister(a) \/ Heartbeat(a) \/ SendCommand(a)
  \/ \E addr \in Addrs : LookupQueue(addr)
  \/ \E type \in QueueTypes : FindQueues(type)
  \/ \E t \in ActorTypes, type \in QueueTypes : FindQueuesByActor(t, type)
  \/ \E t \in ActorTypes : ConnectTrade(t)
  \/ ListActors
  \/ InvalidRequest
  \/ Tick
  \/ Restart

Spec == Init /\ [][Next]_vars

--------------------------------------------------------------------------------
(* Properties.                                                             *)

ActorRecord ==
  [type : ActorTypes, queues : SUBSET QueueInfo, lastHeartbeat : Nat,
   status : {"Healthy", "Unhealthy"}]

QueueOwner == [owner : ActorIds, type : QueueTypes]

TypeOK ==
  /\ DOMAIN actors \subseteq ActorIds
  /\ actors \in [DOMAIN actors -> ActorRecord]
  /\ DOMAIN queues \subseteq Addrs
  /\ queues \in [DOMAIN queues -> QueueOwner]
  /\ now \in Nat
  /\ asOf \in Nat
  /\ sent \subseteq (Addrs \X (Addrs \cup {"command"}))

\* Discovery never hands out an orphan: every queue in the map belongs to an actor
\* that is registered and lists it with that type - through re-registrations,
\* conflicts that abort half way, and departures.
OwnersKnown ==
  \A x \in DOMAIN queues :
    /\ queues[x].owner \in DOMAIN actors
    /\ [addr |-> x, type |-> queues[x].type] \in actors[queues[x].owner].queues

\* The status a reply is based on is neither stale nor premature: as of the last
\* request an actor is healthy exactly if it was heard of within the timeout.
HealthIsCurrent ==
  /\ asOf <= now
  /\ \A a \in DOMAIN actors :
       /\ actors[a].lastHeartbeat <= asOf
       /\ actors[a].status = "Healthy" <=> asOf - actors[a].lastHeartbeat <= HeartbeatTimeout

\* The three parts of a ConnectTrade answer belong together: one registered
\* gateway of the type asked for owns both queues.
TradeAnswerCoherent ==
  reply.kind = "trade" =>
    /\ reply.gateway \in DOMAIN actors
    /\ actors[reply.gateway].type = reply.wanted
    /\ [addr |-> reply.orders, type |-> "order-event"] \in actors[reply.gateway].queues
    /\ [addr |-> reply.trades, type |-> "trade-event"] \in actors[reply.gateway].queues
    /\ {queues[reply.orders].owner, queues[reply.trades].owner} = {reply.gateway}

================================================================================
