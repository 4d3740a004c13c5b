------------------------------ MODULE GatewayLoop ------------------------------
(***************************************************************************)
(* The event loop of a trade gateway (TradeGatewayRunner in                *)
(* crates/nnxt-gateway/src/runner.rs) between the master and one strategy: *)
(* its registration, its heartbeats, the listener thread that takes        *)
(* commands off the control socket (reactor.rs), and the action queues it  *)
(* is told to read.  The master is an instance of MasterRegistry; the      *)
(* strategy is StrategyRunner::connect_trade and its caller, from          *)
(* registering to running.                                                 *)
(*                                                                         *)
(* A queue is told apart by its incarnation: every start of the strategy   *)
(* creates a new ring under the same address.                              *)
(*                                                                         *)
(* Time is the clock of MasterRegistry, in units of the retry delay of     *)
(* add_action_queue.  It passes only while the gateway waits: a step of    *)
(* the loop and a request to the master take none.                         *)
(*                                                                         *)
(* Left out: the answers to commands, which go to a socket that            *)
(* forward_command has closed by then; queues configured statically; a     *)
(* ring whose reader slots are all taken; a listener thread that ends on   *)
(* an error of its socket.                                                 *)
(***************************************************************************)
EXTENDS Integers, Sequences

CONSTANTS
  HeartbeatTimeout,  \* the master's heartbeat_timeout_ns
  Interval,          \* heartbeat_interval
  Retries,           \* ACTION_QUEUE_MAX_RETRIES
  MaxStarts,         \* bound: starts of the strategy
  MaxTime            \* bound on the clock

\* Waiting for one queue must not outlast the timeout.  1 s, 10 attempts 0.2 s apart
\* and the 5 s of examples/master.rs leave room.
ASSUME LoopAssumption ==
  /\ Interval \in Nat \ {0}
  /\ Retries \in Nat \ {0}
  /\ MaxStarts \in Nat
  /\ MaxTime \in Nat
  /\ HeartbeatTimeout \in Nat
  /\ Interval + Retries - 1 <= HeartbeatTimeout

Gateway  == "trade-gateway"      \* the actor ids ...
Strategy == "strategy"
Control  == "control"            \* ... and the addresses they announce
Action   == "action"

GatewayQueues ==
  {[addr |-> "order", type |-> "order-event"], [addr |-> "trade", type |-> "trade-event"],
   [addr |-> Control, type |-> "control"]}

VARIABLES
  \* the master
  actors, queues, now, asOf, reply, sent,
  \* the gateway
  phase,     \* down, listening, polling, adding or sleeping
  attempts,  \* attempts made at the queue of the current command
  beat,      \* last_heartbeat_ns
  socket,    \* commands on their way to the control socket
  rx,        \* commands the listener thread has put into its channel
  sources,   \* the rings read, in the order they were added
  told,      \* history: the incarnations this process was sent a command for
  \* the strategy
  stage,     \* off, registered, found, cleaned, creating, created or running
  starts,    \* incarnations so far
  ring,      \* the incarnation at the action queue's address, or None
  ready      \* whether its creator has finished it

masterVars   == <<actors, queues, now, asOf, reply, sent>>
gatewayVars  == <<phase, attempts, beat, socket, rx, sources, told>>
strategyVars == <<stage, starts, ring, ready>>
vars == <<masterVars, gatewayVars, strategyVars>>

None == 0

Master == INSTANCE MasterRegistry WITH
  ActorIds <- {Gateway, Strategy}, ActorTypes <- {Gateway, Strategy},
  Addrs <- {"order", "trade", Control, Action},
  QueueTypes <- {"order-event", "trade-event", "control", "action"}

Init ==
  /\ Master!Init
  /\ phase = "down"
  /\ attempts = 0
  /\ beat = 0
  /\ socket = <<>>
  /\ rx = <<>>
  /\ sources = <<>>
  /\ told = {}
  /\ stage = "off"
  /\ starts = 0
  /\ ring = None
  /\ ready = FALSE

Up == phase \in {"polling", "adding", "sleeping"}

--------------------------------------------------------------------------------
(* The gateway's loop.                                                     *)

\* setup_control_socket: from here on the control address can be dialled.
Listen ==
  /\ phase = "down"
  /\ phase' = "listening"
  /\ UNCHANGED <<masterVars, attempts, beat, socket, rx, sources, told, strategyVars>>

\* register_with_master.  An error ends the process.
RegisterGateway ==
  /\ phase = "listening"
  /\ Master!Register(Gateway, Gateway, GatewayQueues)
  /\ IF reply' = Master!Ok
     THEN phase' = "polling" /\ beat' = now
     ELSE phase' = "down" /\ UNCHANGED beat
  /\ UNCHANGED <<attempts, socket, rx, sources, told, strategyVars>>

\* maybe_send_heartbeat, at the end of every event and of every empty poll.  An
\* error is ignored.
MaybeHeartbeat ==
  \/ /\ now - beat < Interval
     /\ UNCHANGED <<masterVars, beat>>
  \/ /\ now - beat >= Interval
     /\ Master!Heartbeat(Gateway)
     /\ beat' = now

\* The listener thread, which the first poll has started.
Listener ==
  /\ Up
  /\ socket # <<>>
  /\ socket' = Tail(socket)
  /\ rx' = Append(rx, Head(socket))
  /\ UNCHANGED <<masterVars, phase, attempts, beat, sources, told, strategyVars>>

\* poll finds an action in a ring it reads.
TakeAction ==
  /\ phase = "polling"
  /\ sources # <<>>
  /\ MaybeHeartbeat
  /\ UNCHANGED <<phase, attempts, socket, rx, sources, told, strategyVars>>

\* poll finds nothing; run sleeps for a moment.
PollEmpty ==
  /\ phase = "polling"
  /\ rx = <<>>
  /\ MaybeHeartbeat
  /\ UNCHANGED <<phase, attempts, socket, rx, sources, told, strategyVars>>

\* Fault: a command for an address that is read already is taken as done.
HandleCommandOnce ==
  /\ phase = "polling"
  /\ rx # <<>>
  /\ rx' = Tail(rx)
  /\ IF sources # <<>>
     THEN UNCHANGED <<phase, attempts>> /\ MaybeHeartbeat
     ELSE phase' = "adding" /\ attempts' = 1 /\ UNCHANGED <<masterVars, beat>>
  /\ UNCHANGED <<socket, sources, told, strategyVars>>

\* poll finds a command: add_action_queue begins.
HandleCommand ==
  /\ phase = "polling"
  /\ rx # <<>>
  /\ rx' = Tail(rx)
  /\ phase' = "adding"
  /\ attempts' = 1
  /\ UNCHANGED <<masterVars, beat, socket, sources, told, strategyVars>>

\* Nothing is at the address after the last attempt, or a ring that is not finished:
\* every error but NotFound ends the attempts.
Hopeless(last) ==
  \/ ring = None /\ attempts = last
  \/ ring # None /\ ~ready

\* Fault: a command does not end in maybe_send_heartbeat.
TryQueueSilently ==
  /\ phase = "adding"
  /\ \/ /\ ring # None
        /\ sources' = Append(sources, ring)
        /\ phase' = "polling"
        /\ UNCHANGED attempts
     \/ /\ ring = None
        /\ attempts < Retries
        /\ attempts' = attempts + 1
        /\ phase' = "sleeping"
        /\ UNCHANGED sources
     \/ /\ Hopeless(Retries)
        /\ phase' = "polling"
        /\ UNCHANGED <<attempts, sources>>
  /\ UNCHANGED <<masterVars, beat, socket, rx, told, strategyVars>>

\* Fault: the retries are counted from zero.
TryQueueOnceMore ==
  /\ phase = "adding"
  /\ \/ /\ ring # None
        /\ sources' = Append(sources, ring)
        /\ phase' = "polling"
        /\ MaybeHeartbeat
        /\ UNCHANGED attempts
     \/ /\ ring = None
        /\ attempts <= Retries
        /\ attempts' = attempts + 1
        /\ phase' = "sleeping"
        /\ UNCHANGED <<masterVars, beat, sources>>
     \/ /\ Hopeless(Retries + 1)
        /\ phase' = "polling"
        /\ MaybeHeartbeat
        /\ UNCHANGED <<attempts, sources>>
  /\ UNCHANGED <<socket, rx, told, strategyVars>>

\* One attempt of add_action_queue: connect, sleep and try again, or give up.  A ring
\* whose creator has not returned may have its header already, and is read then
\* (ShmLifecycle).  Sleeping keeps the thread, and with it the heartbeats.
TryQueue ==
  /\ phase = "adding"
  /\ \/ /\ ring # None
        /\ sources' = Append(sources, ring)
        /\ phase' = "polling"
        /\ MaybeHeartbeat
        /\ UNCHANGED attempts
     \/ /\ ring = None
        /\ attempts < Retries
        /\ attempts' = attempts + 1
        /\ phase' = "sleeping"
        /\ UNCHANGED <<masterVars, beat, sources>>
     \/ /\ Hopeless(Retries)
        /\ phase' = "polling"
        /\ MaybeHeartbeat
        /\ UNCHANGED <<attempts, sources>>
  /\ UNCHANGED <<socket, rx, told, strategyVars>>

\* The process ends; what it read, and what was on its way to it, is gone.
GatewayDown ==
  /\ phase # "down"
  /\ phase' = "down"
  /\ socket' = <<>>
  /\ rx' = <<>>
  /\ sources' = <<>>
  /\ told' = {}
  /\ attempts' = 0
  /\ UNCHANGED <<masterVars, beat, strategyVars>>

--------------------------------------------------------------------------------
(* The strategy.                                                           *)

\* register_with_master: a strategy announces no queues yet.
RegisterStrategy ==
  /\ stage = "off"
  /\ starts < MaxStarts
  /\ starts' = starts + 1
  /\ Master!Register(Strategy, Strategy, {})
  /\ stage' = "registered"
  /\ UNCHANGED <<gatewayVars, ring, ready>>

\* connect_trade asks for a gateway; without one, run returns the error.
ConnectTrade ==
  /\ stage = "registered"
  /\ Master!ConnectTrade(Gateway)
  /\ stage' = IF reply'.kind = "trade" THEN "found" ELSE "off"
  /\ UNCHANGED <<gatewayVars, starts, ring, ready>>

\* write_to removes what an earlier start has left at the address ...
CleanUp ==
  /\ stage = "found"
  /\ ring' = None
  /\ ready' = FALSE
  /\ stage' = "cleaned"
  /\ UNCHANGED <<masterVars, gatewayVars, starts>>

\* ... and creates a new ring: from here on the address names it ...
CreateQueue ==
  /\ stage = "cleaned"
  /\ ring' = starts
  /\ stage' = "creating"
  /\ UNCHANGED <<masterVars, gatewayVars, starts, ready>>

\* ... and now it has its size, its header and its slots.
FinishQueue ==
  /\ stage = "creating"
  /\ ready' = TRUE
  /\ stage' = "created"
  /\ UNCHANGED <<masterVars, gatewayVars, starts, ring>>

\* register_queue.  The master forwards a command, which needs somebody listening;
\* it closes its socket at once, so the command may still be lost.  An error ends
\* the process, and the ring with it.
RegisterQueue ==
  /\ stage = "created"
  /\ Master!RegisterQueue(Strategy, [addr |-> Action, type |-> "action"], {Gateway})
  /\ \/ /\ sent' # {}
        /\ phase # "down"
        /\ socket' = Append(socket, Action)
        /\ told' = told \cup {ring}
     \/ UNCHANGED <<socket, told>>
  /\ IF reply' = Master!Ok
     THEN stage' = "running" /\ UNCHANGED <<ring, ready>>
     ELSE stage' = "off" /\ ring' = None /\ ready' = FALSE
  /\ UNCHANGED <<phase, attempts, beat, rx, sources, starts>>

\* The runner returns after a shutdown: dropping the Writer removes the name.  The
\* master is not told.
StrategyStop ==
  /\ stage = "running"
  /\ stage' = "off"
  /\ ring' = None
  /\ ready' = FALSE
  /\ UNCHANGED <<masterVars, gatewayVars, starts>>

\* The process dies; the name stays, also that of a ring it has not finished.
StrategyCrash ==
  /\ stage # "off"
  /\ stage' = "off"
  /\ UNCHANGED <<masterVars, gatewayVars, starts, ring, ready>>

--------------------------------------------------------------------------------
(* Time, and the rest of the master.                                       *)

\* A heartbeat that is due, or a command being handled, is not put off.
Tick ==
  /\ phase = "down" \/ (phase = "polling" /\ now - beat < Interval)
  /\ Master!Tick
  /\ UNCHANGED <<gatewayVars, strategyVars>>

\* thread::sleep returns after one unit.
Wake ==
  /\ phase = "sleeping"
  /\ Master!Tick
  /\ phase' = "adding"
  /\ UNCHANGED <<attempts, beat, socket, rx, sources, told, strategyVars>>

\* Somebody looks at the actors, which refreshes their health.
ListActors == Master!ListActors /\ UNCHANGED <<gatewayVars, strategyVars>>

\* The master restarts.
MasterRestart == Master!Restart /\ UNCHANGED <<gatewayVars, strategyVars>>

Next ==
  \/ Listen \/ RegisterGateway
  \/ Listener
  \/ TakeAction \/ PollEmpty \/ HandleCommand \/ TryQueue
  \/ GatewayDown
  \/ RegisterStrategy \/ ConnectTrade
  \/ CleanUp \/ CreateQueue \/ FinishQueue \/ RegisterQueue
  \/ StrategyStop \/ StrategyCrash
  \/ Tick \/ Wake
  \/ ListActors
  \/ MasterRestart

\* A gateway that starts registers, its loop and its listener never stop taking
\* steps, a sleep ends, and no source always has an action ready.
Fairness ==
  /\ WF_vars(RegisterGateway)
  /\ WF_vars(Listener)
  /\ WF_vars(HandleCommand)
  /\ WF_vars(TryQueue)
  /\ WF_vars(Wake)

Spec == Init /\ [][Next]_vars /\ Fairness

--------------------------------------------------------------------------------
(* Properties.                                                             *)

TypeOK ==
  /\ Master!TypeOK
  /\ phase \in {"down", "listening", "polling", "adding", "sleeping"}
  /\ attempts \in 0..Retries
  /\ beat \in 0..now
  /\ socket \in Seq({Action})
  /\ rx \in Seq({Action})
  /\ sources \in Seq(1..starts)
  /\ told \subseteq 1..starts
  /\ stage \in {"off", "registered", "found", "cleaned", "creating", "created", "running"}
  /\ starts \in 0..MaxStarts
  /\ ring \in 0..starts
  /\ ready \in BOOLEAN

\* A gateway that is up is not reported unhealthy, although its loop sends no
\* heartbeat while it waits for a queue, and commands may follow on each other.
RunningIsHealthy ==
  Up /\ Gateway \in DOMAIN actors => actors[Gateway].status = "Healthy"

\* A command that reached the gateway is not lost: the ring it was sent for is read
\* in the end, unless its strategy or the gateway goes away (or, in this model, the
\* clock stops in the middle of a wait), also when an older ring of the same address
\* is being read, or an older command is still waiting for its ring.
ToldQueueIsRead ==
  \A i \in 1..MaxStarts :
    (stage = "running" /\ ring = i /\ i \in told)
      ~> \/ \E k \in DOMAIN sources : sources[k] = i
         \/ stage # "running"
         \/ phase = "down"
         \/ now = MaxTime

================================================================================
